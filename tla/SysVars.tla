------------------------------- MODULE SysVars -------------------------------
(***************************************************************************)
(* The system variables of MOS (mos_sysvars.c): a linked list ordered by   *)
(* name, searched with wildcards, whose values GSTrans expands into one    *)
(* another.  Programs reach it through the commands Set, SetMacro, SetEval,*)
(* Unset and Show and through the API calls setvarval and readvarval.      *)
(*                                                                         *)
(* A name is a sequence of letters, numbered in alphabetical order; a      *)
(* value is a sequence of tokens, each a character or a reference <name>.  *)
(***************************************************************************)
EXTENDS Integers, Sequences, FiniteSets

CONSTANTS
  Names,       \* names programs give variables
  Patterns,    \* patterns they search with
  Texts,       \* what they set them to, before expansion
  Numbers,     \* the numbers they set them to
  Fixed,       \* the list as mos_setupSystemVariables leaves it
  MaxVars,     \* bound: variables in the list
  MaxText,     \* bound: tokens of a stored value
  MaxFrames    \* allocations an expansion may make before the heap is full

VARIABLES
  vars,        \* the list, in order: label, type and val of each variable
  asked        \* the last call: its name or pattern, what it returned and found

sysVars == <<vars, asked>>

Star == 100
Hash == 101
Ch(c)  == [k |-> "ch", v |-> c]
Ref(n) == [k |-> "ref", v |-> n]
NoValue   == << [k |-> "null", v |-> 0] >>   \* the value of a variable whose copy could not be made

-----------------------------------------------------------------------------
(* Searching.                                                              *)

First(s) == IF s = << >> THEN 0 ELSE s[1]

\* 0 for a match; otherwise how the string compares with the pattern at the
\* first difference, or -1 when only a part was matched.
RECURSIVE pmatch(_, _)
pmatch(p, s) ==
  IF p = << >> THEN (IF s = << >> THEN 0 ELSE -1)
  ELSE IF p[1] = Star
       THEN IF pmatch(Tail(p), s) = 0 \/ (s # << >> /\ pmatch(p, Tail(s)) = 0) THEN 0 ELSE -1
  ELSE IF (p[1] = Hash /\ s # << >>) \/ p[1] = First(s) THEN pmatch(Tail(p), Tail(s))
  ELSE First(s) - p[1]

\* A seeded fault: the search gives up at the first label that extends the pattern.
StopsAtDifference(p, label) == pmatch(p, label) >= -1

\* The search goes on from position from; it stops at a match, or at the
\* first label beyond the pattern.  at: the match, or the last variable before
\* the place of the pattern, or 0 when there is none.
StopsAt(p, label) == pmatch(p, label) >= 0

getSystemVariable(list, p, from) ==
  LET later == {i \in from + 1 .. Len(list) : StopsAt(p, list[i].label)}
      stop  == IF later = {} THEN Len(list) ELSE CHOOSE i \in later : \A j \in later : i <= j
      score == IF from >= Len(list) THEN -1 ELSE pmatch(p, list[stop].label)
      at    == IF score > 0 THEN stop - 1 ELSE stop
  IN IF at <= from THEN [at |-> 0, result |-> -1] ELSE [at |-> at, result |-> score]

-----------------------------------------------------------------------------
(* The list.                                                               *)

Stored(type) == type \in {"macro", "string"}

InsertAfter(list, at, var) == SubSeq(list, 1, at) \o <<var>> \o SubSeq(list, at + 1, Len(list))
removeSystemVariable(list, at) == SubSeq(list, 1, at - 1) \o SubSeq(list, at + 1, Len(list))

Done(list, result) == [list |-> list, result |-> result]

\* lost: which of the allocations fail.  A copy of the value that fails leaves
\* the variable without one.
createSystemVariable(list, at, label, type, val, lost) ==
  IF "node" \in lost THEN Done(list, "INT_ERR")
  ELSE Done(InsertAfter(list, at, [label |-> label, type |-> type,
                                   val |-> IF Stored(type) /\ "value" \in lost THEN NoValue ELSE val]), "OK")

\* The type changes before the value is known to fit.
updateSystemVariable(list, at, type, val, lost) ==
  CASE list[at].type = "code" -> Done(list, "OK")
    [] list[at].type # "code" /\ Stored(type) /\ "value" \in lost ->
         Done([list EXCEPT ![at].type = type,
                           ![at].val = IF Stored(list[at].type) THEN @ ELSE NoValue], "OUT_OF_MEMORY")
    [] OTHER -> Done([list EXCEPT ![at].type = type, ![at].val = val], "OK")

\* A seeded fault: the test of setVarVal, by which a longer label is the one looked for.
SameName(result) == result # -1
IsThere(result) == result = 0
createOrUpdateSystemVariable(list, label, type, val, lost) ==
  LET found == getSystemVariable(list, label, 0)
  IN IF IsThere(found.result) THEN updateSystemVariable(list, found.at, type, val, lost)
     ELSE createSystemVariable(list, found.at, label, type, val, lost)

\* Every match from position from on goes, save those that code stands behind.
RECURSIVE Unset(_, _, _)
Unset(list, p, from) ==
  LET found == getSystemVariable(list, p, from)
  IN IF found.result # 0 THEN list
     ELSE IF list[found.at].type = "code" THEN Unset(list, p, found.at)
     ELSE Unset(removeSystemVariable(list, found.at), p, found.at - 1)

RECURSIVE Shown(_, _, _)
Shown(list, p, from) ==
  LET found == getSystemVariable(list, p, from)
  IN IF found.result # 0 THEN {} ELSE {found.at} \cup Shown(list, p, found.at)

-----------------------------------------------------------------------------
(* GSTrans: a stack of sources, the innermost last.                        *)

\* The characters of a number, most significant first.
RECURSIVE Digits(_)
Digits(n) == IF n < 10 THEN <<Ch(n)>> ELSE Append(Digits(n \div 10), Ch(n % 10))
Minus == Ch(-1)
NumberText(n) == IF n < 0 THEN <<Minus>> \o Digits(-n) ELSE Digits(n)

\* What a variable of each type is read from.
SourceOf(var) == IF var.type = "number" THEN NumberText(var.val) ELSE var.val
WriteOnly(var) == var.type = "code" /\ var.val = NoValue

Top(s) == s.stack[Len(s.stack)]
gsPop(s) == [s EXCEPT !.stack = SubSeq(@, 1, Len(@) - 1)]
gsDispose(s, result) == [s EXCEPT !.stack = << >>, !.result = result]
Advance(s) == [s EXCEPT !.stack[Len(s.stack)].src = Tail(@)]
\* Back in the caller of a nested read: its source is set past the reference
\* (again), if it is still there.
Past(s, depth, src) == IF Len(s.stack) >= depth THEN [s EXCEPT !.stack[depth].src = src] ELSE s

RECURSIVE gsRead(_, _)
\* The next character of variable var, whose reference the top source is at.
Enter(list, s, var) ==
  IF s.mem = 0 THEN gsDispose(s, "OUT_OF_MEMORY")
  ELSE IF WriteOnly(var) THEN gsDispose(s, "BAD_STRING")
  ELSE Past(gsRead(list, [Advance(s) EXCEPT !.mem = @ - 1, !.stack =
                            Append(@, [type |-> var.type, src |-> SourceOf(var)])]),
            Len(s.stack), Tail(Top(s).src))

ReadRef(list, s, name) ==
  LET found == getSystemVariable(list, name, 0)
  IN IF found.result = 0 THEN Enter(list, s, list[found.at]) ELSE gsRead(list, Advance(s))

gsRead(list, s) ==
  IF s.stack = << >> THEN s
  ELSE IF Top(s).src = << >> THEN gsRead(list, gsPop(s))
  ELSE LET t == Top(s).src[1]
       IN IF Top(s).type = "macro" /\ t.k = "ref" THEN ReadRef(list, s, t.v)
          ELSE [Advance(s) EXCEPT !.ch = t]

RECURSIVE Collect(_, _, _)
Collect(list, s, out) ==
  LET r == gsRead(list, s)
  IN IF r.result # "OK" \/ r.stack = << >> THEN [out |-> out, result |-> r.result]
     ELSE Collect(list, r, Append(out, r.ch))

gsTrans(list, text) ==
  Collect(list, [stack |-> <<[type |-> "macro", src |-> text]>>, ch |-> Minus, result |-> "OK",
                 mem |-> MaxFrames], << >>)

\* Two passes, one to measure: a failure of either is a failure.
expandMacro(list, text) == gsTrans(list, text)

expandVariable(list, var) ==
  IF var.type = "macro" THEN expandMacro(list, var.val)
  ELSE IF WriteOnly(var) THEN [out |-> << >>, result |-> "NULL"]
  ELSE [out |-> SourceOf(var), result |-> "OK"]

\* A number, a variable's number, or a variable's expansion.
evaluateExpression(list, name) ==
  LET found == getSystemVariable(list, name, 0)
      var   == list[found.at]
  IN IF found.result # 0 THEN [type |-> "string", val |-> << >>, result |-> "INVALID_PARAMETER"]
     ELSE IF var.type = "number" THEN [type |-> "number", val |-> var.val, result |-> "OK"]
     ELSE [type |-> "string", val |-> expandVariable(list, var).out,
           result |-> IF expandVariable(list, var).result = "OK" THEN "OK" ELSE "INT_ERR"]

-----------------------------------------------------------------------------
(* The API calls.  They go on after the variable a previous call returned. *)

After(list, label) ==
  IF \E i \in 1 .. Len(list) : list[i].label = label
  THEN CHOOSE i \in 1 .. Len(list) : list[i].label = label ELSE 0

deleteVarVal(list, p, last) ==
  LET found == getSystemVariable(list, p, After(list, last))
  IN IF found.result # 0 THEN Done(list, "INVALID_NAME")
     ELSE Done(IF list[found.at].type = "code" THEN list ELSE removeSystemVariable(list, found.at), "OK")

\* Only a result of -1 counts as not found.
Creates(found) == found.result = -1
setVarVal(list, name, last, type, val, lost) ==
  LET found == getSystemVariable(list, name, After(list, last))
  IN IF Creates(found) THEN createSystemVariable(list, found.at, name, type, val, lost)
     ELSE updateSystemVariable(list, found.at, type, val, lost)

readVarVal(list, p, last) ==
  LET found == getSystemVariable(list, p, After(list, last))
  IN IF found.result = -1 THEN [label |-> << >>, result |-> "INVALID_NAME"]
     ELSE [label |-> list[found.at].label,
           result |-> IF WriteOnly(list[found.at]) THEN "WRITE_ONLY" ELSE "OK"]

-----------------------------------------------------------------------------
Losses == SUBSET {"node", "value"}
Fits(list) == Len(list) <= MaxVars /\ \A i \in 1 .. Len(list) :
                 Stored(list[i].type) => Len(list[i].val) <= MaxText

Changes(op, name, r) ==
  /\ Fits(r.list)
  /\ vars' = r.list
  /\ asked' = [op |-> op, name |-> name, result |-> r.result, found |-> << >>]

Sets(op, name, type, val) ==
  \E lost \in Losses : Changes(op, name, createOrUpdateSystemVariable(vars, name, type, val, lost))
Refused(op, name, result) == Changes(op, name, Done(vars, result))

SetCommand == \E n \in Names, t \in Texts : \E e \in {expandMacro(vars, t)} :
  IF e.result = "OK" THEN Sets("set", n, "string", e.out) ELSE Refused("set", n, "INT_ERR")
SetMacroCommand == \E n \in Names, t \in Texts : Sets("set", n, "macro", t)
SetEvalNumber == \E n \in Names, x \in Numbers : Sets("set", n, "number", x)
SetEvalVariable == \E n, m \in Names : \E e \in {evaluateExpression(vars, m)} :
  IF e.result = "OK" THEN Sets("set", n, e.type, e.val) ELSE Refused("set", n, e.result)

UnsetCommand == \E p \in Patterns : Changes("unset", p, Done(Unset(vars, p, 0), "OK"))
ShowCommand == \E p \in Patterns :
  /\ UNCHANGED vars
  /\ asked' = [op |-> "show", name |-> p, result |-> "OK", found |-> Shown(vars, p, 0)]

\* A first call, with no variable to go on from, and one that goes on.
SetVarVal == \E n \in Names, x \in Numbers, lost \in Losses :
  Changes("setvarval", n, setVarVal(vars, n, << >>, "number", x, lost))
DeleteVarVal == \E p \in Patterns, last \in Names \cup {<< >>} :
  Changes("unset", p, deleteVarVal(vars, p, last))
ReadVarVal == \E p \in Patterns, last \in Names \cup {<< >>} : \E r \in {readVarVal(vars, p, last)} :
  /\ UNCHANGED vars
  /\ asked' = [op |-> "readvarval", name |-> p, result |-> r.result, found |-> r.label]

SysInit == vars = Fixed /\ asked = [op |-> "boot", name |-> << >>, result |-> "OK", found |-> << >>]

SysNext ==
  \/ SetCommand \/ SetMacroCommand \/ SetEvalNumber \/ SetEvalVariable
  \/ UnsetCommand \/ ShowCommand \/ SetVarVal \/ DeleteVarVal \/ ReadVarVal

SysSpec == SysInit /\ [][SysNext]_sysVars

-----------------------------------------------------------------------------
(* Properties.                                                             *)

\* Every variable can be found by its name, though the comparison that orders
\* the list is no order (each of "a" and "ab" comes before the other).
VariablesAreFound ==
  \A i \in 1 .. Len(vars) : getSystemVariable(vars, vars[i].label, 0) = [at |-> i, result |-> 0]

Matching(list, p) == {i \in 1 .. Len(list) : pmatch(p, list[i].label) = 0}
HasHash(p) == \E i \in 1 .. Len(p) : p[i] = Hash

\* Stopping early in the list misses nothing a pattern without # matches.
ListingsAreWhole ==
  \A p \in Patterns : ~HasHash(p) => Shown(vars, p, 0) = Matching(vars, p)

\* What a text means, by its tokens; deep: a loop of macros.
RECURSIVE Meaning(_, _, _)
Meaning(list, text, depth) ==
  IF text = << >> THEN << >>
  ELSE LET m == IF text[1].k = "ref" THEN Matching(list, text[1].v) ELSE {}
           var == list[CHOOSE i \in m : TRUE]
       IN (IF text[1].k # "ref" THEN <<text[1]>>
           ELSE IF m = {} \/ depth = 0 THEN << >>
           ELSE IF var.type = "macro" THEN Meaning(list, var.val, depth - 1)
           ELSE SourceOf(var)) \o Meaning(list, Tail(text), depth)

NothingIsEmpty ==
  \A i \in 1 .. Len(vars) : vars[i].type = "number" \/ Meaning(vars, vars[i].val, MaxFrames) # << >>

\* An expansion that succeeds, on a list without empty values, is the text
\* with each reference replaced by what it stands for, however deep: nested
\* sources are left and re-entered at the right place.
ExpansionsAreExact ==
  NothingIsEmpty => \A t \in Texts : \E e \in {expandMacro(vars, t)} :
                      e.result = "OK" => e.out = Meaning(vars, t, MaxFrames)

\* The variable list answers for what was put into it: names and patterns
\* find what they should, and expansions mean what they say.
VariablesAnswer == VariablesAreFound /\ ListingsAreWhole /\ ExpansionsAreExact

Valued(list, label) == {<<list[i].type, list[i].val>> : i \in {j \in 1 .. Len(list) : list[j].label = label}}
Unnamed(p) == {n \in Names : pmatch(p, n) # 0}
Untouched(p) == \A n \in Unnamed(p) : Valued(vars, n) = Valued(vars', n)

\* A command changes no variable but those its name or pattern matches.
CommandsTouchTheirOwn == [][asked'.op \in {"set", "unset"} => Untouched(asked'.name)]_sysVars
=============================================================================
