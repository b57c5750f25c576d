-------------------------------- MODULE MCMos --------------------------------
(***************************************************************************)
(* The parts of MOS for TLC: the file commands, the heap, the system       *)
(* variables, the command interpreter, the texts of commands and the line  *)
(* editor.  They share no state but memory, whose end each of them models  *)
(* itself, so a behaviour is one of a single part; component says which.   *)
(***************************************************************************)
EXTENDS MCMosFiles, Heap, Shell, Editor

VARIABLES
  component,                                   \* "files", "heap", "variables", "shell", "text" or "editor"
  vars, asked,                                 \* of SysVars
  heard                                        \* of CommandText

-----------------------------------------------------------------------------
(* System variables: labels are sequences of letters, one the beginning of *)
(* another; macros refer to each other and to themselves.                  *)

Anything == 100
AnyOne == 101
Letter(c) == [k |-> "ch", v |-> c]
Name(n) == [k |-> "ref", v |-> n]
NoText == << [k |-> "null", v |-> 0] >>
MCNames == {<<1>>, <<1, 2>>, <<3>>}
MCPatterns == {<<1>>, <<Anything>>, <<1, Anything>>, <<AnyOne, 2>>}
MCTexts == {<<Name(<<1>>), Letter(8)>>, <<Name(<<1, 2>>), Name(<<9>>)>>, <<Name(<<1>>), Name(<<1>>)>>, <<Name(<<2>>)>>}
MCFixed == <<[label |-> <<2>>, type |-> "code", val |-> <<Letter(5)>>], [label |-> <<9>>, type |-> "code", val |-> NoText]>>
Variables == INSTANCE SysVars WITH Names <- MCNames, Patterns <- MCPatterns, Texts <- MCTexts, Numbers <- {12},
                                   Fixed <- MCFixed, MaxVars <- 4, MaxText <- 2, MaxFrames <- 4

-----------------------------------------------------------------------------
(* Commands: two aliases and an EXEC file that call each other, a program  *)
(* in memory, a moslet, and lines of every kind.                           *)

Command(n) == [do |-> "name", name |-> n, plain |-> FALSE]
BuiltInOne == [do |-> "builtin"]
MCAliases == "a" :> <<Command("b"), BuiltInOne>>
          @@ "b" :> <<Command("p"), [do |-> "try", then |-> Command("a")]>>
          @@ "type" :> <<[do |-> "exec", name |-> "s"]>>
MCScripts == "s" :> <<BuiltInOne, Command("a")>>
          @@ [x \in {"!boot.obey", "autoexec.obey", "autoexec.txt"} |-> <<BuiltInOne>>]
MCPrograms == "p" :> [where |-> "user"] @@ "m" :> [where |-> "moslet"]
MCLines ==
  {Command("a"), Command("p"), Command("m"), [do |-> "run", where |-> "user"],
   [do |-> "do", then |-> [do |-> "obey", name |-> "s"]], [do |-> "try", then |-> Command("a")],
   [do |-> "if", then |-> Command("p"), else |-> [do |-> "nothing"]],
   [do |-> "file", type |-> "type"], [do |-> "file", type |-> "none"]}

\* What the proofs about the interpreter assume.
ASSUME InterpreterAssumption == ShellAssumption

-----------------------------------------------------------------------------
(* Texts: quotes, escapes and spaces in every order; templates that name   *)
(* arguments in every way; numbers in every form.                          *)

Upto(A, n) == UNION {[1 .. k -> A] : k \in 0 .. n}
MCWordTexts ==
  Upto({" ", "a", "\"", "\\"}, 4)
    \cup {<<"\"">> \o x \o <<"\"", " ", "a">> : x \in Upto({" ", "\"", "\\"}, 3)}
MCTemplates == Upto({"%", "s", "*", "1", "a"}, 3) \cup {<<"%", x, "%", y, "a">> : x, y \in {"0", "1", "%"}}
MCArguments ==
  {<< >>, <<"b", " ", " ", "c">>, <<"\"", "b", " ", "\"", " ", "c", " ">>, <<"b", " ", "\"">>}
Spelled(t, v, plain) == [text |-> t, value |-> v, plain |-> plain]
MCSpellings ==
  {Spelled(<<"1", "2">>, 12, TRUE), Spelled(<<"&", "f">>, 15, FALSE),
   Spelled(<<"0", "x", "1", "0">>, 16, FALSE), Spelled(<<"2", "_", "1", "1", "0">>, 6, FALSE),
   Spelled(<<"-", "3">>, -3, FALSE), Spelled(<<"3", "0", "0">>, 300, TRUE)}
MCJunk == {<<"a">>, <<"1", "x">>, <<"9", "9", "_", "1">>, <<"2", "_", "2">>, <<"&", "g">>}
MCIfLines ==
  LET words == {<<" ", "t", " ">>, <<" ", "e", " ">>, <<" ", "a">>}
  IN {<<"1">> \o x \o <<"a", "b">> \o y \o <<"c">> \o z : x, y, z \in words}
Texts == INSTANCE CommandText WITH WordTexts <- MCWordTexts, Templates <- MCTemplates,
                                   Arguments <- MCArguments, Spellings <- MCSpellings, Junk <- MCJunk,
                                   EscapeTexts <- Upto({"a", "^M", "del", "|"}, 3), IfLines <- MCIfLines,
                                   MaxNumbers <- 2

-----------------------------------------------------------------------------
(* Lines of the editor: one key and the space, in a short and a long       *)
(* buffer, on a screen that a line wraps around.                           *)

MCHotkeys == {[text |-> <<"x", "x">>, return |-> TRUE], [text |-> <<"x", " ", "x", "x">>, return |-> FALSE]}
MCLeaves ==
  {[name |-> <<"x", "x">>, added |-> " "], [name |-> <<"x">>, added |-> "/"],
   [name |-> <<"x", " ">>, added |-> " "]}
MCGivens == {<<"x", "x", "x">>}

\* What the proofs about the editor assume.
ASSUME LineEditorAssumption == EditorAssumption

-----------------------------------------------------------------------------
variableVars == <<vars, asked>>

MCInit ==
  /\ component \in {"files", "heap", "variables", "shell", "text", "editor"}
  /\ FilesInit /\ HeapInit /\ Variables!SysInit /\ ShellInit /\ Texts!TextInit
  /\ EditorInit
  /\ component # "files" => store = CHOOSE card \in Cards : TRUE

MCNext ==
  /\ UNCHANGED component
  /\ \/ /\ component = "files" /\ FilesNext
        /\ UNCHANGED <<heapVars, variableVars, shellVars, heard, editorVars>>
     \/ /\ component = "heap" /\ HeapNext
        /\ UNCHANGED <<fileVars, variableVars, shellVars, heard, editorVars>>
     \/ /\ component = "variables" /\ Variables!SysNext
        /\ UNCHANGED <<fileVars, heapVars, shellVars, heard, editorVars>>
     \/ /\ component = "shell" /\ ShellNext
        /\ UNCHANGED <<fileVars, heapVars, variableVars, heard, editorVars>>
     \/ /\ component = "text" /\ Texts!TextNext
        /\ UNCHANGED <<fileVars, heapVars, variableVars, shellVars, editorVars>>
     \/ /\ component = "editor" /\ EditorNext
        /\ UNCHANGED <<fileVars, heapVars, variableVars, shellVars, heard>>

MCSpec == MCInit /\ [][MCNext]_<<component, fileVars, heapVars, variableVars, shellVars, heard, editorVars>>

\* What the next step depends on.
EditorView == <<IF torn THEN Blank ELSE screen, buffer, insert, history, at, limit, torn, entered, calls>>
MCView == <<component, Seen, heap, live, vars, shellVars, heard, EditorView>>
\* Lines of more than four characters are followed in the first call only, and if
\* there is a quote in them, those that fill the buffer only if they fill the byte
\* behind it too; what is entered is one character, or a line longer than the
\* shorter buffer.
ShortLines ==
  /\ Len(buffer) > 4 => calls = 1 /\ Has(buffer, Quote)
  /\ Len(buffer) > 6 => Len(buffer) > limit
  /\ \A i \in DOMAIN entered : entered[i] \in {<<"x">>} \cup MCGivens

-----------------------------------------------------------------------------
(* The properties of the parts; each is stated, with the code it is about, *)
(* in the module of its part.                                              *)

\* Names, patterns and expansions find and mean what they should, and a command
\* changes no other variable (SysVars).
VariablesAnswer ==
  [](component = "variables" => Variables!VariablesAnswer) /\ Variables!CommandsTouchTheirOwn
\* The allocator never gives a byte twice, loses one or changes one, and refuses
\* only what no free block can hold (Heap: umm_malloc_core, umm_free_core,
\* umm_realloc).
HeapIsFair == [](component = "heap" => HeapIsSound) /\ NullMeansNoRoom
\* What a command line says is what its command gets (CommandText).
TextsAreSound == component = "text" => Texts!TextsAreSound
=============================================================================
