-------------------------------- MODULE Shell --------------------------------
(***************************************************************************)
(* The command interpreter (mos_exec in mos.c) with everything that calls  *)
(* back into it: aliases, OBEY and EXEC files, IF and IFTHERE, file types, *)
(* and programs that issue commands through OSCLI.  The calls in progress  *)
(* are a stack of frames; a line is a record whose text is abstract.       *)
(***************************************************************************)
EXTENDS Integers, Sequences, FiniteSets

CONSTANTS
  Aliases,     \* the variables Alias$...: a name's lines
  Scripts,     \* the OBEY and EXEC files there may be: a name's lines
  Programs,    \* the binaries: [where |-> "user" or "moslet", policy |-> ...]
  CommandLines, \* the lines typed, or passed to OSCLI
  DepthLimit,  \* mos_exec refuses below this depth (10)
  MaxPrograms  \* bound: programs one inside the other

VARIABLES
  stack,    \* the frames, the innermost first
  depth,    \* the static depth of mos.c
  current,  \* the line being executed and its in_mos, or Nothing
  ret,      \* the result of the last call that returned
  policy,   \* emosPolicy
  boot      \* the boot files left to try

\* The limit is a number.
ShellAssumption == DepthLimit \in Nat

shellVars == <<stack, depth, current, ret, policy, boot>>

Nothing == [do |-> "nothing"]
Policies == {"SAFE", "COMPATIBLE", "UNSAFE"}
BootFiles == <<"!boot.obey", "autoexec.obey", "autoexec.txt">>
BootLine(file) == [do |-> IF file = "autoexec.txt" THEN "exec" ELSE "obey", name |-> file]
Ready == current = Nothing

Returns(r) == ret' = r /\ current' = Nothing
\* from: "typed" if the line was typed or stands in a file or behind THEN,
\* "oscli" if a program gave it, straight or through aliases.  A program that
\* RUN or RUNBIN starts was "asked" for, wherever the line comes from.
Executes(line, in_mos, from) == current' = [do |-> "line", line |-> line, in_mos |-> in_mos, from |-> from]
Push(frame) == stack' = <<frame>> \o stack

-----------------------------------------------------------------------------
(* mos_exec, by the kinds of line.                                         *)

\* No line is executed below the limit.
TooDeep == depth > DepthLimit

Executing(do) == current.do = "line" /\ current.line.do = do /\ ~TooDeep

mos_exec_TooDeep ==
  /\ current.do = "line" /\ TooDeep
  /\ Returns("TOO_DEEP")
  /\ UNCHANGED <<stack, depth, policy, boot>>

Aliased(name) == name \in DOMAIN Aliases

\* mos_execAlias: the lines of the variable, under the caller's in_mos.
AliasFrame(name, in_mos, from, then) ==
  [kind |-> "alias", rest |-> Aliases[name], in_mos |-> in_mos, from |-> from, then |-> then]

\* A name is an alias first, unless a % says otherwise.
mos_execAlias ==
  /\ Executing("name") /\ ~current.line.plain /\ Aliased(current.line.name)
  /\ Push(AliasFrame(current.line.name, current.in_mos, current.from, [current EXCEPT !.line.plain = TRUE]))
  /\ depth' = depth + 1 /\ Returns("OK")
  /\ UNCHANGED <<policy, boot>>

\* A built-in command that calls nothing else.
BuiltIn ==
  /\ Executing("builtin")
  /\ \E r \in {"OK", "NO_FILE", "error"} : Returns(r)
  /\ UNCHANGED <<stack, depth, policy, boot>>

\* mos_cmdIF and mos_cmdIFTHERE: the chosen line is executed as if typed.
mos_cmdIF ==
  /\ Executing("if")
  /\ \E line \in {current.line.then, current.line.else} :
       IF line = Nothing THEN Returns("OK") ELSE Executes(line, TRUE, "typed") /\ UNCHANGED ret
  /\ UNCHANGED <<stack, depth, policy, boot>>

mos_cmdDO ==
  /\ Executing("do")
  /\ Executes(current.line.then, TRUE, "typed")
  /\ UNCHANGED <<stack, depth, ret, policy, boot>>

\* The line is executed as if typed, and whatever comes of it is kept in a
\* variable: TRY itself goes well.
mos_cmdTRY ==
  /\ Executing("try")
  /\ Push([kind |-> "try", rest |-> << >>])
  /\ Executes(current.line.then, TRUE, "typed")
  /\ UNCHANGED <<depth, ret, policy, boot>>

\* The lines of a file, as if typed.
ScriptFrame(name) == [kind |-> "script", rest |-> Scripts[name], in_mos |-> TRUE, from |-> "typed"]

\* The name may be too much for the memory, or the file may not be there.
Reads(name) ==
  /\ \/ name \in DOMAIN Scripts /\ Push(ScriptFrame(name)) /\ depth' = depth + 1 /\ Returns("OK")
     \/ (\E r \in {"NO_FILE", "error"} : Returns(r)) /\ UNCHANGED <<stack, depth>>
  /\ UNCHANGED <<policy, boot>>
mos_cmdOBEY == Executing("obey") /\ Reads(current.line.name)
mos_EXEC == Executing("exec") /\ Reads(current.line.name)

\* mos_runOrLoadFile: the alias of the file's type, as if typed.
mos_runOrLoadFile ==
  /\ Executing("file")
  /\ LET token == current.line.type
     IN IF Aliased(token)
        THEN Push(AliasFrame(token, TRUE, "typed", Nothing)) /\ depth' = depth + 1 /\ Returns("OK")
        ELSE Returns("INVALID_COMMAND") /\ UNCHANGED <<stack, depth>>
  /\ UNCHANGED <<policy, boot>>

\* A name that is no alias or built-in is a binary in the run path, or among
\* the moslets if the line was not typed.  The header of the program sets the
\* policy (emos_application_enter); one that is no program does not start.
Path(in_mos) == IF in_mos THEN DOMAIN Programs ELSE {p \in DOMAIN Programs : Programs[p].where = "moslet"}
LivePrograms == Cardinality({i \in DOMAIN stack : stack[i].kind = "program"})

mos_runBin(where, from) ==
  /\ LivePrograms < MaxPrograms
  /\ \E p \in Policies :
       LET new == IF where = "moslet" THEN "MOSLET" ELSE p
       IN /\ Push([kind |-> "program", where |-> where, was |-> policy, policy |-> new, from |-> from])
          /\ policy' = new
  /\ Returns("OK")

mos_runBinFile ==
  /\ Executing("name") /\ (current.line.plain \/ ~Aliased(current.line.name))
  /\ LET name == current.line.name
     IN \/ name \in Path(current.in_mos) /\ mos_runBin(Programs[name].where, current.from)
        \/ /\ Returns(IF name \in Path(current.in_mos) THEN "error" ELSE "INVALID_COMMAND")
           /\ UNCHANGED <<stack, policy>>
  /\ UNCHANGED <<depth, boot>>

\* RUN, of what is at an address, and RUNBIN, of any file.
mos_cmdRUN ==
  /\ Executing("run")
  /\ \/ mos_runBin(current.line.where, "asked")
     \/ Returns("error") /\ UNCHANGED <<stack, policy>>
  /\ UNCHANGED <<depth, boot>>

-----------------------------------------------------------------------------
(* The calls in progress.                                                  *)

Top(kind) == Ready /\ stack # << >> /\ Head(stack).kind = kind
InFrame == Ready /\ stack # << >> /\ Head(stack).kind \in {"alias", "script"}

TryEnds ==
  /\ Top("try")
  /\ stack' = Tail(stack) /\ Returns("OK")
  /\ UNCHANGED <<depth, policy, boot>>

\* The next line of an alias or a file, after one that went well.
NextLine ==
  /\ InFrame /\ ret = "OK" /\ Head(stack).rest # << >>
  /\ stack' = <<[Head(stack) EXCEPT !.rest = Tail(@)]>> \o Tail(stack)
  /\ Executes(Head(Head(stack).rest), Head(stack).in_mos, Head(stack).from)
  /\ UNCHANGED <<depth, ret, policy, boot>>

\* A seeded fault: the way out after an error forgets the depth.
Shallower == IF ret = "OK" THEN depth - 1 ELSE depth
LeaveDepth == depth - 1

\* The first error ends the frame.  An alias that ends in NOT_IMPLEMENTED
\* counts as none: its name is looked up again.
FrameEnds ==
  /\ InFrame /\ (ret # "OK" \/ Head(stack).rest = << >>)
  /\ depth' = LeaveDepth
  /\ stack' = Tail(stack)
  /\ IF Head(stack).kind = "alias" /\ ret = "NOT_IMPLEMENTED" /\ Head(stack).then # Nothing
     THEN current' = Head(stack).then /\ UNCHANGED ret
     ELSE Returns(ret)
  /\ UNCHANGED <<policy, boot>>

\* mos_OSCLI, from the innermost program.
mos_OSCLI ==
  /\ Top("program")
  /\ \E line \in CommandLines : Executes(line, FALSE, "oscli")
  /\ UNCHANGED <<stack, depth, ret, policy, boot>>

\* The program returns a code of its own; emos_application_leave.  mos_exec
\* takes NO_FILE for a binary that was not found.
ProgramReturns ==
  /\ Top("program")
  /\ stack' = Tail(stack) /\ policy' = Head(stack).was
  /\ \E r \in {"OK", "NOT_IMPLEMENTED", "error", "INVALID_COMMAND"} : Returns(r)
  /\ UNCHANGED <<depth, boot>>

\* main: the boot files, each tried if the one before was not found.
BootNext ==
  /\ Ready /\ stack = << >> /\ boot # << >>
  /\ IF ret = "NO_FILE"
     THEN boot' = Tail(boot) /\ IF Len(boot) > 1
                                THEN Executes(BootLine(boot[2]), TRUE, "typed")
                                ELSE UNCHANGED current
     ELSE boot' = << >> /\ UNCHANGED current
  /\ UNCHANGED <<stack, depth, ret, policy>>

\* main: a line from mos_input.
Typed ==
  /\ Ready /\ stack = << >> /\ boot = << >>
  /\ \E line \in CommandLines : Executes(line, TRUE, "typed")
  /\ ret' = "OK"
  /\ UNCHANGED <<stack, depth, policy, boot>>

ShellInit ==
  /\ stack = << >> /\ depth = 0 /\ ret = "OK" /\ policy = "CORE"
  /\ boot = BootFiles
  /\ current = [do |-> "line", line |-> BootLine(BootFiles[1]), in_mos |-> TRUE, from |-> "typed"]

ShellNext ==
  \/ mos_exec_TooDeep \/ mos_execAlias \/ BuiltIn \/ mos_cmdIF \/ mos_cmdDO \/ mos_cmdTRY \/ mos_cmdOBEY \/ mos_EXEC
  \/ mos_runOrLoadFile \/ mos_runBinFile \/ mos_cmdRUN \/ NextLine \/ TryEnds \/ FrameEnds \/ mos_OSCLI \/ ProgramReturns \/ BootNext \/ Typed

ShellSpec == ShellInit /\ [][ShellNext]_shellVars

-----------------------------------------------------------------------------
(* Properties.                                                             *)

Frames(kinds) == {i \in DOMAIN stack : stack[i].kind \in kinds}
Live == {i \in DOMAIN stack : stack[i].kind = "program"}

\* Whatever errors unwind the calls: the depth is the number of aliases and
\* files in progress, one more than the limit at most, so that aliases and
\* files that call each other come to an end (mos_exec, mos_execAlias,
\* mos_cmdOBEY, mos_EXEC); and the policy is that of the innermost program, or
\* Core if there is none (mos_runBin).
FramesMatch ==
  /\ depth = Cardinality(Frames({"alias", "script"})) /\ depth <= DepthLimit + 1
  /\ policy = IF Live = {} THEN "CORE" ELSE stack[CHOOSE i \in Live : \A j \in Live : i <= j].policy

\* "OSCLI doesn't support automatic running of programs besides moslets"
\* (mos.c:3012), as far as it is kept: a command of a program, straight or
\* through aliases, loads no program over the one that gave it.
OscliLoadsMoslets ==
  \A i \in DOMAIN stack : stack[i].kind = "program" /\ stack[i].from = "oscli" => stack[i].where = "moslet"

\* Both: what is counted and permitted is that of the calls in progress (mos.c).
InterpreterIsSound == FramesMatch /\ OscliLoadsMoslets
=============================================================================
