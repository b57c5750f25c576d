--------------------------- MODULE ParallelRecord ---------------------------
(***************************************************************************)
(* The record engine of the forward parallel link (emos_parallel_engine.c):*)
(* a raw stream is cut into records, each admitted by a level of READY,    *)
(* clocked out byte by byte on VALID and CLOCK, and completed by the other *)
(* level.  The reference loop for the opposite direction is here too.      *)
(*                                                                         *)
(* The P4 is external: its hardware takes a byte at each falling edge of   *)
(* CLOCK while VALID is low, its software moves READY when it likes or     *)
(* never.  The MOS clock advances or stands still at any time.  Nothing    *)
(* latches a fault while the engine is busy, so the tests of firstFault    *)
(* inside the loops have no branch here; the invariant shows it.           *)
(***************************************************************************)
EXTENDS Integers, Sequences, FiniteSetsExt

CONSTANTS
  MaxRecord,       \* maximumRecordBytes
  AdmissionTicks,  \* admissionTimeoutTicks
  CompletionTicks, \* completionTimeoutTicks
  StallLimit,      \* clockStallPollLimit
  TickMod,         \* the clock is a counter of 2^32
  Lengths,         \* lengths of the streams that callers write
  MaxGap,          \* bound: ticks between two polls of a wait
  MaxEngineCalls   \* bound: calls

\* A record carries at least a byte, the clock wraps, and an empty stream is not written.
ASSUME RecordAssumption == MaxRecord \in Nat \ {0} /\ TickMod \in Nat \ {0} /\ Lengths \subseteq Nat \ {0}

VARIABLES
  engine,   \* [open, busy, fault, records, bytes]: t_emosParallelEngine
  run,      \* the call that is in progress: where it stands and its locals
  lines,    \* the levels of VALID and CLOCK, and the byte on Port C
  readyN,   \* READY_N
  p4Record, \* [record, taken, given]: bytes of this record, all it took, all it gave
  clock,    \* the MOS clock
  answered, \* the last call: what it was for, its result
  engineCalls

recordVars == <<engine, run, lines, readyN, p4Record, clock, answered, engineCalls>>

Timeout == {"admission", "completion"}
Idle == [at |-> "none", dir |-> "none", length |-> 0, sent |-> 0, amount |-> 0, index |-> 0,
         got |-> << >>, started |-> 0, last |-> 0, stalled |-> 0]
\* emos_parallel_idle
IdleLines(l) == [l EXCEPT !.valid = 1, !.clk = 1]
\* Byte i of a stream, whoever sends it.
StreamByte(i) == i
Stream(n) == [i \in 1 .. n |-> StreamByte(i)]
Smaller(a, b) == IF a < b THEN a ELSE b
Sooner(a, b) == (a - b) % TickMod

-----------------------------------------------------------------------------
(* Opening, closing, and the calls that are refused.                       *)

EngineRests == run.at = "none" /\ engineCalls < MaxEngineCalls /\ engineCalls' = engineCalls + 1
Answer(call, n, got, result) ==
  answered' = [call |-> call, length |-> n, got |-> got, result |-> result]

\* The caller of open has established that the P4 is ready for a record: its
\* READY is high and it holds nothing.
emos_parallel_engine_open ==
  /\ EngineRests
  /\ engine' = [engine EXCEPT !.fault = "ok", !.open = TRUE]
  /\ lines' = IdleLines(lines) /\ readyN' = 1 /\ p4Record' = [record |-> 0, taken |-> << >>, given |-> 0]
  /\ Answer("open", 0, << >>, "ok") /\ UNCHANGED <<run, clock>>

emos_parallel_engine_close ==
  /\ EngineRests /\ engine.open
  /\ engine' = [engine EXCEPT !.open = FALSE]
  /\ lines' = IdleLines(lines) /\ Answer("close", 0, << >>, "ok") /\ UNCHANGED <<run, readyN, p4Record, clock>>

Latched(status) == IF engine.fault = "ok" THEN status ELSE engine.fault

\* A stream for a closed engine, for one that has failed, none at all, or an
\* empty one.
RefusedWrite(result, fault) ==
  /\ EngineRests /\ engine' = [engine EXCEPT !.fault = fault]
  /\ Answer("refused", 0, << >>, result) /\ UNCHANGED <<run, lines, readyN, p4Record, clock>>
WriteClosed == ~engine.open /\ RefusedWrite("not_owned", Latched("not_owned"))
WriteFailed == engine.open /\ engine.fault # "ok" /\ RefusedWrite(engine.fault, engine.fault)
WriteNull == engine.open /\ engine.fault = "ok" /\ RefusedWrite("invalid", "invalid")
WriteEmpty == engine.open /\ engine.fault = "ok" /\ RefusedWrite("ok", "ok")

\* An interrupt that opens, closes or writes, whatever it passes, meets a busy engine.
NestedCall ==
  /\ engine.busy /\ engineCalls < MaxEngineCalls /\ engineCalls' = engineCalls + 1
  /\ UNCHANGED <<engine, run, lines, readyN, p4Record, clock, answered>>

-----------------------------------------------------------------------------
(* A record.                                                               *)

\* The wait for a level of READY begins.
Waits(at, r) == run' = [r EXCEPT !.at = at, !.started = clock, !.last = clock, !.stalled = 0]
Begins(dir, n) ==
  /\ EngineRests /\ engine.open /\ engine.fault = "ok"
  /\ engine' = [engine EXCEPT !.busy = TRUE] /\ lines' = IdleLines(lines)
  /\ p4Record' = [p4Record EXCEPT !.taken = << >>, !.given = 0]
  /\ Waits("admission", [Idle EXCEPT !.dir = dir, !.length = n, !.amount = Smaller(n, MaxRecord)])
  /\ UNCHANGED <<readyN, clock, answered>>
emos_parallel_engine_write == \E n \in Lengths : Begins("write", n)
\* Exactly one block.
emos_parallel_engine_read == \E n \in Lengths : n <= MaxRecord /\ Begins("read", n)

Expected == IF run.at = "admission" THEN 0 ELSE 1
Limit == IF run.at = "admission" THEN AdmissionTicks ELSE CompletionTicks
StandsAt(at) == run.at = at /\ UNCHANGED <<readyN, clock, engineCalls>>

\* The common exit: the lines idle, the first fault kept.
Exits(status, e, r) ==
  /\ engine' = [e EXCEPT !.busy = FALSE, !.fault = IF status = "ok" THEN @ ELSE Latched(status)]
  /\ run' = Idle /\ lines' = IdleLines(lines)
  /\ Answer(r.dir, r.length, r.got, status)

Late(at) == IF at = "admission" THEN "admission_timeout" ELSE "completion_timeout"
\* emos_parallel_wait_ready: one poll that finds the other level.  A clock that
\* does not move is allowed a number of polls.
WaitPoll == \E at \in Timeout :
  /\ StandsAt(at) /\ readyN # Expected
  /\ LET stalled == IF clock # run.last THEN 0 ELSE run.stalled + 1
     IN IF Sooner(clock, run.started) >= Limit \/ stalled >= StallLimit
        THEN Exits(Late(at), engine, run)
        ELSE /\ run' = [run EXCEPT !.last = clock, !.stalled = stalled]
             /\ UNCHANGED <<engine, lines, answered>>
  /\ UNCHANGED p4Record

\* Admitted: VALID falls while CLOCK is high.
Admitted ==
  /\ StandsAt("admission") /\ readyN = 0
  /\ lines' = [lines EXCEPT !.valid = 0, !.clk = 1]
  /\ run' = [run EXCEPT !.at = IF run.dir = "write" THEN "data" ELSE "fall", !.index = 1]
  /\ UNCHANGED <<engine, p4Record, answered>>

PutData ==
  /\ StandsAt("data")
  /\ lines' = [lines EXCEPT !.data = StreamByte(run.sent + run.index)]
  /\ run' = [run EXCEPT !.at = "fall"] /\ UNCHANGED <<engine, p4Record, answered>>

\* The P4 takes the byte at the falling edge, or puts the next one out.
ClockFalls ==
  /\ StandsAt("fall")
  /\ lines' = [lines EXCEPT !.clk = 0, !.data = IF run.dir = "read" THEN StreamByte(p4Record.given + 1) ELSE @]
  /\ p4Record' = IF run.dir = "read" THEN [p4Record EXCEPT !.given = @ + 1]
           ELSE [p4Record EXCEPT !.record = @ + 1, !.taken = Append(@, lines.data)]
  /\ run' = [run EXCEPT !.at = "rise"] /\ UNCHANGED <<engine, answered>>

NextByte(r) == [r EXCEPT !.index = @ + 1]
\* After the last byte the lines go idle at once, and the completion is waited for.
ClockRises ==
  /\ StandsAt("rise")
  /\ LET got == IF run.dir = "read" THEN [run EXCEPT !.got = Append(@, lines.data)] ELSE run
     IN IF run.index = run.amount
        THEN Waits("completion", got) /\ lines' = IdleLines(lines)
        ELSE /\ run' = [NextByte(got) EXCEPT !.at = IF run.dir = "write" THEN "data" ELSE "fall"]
             /\ lines' = [lines EXCEPT !.clk = 1]
  /\ UNCHANGED <<engine, p4Record, answered>>

\* A seeded fault: the next record starts with the same bytes.
NextRecordSame(r) == [r EXCEPT !.amount = Smaller(r.length - r.sent - r.amount, MaxRecord)]
NextRecord(r) == [r EXCEPT !.sent = @ + r.amount, !.amount = Smaller(r.length - r.sent - r.amount, MaxRecord)]
\* READY is high again: the record is counted; the stream goes on or ends.
Completed ==
  /\ StandsAt("completion") /\ readyN = 1
  /\ LET e == [engine EXCEPT !.records = @ + 1, !.bytes = @ + run.amount]
     IN IF run.sent + run.amount < run.length
        THEN engine' = e /\ Waits("admission", NextRecord(run)) /\ lines' = IdleLines(lines) /\ UNCHANGED answered
        ELSE Exits("ok", e, run)
  /\ UNCHANGED p4Record

-----------------------------------------------------------------------------
(* The P4 and the clock.                                                   *)

\* It is ready for a record; or it has seen the end of one, of which at least a
\* byte was clocked, and has taken it.
P4Ready == readyN = 1 /\ lines.valid = 1 /\ readyN' = 0 /\ UNCHANGED p4Record
P4Done == readyN = 0 /\ lines.valid = 1 /\ (p4Record.record > 0 \/ p4Record.given > 0)
          /\ readyN' = 1 /\ p4Record' = [p4Record EXCEPT !.record = 0]
P4Moves == (P4Ready \/ P4Done) /\ engine.busy /\ UNCHANGED <<engine, run, lines, clock, answered, engineCalls>>
ClockTicks ==
  /\ engine.busy /\ clock' = (clock + 1) % TickMod
  /\ run.at \in Timeout => Sooner(clock, run.last) < MaxGap
  /\ UNCHANGED <<engine, run, lines, readyN, p4Record, answered, engineCalls>>

\* emos_parallel_engine_configure, with parameters it accepts.
RecordInit ==
  /\ engine = [open |-> FALSE, busy |-> FALSE, fault |-> "ok", records |-> 0, bytes |-> 0]
  /\ run = Idle /\ lines = [valid |-> 1, clk |-> 1, data |-> 0] /\ readyN = 1
  /\ p4Record = [record |-> 0, taken |-> << >>, given |-> 0] /\ clock \in 0 .. TickMod - 1
  /\ answered = [call |-> "none", length |-> 0, got |-> << >>, result |-> "ok"] /\ engineCalls = 0

RecordStep == WaitPoll \/ Admitted \/ PutData \/ ClockFalls \/ ClockRises \/ Completed
RecordNext ==
  \/ emos_parallel_engine_open \/ emos_parallel_engine_close
  \/ WriteClosed \/ WriteFailed \/ WriteNull \/ WriteEmpty \/ NestedCall
  \/ emos_parallel_engine_write \/ emos_parallel_engine_read
  \/ RecordStep \/ P4Moves \/ ClockTicks

RecordSpec == RecordInit /\ [][RecordNext]_recordVars

-----------------------------------------------------------------------------
Whole(n) == n % MaxRecord = 0

\* What the P4 has is the beginning of the stream, in order, with no byte twice
\* and none left out where records meet; a call that reports success has carried
\* all of it; one that fails has stopped between two records; no
\* interrupt has a part in it; and afterwards the lines are idle
\* (emos_parallel_engine_write is preempted between any two edges).
StreamsAreWhole ==
  /\ p4Record.taken = Stream(Len(p4Record.taken))
  /\ engine.busy => engine.open /\ engine.fault = "ok"
  /\ ~engine.busy => lines.valid = 1 /\ lines.clk = 1 /\ run.at = "none"
  /\ ~engine.busy /\ answered.call = "write" =>
       IF answered.result = "ok" THEN Len(p4Record.taken) = answered.length
       ELSE engine.fault = answered.result /\ (Whole(Len(p4Record.taken)) \/ Len(p4Record.taken) = answered.length)
  /\ ~engine.busy /\ answered.call = "read" /\ answered.result = "ok" => answered.got = Stream(answered.length)

\* Every call ends, whether the P4 answers and whether the clock runs or not
\* (emos_parallel_wait_ready has a deadline and, for a clock that has stopped, a
\* number of polls).
CallsEnd == (run.at # "none") ~> (run.at = "none")
=============================================================================
