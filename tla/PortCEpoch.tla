---------------------------- MODULE PortCEpoch ----------------------------
(* The local owner of the forward-parallel epoch (src/emos_parallel.c with   *)
(* the interrupt-masked helpers of src/emos_parallel_io.asm) together with   *)
(* the opening and closing of UART1 (src/uart.c), which shares Port C.       *)
(*                                                                           *)
(* The callers are contexts 0 .. Levels: 0 is the foreground, a higher one   *)
(* interrupts a lower one and runs to completion before the lower resumes.   *)
(* Every access to a shared variable is a step of its own; a helper of       *)
(* emos_parallel_io.asm runs with interrupts masked and is one step.         *)
EXTENDS Integers

CONSTANTS
    Levels,     \* the highest interrupt level
    MaxGen,     \* the last epoch number: 0xFFFFFF in the code
    Calls       \* Calls[c]: the entry points that context c may call

Ctx == 0 .. Levels
Entry == {"enter", "leave", "write", "routeEnter", "routeLeave", "routeWrite",
          "openUart"}

ASSUME LevelsAssumption == Levels \in Nat
ASSUME MaxGenAssumption == MaxGen \in Nat
ASSUME CallsAssumption == Calls \in [Ctx -> SUBSET (Entry \cup {"closeUart"})]

Status == {"OK", "BUSY", "NOT_OWNED", "UART1_ACTIVE", "PEER_NOT_READY",
           "EPOCH_EXHAUSTED", "TIMEOUT"}

VARIABLES
    inited, initLock,       \* emosParallelInitialized, ...InitializationLock
    lock,                   \* emosParallelWriterLock
    pinsOwned,              \* emosParallelPinsOwned
    deferred,               \* emosParallelDeferredFault
    binding,                \* emosParallelBindingStatus
    generation,             \* emosParallelGeneration
    routeLease,             \* emosParallelRouteLease.generation
    epochOpen, busy,        \* emosParallelEngine
    firstFault,
    uart1,                  \* serialFlags bit 4: UART1 is published active
    pins,                   \* what the mux and direction registers give PC0-PC7 to
    pc, call,               \* where each context stands, in which entry point
    arg,                    \* a writer's lease, an entrant's candidate generation
    status,                 \* the local status of a call
    contended,              \* history: a request was refused during this entry
    retired                 \* history: generations whose epoch was left

engine == <<epochOpen, busy, firstFault>>
memory == <<lock, pinsOwned, deferred, binding, generation, routeLease, engine>>
port == <<uart1, pins>>
history == <<contended, retired>>
vars == <<inited, initLock, memory, port, pc, call, arg, status, history>>

InitPcs == {"i_check", "i_lock", "i_recheck", "i_reset", "i_publish", "i_unlock",
            "i_done"}
EnterHeld == {"e_gen", "e_uart", "e_release", "e_peer", "e_deferred", "e_drive",
              "e_open", "e_ok", "e_commit", "e_close", "e_unpin", "e_fail",
              "e_unlock"}
LeaveHeld == {"l_check", "l_close", "l_unpin", "l_result", "l_unlock"}
WriteHeld == {"w_check", "w_deferred", "w_start", "w_run", "w_result", "w_unlock"}
UartHeld == {"u_flags", "u_mux", "u_publish", "u_unlock"}
Held == EnterHeld \cup LeaveHeld \cup WriteHeld \cup UartHeld
Unheld == {"e_begin", "e_refused", "e_route", "l_lock", "l_note", "l_route",
           "w_lock", "w_note", "w_refused", "u_guard"}
Pc == {"idle"} \cup InitPcs \cup Held \cup Unheld

IsRoute(c) == call[c] \in {"routeEnter", "routeLeave", "routeWrite"}

\* Static storage is zero when the program starts; the mux may have been left
\* on UART by the loader.
Init ==
    /\ inited = 0 /\ initLock = 0
    /\ lock = 0 /\ pinsOwned = 0 /\ deferred = "OK" /\ binding = "OK"
    /\ generation = 0 /\ routeLease = 0
    /\ epochOpen = 0 /\ busy = 0 /\ firstFault = "OK"
    /\ uart1 = 0 /\ pins \in {"input", "uart"}
    /\ pc = [c \in Ctx |-> "idle"] /\ call = [c \in Ctx |-> "none"]
    /\ arg = [c \in Ctx |-> 0] /\ status = [c \in Ctx |-> "OK"]
    /\ contended = 0 /\ retired = {}

(***************************************************************************)
(* Control                                                                 *)
(***************************************************************************)
\* c is the innermost active context: nothing has interrupted it.
Runs(c) == \A d \in Ctx : d > c => pc[d] = "idle"
At(c, l) == Runs(c) /\ pc[c] = l
Goto(c, l) == pc' = [pc EXCEPT ![c] = l]
Set(c, s) == status' = [status EXCEPT ![c] = s]
\* The frame of a finished call is gone.
Return(c) == /\ Goto(c, "idle")
             /\ call' = [call EXCEPT ![c] = "none"]
             /\ arg' = [arg EXCEPT ![c] = 0]
             /\ status' = [status EXCEPT ![c] = "OK"]
frame == <<call, arg, status>>

(***************************************************************************)
(* Seeded faults: what each property would catch                           *)
(***************************************************************************)
EnterGenerationReused(c) ==
    /\ At(c, "e_gen") /\ generation # MaxGen
    /\ arg' = [arg EXCEPT ![c] = IF generation = 0 THEN 1 ELSE generation]
    /\ Goto(c, "e_uart")
    /\ UNCHANGED <<inited, initLock, memory, port, call, status, history>>
WriteSpins(c) ==
    /\ At(c, "w_lock")
    /\ Goto(c, IF lock = 1 THEN "w_lock" ELSE "w_check")
    /\ lock' = 1
    /\ UNCHANGED <<inited, initLock, pinsOwned, deferred, binding, generation,
                   routeLease, engine, port, frame, history>>
UartGuardOnlyLocks(c) ==
    /\ At(c, "u_guard") /\ lock = 0
    /\ lock' = 1
    /\ Goto(c, "u_flags")
    /\ UNCHANGED <<inited, initLock, pinsOwned, deferred, binding, generation,
                   routeLease, engine, port, frame, history>>
CommitIgnoresContention(c) ==
    /\ At(c, "e_commit")
    /\ generation' = arg[c] /\ pinsOwned' = 1 /\ lock' = 0
    /\ UNCHANGED <<inited, initLock, deferred, binding, routeLease, engine, port, history>>
RouteNotCleared(c) ==
    /\ At(c, "l_route")
    /\ Return(c)
    /\ UNCHANGED <<inited, initLock, memory, port, history>>

\* A context enters an entry point.
Call(c) ==
    /\ At(c, "idle")
    /\ \E e \in Calls[c] \cap Entry : call' = [call EXCEPT ![c] = e]
    /\ Goto(c, "i_check")
    /\ UNCHANGED <<inited, initLock, memory, port, arg, status, history>>

First == [enter |-> "e_begin", routeEnter |-> "e_begin", leave |-> "l_lock",
          routeLeave |-> "l_lock", write |-> "w_lock", routeWrite |-> "w_lock",
          openUart |-> "u_guard"]

(***************************************************************************)
(* emos_parallel_ensure_initialized and emos_parallel_init                 *)
(***************************************************************************)
InitCheck(c) ==
    /\ At(c, "i_check")
    /\ Goto(c, IF inited = 1 THEN "i_done" ELSE "i_lock")
    /\ UNCHANGED <<inited, initLock, memory, port, frame, history>>

InitTryLock(c) ==
    /\ At(c, "i_lock")
    /\ Goto(c, IF initLock = 1 THEN "i_done" ELSE "i_recheck")
    /\ initLock' = 1
    /\ UNCHANGED <<inited, memory, port, call, arg, status, history>>

InitRecheck(c) ==
    /\ At(c, "i_recheck")
    /\ Goto(c, IF inited = 1 THEN "i_unlock" ELSE "i_reset")
    /\ UNCHANGED <<inited, initLock, memory, port, frame, history>>

InitReset(c) ==
    /\ At(c, "i_reset")
    /\ epochOpen' = 0 /\ busy' = 0 /\ firstFault' = "OK"
    /\ pinsOwned' = 0 /\ generation' = 0 /\ lock' = 0
    /\ deferred' = "OK" /\ routeLease' = 0 /\ binding' = "OK"
    /\ Goto(c, "i_publish")
    /\ UNCHANGED <<inited, initLock, port, call, arg, status, history>>

InitPublish(c) ==
    /\ At(c, "i_publish")
    /\ inited' = 1
    /\ Goto(c, "i_unlock")
    /\ UNCHANGED <<initLock, memory, port, call, arg, status, history>>

InitUnlock(c) ==
    /\ At(c, "i_unlock")
    /\ initLock' = 0
    /\ Goto(c, "i_done")
    /\ UNCHANGED <<inited, memory, port, call, arg, status, history>>

InitDone(c) ==
    /\ At(c, "i_done") /\ inited = 1
    /\ Goto(c, First[call[c]])
    /\ UNCHANGED <<inited, initLock, memory, port, frame, history>>

\* Another context is initialising: the call is refused (BUSY).
InitRefused(c) ==
    /\ At(c, "i_done") /\ inited = 0
    /\ Return(c)
    /\ UNCHANGED <<inited, initLock, memory, port, history>>

(***************************************************************************)
(* emos_parallel_epoch_enter and emos_parallel_route_enter                 *)
(***************************************************************************)
\* emos_parallel_io_try_begin_entry: one masked section with three outcomes.
EntryContended(c) ==
    /\ At(c, "e_begin") /\ lock = 1
    /\ deferred' = "BUSY" /\ contended' = 1
    /\ Goto(c, "e_refused")
    /\ UNCHANGED <<inited, initLock, lock, pinsOwned, binding, generation, routeLease,
                   engine, port, frame, retired>>

EntryOwned(c) ==
    /\ At(c, "e_begin") /\ lock = 0 /\ pinsOwned = 1
    /\ Goto(c, "e_refused")
    /\ UNCHANGED <<inited, initLock, memory, port, frame, history>>

EntryBegun(c) ==
    /\ At(c, "e_begin") /\ lock = 0 /\ pinsOwned = 0
    /\ lock' = 1 /\ deferred' = "OK" /\ contended' = 0
    /\ Goto(c, "e_gen")
    /\ UNCHANGED <<inited, initLock, pinsOwned, binding, generation, routeLease,
                   engine, port, frame, retired>>

EnterRefused(c) ==
    /\ At(c, "e_refused")
    /\ binding' = "BUSY"
    /\ Return(c)
    /\ UNCHANGED <<inited, initLock, lock, pinsOwned, deferred, generation,
                   routeLease, engine, port, history>>

\* emos_parallel_generation_next never wraps.
EnterGeneration(c) ==
    /\ At(c, "e_gen") /\ generation # MaxGen
    /\ arg' = [arg EXCEPT ![c] = generation + 1]
    /\ Goto(c, "e_uart")
    /\ UNCHANGED <<inited, initLock, memory, port, call, status, history>>

EpochsExhausted(c) ==
    /\ At(c, "e_gen") /\ generation = MaxGen
    /\ Set(c, "EPOCH_EXHAUSTED") /\ Goto(c, "e_fail")
    /\ UNCHANGED <<inited, initLock, memory, port, call, arg, history>>

EnterUartCheck(c) ==
    /\ At(c, "e_uart")
    /\ Goto(c, IF uart1 = 1 THEN "e_fail" ELSE "e_release")
    /\ Set(c, IF uart1 = 1 THEN "UART1_ACTIVE" ELSE "OK")
    /\ UNCHANGED <<inited, initLock, memory, port, call, arg, history>>

\* emos_parallel_release_local_pins
EnterReleasePins(c) ==
    /\ At(c, "e_release")
    /\ pins' = "input"
    /\ Goto(c, "e_peer")
    /\ UNCHANGED <<inited, initLock, memory, uart1, call, arg, status, history>>

\* The peerReady callback answers either way.
EnterPeerReady(c) ==
    /\ At(c, "e_peer")
    /\ Goto(c, "e_deferred")
    /\ UNCHANGED <<inited, initLock, memory, port, frame, history>>

EnterPeerNotReady(c) ==
    /\ At(c, "e_peer")
    /\ Set(c, IF deferred # "OK" THEN deferred ELSE "PEER_NOT_READY")
    /\ Goto(c, "e_unpin")
    /\ UNCHANGED <<inited, initLock, memory, port, call, arg, history>>

EnterDeferredCheck(c) ==
    /\ At(c, "e_deferred")
    /\ Goto(c, IF deferred # "OK" THEN "e_unpin" ELSE "e_drive")
    /\ Set(c, deferred)
    /\ UNCHANGED <<inited, initLock, memory, port, call, arg, history>>

EnterDrivePins(c) ==
    /\ At(c, "e_drive")
    /\ pins' = "parallel"
    /\ Goto(c, "e_open")
    /\ UNCHANGED <<inited, initLock, memory, uart1, call, arg, status, history>>

\* emos_parallel_engine_open.  It also refuses a busy engine, which no entry meets:
\* a writer that is inside holds the lock (WriterInv).
EnterEngineOpen(c) ==
    /\ At(c, "e_open") /\ busy = 0
    /\ epochOpen' = 1 /\ firstFault' = "OK"
    /\ Goto(c, "e_ok")
    /\ UNCHANGED <<inited, initLock, lock, pinsOwned, deferred, binding, generation,
                   routeLease, busy, port, frame, history>>

EnterPublishOk(c) ==
    /\ At(c, "e_ok")
    /\ binding' = "OK"
    /\ Goto(c, "e_commit")
    /\ UNCHANGED <<inited, initLock, lock, pinsOwned, deferred, generation,
                   routeLease, engine, port, call, arg, status, history>>

\* emos_parallel_io_commit_epoch: one masked section; a deferred fault leaves the
\* lock held for the cleanup path.
Commit(c) ==
    /\ At(c, "e_commit") /\ deferred = "OK"
    /\ generation' = arg[c] /\ pinsOwned' = 1 /\ lock' = 0
    /\ UNCHANGED <<inited, initLock, deferred, binding, routeLease, engine, port, history>>

CommitEpoch(c) == Commit(c) /\ ~IsRoute(c) /\ Return(c)

CommitRoute(c) == Commit(c) /\ IsRoute(c) /\ Goto(c, "e_route") /\ UNCHANGED frame

CommitAborted(c) ==
    /\ At(c, "e_commit") /\ deferred # "OK"
    /\ Set(c, deferred) /\ Goto(c, "e_close")
    /\ UNCHANGED <<inited, initLock, memory, port, call, arg, history>>

EnterPublishRoute(c) ==
    /\ At(c, "e_route")
    /\ routeLease' = arg[c]
    /\ Return(c)
    /\ UNCHANGED <<inited, initLock, lock, pinsOwned, deferred, binding, generation,
                   engine, port, history>>

EnterCloseEngine(c) ==
    /\ At(c, "e_close")
    /\ epochOpen' = IF busy = 1 THEN epochOpen ELSE 0
    /\ Goto(c, "e_unpin")
    /\ UNCHANGED <<inited, initLock, lock, pinsOwned, deferred, binding, generation,
                   routeLease, busy, firstFault, port, call, arg, status, history>>

EnterUnpin(c) ==
    /\ At(c, "e_unpin")
    /\ pins' = "input"
    /\ Goto(c, "e_fail")
    /\ UNCHANGED <<inited, initLock, memory, uart1, call, arg, status, history>>

EnterFail(c) ==
    /\ At(c, "e_fail")
    /\ binding' = status[c]
    /\ Goto(c, "e_unlock")
    /\ UNCHANGED <<inited, initLock, lock, pinsOwned, deferred, generation,
                   routeLease, engine, port, call, arg, status, history>>

EnterUnlock(c) ==
    /\ At(c, "e_unlock")
    /\ lock' = 0
    /\ Return(c)
    /\ UNCHANGED <<inited, initLock, pinsOwned, deferred, binding, generation,
                   routeLease, engine, port, history>>

(***************************************************************************)
(* emos_parallel_epoch_leave and emos_parallel_route_leave                 *)
(***************************************************************************)
LeaveTryLock(c) ==
    /\ At(c, "l_lock")
    /\ Goto(c, IF lock = 1 THEN "l_note" ELSE "l_check")
    /\ lock' = 1
    /\ UNCHANGED <<inited, initLock, pinsOwned, deferred, binding, generation,
                   routeLease, engine, port, call, arg, status, history>>

\* emos_parallel_note_locked_contention
NoteContention ==
    /\ deferred' = "BUSY"
    /\ binding' = "BUSY"
    /\ contended' = 1

LeaveContended(c) ==
    /\ At(c, "l_note")
    /\ NoteContention
    /\ Return(c)
    /\ UNCHANGED <<inited, initLock, lock, pinsOwned, generation, routeLease, engine,
                   port, retired>>

\* Ownership is revoked before any electrical change.
LeaveRevoke(c) ==
    /\ At(c, "l_check") /\ pinsOwned = 1
    /\ pinsOwned' = 0 /\ retired' = retired \cup {generation}
    /\ Goto(c, "l_close")
    /\ UNCHANGED <<inited, initLock, lock, deferred, binding, generation, routeLease,
                   engine, port, frame, contended>>

LeaveNothing(c) ==
    /\ At(c, "l_check") /\ pinsOwned = 0
    /\ binding' = "OK"
    /\ Goto(c, "l_unlock")
    /\ UNCHANGED <<inited, initLock, lock, pinsOwned, deferred, generation,
                   routeLease, engine, port, frame, history>>

\* emos_parallel_engine_close
LeaveCloseEngine(c) ==
    /\ At(c, "l_close")
    /\ epochOpen' = IF busy = 1 THEN epochOpen ELSE 0
    /\ Set(c, IF busy = 1 THEN "BUSY" ELSE "OK")
    /\ Goto(c, "l_unpin")
    /\ UNCHANGED <<inited, initLock, lock, pinsOwned, deferred, binding, generation,
                   routeLease, busy, firstFault, port, call, arg, history>>

LeaveReleasePins(c) ==
    /\ At(c, "l_unpin")
    /\ pins' = "input"
    /\ Goto(c, "l_result")
    /\ UNCHANGED <<inited, initLock, memory, uart1, call, arg, status, history>>

LeaveResult(c) ==
    /\ At(c, "l_result")
    /\ binding' = status[c]
    /\ Goto(c, "l_unlock")
    /\ UNCHANGED <<inited, initLock, lock, pinsOwned, deferred, generation,
                   routeLease, engine, port, call, arg, status, history>>

LeaveUnlock(c) ==
    /\ At(c, "l_unlock") /\ ~(IsRoute(c) /\ status[c] = "OK")
    /\ lock' = 0
    /\ Return(c)
    /\ UNCHANGED <<inited, initLock, pinsOwned, deferred, binding, generation,
                   routeLease, engine, port, history>>

LeaveUnlockRoute(c) ==
    /\ At(c, "l_unlock") /\ IsRoute(c) /\ status[c] = "OK"
    /\ lock' = 0
    /\ Goto(c, "l_route")
    /\ UNCHANGED <<inited, initLock, pinsOwned, deferred, binding, generation,
                   routeLease, engine, port, frame, history>>

LeaveClearRoute(c) ==
    /\ At(c, "l_route")
    /\ routeLease' = 0
    /\ Return(c)
    /\ UNCHANGED <<inited, initLock, lock, pinsOwned, deferred, binding, generation,
                   engine, port, history>>

(***************************************************************************)
(* emos_parallel_write_stream and emos_parallel_route_write_stream         *)
(***************************************************************************)
WriteTryLock(c) ==
    /\ At(c, "w_lock")
    /\ Goto(c, IF lock = 1 THEN "w_note" ELSE "w_check")
    /\ lock' = 1
    /\ UNCHANGED <<inited, initLock, pinsOwned, deferred, binding, generation,
                   routeLease, engine, port, call, arg, status, history>>

WriteContended(c) ==
    /\ At(c, "w_note")
    /\ NoteContention
    /\ Goto(c, "w_refused")
    /\ UNCHANGED <<inited, initLock, lock, pinsOwned, generation, routeLease, engine,
                   port, call, arg, status, retired>>

\* The refused writer returns whatever the binding status is by then.
WriteRefused(c) ==
    /\ At(c, "w_refused")
    /\ Return(c)
    /\ UNCHANGED <<inited, initLock, memory, port, history>>

\* A direct writer presents any lease that was ever handed out, or none (0); a
\* route writer dereferences the shared lease.
Leases(c) == IF IsRoute(c) THEN {routeLease} ELSE 0 .. generation

WriteNotOwned(c) ==
    /\ At(c, "w_check")
    /\ pinsOwned = 0 \/ \E l \in Leases(c) : l = 0 \/ l # generation
    /\ binding' = "NOT_OWNED" /\ Set(c, "NOT_OWNED")
    /\ Goto(c, "w_unlock")
    /\ UNCHANGED <<inited, initLock, lock, pinsOwned, deferred, generation,
                   routeLease, engine, port, call, arg, history>>

WriteLeaseCheck(c) ==
    /\ At(c, "w_check") /\ pinsOwned = 1
    /\ generation \in Leases(c) \ {0}
    /\ arg' = [arg EXCEPT ![c] = generation]
    /\ Goto(c, "w_deferred")
    /\ UNCHANGED <<inited, initLock, memory, port, call, status, history>>

WriteDeferredCheck(c) ==
    /\ At(c, "w_deferred")
    /\ Goto(c, IF deferred # "OK" THEN "w_unlock" ELSE "w_start")
    /\ binding' = (IF deferred # "OK" THEN deferred ELSE binding)
    /\ Set(c, deferred)
    /\ UNCHANGED <<inited, initLock, lock, pinsOwned, deferred, generation,
                   routeLease, engine, port, call, arg, history>>

\* emos_parallel_engine_write up to its first record.  It is refused after a first
\* fault; also outside an epoch and when busy, which no writer meets (WriterInv).
WriteStart(c) ==
    /\ At(c, "w_start") /\ epochOpen = 1 /\ busy = 0 /\ firstFault = "OK"
    /\ busy' = 1
    /\ Goto(c, "w_run")
    /\ UNCHANGED <<inited, initLock, lock, pinsOwned, deferred, binding, generation,
                   routeLease, epochOpen, firstFault, port, frame, history>>

WriteAfterFault(c) ==
    /\ At(c, "w_start") /\ epochOpen = 1 /\ busy = 0 /\ firstFault # "OK"
    /\ Set(c, firstFault)
    /\ Goto(c, "w_result")
    /\ UNCHANGED <<inited, initLock, memory, port, call, arg, history>>

\* The records of the stream complete, or READY is late and the fault latches.
WriteFinish(c) ==
    /\ At(c, "w_run")
    /\ \E s \in {"OK", "TIMEOUT"} :
          /\ Set(c, s)
          /\ busy' = 0 /\ firstFault' = s
    /\ Goto(c, "w_result")
    /\ UNCHANGED <<inited, initLock, lock, pinsOwned, deferred, binding, generation,
                   routeLease, epochOpen, port, call, arg, history>>

WriteResult(c) ==
    /\ At(c, "w_result")
    /\ binding' = IF status[c] # "OK" THEN status[c] ELSE deferred
    /\ Goto(c, "w_unlock")
    /\ UNCHANGED <<inited, initLock, lock, pinsOwned, deferred, generation,
                   routeLease, engine, port, call, arg, status, history>>

WriteUnlock(c) ==
    /\ At(c, "w_unlock")
    /\ lock' = 0
    /\ Return(c)
    /\ UNCHANGED <<inited, initLock, pinsOwned, deferred, binding, generation,
                   routeLease, engine, port, history>>

(***************************************************************************)
(* open_UART1 and close_UART1                                              *)
(***************************************************************************)
\* emos_parallel_io_try_reserve_portc: one masked section that leaves the
\* deferred fault of the parallel epoch alone.
UartGuard(c) ==
    /\ At(c, "u_guard") /\ lock = 0 /\ pinsOwned = 0
    /\ lock' = 1
    /\ Goto(c, "u_flags")
    /\ UNCHANGED <<inited, initLock, pinsOwned, deferred, binding, generation,
                   routeLease, engine, port, frame, history>>

UartRefused(c) ==
    /\ At(c, "u_guard") /\ (lock = 1 \/ pinsOwned = 1)
    /\ Return(c)
    /\ UNCHANGED <<inited, initLock, memory, port, history>>

UartFlags(c) ==
    /\ At(c, "u_flags")
    /\ uart1' = 0
    /\ Goto(c, "u_mux")
    /\ UNCHANGED <<inited, initLock, memory, pins, call, arg, status, history>>

UartMux(c) ==
    /\ At(c, "u_mux")
    /\ pins' = "uart"
    /\ Goto(c, "u_publish")
    /\ UNCHANGED <<inited, initLock, memory, uart1, call, arg, status, history>>

UartPublish(c) ==
    /\ At(c, "u_publish")
    /\ uart1' = 1
    /\ Goto(c, "u_unlock")
    /\ UNCHANGED <<inited, initLock, memory, pins, call, arg, status, history>>

UartUnlock(c) ==
    /\ At(c, "u_unlock")
    /\ lock' = 0
    /\ Return(c)
    /\ UNCHANGED <<inited, initLock, pinsOwned, deferred, binding, generation,
                   routeLease, engine, port, history>>

\* close_UART1 takes no lock and leaves the mux on the UART.
UartClose(c) ==
    /\ At(c, "idle") /\ "closeUart" \in Calls[c]
    /\ uart1' = 0
    /\ UNCHANGED <<inited, initLock, memory, pins, pc, call, arg, status, history>>

(***************************************************************************)
(* The specification                                                       *)
(***************************************************************************)
InitStep(c) == \/ InitCheck(c) \/ InitTryLock(c) \/ InitRecheck(c) \/ InitReset(c)
               \/ InitPublish(c) \/ InitUnlock(c) \/ InitDone(c) \/ InitRefused(c)
EnterStep(c) == \/ EntryContended(c) \/ EntryOwned(c) \/ EntryBegun(c)
                \/ EnterRefused(c) \/ EnterGeneration(c) \/ EpochsExhausted(c)
                \/ EnterUartCheck(c) \/ EnterReleasePins(c) \/ EnterPeerReady(c)
                \/ EnterPeerNotReady(c) \/ EnterDeferredCheck(c) \/ EnterDrivePins(c)
                \/ EnterEngineOpen(c) \/ EnterPublishOk(c) \/ CommitEpoch(c)
                \/ CommitRoute(c) \/ CommitAborted(c) \/ EnterPublishRoute(c)
                \/ EnterCloseEngine(c) \/ EnterUnpin(c) \/ EnterFail(c) \/ EnterUnlock(c)
LeaveStep(c) == \/ LeaveTryLock(c) \/ LeaveContended(c) \/ LeaveRevoke(c)
                \/ LeaveNothing(c) \/ LeaveCloseEngine(c) \/ LeaveReleasePins(c)
                \/ LeaveResult(c) \/ LeaveUnlock(c) \/ LeaveUnlockRoute(c)
                \/ LeaveClearRoute(c)
WriteStep(c) == \/ WriteTryLock(c) \/ WriteContended(c) \/ WriteRefused(c)
                \/ WriteNotOwned(c) \/ WriteLeaseCheck(c) \/ WriteDeferredCheck(c)
                \/ WriteStart(c) \/ WriteAfterFault(c) \/ WriteFinish(c)
                \/ WriteResult(c) \/ WriteUnlock(c)
UartStep(c) == \/ UartGuard(c) \/ UartRefused(c) \/ UartFlags(c) \/ UartMux(c)
               \/ UartPublish(c) \/ UartUnlock(c)
Step(c) == InitStep(c) \/ EnterStep(c) \/ LeaveStep(c) \/ WriteStep(c) \/ UartStep(c)

Next == \E c \in Ctx : Call(c) \/ UartClose(c) \/ Step(c)

Spec == Init /\ [][Next]_vars

\* Interrupts do not follow one another so closely that the interrupted code never
\* executes: every context that can step infinitely often steps.
FairSpec == Spec /\ \A c \in Ctx : SF_vars(Step(c))

(***************************************************************************)
(* Properties                                                              *)
(***************************************************************************)
\* Type invariant.
TypeOK ==
    /\ inited \in {0, 1} /\ initLock \in {0, 1} /\ lock \in {0, 1}
    /\ pinsOwned \in {0, 1} /\ deferred \in {"OK", "BUSY"} /\ binding \in Status
    /\ generation \in 0 .. MaxGen /\ routeLease \in 0 .. MaxGen
    /\ epochOpen \in {0, 1} /\ busy \in {0, 1} /\ firstFault \in Status
    /\ uart1 \in {0, 1} /\ pins \in {"input", "uart", "parallel"}
    /\ pc \in [Ctx -> Pc] /\ call \in [Ctx -> Entry \cup {"none"}]
    /\ arg \in [Ctx -> 0 .. MaxGen] /\ status \in [Ctx -> Status]
    /\ contended \in {0, 1} /\ retired \in SUBSET (0 .. MaxGen)

\* The byte lock of emos_parallel.c is a mutex among nested contexts: at most one
\* call is inside the sections it brackets, and the byte says whether one is.
LockIsExclusive ==
    /\ \A c, d \in Ctx : pc[c] \in Held /\ pc[d] \in Held => c = d
    /\ lock = 1 <=> \E c \in Ctx : pc[c] \in Held

\* UART1 published active keeps the port muxed to it: no entry, however it was
\* interrupted, turns Port C round under a UART that serialFlags advertises.  A published
\* epoch is complete: the pins drive, the engine is open, UART1 is off.
UartKeepsThePort == uart1 = 1 => pins = "uart"
EpochIsComplete == pinsOwned = 1 => pins = "parallel" /\ epochOpen = 1 /\ uart1 = 0
PortHasOneOwner == UartKeepsThePort /\ EpochIsComplete

\* Once no call is in progress, only a published epoch leaves Port C driven: every
\* refused or aborted entry has given the pins back and closed the engine.
QuiescentPinsAreOwned ==
    lock = 0 => (pins = "parallel" <=> pinsOwned = 1) /\ (epochOpen = 1 => pinsOwned = 1)

\* The record engine only runs for the lease of the live epoch, from the first
\* record to the last: no leave, re-entry or initialisation slips underneath it.
WriterHoldsLiveLease ==
    \A c \in Ctx : pc[c] = "w_run" =>
        /\ pinsOwned = 1 /\ arg[c] = generation /\ arg[c] \notin retired
        /\ busy = 1 /\ epochOpen = 1 /\ pins = "parallel"

\* A request refused while an entry was in progress is never forgotten: the entry
\* does not commit (emos_parallel.c:182-184).
ContentionAbortsEntry ==
    [][pinsOwned' = 1 => pinsOwned = 1 \/ contended = 0]_vars

\* ... nor is one refused during a live epoch: no writer starts the engine until the
\* epoch has been left and entered again.
ContentionStopsWriters ==
    [][\A c \in Ctx : WriteDeferredCheck(c) /\ contended = 1 => pc'[c] # "w_start"]_vars

\* A writer that lost the lock never reports success, although it returns a shared
\* status variable that other contexts write.
RefusedWriterReportsBusy == \A c \in Ctx : pc[c] = "w_refused" => binding = "BUSY"

\* The six together: between any two steps of any nested calls of emos_parallel.c and
\* of the UART1 guard, one owner drives the pins, and writers run under its lease only.
PortCIsSafe ==
    /\ TypeOK /\ LockIsExclusive /\ PortHasOneOwner /\ QuiescentPinsAreOwned
    /\ WriterHoldsLiveLease /\ RefusedWriterReportsBusy

\* Both: a request refused because of the lock (emos_parallel_note_locked_contention)
\* ends the entry or the epoch it met, however much later.
ContentionIsKept == ContentionAbortsEntry /\ ContentionStopsWriters

\* The callers of the route (the mode coordinator of emos.c): it is entered and left by
\* the foreground only, and no epoch is without it.
RouteOnly ==
    \A c \in Ctx :
        /\ Calls[c] \cap {"enter", "leave"} = {}
        /\ c # 0 => Calls[c] \cap {"routeEnter", "routeLeave"} = {}

\* Then a dispatcher told that the route is owned (emos_parallel_route_owned) holds the
\* live epoch's credential.
RouteCredentialIsLive == routeLease # 0 /\ pinsOwned = 1 => routeLease = generation
RouteIsLive == RouteOnly => RouteCredentialIsLive

\* Every call returns, however often it is interrupted, and so the lock is given back.
CallsReturn == \A c \in Ctx : pc[c] # "idle" ~> pc[c] = "idle"

\* The abstract owner of the port.
Owner == IF pinsOwned = 1 THEN "epoch" ELSE IF uart1 = 1 THEN "uart" ELSE "free"
Abstract == INSTANCE PortCOwner WITH owner <- Owner
ImplementsOwner == Abstract!Spec

(***************************************************************************)
(* The inductive invariant: what each section may rely on                  *)
(***************************************************************************)
InitHeld == {"i_recheck", "i_reset", "i_publish", "i_unlock"}

\* A call is known while its context initialises.
InitCallInv == \A c \in Ctx : pc[c] \in InitPcs => call[c] \in Entry

\* The initialisation lock admits one context, and only an unready module is reset.
InitLockInv ==
    /\ \A c, d \in Ctx : pc[c] \in InitHeld /\ pc[d] \in InitHeld => c = d
    /\ \A c \in Ctx : pc[c] \in InitHeld => initLock = 1
    /\ \A c \in Ctx : pc[c] \in {"i_reset", "i_publish"} => inited = 0

\* Nothing but initialisation runs before readiness is published.
UninitInv ==
    inited = 0 =>
       /\ \A c \in Ctx : pc[c] \in {"idle"} \cup InitPcs
       /\ lock = 0 /\ pinsOwned = 0 /\ generation = 0 /\ epochOpen = 0 /\ busy = 0
       /\ pins # "parallel" /\ uart1 = 0 /\ retired = {} /\ contended = 0

LockInv ==
    /\ \A c, d \in Ctx : pc[c] \in Held /\ pc[d] \in Held => c = d
    /\ \A c \in Ctx : pc[c] \in Held => lock = 1
    /\ lock = 1 => \E c \in Ctx : pc[c] \in Held

\* Where the port or the engine is between its two settled states.
Turning == {"e_open", "e_ok", "e_commit", "e_close", "e_unpin", "l_close", "l_unpin"}
Settled == (pins = "parallel" <=> pinsOwned = 1) /\ (epochOpen = 1 => pinsOwned = 1)

PortInv ==
    /\ uart1 = 1 => pins = "uart"
    /\ pinsOwned = 1 => pins = "parallel" /\ epochOpen = 1
    /\ (\A c \in Ctx : pc[c] \notin Turning) => Settled
    /\ \A c \in Ctx :
          /\ pc[c] \in EnterHeld \cup UartHeld \cup (LeaveHeld \ {"l_check"})
                => pinsOwned = 0
          /\ pc[c] \in {"e_release", "e_peer", "e_deferred", "e_drive", "l_close",
                        "l_unpin"} \cup Turning => uart1 = 0
          /\ pc[c] \in {"e_open", "e_ok", "e_commit"} => pins = "parallel"
          /\ pc[c] \in {"e_ok", "e_commit"} => epochOpen = 1
          /\ pc[c] \in {"e_open", "e_unpin", "l_unpin"} => epochOpen = 0
          /\ pc[c] = "u_publish" => pins = "uart"

WriterInv ==
    /\ \A c \in Ctx :
          /\ pc[c] \in WriteHeld \ {"w_check", "w_unlock"}
                => pinsOwned = 1 /\ arg[c] = generation
          /\ pc[c] \in (EnterHeld \ {"e_gen", "e_fail", "e_unlock", "e_unpin", "e_close"})
                => arg[c] = generation + 1
          /\ pc[c] = "w_run" => busy = 1
    /\ busy = 1 => \E c \in Ctx : pc[c] = "w_run"

HistoryInv ==
    /\ \A g \in retired : g <= generation
    /\ pinsOwned = 1 => generation \notin retired
    /\ contended = 1 => deferred = "BUSY"

\* A context that lost the lock interrupted the one that holds it, so nothing it is
\* itself interrupted by can take the lock either.
Lost == {"l_note", "w_note", "w_refused"}
RefusedInv ==
    /\ \A c, d \in Ctx : pc[c] \in Lost /\ pc[d] \in Held => d < c
    /\ \A c \in Ctx : pc[c] \in Lost => lock = 1
    /\ \A c \in Ctx : pc[c] = "w_refused" => binding = "BUSY"

IInv == /\ TypeOK /\ InitCallInv /\ InitLockInv /\ UninitInv /\ LockInv
        /\ PortInv /\ WriterInv /\ HistoryInv /\ RefusedInv

\* The route: what its one caller relies on while it enters and leaves.
EnterSection == EnterHeld \cup {"e_begin", "e_refused", "e_route"}
LeaveSection == LeaveHeld \cup {"l_lock", "l_note", "l_route"}
RouteInv ==
    /\ \A c \in Ctx :
          /\ call[c] # "none" => call[c] \in Calls[c]
          /\ pc[c] \in EnterSection => c = 0 /\ call[c] = "routeEnter"
          /\ pc[c] \in LeaveSection => c = 0 /\ call[c] = "routeLeave"
          /\ pc[c] \in {"idle"} \cup InitPcs \cup LeaveSection => status[c] = "OK"
          /\ pc[c] = "e_route" => pinsOwned = 1 /\ routeLease = 0 /\ arg[c] = generation
    /\ pinsOwned = 0 /\ routeLease # 0 => pc[0] \in {"l_close", "l_unpin", "l_result", "l_unlock", "l_route"}
    /\ RouteCredentialIsLive
============================================================================
