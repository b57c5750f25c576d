------------------------- MODULE PortCEpochProofs -------------------------
(* Proofs about PortCEpoch for every number of interrupt levels, every      *)
(* generation limit and every set of calls.  Each part of the inductive      *)
(* invariant has a lemma with one step per action; the theorems follow.      *)
EXTENDS PortCEpoch, TLAPS

USE DEF Ctx, Entry, Status, Pc, InitPcs, Held, EnterHeld, LeaveHeld, WriteHeld,
        UartHeld, Unheld, InitHeld, At, Runs, Goto, Set, Return, IsRoute, Leases,
        NoteContention, engine, memory, port, history, frame, vars

\* The step after initialisation is the first of the entry point that was called.
LEMMA FirstPc == \A e \in Entry : First[e] \in {"e_begin", "l_lock", "w_lock", "u_guard"}
BY DEF First

\* The types are preserved by every step.
LEMMA TypeOKStep == IInv /\ [Next]_vars => TypeOK'
<1> SUFFICES ASSUME IInv, [Next]_vars PROVE TypeOK'
    OBVIOUS
<1>1. TypeOK
    BY DEF IInv
<1>2. InitCallInv
    BY DEF IInv
<1>3. InitLockInv
    BY DEF IInv
<1>4. UninitInv
    BY DEF IInv
<1>5. LockInv
    BY DEF IInv
<1>6. PortInv
    BY DEF IInv
<1>7. WriterInv
    BY DEF IInv
<1>8. HistoryInv
    BY DEF IInv
<1>9. RefusedInv
    BY DEF IInv
<1> USE LevelsAssumption, MaxGenAssumption, CallsAssumption
<1>10. CASE UNCHANGED vars
    BY <1>1, <1>10 DEF TypeOK
<1>11. ASSUME NEW c \in Ctx, Call(c) PROVE TypeOK'
    BY <1>1, <1>11 DEF TypeOK, Call
<1>12. ASSUME NEW c \in Ctx, UartClose(c) PROVE TypeOK'
    BY <1>1, <1>12 DEF TypeOK, UartClose
<1>13. ASSUME NEW c \in Ctx, InitStep(c) PROVE TypeOK'
  <2>1. CASE InitCheck(c)
    BY <1>1, <2>1 DEF TypeOK, InitCheck
  <2>2. CASE InitTryLock(c)
    BY <1>1, <2>2 DEF TypeOK, InitTryLock
  <2>3. CASE InitRecheck(c)
    BY <1>1, <2>3 DEF TypeOK, InitRecheck
  <2>4. CASE InitReset(c)
    BY <1>1, <1>3, <1>4, <2>4 DEF TypeOK, InitLockInv, UninitInv, InitReset
  <2>5. CASE InitPublish(c)
    BY <1>1, <1>3, <1>4, <2>5 DEF TypeOK, InitLockInv, UninitInv, InitPublish
  <2>6. CASE InitUnlock(c)
    BY <1>1, <2>6 DEF TypeOK, InitUnlock
  <2>7. CASE InitDone(c)
    <3>1. First[call[c]] \in {"e_begin", "l_lock", "w_lock", "u_guard"}
      BY <1>2, <2>7, FirstPc DEF InitCallInv, InitDone
    <3> QED BY <1>1, <2>7, <3>1 DEF TypeOK, InitDone
  <2>8. CASE InitRefused(c)
    BY <1>1, <2>8 DEF TypeOK, InitRefused
  <2> QED BY <1>13, <2>1, <2>2, <2>3, <2>4, <2>5, <2>6, <2>7, <2>8 DEF InitStep
<1>14. ASSUME NEW c \in Ctx, EnterStep(c) PROVE TypeOK'
  <2>1. CASE EntryContended(c)
    BY <1>1, <2>1 DEF TypeOK, EntryContended
  <2>2. CASE EntryOwned(c)
    BY <1>1, <2>2 DEF TypeOK, EntryOwned
  <2>3. CASE EntryBegun(c)
    BY <1>1, <2>3 DEF TypeOK, EntryBegun
  <2>4. CASE EnterRefused(c)
    BY <1>1, <2>4 DEF TypeOK, EnterRefused
  <2>5. CASE EnterGeneration(c)
    BY <1>1, <2>5 DEF TypeOK, EnterGeneration
  <2>6. CASE EpochsExhausted(c)
    BY <1>1, <2>6 DEF TypeOK, EpochsExhausted
  <2>7. CASE EnterUartCheck(c)
    BY <1>1, <2>7 DEF TypeOK, EnterUartCheck
  <2>8. CASE EnterReleasePins(c)
    BY <1>1, <2>8 DEF TypeOK, EnterReleasePins
  <2>9. CASE EnterPeerReady(c)
    BY <1>1, <2>9 DEF TypeOK, EnterPeerReady
  <2>10. CASE EnterPeerNotReady(c)
    BY <1>1, <2>10 DEF TypeOK, EnterPeerNotReady
  <2>11. CASE EnterDeferredCheck(c)
    BY <1>1, <2>11 DEF TypeOK, EnterDeferredCheck
  <2>12. CASE EnterDrivePins(c)
    BY <1>1, <2>12 DEF TypeOK, EnterDrivePins
  <2>13. CASE EnterEngineOpen(c)
    BY <1>1, <2>13 DEF TypeOK, EnterEngineOpen
  <2>14. CASE EnterPublishOk(c)
    BY <1>1, <2>14 DEF TypeOK, EnterPublishOk
  <2>15. CASE CommitEpoch(c)
    BY <1>1, <2>15 DEF TypeOK, CommitEpoch, Commit
  <2>16. CASE CommitRoute(c)
    BY <1>1, <2>16 DEF TypeOK, CommitRoute, Commit
  <2>17. CASE CommitAborted(c)
    BY <1>1, <2>17 DEF TypeOK, CommitAborted
  <2>18. CASE EnterPublishRoute(c)
    BY <1>1, <2>18 DEF TypeOK, EnterPublishRoute
  <2>19. CASE EnterCloseEngine(c)
    BY <1>1, <2>19 DEF TypeOK, EnterCloseEngine
  <2>20. CASE EnterUnpin(c)
    BY <1>1, <2>20 DEF TypeOK, EnterUnpin
  <2>21. CASE EnterFail(c)
    BY <1>1, <2>21 DEF TypeOK, EnterFail
  <2>22. CASE EnterUnlock(c)
    BY <1>1, <2>22 DEF TypeOK, EnterUnlock
  <2> QED BY <1>14, <2>1, <2>2, <2>3, <2>4, <2>5, <2>6, <2>7, <2>8, <2>9, <2>10,
     <2>11, <2>12, <2>13, <2>14, <2>15, <2>16, <2>17, <2>18, <2>19, <2>20, <2>21,
     <2>22 DEF EnterStep
<1>15. ASSUME NEW c \in Ctx, LeaveStep(c) PROVE TypeOK'
  <2>1. CASE LeaveTryLock(c)
    BY <1>1, <2>1 DEF TypeOK, LeaveTryLock
  <2>2. CASE LeaveContended(c)
    BY <1>1, <2>2 DEF TypeOK, LeaveContended
  <2>3. CASE LeaveRevoke(c)
    BY <1>1, <2>3 DEF TypeOK, LeaveRevoke
  <2>4. CASE LeaveNothing(c)
    BY <1>1, <2>4 DEF TypeOK, LeaveNothing
  <2>5. CASE LeaveCloseEngine(c)
    BY <1>1, <2>5 DEF TypeOK, LeaveCloseEngine
  <2>6. CASE LeaveReleasePins(c)
    BY <1>1, <2>6 DEF TypeOK, LeaveReleasePins
  <2>7. CASE LeaveResult(c)
    BY <1>1, <2>7 DEF TypeOK, LeaveResult
  <2>8. CASE LeaveUnlock(c)
    BY <1>1, <2>8 DEF TypeOK, LeaveUnlock
  <2>9. CASE LeaveUnlockRoute(c)
    BY <1>1, <2>9 DEF TypeOK, LeaveUnlockRoute
  <2>10. CASE LeaveClearRoute(c)
    BY <1>1, <2>10 DEF TypeOK, LeaveClearRoute
  <2> QED BY <1>15, <2>1, <2>2, <2>3, <2>4, <2>5, <2>6, <2>7, <2>8, <2>9, <2>10 DEF
     LeaveStep
<1>16. ASSUME NEW c \in Ctx, WriteStep(c) PROVE TypeOK'
  <2>1. CASE WriteTryLock(c)
    BY <1>1, <2>1 DEF TypeOK, WriteTryLock
  <2>2. CASE WriteContended(c)
    BY <1>1, <2>2 DEF TypeOK, WriteContended
  <2>3. CASE WriteRefused(c)
    BY <1>1, <2>3 DEF TypeOK, WriteRefused
  <2>4. CASE WriteNotOwned(c)
    BY <1>1, <2>4 DEF TypeOK, WriteNotOwned
  <2>5. CASE WriteLeaseCheck(c)
    BY <1>1, <2>5 DEF TypeOK, WriteLeaseCheck
  <2>6. CASE WriteDeferredCheck(c)
    BY <1>1, <2>6 DEF TypeOK, WriteDeferredCheck
  <2>7. CASE WriteStart(c)
    BY <1>1, <2>7 DEF TypeOK, WriteStart
  <2>8. CASE WriteAfterFault(c)
    BY <1>1, <2>8 DEF TypeOK, WriteAfterFault
  <2>9. CASE WriteFinish(c)
    BY <1>1, <2>9 DEF TypeOK, WriteFinish
  <2>10. CASE WriteResult(c)
    BY <1>1, <2>10 DEF TypeOK, WriteResult
  <2>11. CASE WriteUnlock(c)
    BY <1>1, <2>11 DEF TypeOK, WriteUnlock
  <2> QED BY <1>16, <2>1, <2>2, <2>3, <2>4, <2>5, <2>6, <2>7, <2>8, <2>9, <2>10, <2>11
     DEF WriteStep
<1>17. ASSUME NEW c \in Ctx, UartStep(c) PROVE TypeOK'
  <2>1. CASE UartGuard(c)
    BY <1>1, <2>1 DEF TypeOK, UartGuard
  <2>2. CASE UartRefused(c)
    BY <1>1, <2>2 DEF TypeOK, UartRefused
  <2>3. CASE UartFlags(c)
    BY <1>1, <2>3 DEF TypeOK, UartFlags
  <2>4. CASE UartMux(c)
    BY <1>1, <2>4 DEF TypeOK, UartMux
  <2>5. CASE UartPublish(c)
    BY <1>1, <2>5 DEF TypeOK, UartPublish
  <2>6. CASE UartUnlock(c)
    BY <1>1, <2>6 DEF TypeOK, UartUnlock
  <2> QED BY <1>17, <2>1, <2>2, <2>3, <2>4, <2>5, <2>6 DEF UartStep
<1> QED BY <1>10, <1>11, <1>12, <1>13, <1>14, <1>15, <1>16, <1>17 DEF Next, Step

\* A step never forgets the call of a context that initialises.
LEMMA InitCallInvStep == IInv /\ [Next]_vars => InitCallInv'
<1> SUFFICES ASSUME IInv, [Next]_vars PROVE InitCallInv'
    OBVIOUS
<1>1. TypeOK
    BY DEF IInv
<1>2. InitCallInv
    BY DEF IInv
<1>3. InitLockInv
    BY DEF IInv
<1>4. UninitInv
    BY DEF IInv
<1>5. LockInv
    BY DEF IInv
<1>6. PortInv
    BY DEF IInv
<1>7. WriterInv
    BY DEF IInv
<1>8. HistoryInv
    BY DEF IInv
<1>9. RefusedInv
    BY DEF IInv
<1> USE LevelsAssumption, MaxGenAssumption, CallsAssumption
<1>10. CASE UNCHANGED vars
    BY <1>1, <1>2, <1>10 DEF TypeOK, InitCallInv
<1>11. ASSUME NEW c \in Ctx, Call(c) PROVE InitCallInv'
    BY <1>1, <1>2, <1>11 DEF TypeOK, InitCallInv, Call
<1>12. ASSUME NEW c \in Ctx, UartClose(c) PROVE InitCallInv'
    BY <1>1, <1>2, <1>12 DEF TypeOK, InitCallInv, UartClose
<1>13. ASSUME NEW c \in Ctx, InitStep(c) PROVE InitCallInv'
  <2>1. CASE InitCheck(c)
    BY <1>1, <1>2, <2>1 DEF TypeOK, InitCallInv, InitCheck
  <2>2. CASE InitTryLock(c)
    BY <1>1, <1>2, <2>2 DEF TypeOK, InitCallInv, InitTryLock
  <2>3. CASE InitRecheck(c)
    BY <1>1, <1>2, <2>3 DEF TypeOK, InitCallInv, InitRecheck
  <2>4. CASE InitReset(c)
    BY <1>1, <1>2, <1>3, <1>4, <2>4 DEF TypeOK, InitCallInv, InitLockInv, UninitInv,
       InitReset
  <2>5. CASE InitPublish(c)
    BY <1>1, <1>2, <1>3, <1>4, <2>5 DEF TypeOK, InitCallInv, InitLockInv, UninitInv,
       InitPublish
  <2>6. CASE InitUnlock(c)
    BY <1>1, <1>2, <2>6 DEF TypeOK, InitCallInv, InitUnlock
  <2>7. CASE InitDone(c)
    <3>1. First[call[c]] \in {"e_begin", "l_lock", "w_lock", "u_guard"}
      BY <1>2, <2>7, FirstPc DEF InitCallInv, InitDone
    <3> QED BY <1>1, <1>2, <2>7, <3>1 DEF TypeOK, InitCallInv, InitDone
  <2>8. CASE InitRefused(c)
    BY <1>1, <1>2, <2>8 DEF TypeOK, InitCallInv, InitRefused
  <2> QED BY <1>13, <2>1, <2>2, <2>3, <2>4, <2>5, <2>6, <2>7, <2>8 DEF InitStep
<1>14. ASSUME NEW c \in Ctx, EnterStep(c) PROVE InitCallInv'
  <2>1. CASE EntryContended(c)
    BY <1>1, <1>2, <2>1 DEF TypeOK, InitCallInv, EntryContended
  <2>2. CASE EntryOwned(c)
    BY <1>1, <1>2, <2>2 DEF TypeOK, InitCallInv, EntryOwned
  <2>3. CASE EntryBegun(c)
    BY <1>1, <1>2, <2>3 DEF TypeOK, InitCallInv, EntryBegun
  <2>4. CASE EnterRefused(c)
    BY <1>1, <1>2, <2>4 DEF TypeOK, InitCallInv, EnterRefused
  <2>5. CASE EnterGeneration(c)
    BY <1>1, <1>2, <2>5 DEF TypeOK, InitCallInv, EnterGeneration
  <2>6. CASE EpochsExhausted(c)
    BY <1>1, <1>2, <2>6 DEF TypeOK, InitCallInv, EpochsExhausted
  <2>7. CASE EnterUartCheck(c)
    BY <1>1, <1>2, <2>7 DEF TypeOK, InitCallInv, EnterUartCheck
  <2>8. CASE EnterReleasePins(c)
    BY <1>1, <1>2, <2>8 DEF TypeOK, InitCallInv, EnterReleasePins
  <2>9. CASE EnterPeerReady(c)
    BY <1>1, <1>2, <2>9 DEF TypeOK, InitCallInv, EnterPeerReady
  <2>10. CASE EnterPeerNotReady(c)
    BY <1>1, <1>2, <2>10 DEF TypeOK, InitCallInv, EnterPeerNotReady
  <2>11. CASE EnterDeferredCheck(c)
    BY <1>1, <1>2, <2>11 DEF TypeOK, InitCallInv, EnterDeferredCheck
  <2>12. CASE EnterDrivePins(c)
    BY <1>1, <1>2, <2>12 DEF TypeOK, InitCallInv, EnterDrivePins
  <2>13. CASE EnterEngineOpen(c)
    BY <1>1, <1>2, <2>13 DEF TypeOK, InitCallInv, EnterEngineOpen
  <2>14. CASE EnterPublishOk(c)
    BY <1>1, <1>2, <2>14 DEF TypeOK, InitCallInv, EnterPublishOk
  <2>15. CASE CommitEpoch(c)
    BY <1>1, <1>2, <2>15 DEF TypeOK, InitCallInv, CommitEpoch, Commit
  <2>16. CASE CommitRoute(c)
    BY <1>1, <1>2, <2>16 DEF TypeOK, InitCallInv, CommitRoute, Commit
  <2>17. CASE CommitAborted(c)
    BY <1>1, <1>2, <2>17 DEF TypeOK, InitCallInv, CommitAborted
  <2>18. CASE EnterPublishRoute(c)
    BY <1>1, <1>2, <2>18 DEF TypeOK, InitCallInv, EnterPublishRoute
  <2>19. CASE EnterCloseEngine(c)
    BY <1>1, <1>2, <2>19 DEF TypeOK, InitCallInv, EnterCloseEngine
  <2>20. CASE EnterUnpin(c)
    BY <1>1, <1>2, <2>20 DEF TypeOK, InitCallInv, EnterUnpin
  <2>21. CASE EnterFail(c)
    BY <1>1, <1>2, <2>21 DEF TypeOK, InitCallInv, EnterFail
  <2>22. CASE EnterUnlock(c)
    BY <1>1, <1>2, <2>22 DEF TypeOK, InitCallInv, EnterUnlock
  <2> QED BY <1>14, <2>1, <2>2, <2>3, <2>4, <2>5, <2>6, <2>7, <2>8, <2>9, <2>10,
     <2>11, <2>12, <2>13, <2>14, <2>15, <2>16, <2>17, <2>18, <2>19, <2>20, <2>21,
     <2>22 DEF EnterStep
<1>15. ASSUME NEW c \in Ctx, LeaveStep(c) PROVE InitCallInv'
  <2>1. CASE LeaveTryLock(c)
    BY <1>1, <1>2, <2>1 DEF TypeOK, InitCallInv, LeaveTryLock
  <2>2. CASE LeaveContended(c)
    BY <1>1, <1>2, <2>2 DEF TypeOK, InitCallInv, LeaveContended
  <2>3. CASE LeaveRevoke(c)
    BY <1>1, <1>2, <2>3 DEF TypeOK, InitCallInv, LeaveRevoke
  <2>4. CASE LeaveNothing(c)
    BY <1>1, <1>2, <2>4 DEF TypeOK, InitCallInv, LeaveNothing
  <2>5. CASE LeaveCloseEngine(c)
    BY <1>1, <1>2, <2>5 DEF TypeOK, InitCallInv, LeaveCloseEngine
  <2>6. CASE LeaveReleasePins(c)
    BY <1>1, <1>2, <2>6 DEF TypeOK, InitCallInv, LeaveReleasePins
  <2>7. CASE LeaveResult(c)
    BY <1>1, <1>2, <2>7 DEF TypeOK, InitCallInv, LeaveResult
  <2>8. CASE LeaveUnlock(c)
    BY <1>1, <1>2, <2>8 DEF TypeOK, InitCallInv, LeaveUnlock
  <2>9. CASE LeaveUnlockRoute(c)
    BY <1>1, <1>2, <2>9 DEF TypeOK, InitCallInv, LeaveUnlockRoute
  <2>10. CASE LeaveClearRoute(c)
    BY <1>1, <1>2, <2>10 DEF TypeOK, InitCallInv, LeaveClearRoute
  <2> QED BY <1>15, <2>1, <2>2, <2>3, <2>4, <2>5, <2>6, <2>7, <2>8, <2>9, <2>10 DEF
     LeaveStep
<1>16. ASSUME NEW c \in Ctx, WriteStep(c) PROVE InitCallInv'
  <2>1. CASE WriteTryLock(c)
    BY <1>1, <1>2, <2>1 DEF TypeOK, InitCallInv, WriteTryLock
  <2>2. CASE WriteContended(c)
    BY <1>1, <1>2, <2>2 DEF TypeOK, InitCallInv, WriteContended
  <2>3. CASE WriteRefused(c)
    BY <1>1, <1>2, <2>3 DEF TypeOK, InitCallInv, WriteRefused
  <2>4. CASE WriteNotOwned(c)
    BY <1>1, <1>2, <2>4 DEF TypeOK, InitCallInv, WriteNotOwned
  <2>5. CASE WriteLeaseCheck(c)
    BY <1>1, <1>2, <2>5 DEF TypeOK, InitCallInv, WriteLeaseCheck
  <2>6. CASE WriteDeferredCheck(c)
    BY <1>1, <1>2, <2>6 DEF TypeOK, InitCallInv, WriteDeferredCheck
  <2>7. CASE WriteStart(c)
    BY <1>1, <1>2, <2>7 DEF TypeOK, InitCallInv, WriteStart
  <2>8. CASE WriteAfterFault(c)
    BY <1>1, <1>2, <2>8 DEF TypeOK, InitCallInv, WriteAfterFault
  <2>9. CASE WriteFinish(c)
    BY <1>1, <1>2, <2>9 DEF TypeOK, InitCallInv, WriteFinish
  <2>10. CASE WriteResult(c)
    BY <1>1, <1>2, <2>10 DEF TypeOK, InitCallInv, WriteResult
  <2>11. CASE WriteUnlock(c)
    BY <1>1, <1>2, <2>11 DEF TypeOK, InitCallInv, WriteUnlock
  <2> QED BY <1>16, <2>1, <2>2, <2>3, <2>4, <2>5, <2>6, <2>7, <2>8, <2>9, <2>10, <2>11
     DEF WriteStep
<1>17. ASSUME NEW c \in Ctx, UartStep(c) PROVE InitCallInv'
  <2>1. CASE UartGuard(c)
    BY <1>1, <1>2, <2>1 DEF TypeOK, InitCallInv, UartGuard
  <2>2. CASE UartRefused(c)
    BY <1>1, <1>2, <2>2 DEF TypeOK, InitCallInv, UartRefused
  <2>3. CASE UartFlags(c)
    BY <1>1, <1>2, <2>3 DEF TypeOK, InitCallInv, UartFlags
  <2>4. CASE UartMux(c)
    BY <1>1, <1>2, <2>4 DEF TypeOK, InitCallInv, UartMux
  <2>5. CASE UartPublish(c)
    BY <1>1, <1>2, <2>5 DEF TypeOK, InitCallInv, UartPublish
  <2>6. CASE UartUnlock(c)
    BY <1>1, <1>2, <2>6 DEF TypeOK, InitCallInv, UartUnlock
  <2> QED BY <1>17, <2>1, <2>2, <2>3, <2>4, <2>5, <2>6 DEF UartStep
<1> QED BY <1>10, <1>11, <1>12, <1>13, <1>14, <1>15, <1>16, <1>17 DEF Next, Step

\* The lock of emos_parallel_ensure_initialized stays a mutex, and what it guards
\* stays unready until it is published.
LEMMA InitLockInvStep == IInv /\ [Next]_vars => InitLockInv'
<1> SUFFICES ASSUME IInv, [Next]_vars PROVE InitLockInv'
    OBVIOUS
<1>1. TypeOK
    BY DEF IInv
<1>2. InitCallInv
    BY DEF IInv
<1>3. InitLockInv
    BY DEF IInv
<1>4. UninitInv
    BY DEF IInv
<1>5. LockInv
    BY DEF IInv
<1>6. PortInv
    BY DEF IInv
<1>7. WriterInv
    BY DEF IInv
<1>8. HistoryInv
    BY DEF IInv
<1>9. RefusedInv
    BY DEF IInv
<1> USE LevelsAssumption, MaxGenAssumption, CallsAssumption
<1>10. CASE UNCHANGED vars
    BY <1>1, <1>3, <1>10 DEF TypeOK, InitLockInv
<1>11. ASSUME NEW c \in Ctx, Call(c) PROVE InitLockInv'
    BY <1>1, <1>3, <1>11 DEF TypeOK, InitLockInv, Call
<1>12. ASSUME NEW c \in Ctx, UartClose(c) PROVE InitLockInv'
    BY <1>1, <1>3, <1>12 DEF TypeOK, InitLockInv, UartClose
<1>13. ASSUME NEW c \in Ctx, InitStep(c) PROVE InitLockInv'
  <2>1. CASE InitCheck(c)
    BY <1>1, <1>3, <2>1 DEF TypeOK, InitLockInv, InitCheck
  <2>2. CASE InitTryLock(c)
    BY <1>1, <1>3, <2>2 DEF TypeOK, InitLockInv, InitTryLock
  <2>3. CASE InitRecheck(c)
    BY <1>1, <1>3, <2>3 DEF TypeOK, InitLockInv, InitRecheck
  <2>4. CASE InitReset(c)
    BY <1>1, <1>3, <1>4, <2>4 DEF TypeOK, InitLockInv, UninitInv, InitReset
  <2>5. CASE InitPublish(c)
    BY <1>1, <1>3, <1>4, <2>5 DEF TypeOK, InitLockInv, UninitInv, InitPublish
  <2>6. CASE InitUnlock(c)
    BY <1>1, <1>3, <2>6 DEF TypeOK, InitLockInv, InitUnlock
  <2>7. CASE InitDone(c)
    <3>1. First[call[c]] \in {"e_begin", "l_lock", "w_lock", "u_guard"}
      BY <1>2, <2>7, FirstPc DEF InitCallInv, InitDone
    <3> QED BY <1>1, <1>3, <2>7, <3>1 DEF TypeOK, InitLockInv, InitDone
  <2>8. CASE InitRefused(c)
    BY <1>1, <1>3, <2>8 DEF TypeOK, InitLockInv, InitRefused
  <2> QED BY <1>13, <2>1, <2>2, <2>3, <2>4, <2>5, <2>6, <2>7, <2>8 DEF InitStep
<1>14. ASSUME NEW c \in Ctx, EnterStep(c) PROVE InitLockInv'
  <2>1. CASE EntryContended(c)
    BY <1>1, <1>3, <2>1 DEF TypeOK, InitLockInv, EntryContended
  <2>2. CASE EntryOwned(c)
    BY <1>1, <1>3, <2>2 DEF TypeOK, InitLockInv, EntryOwned
  <2>3. CASE EntryBegun(c)
    BY <1>1, <1>3, <2>3 DEF TypeOK, InitLockInv, EntryBegun
  <2>4. CASE EnterRefused(c)
    BY <1>1, <1>3, <2>4 DEF TypeOK, InitLockInv, EnterRefused
  <2>5. CASE EnterGeneration(c)
    BY <1>1, <1>3, <2>5 DEF TypeOK, InitLockInv, EnterGeneration
  <2>6. CASE EpochsExhausted(c)
    BY <1>1, <1>3, <2>6 DEF TypeOK, InitLockInv, EpochsExhausted
  <2>7. CASE EnterUartCheck(c)
    BY <1>1, <1>3, <2>7 DEF TypeOK, InitLockInv, EnterUartCheck
  <2>8. CASE EnterReleasePins(c)
    BY <1>1, <1>3, <2>8 DEF TypeOK, InitLockInv, EnterReleasePins
  <2>9. CASE EnterPeerReady(c)
    BY <1>1, <1>3, <2>9 DEF TypeOK, InitLockInv, EnterPeerReady
  <2>10. CASE EnterPeerNotReady(c)
    BY <1>1, <1>3, <2>10 DEF TypeOK, InitLockInv, EnterPeerNotReady
  <2>11. CASE EnterDeferredCheck(c)
    BY <1>1, <1>3, <2>11 DEF TypeOK, InitLockInv, EnterDeferredCheck
  <2>12. CASE EnterDrivePins(c)
    BY <1>1, <1>3, <2>12 DEF TypeOK, InitLockInv, EnterDrivePins
  <2>13. CASE EnterEngineOpen(c)
    BY <1>1, <1>3, <2>13 DEF TypeOK, InitLockInv, EnterEngineOpen
  <2>14. CASE EnterPublishOk(c)
    BY <1>1, <1>3, <2>14 DEF TypeOK, InitLockInv, EnterPublishOk
  <2>15. CASE CommitEpoch(c)
    BY <1>1, <1>3, <2>15 DEF TypeOK, InitLockInv, CommitEpoch, Commit
  <2>16. CASE CommitRoute(c)
    BY <1>1, <1>3, <2>16 DEF TypeOK, InitLockInv, CommitRoute, Commit
  <2>17. CASE CommitAborted(c)
    BY <1>1, <1>3, <2>17 DEF TypeOK, InitLockInv, CommitAborted
  <2>18. CASE EnterPublishRoute(c)
    BY <1>1, <1>3, <2>18 DEF TypeOK, InitLockInv, EnterPublishRoute
  <2>19. CASE EnterCloseEngine(c)
    BY <1>1, <1>3, <2>19 DEF TypeOK, InitLockInv, EnterCloseEngine
  <2>20. CASE EnterUnpin(c)
    BY <1>1, <1>3, <2>20 DEF TypeOK, InitLockInv, EnterUnpin
  <2>21. CASE EnterFail(c)
    BY <1>1, <1>3, <2>21 DEF TypeOK, InitLockInv, EnterFail
  <2>22. CASE EnterUnlock(c)
    BY <1>1, <1>3, <2>22 DEF TypeOK, InitLockInv, EnterUnlock
  <2> QED BY <1>14, <2>1, <2>2, <2>3, <2>4, <2>5, <2>6, <2>7, <2>8, <2>9, <2>10,
     <2>11, <2>12, <2>13, <2>14, <2>15, <2>16, <2>17, <2>18, <2>19, <2>20, <2>21,
     <2>22 DEF EnterStep
<1>15. ASSUME NEW c \in Ctx, LeaveStep(c) PROVE InitLockInv'
  <2>1. CASE LeaveTryLock(c)
    BY <1>1, <1>3, <2>1 DEF TypeOK, InitLockInv, LeaveTryLock
  <2>2. CASE LeaveContended(c)
    BY <1>1, <1>3, <2>2 DEF TypeOK, InitLockInv, LeaveContended
  <2>3. CASE LeaveRevoke(c)
    BY <1>1, <1>3, <2>3 DEF TypeOK, InitLockInv, LeaveRevoke
  <2>4. CASE LeaveNothing(c)
    BY <1>1, <1>3, <2>4 DEF TypeOK, InitLockInv, LeaveNothing
  <2>5. CASE LeaveCloseEngine(c)
    BY <1>1, <1>3, <2>5 DEF TypeOK, InitLockInv, LeaveCloseEngine
  <2>6. CASE LeaveReleasePins(c)
    BY <1>1, <1>3, <2>6 DEF TypeOK, InitLockInv, LeaveReleasePins
  <2>7. CASE LeaveResult(c)
    BY <1>1, <1>3, <2>7 DEF TypeOK, InitLockInv, LeaveResult
  <2>8. CASE LeaveUnlock(c)
    BY <1>1, <1>3, <2>8 DEF TypeOK, InitLockInv, LeaveUnlock
  <2>9. CASE LeaveUnlockRoute(c)
    BY <1>1, <1>3, <2>9 DEF TypeOK, InitLockInv, LeaveUnlockRoute
  <2>10. CASE LeaveClearRoute(c)
    BY <1>1, <1>3, <2>10 DEF TypeOK, InitLockInv, LeaveClearRoute
  <2> QED BY <1>15, <2>1, <2>2, <2>3, <2>4, <2>5, <2>6, <2>7, <2>8, <2>9, <2>10 DEF
     LeaveStep
<1>16. ASSUME NEW c \in Ctx, WriteStep(c) PROVE InitLockInv'
  <2>1. CASE WriteTryLock(c)
    BY <1>1, <1>3, <2>1 DEF TypeOK, InitLockInv, WriteTryLock
  <2>2. CASE WriteContended(c)
    BY <1>1, <1>3, <2>2 DEF TypeOK, InitLockInv, WriteContended
  <2>3. CASE WriteRefused(c)
    BY <1>1, <1>3, <2>3 DEF TypeOK, InitLockInv, WriteRefused
  <2>4. CASE WriteNotOwned(c)
    BY <1>1, <1>3, <2>4 DEF TypeOK, InitLockInv, WriteNotOwned
  <2>5. CASE WriteLeaseCheck(c)
    BY <1>1, <1>3, <2>5 DEF TypeOK, InitLockInv, WriteLeaseCheck
  <2>6. CASE WriteDeferredCheck(c)
    BY <1>1, <1>3, <2>6 DEF TypeOK, InitLockInv, WriteDeferredCheck
  <2>7. CASE WriteStart(c)
    BY <1>1, <1>3, <2>7 DEF TypeOK, InitLockInv, WriteStart
  <2>8. CASE WriteAfterFault(c)
    BY <1>1, <1>3, <2>8 DEF TypeOK, InitLockInv, WriteAfterFault
  <2>9. CASE WriteFinish(c)
    BY <1>1, <1>3, <2>9 DEF TypeOK, InitLockInv, WriteFinish
  <2>10. CASE WriteResult(c)
    BY <1>1, <1>3, <2>10 DEF TypeOK, InitLockInv, WriteResult
  <2>11. CASE WriteUnlock(c)
    BY <1>1, <1>3, <2>11 DEF TypeOK, InitLockInv, WriteUnlock
  <2> QED BY <1>16, <2>1, <2>2, <2>3, <2>4, <2>5, <2>6, <2>7, <2>8, <2>9, <2>10, <2>11
     DEF WriteStep
<1>17. ASSUME NEW c \in Ctx, UartStep(c) PROVE InitLockInv'
  <2>1. CASE UartGuard(c)
    BY <1>1, <1>3, <2>1 DEF TypeOK, InitLockInv, UartGuard
  <2>2. CASE UartRefused(c)
    BY <1>1, <1>3, <2>2 DEF TypeOK, InitLockInv, UartRefused
  <2>3. CASE UartFlags(c)
    BY <1>1, <1>3, <2>3 DEF TypeOK, InitLockInv, UartFlags
  <2>4. CASE UartMux(c)
    BY <1>1, <1>3, <2>4 DEF TypeOK, InitLockInv, UartMux
  <2>5. CASE UartPublish(c)
    BY <1>1, <1>3, <2>5 DEF TypeOK, InitLockInv, UartPublish
  <2>6. CASE UartUnlock(c)
    BY <1>1, <1>3, <2>6 DEF TypeOK, InitLockInv, UartUnlock
  <2> QED BY <1>17, <2>1, <2>2, <2>3, <2>4, <2>5, <2>6 DEF UartStep
<1> QED BY <1>10, <1>11, <1>12, <1>13, <1>14, <1>15, <1>16, <1>17 DEF Next, Step

\* Until readiness is published nothing is entered, owned or driven.
LEMMA UninitInvStep == IInv /\ [Next]_vars => UninitInv'
<1> SUFFICES ASSUME IInv, [Next]_vars PROVE UninitInv'
    OBVIOUS
<1>1. TypeOK
    BY DEF IInv
<1>2. InitCallInv
    BY DEF IInv
<1>3. InitLockInv
    BY DEF IInv
<1>4. UninitInv
    BY DEF IInv
<1>5. LockInv
    BY DEF IInv
<1>6. PortInv
    BY DEF IInv
<1>7. WriterInv
    BY DEF IInv
<1>8. HistoryInv
    BY DEF IInv
<1>9. RefusedInv
    BY DEF IInv
<1> USE LevelsAssumption, MaxGenAssumption, CallsAssumption
<1>10. CASE UNCHANGED vars
    BY <1>1, <1>4, <1>10 DEF TypeOK, UninitInv
<1>11. ASSUME NEW c \in Ctx, Call(c) PROVE UninitInv'
    BY <1>1, <1>4, <1>11 DEF TypeOK, UninitInv, Call
<1>12. ASSUME NEW c \in Ctx, UartClose(c) PROVE UninitInv'
    BY <1>1, <1>4, <1>12 DEF TypeOK, UninitInv, UartClose
<1>13. ASSUME NEW c \in Ctx, InitStep(c) PROVE UninitInv'
  <2>1. CASE InitCheck(c)
    BY <1>1, <1>4, <2>1 DEF TypeOK, UninitInv, InitCheck
  <2>2. CASE InitTryLock(c)
    BY <1>1, <1>4, <2>2 DEF TypeOK, UninitInv, InitTryLock
  <2>3. CASE InitRecheck(c)
    BY <1>1, <1>4, <2>3 DEF TypeOK, UninitInv, InitRecheck
  <2>4. CASE InitReset(c)
    BY <1>1, <1>3, <1>4, <2>4 DEF TypeOK, InitLockInv, UninitInv, InitReset
  <2>5. CASE InitPublish(c)
    BY <1>1, <1>3, <1>4, <2>5 DEF TypeOK, InitLockInv, UninitInv, InitPublish
  <2>6. CASE InitUnlock(c)
    BY <1>1, <1>4, <2>6 DEF TypeOK, UninitInv, InitUnlock
  <2>7. CASE InitDone(c)
    <3>1. First[call[c]] \in {"e_begin", "l_lock", "w_lock", "u_guard"}
      BY <1>2, <2>7, FirstPc DEF InitCallInv, InitDone
    <3> QED BY <1>1, <1>4, <2>7, <3>1 DEF TypeOK, UninitInv, InitDone
  <2>8. CASE InitRefused(c)
    BY <1>1, <1>4, <2>8 DEF TypeOK, UninitInv, InitRefused
  <2> QED BY <1>13, <2>1, <2>2, <2>3, <2>4, <2>5, <2>6, <2>7, <2>8 DEF InitStep
<1>14. ASSUME NEW c \in Ctx, EnterStep(c) PROVE UninitInv'
  <2>1. CASE EntryContended(c)
    BY <1>1, <1>4, <2>1 DEF TypeOK, UninitInv, EntryContended
  <2>2. CASE EntryOwned(c)
    BY <1>1, <1>4, <2>2 DEF TypeOK, UninitInv, EntryOwned
  <2>3. CASE EntryBegun(c)
    BY <1>1, <1>4, <2>3 DEF TypeOK, UninitInv, EntryBegun
  <2>4. CASE EnterRefused(c)
    BY <1>1, <1>4, <2>4 DEF TypeOK, UninitInv, EnterRefused
  <2>5. CASE EnterGeneration(c)
    BY <1>1, <1>4, <2>5 DEF TypeOK, UninitInv, EnterGeneration
  <2>6. CASE EpochsExhausted(c)
    BY <1>1, <1>4, <2>6 DEF TypeOK, UninitInv, EpochsExhausted
  <2>7. CASE EnterUartCheck(c)
    BY <1>1, <1>4, <2>7 DEF TypeOK, UninitInv, EnterUartCheck
  <2>8. CASE EnterReleasePins(c)
    BY <1>1, <1>4, <2>8 DEF TypeOK, UninitInv, EnterReleasePins
  <2>9. CASE EnterPeerReady(c)
    BY <1>1, <1>4, <2>9 DEF TypeOK, UninitInv, EnterPeerReady
  <2>10. CASE EnterPeerNotReady(c)
    BY <1>1, <1>4, <2>10 DEF TypeOK, UninitInv, EnterPeerNotReady
  <2>11. CASE EnterDeferredCheck(c)
    BY <1>1, <1>4, <2>11 DEF TypeOK, UninitInv, EnterDeferredCheck
  <2>12. CASE EnterDrivePins(c)
    BY <1>1, <1>4, <2>12 DEF TypeOK, UninitInv, EnterDrivePins
  <2>13. CASE EnterEngineOpen(c)
    BY <1>1, <1>4, <2>13 DEF TypeOK, UninitInv, EnterEngineOpen
  <2>14. CASE EnterPublishOk(c)
    BY <1>1, <1>4, <2>14 DEF TypeOK, UninitInv, EnterPublishOk
  <2>15. CASE CommitEpoch(c)
    BY <1>1, <1>4, <2>15 DEF TypeOK, UninitInv, CommitEpoch, Commit
  <2>16. CASE CommitRoute(c)
    BY <1>1, <1>4, <2>16 DEF TypeOK, UninitInv, CommitRoute, Commit
  <2>17. CASE CommitAborted(c)
    BY <1>1, <1>4, <2>17 DEF TypeOK, UninitInv, CommitAborted
  <2>18. CASE EnterPublishRoute(c)
    BY <1>1, <1>4, <2>18 DEF TypeOK, UninitInv, EnterPublishRoute
  <2>19. CASE EnterCloseEngine(c)
    BY <1>1, <1>4, <2>19 DEF TypeOK, UninitInv, EnterCloseEngine
  <2>20. CASE EnterUnpin(c)
    BY <1>1, <1>4, <2>20 DEF TypeOK, UninitInv, EnterUnpin
  <2>21. CASE EnterFail(c)
    BY <1>1, <1>4, <2>21 DEF TypeOK, UninitInv, EnterFail
  <2>22. CASE EnterUnlock(c)
    BY <1>1, <1>4, <2>22 DEF TypeOK, UninitInv, EnterUnlock
  <2> QED BY <1>14, <2>1, <2>2, <2>3, <2>4, <2>5, <2>6, <2>7, <2>8, <2>9, <2>10,
     <2>11, <2>12, <2>13, <2>14, <2>15, <2>16, <2>17, <2>18, <2>19, <2>20, <2>21,
     <2>22 DEF EnterStep
<1>15. ASSUME NEW c \in Ctx, LeaveStep(c) PROVE UninitInv'
  <2>1. CASE LeaveTryLock(c)
    BY <1>1, <1>4, <2>1 DEF TypeOK, UninitInv, LeaveTryLock
  <2>2. CASE LeaveContended(c)
    BY <1>1, <1>4, <2>2 DEF TypeOK, UninitInv, LeaveContended
  <2>3. CASE LeaveRevoke(c)
    BY <1>1, <1>4, <2>3 DEF TypeOK, UninitInv, LeaveRevoke
  <2>4. CASE LeaveNothing(c)
    BY <1>1, <1>4, <2>4 DEF TypeOK, UninitInv, LeaveNothing
  <2>5. CASE LeaveCloseEngine(c)
    BY <1>1, <1>4, <2>5 DEF TypeOK, UninitInv, LeaveCloseEngine
  <2>6. CASE LeaveReleasePins(c)
    BY <1>1, <1>4, <2>6 DEF TypeOK, UninitInv, LeaveReleasePins
  <2>7. CASE LeaveResult(c)
    BY <1>1, <1>4, <2>7 DEF TypeOK, UninitInv, LeaveResult
  <2>8. CASE LeaveUnlock(c)
    BY <1>1, <1>4, <2>8 DEF TypeOK, UninitInv, LeaveUnlock
  <2>9. CASE LeaveUnlockRoute(c)
    BY <1>1, <1>4, <2>9 DEF TypeOK, UninitInv, LeaveUnlockRoute
  <2>10. CASE LeaveClearRoute(c)
    BY <1>1, <1>4, <2>10 DEF TypeOK, UninitInv, LeaveClearRoute
  <2> QED BY <1>15, <2>1, <2>2, <2>3, <2>4, <2>5, <2>6, <2>7, <2>8, <2>9, <2>10 DEF
     LeaveStep
<1>16. ASSUME NEW c \in Ctx, WriteStep(c) PROVE UninitInv'
  <2>1. CASE WriteTryLock(c)
    BY <1>1, <1>4, <2>1 DEF TypeOK, UninitInv, WriteTryLock
  <2>2. CASE WriteContended(c)
    BY <1>1, <1>4, <2>2 DEF TypeOK, UninitInv, WriteContended
  <2>3. CASE WriteRefused(c)
    BY <1>1, <1>4, <2>3 DEF TypeOK, UninitInv, WriteRefused
  <2>4. CASE WriteNotOwned(c)
    BY <1>1, <1>4, <2>4 DEF TypeOK, UninitInv, WriteNotOwned
  <2>5. CASE WriteLeaseCheck(c)
    BY <1>1, <1>4, <2>5 DEF TypeOK, UninitInv, WriteLeaseCheck
  <2>6. CASE WriteDeferredCheck(c)
    BY <1>1, <1>4, <2>6 DEF TypeOK, UninitInv, WriteDeferredCheck
  <2>7. CASE WriteStart(c)
    BY <1>1, <1>4, <2>7 DEF TypeOK, UninitInv, WriteStart
  <2>8. CASE WriteAfterFault(c)
    BY <1>1, <1>4, <2>8 DEF TypeOK, UninitInv, WriteAfterFault
  <2>9. CASE WriteFinish(c)
    BY <1>1, <1>4, <2>9 DEF TypeOK, UninitInv, WriteFinish
  <2>10. CASE WriteResult(c)
    BY <1>1, <1>4, <2>10 DEF TypeOK, UninitInv, WriteResult
  <2>11. CASE WriteUnlock(c)
    BY <1>1, <1>4, <2>11 DEF TypeOK, UninitInv, WriteUnlock
  <2> QED BY <1>16, <2>1, <2>2, <2>3, <2>4, <2>5, <2>6, <2>7, <2>8, <2>9, <2>10, <2>11
     DEF WriteStep
<1>17. ASSUME NEW c \in Ctx, UartStep(c) PROVE UninitInv'
  <2>1. CASE UartGuard(c)
    BY <1>1, <1>4, <2>1 DEF TypeOK, UninitInv, UartGuard
  <2>2. CASE UartRefused(c)
    BY <1>1, <1>4, <2>2 DEF TypeOK, UninitInv, UartRefused
  <2>3. CASE UartFlags(c)
    BY <1>1, <1>4, <2>3 DEF TypeOK, UninitInv, UartFlags
  <2>4. CASE UartMux(c)
    BY <1>1, <1>4, <2>4 DEF TypeOK, UninitInv, UartMux
  <2>5. CASE UartPublish(c)
    BY <1>1, <1>4, <2>5 DEF TypeOK, UninitInv, UartPublish
  <2>6. CASE UartUnlock(c)
    BY <1>1, <1>4, <2>6 DEF TypeOK, UninitInv, UartUnlock
  <2> QED BY <1>17, <2>1, <2>2, <2>3, <2>4, <2>5, <2>6 DEF UartStep
<1> QED BY <1>10, <1>11, <1>12, <1>13, <1>14, <1>15, <1>16, <1>17 DEF Next, Step

\* The byte lock stays a mutex, and a lock that is taken has a holder.
LEMMA LockInvStep == IInv /\ [Next]_vars => LockInv'
<1> SUFFICES ASSUME IInv, [Next]_vars PROVE LockInv'
    OBVIOUS
<1>1. TypeOK
    BY DEF IInv
<1>2. InitCallInv
    BY DEF IInv
<1>3. InitLockInv
    BY DEF IInv
<1>4. UninitInv
    BY DEF IInv
<1>5. LockInv
    BY DEF IInv
<1>6. PortInv
    BY DEF IInv
<1>7. WriterInv
    BY DEF IInv
<1>8. HistoryInv
    BY DEF IInv
<1>9. RefusedInv
    BY DEF IInv
<1> USE LevelsAssumption, MaxGenAssumption, CallsAssumption
<1>10. CASE UNCHANGED vars
    BY <1>1, <1>5, <1>10 DEF TypeOK, LockInv
<1>11. ASSUME NEW c \in Ctx, Call(c) PROVE LockInv'
    BY <1>1, <1>5, <1>11 DEF TypeOK, LockInv, Call
<1>12. ASSUME NEW c \in Ctx, UartClose(c) PROVE LockInv'
    BY <1>1, <1>5, <1>12 DEF TypeOK, LockInv, UartClose
<1>13. ASSUME NEW c \in Ctx, InitStep(c) PROVE LockInv'
  <2>1. CASE InitCheck(c)
    BY <1>1, <1>5, <2>1 DEF TypeOK, LockInv, InitCheck
  <2>2. CASE InitTryLock(c)
    BY <1>1, <1>5, <2>2 DEF TypeOK, LockInv, InitTryLock
  <2>3. CASE InitRecheck(c)
    BY <1>1, <1>5, <2>3 DEF TypeOK, LockInv, InitRecheck
  <2>4. CASE InitReset(c)
    BY <1>1, <1>3, <1>4, <1>5, <2>4 DEF TypeOK, InitLockInv, UninitInv, LockInv,
       InitReset
  <2>5. CASE InitPublish(c)
    BY <1>1, <1>3, <1>4, <1>5, <2>5 DEF TypeOK, InitLockInv, UninitInv, LockInv,
       InitPublish
  <2>6. CASE InitUnlock(c)
    BY <1>1, <1>5, <2>6 DEF TypeOK, LockInv, InitUnlock
  <2>7. CASE InitDone(c)
    <3>1. First[call[c]] \in {"e_begin", "l_lock", "w_lock", "u_guard"}
      BY <1>2, <2>7, FirstPc DEF InitCallInv, InitDone
    <3> QED BY SMTT(30), <1>1, <1>5, <2>7, <3>1 DEF TypeOK, LockInv, InitDone
  <2>8. CASE InitRefused(c)
    BY <1>1, <1>5, <2>8 DEF TypeOK, LockInv, InitRefused
  <2> QED BY <1>13, <2>1, <2>2, <2>3, <2>4, <2>5, <2>6, <2>7, <2>8 DEF InitStep
<1>14. ASSUME NEW c \in Ctx, EnterStep(c) PROVE LockInv'
  <2>1. CASE EntryContended(c)
    BY SMTT(30), <1>1, <1>5, <2>1 DEF TypeOK, LockInv, EntryContended
  <2>2. CASE EntryOwned(c)
    BY <1>1, <1>5, <2>2 DEF TypeOK, LockInv, EntryOwned
  <2>3. CASE EntryBegun(c)
    BY <1>1, <1>5, <2>3 DEF TypeOK, LockInv, EntryBegun
  <2>4. CASE EnterRefused(c)
    BY <1>1, <1>5, <2>4 DEF TypeOK, LockInv, EnterRefused
  <2>5. CASE EnterGeneration(c)
    BY <1>1, <1>5, <2>5 DEF TypeOK, LockInv, EnterGeneration
  <2>6. CASE EpochsExhausted(c)
    BY <1>1, <1>5, <2>6 DEF TypeOK, LockInv, EpochsExhausted
  <2>7. CASE EnterUartCheck(c)
    BY <1>1, <1>5, <2>7 DEF TypeOK, LockInv, EnterUartCheck
  <2>8. CASE EnterReleasePins(c)
    BY <1>1, <1>5, <2>8 DEF TypeOK, LockInv, EnterReleasePins
  <2>9. CASE EnterPeerReady(c)
    BY <1>1, <1>5, <2>9 DEF TypeOK, LockInv, EnterPeerReady
  <2>10. CASE EnterPeerNotReady(c)
    BY <1>1, <1>5, <2>10 DEF TypeOK, LockInv, EnterPeerNotReady
  <2>11. CASE EnterDeferredCheck(c)
    BY <1>1, <1>5, <2>11 DEF TypeOK, LockInv, EnterDeferredCheck
  <2>12. CASE EnterDrivePins(c)
    BY <1>1, <1>5, <2>12 DEF TypeOK, LockInv, EnterDrivePins
  <2>13. CASE EnterEngineOpen(c)
    BY <1>1, <1>5, <2>13 DEF TypeOK, LockInv, EnterEngineOpen
  <2>14. CASE EnterPublishOk(c)
    BY <1>1, <1>5, <2>14 DEF TypeOK, LockInv, EnterPublishOk
  <2>15. CASE CommitEpoch(c)
    BY <1>1, <1>5, <2>15 DEF TypeOK, LockInv, CommitEpoch, Commit
  <2>16. CASE CommitRoute(c)
    BY <1>1, <1>5, <2>16 DEF TypeOK, LockInv, CommitRoute, Commit
  <2>17. CASE CommitAborted(c)
    BY <1>1, <1>5, <2>17 DEF TypeOK, LockInv, CommitAborted
  <2>18. CASE EnterPublishRoute(c)
    BY <1>1, <1>5, <2>18 DEF TypeOK, LockInv, EnterPublishRoute
  <2>19. CASE EnterCloseEngine(c)
    BY <1>1, <1>5, <2>19 DEF TypeOK, LockInv, EnterCloseEngine
  <2>20. CASE EnterUnpin(c)
    BY <1>1, <1>5, <2>20 DEF TypeOK, LockInv, EnterUnpin
  <2>21. CASE EnterFail(c)
    BY <1>1, <1>5, <2>21 DEF TypeOK, LockInv, EnterFail
  <2>22. CASE EnterUnlock(c)
    BY <1>1, <1>5, <2>22 DEF TypeOK, LockInv, EnterUnlock
  <2> QED BY <1>14, <2>1, <2>2, <2>3, <2>4, <2>5, <2>6, <2>7, <2>8, <2>9, <2>10,
     <2>11, <2>12, <2>13, <2>14, <2>15, <2>16, <2>17, <2>18, <2>19, <2>20, <2>21,
     <2>22 DEF EnterStep
<1>15. ASSUME NEW c \in Ctx, LeaveStep(c) PROVE LockInv'
  <2>1. CASE LeaveTryLock(c)
    BY <1>1, <1>5, <2>1 DEF TypeOK, LockInv, LeaveTryLock
  <2>2. CASE LeaveContended(c)
    BY <1>1, <1>5, <2>2 DEF TypeOK, LockInv, LeaveContended
  <2>3. CASE LeaveRevoke(c)
    BY <1>1, <1>5, <2>3 DEF TypeOK, LockInv, LeaveRevoke
  <2>4. CASE LeaveNothing(c)
    BY <1>1, <1>5, <2>4 DEF TypeOK, LockInv, LeaveNothing
  <2>5. CASE LeaveCloseEngine(c)
    BY <1>1, <1>5, <2>5 DEF TypeOK, LockInv, LeaveCloseEngine
  <2>6. CASE LeaveReleasePins(c)
    BY <1>1, <1>5, <2>6 DEF TypeOK, LockInv, LeaveReleasePins
  <2>7. CASE LeaveResult(c)
    BY <1>1, <1>5, <2>7 DEF TypeOK, LockInv, LeaveResult
  <2>8. CASE LeaveUnlock(c)
    BY <1>1, <1>5, <2>8 DEF TypeOK, LockInv, LeaveUnlock
  <2>9. CASE LeaveUnlockRoute(c)
    BY <1>1, <1>5, <2>9 DEF TypeOK, LockInv, LeaveUnlockRoute
  <2>10. CASE LeaveClearRoute(c)
    BY <1>1, <1>5, <2>10 DEF TypeOK, LockInv, LeaveClearRoute
  <2> QED BY <1>15, <2>1, <2>2, <2>3, <2>4, <2>5, <2>6, <2>7, <2>8, <2>9, <2>10 DEF
     LeaveStep
<1>16. ASSUME NEW c \in Ctx, WriteStep(c) PROVE LockInv'
  <2>1. CASE WriteTryLock(c)
    BY <1>1, <1>5, <2>1 DEF TypeOK, LockInv, WriteTryLock
  <2>2. CASE WriteContended(c)
    BY <1>1, <1>5, <2>2 DEF TypeOK, LockInv, WriteContended
  <2>3. CASE WriteRefused(c)
    BY <1>1, <1>5, <2>3 DEF TypeOK, LockInv, WriteRefused
  <2>4. CASE WriteNotOwned(c)
    BY <1>1, <1>5, <2>4 DEF TypeOK, LockInv, WriteNotOwned
  <2>5. CASE WriteLeaseCheck(c)
    BY <1>1, <1>5, <2>5 DEF TypeOK, LockInv, WriteLeaseCheck
  <2>6. CASE WriteDeferredCheck(c)
    BY <1>1, <1>5, <2>6 DEF TypeOK, LockInv, WriteDeferredCheck
  <2>7. CASE WriteStart(c)
    BY <1>1, <1>5, <2>7 DEF TypeOK, LockInv, WriteStart
  <2>8. CASE WriteAfterFault(c)
    BY <1>1, <1>5, <2>8 DEF TypeOK, LockInv, WriteAfterFault
  <2>9. CASE WriteFinish(c)
    BY <1>1, <1>5, <2>9 DEF TypeOK, LockInv, WriteFinish
  <2>10. CASE WriteResult(c)
    BY <1>1, <1>5, <2>10 DEF TypeOK, LockInv, WriteResult
  <2>11. CASE WriteUnlock(c)
    BY <1>1, <1>5, <2>11 DEF TypeOK, LockInv, WriteUnlock
  <2> QED BY <1>16, <2>1, <2>2, <2>3, <2>4, <2>5, <2>6, <2>7, <2>8, <2>9, <2>10, <2>11
     DEF WriteStep
<1>17. ASSUME NEW c \in Ctx, UartStep(c) PROVE LockInv'
  <2>1. CASE UartGuard(c)
    BY <1>1, <1>5, <2>1 DEF TypeOK, LockInv, UartGuard
  <2>2. CASE UartRefused(c)
    BY <1>1, <1>5, <2>2 DEF TypeOK, LockInv, UartRefused
  <2>3. CASE UartFlags(c)
    BY <1>1, <1>5, <2>3 DEF TypeOK, LockInv, UartFlags
  <2>4. CASE UartMux(c)
    BY <1>1, <1>5, <2>4 DEF TypeOK, LockInv, UartMux
  <2>5. CASE UartPublish(c)
    BY <1>1, <1>5, <2>5 DEF TypeOK, LockInv, UartPublish
  <2>6. CASE UartUnlock(c)
    BY <1>1, <1>5, <2>6 DEF TypeOK, LockInv, UartUnlock
  <2> QED BY <1>17, <2>1, <2>2, <2>3, <2>4, <2>5, <2>6 DEF UartStep
<1> QED BY <1>10, <1>11, <1>12, <1>13, <1>14, <1>15, <1>16, <1>17 DEF Next, Step

\* Every step of an entry, a leave or an opening of UART1 finds the port as the
\* step before it left it.
LEMMA PortInvStep == IInv /\ [Next]_vars => PortInv'
<1> SUFFICES ASSUME IInv, [Next]_vars PROVE PortInv'
    OBVIOUS
<1>1. TypeOK
    BY DEF IInv
<1>2. InitCallInv
    BY DEF IInv
<1>3. InitLockInv
    BY DEF IInv
<1>4. UninitInv
    BY DEF IInv
<1>5. LockInv
    BY DEF IInv
<1>6. PortInv
    BY DEF IInv
<1>7. WriterInv
    BY DEF IInv
<1>8. HistoryInv
    BY DEF IInv
<1>9. RefusedInv
    BY DEF IInv
<1> USE LevelsAssumption, MaxGenAssumption, CallsAssumption
<1>10. CASE UNCHANGED vars
    BY <1>1, <1>5, <1>6, <1>7, <1>10 DEF TypeOK, LockInv, PortInv, Turning, Settled,
       WriterInv
<1>11. ASSUME NEW c \in Ctx, Call(c) PROVE PortInv'
    BY <1>1, <1>5, <1>6, <1>7, <1>11 DEF TypeOK, LockInv, PortInv, Turning, Settled,
       WriterInv, Call
<1>12. ASSUME NEW c \in Ctx, UartClose(c) PROVE PortInv'
    BY <1>1, <1>5, <1>6, <1>7, <1>12 DEF TypeOK, LockInv, PortInv, Turning, Settled,
       WriterInv, UartClose
<1>13. ASSUME NEW c \in Ctx, InitStep(c) PROVE PortInv'
  <2>1. CASE InitCheck(c)
    BY <1>1, <1>5, <1>6, <1>7, <2>1 DEF TypeOK, LockInv, PortInv, Turning, Settled,
       WriterInv, InitCheck
  <2>2. CASE InitTryLock(c)
    BY <1>1, <1>5, <1>6, <1>7, <2>2 DEF TypeOK, LockInv, PortInv, Turning, Settled,
       WriterInv, InitTryLock
  <2>3. CASE InitRecheck(c)
    BY <1>1, <1>5, <1>6, <1>7, <2>3 DEF TypeOK, LockInv, PortInv, Turning, Settled,
       WriterInv, InitRecheck
  <2>4. CASE InitReset(c)
    BY <1>1, <1>3, <1>4, <1>5, <1>6, <1>7, <2>4 DEF TypeOK, InitLockInv, UninitInv,
       LockInv, PortInv, Turning, Settled, WriterInv, InitReset
  <2>5. CASE InitPublish(c)
    BY <1>1, <1>3, <1>4, <1>5, <1>6, <1>7, <2>5 DEF TypeOK, InitLockInv, UninitInv,
       LockInv, PortInv, Turning, Settled, WriterInv, InitPublish
  <2>6. CASE InitUnlock(c)
    BY <1>1, <1>5, <1>6, <1>7, <2>6 DEF TypeOK, LockInv, PortInv, Turning, Settled,
       WriterInv, InitUnlock
  <2>7. CASE InitDone(c)
    <3>1. First[call[c]] \in {"e_begin", "l_lock", "w_lock", "u_guard"}
      BY <1>2, <2>7, FirstPc DEF InitCallInv, InitDone
    <3> QED BY <1>1, <1>5, <1>6, <1>7, <2>7, <3>1 DEF TypeOK, LockInv, PortInv,
       Turning, Settled, WriterInv, InitDone
  <2>8. CASE InitRefused(c)
    BY <1>1, <1>5, <1>6, <1>7, <2>8 DEF TypeOK, LockInv, PortInv, Turning, Settled,
       WriterInv, InitRefused
  <2> QED BY <1>13, <2>1, <2>2, <2>3, <2>4, <2>5, <2>6, <2>7, <2>8 DEF InitStep
<1>14. ASSUME NEW c \in Ctx, EnterStep(c) PROVE PortInv'
  <2>1. CASE EntryContended(c)
    BY <1>1, <1>5, <1>6, <1>7, <2>1 DEF TypeOK, LockInv, PortInv, Turning, Settled,
       WriterInv, EntryContended
  <2>2. CASE EntryOwned(c)
    BY <1>1, <1>5, <1>6, <1>7, <2>2 DEF TypeOK, LockInv, PortInv, Turning, Settled,
       WriterInv, EntryOwned
  <2>3. CASE EntryBegun(c)
    BY <1>1, <1>5, <1>6, <1>7, <2>3 DEF TypeOK, LockInv, PortInv, Turning, Settled,
       WriterInv, EntryBegun
  <2>4. CASE EnterRefused(c)
    BY <1>1, <1>5, <1>6, <1>7, <2>4 DEF TypeOK, LockInv, PortInv, Turning, Settled,
       WriterInv, EnterRefused
  <2>5. CASE EnterGeneration(c)
    BY <1>1, <1>5, <1>6, <1>7, <2>5 DEF TypeOK, LockInv, PortInv, Turning, Settled,
       WriterInv, EnterGeneration
  <2>6. CASE EpochsExhausted(c)
    BY <1>1, <1>5, <1>6, <1>7, <2>6 DEF TypeOK, LockInv, PortInv, Turning, Settled,
       WriterInv, EpochsExhausted
  <2>7. CASE EnterUartCheck(c)
    BY <1>1, <1>5, <1>6, <1>7, <2>7 DEF TypeOK, LockInv, PortInv, Turning, Settled,
       WriterInv, EnterUartCheck
  <2>8. CASE EnterReleasePins(c)
    BY <1>1, <1>5, <1>6, <1>7, <2>8 DEF TypeOK, LockInv, PortInv, Turning, Settled,
       WriterInv, EnterReleasePins
  <2>9. CASE EnterPeerReady(c)
    BY <1>1, <1>5, <1>6, <1>7, <2>9 DEF TypeOK, LockInv, PortInv, Turning, Settled,
       WriterInv, EnterPeerReady
  <2>10. CASE EnterPeerNotReady(c)
    BY <1>1, <1>5, <1>6, <1>7, <2>10 DEF TypeOK, LockInv, PortInv, Turning, Settled,
       WriterInv, EnterPeerNotReady
  <2>11. CASE EnterDeferredCheck(c)
    BY <1>1, <1>5, <1>6, <1>7, <2>11 DEF TypeOK, LockInv, PortInv, Turning, Settled,
       WriterInv, EnterDeferredCheck
  <2>12. CASE EnterDrivePins(c)
    BY <1>1, <1>5, <1>6, <1>7, <2>12 DEF TypeOK, LockInv, PortInv, Turning, Settled,
       WriterInv, EnterDrivePins
  <2>13. CASE EnterEngineOpen(c)
    BY <1>1, <1>5, <1>6, <1>7, <2>13 DEF TypeOK, LockInv, PortInv, Turning, Settled,
       WriterInv, EnterEngineOpen
  <2>14. CASE EnterPublishOk(c)
    BY <1>1, <1>5, <1>6, <1>7, <2>14 DEF TypeOK, LockInv, PortInv, Turning, Settled,
       WriterInv, EnterPublishOk
  <2>15. CASE CommitEpoch(c)
    BY <1>1, <1>5, <1>6, <1>7, <2>15 DEF TypeOK, LockInv, PortInv, Turning, Settled,
       WriterInv, CommitEpoch, Commit
  <2>16. CASE CommitRoute(c)
    BY <1>1, <1>5, <1>6, <1>7, <2>16 DEF TypeOK, LockInv, PortInv, Turning, Settled,
       WriterInv, CommitRoute, Commit
  <2>17. CASE CommitAborted(c)
    BY <1>1, <1>5, <1>6, <1>7, <2>17 DEF TypeOK, LockInv, PortInv, Turning, Settled,
       WriterInv, CommitAborted
  <2>18. CASE EnterPublishRoute(c)
    BY <1>1, <1>5, <1>6, <1>7, <2>18 DEF TypeOK, LockInv, PortInv, Turning, Settled,
       WriterInv, EnterPublishRoute
  <2>19. CASE EnterCloseEngine(c)
    BY <1>1, <1>5, <1>6, <1>7, <2>19 DEF TypeOK, LockInv, PortInv, Turning, Settled,
       WriterInv, EnterCloseEngine
  <2>20. CASE EnterUnpin(c)
    BY <1>1, <1>5, <1>6, <1>7, <2>20 DEF TypeOK, LockInv, PortInv, Turning, Settled,
       WriterInv, EnterUnpin
  <2>21. CASE EnterFail(c)
    BY <1>1, <1>5, <1>6, <1>7, <2>21 DEF TypeOK, LockInv, PortInv, Turning, Settled,
       WriterInv, EnterFail
  <2>22. CASE EnterUnlock(c)
    BY <1>1, <1>5, <1>6, <1>7, <2>22 DEF TypeOK, LockInv, PortInv, Turning, Settled,
       WriterInv, EnterUnlock
  <2> QED BY <1>14, <2>1, <2>2, <2>3, <2>4, <2>5, <2>6, <2>7, <2>8, <2>9, <2>10,
     <2>11, <2>12, <2>13, <2>14, <2>15, <2>16, <2>17, <2>18, <2>19, <2>20, <2>21,
     <2>22 DEF EnterStep
<1>15. ASSUME NEW c \in Ctx, LeaveStep(c) PROVE PortInv'
  <2>1. CASE LeaveTryLock(c)
    BY <1>1, <1>5, <1>6, <1>7, <2>1 DEF TypeOK, LockInv, PortInv, Turning, Settled,
       WriterInv, LeaveTryLock
  <2>2. CASE LeaveContended(c)
    BY <1>1, <1>5, <1>6, <1>7, <2>2 DEF TypeOK, LockInv, PortInv, Turning, Settled,
       WriterInv, LeaveContended
  <2>3. CASE LeaveRevoke(c)
    BY <1>1, <1>5, <1>6, <1>7, <2>3 DEF TypeOK, LockInv, PortInv, Turning, Settled,
       WriterInv, LeaveRevoke
  <2>4. CASE LeaveNothing(c)
    BY <1>1, <1>5, <1>6, <1>7, <2>4 DEF TypeOK, LockInv, PortInv, Turning, Settled,
       WriterInv, LeaveNothing
  <2>5. CASE LeaveCloseEngine(c)
    BY <1>1, <1>5, <1>6, <1>7, <2>5 DEF TypeOK, LockInv, PortInv, Turning, Settled,
       WriterInv, LeaveCloseEngine
  <2>6. CASE LeaveReleasePins(c)
    BY <1>1, <1>5, <1>6, <1>7, <2>6 DEF TypeOK, LockInv, PortInv, Turning, Settled,
       WriterInv, LeaveReleasePins
  <2>7. CASE LeaveResult(c)
    BY <1>1, <1>5, <1>6, <1>7, <2>7 DEF TypeOK, LockInv, PortInv, Turning, Settled,
       WriterInv, LeaveResult
  <2>8. CASE LeaveUnlock(c)
    BY <1>1, <1>5, <1>6, <1>7, <2>8 DEF TypeOK, LockInv, PortInv, Turning, Settled,
       WriterInv, LeaveUnlock
  <2>9. CASE LeaveUnlockRoute(c)
    BY <1>1, <1>5, <1>6, <1>7, <2>9 DEF TypeOK, LockInv, PortInv, Turning, Settled,
       WriterInv, LeaveUnlockRoute
  <2>10. CASE LeaveClearRoute(c)
    BY <1>1, <1>5, <1>6, <1>7, <2>10 DEF TypeOK, LockInv, PortInv, Turning, Settled,
       WriterInv, LeaveClearRoute
  <2> QED BY <1>15, <2>1, <2>2, <2>3, <2>4, <2>5, <2>6, <2>7, <2>8, <2>9, <2>10 DEF
     LeaveStep
<1>16. ASSUME NEW c \in Ctx, WriteStep(c) PROVE PortInv'
  <2>1. CASE WriteTryLock(c)
    BY <1>1, <1>5, <1>6, <1>7, <2>1 DEF TypeOK, LockInv, PortInv, Turning, Settled,
       WriterInv, WriteTryLock
  <2>2. CASE WriteContended(c)
    BY <1>1, <1>5, <1>6, <1>7, <2>2 DEF TypeOK, LockInv, PortInv, Turning, Settled,
       WriterInv, WriteContended
  <2>3. CASE WriteRefused(c)
    BY <1>1, <1>5, <1>6, <1>7, <2>3 DEF TypeOK, LockInv, PortInv, Turning, Settled,
       WriterInv, WriteRefused
  <2>4. CASE WriteNotOwned(c)
    BY <1>1, <1>5, <1>6, <1>7, <2>4 DEF TypeOK, LockInv, PortInv, Turning, Settled,
       WriterInv, WriteNotOwned
  <2>5. CASE WriteLeaseCheck(c)
    BY <1>1, <1>5, <1>6, <1>7, <2>5 DEF TypeOK, LockInv, PortInv, Turning, Settled,
       WriterInv, WriteLeaseCheck
  <2>6. CASE WriteDeferredCheck(c)
    BY <1>1, <1>5, <1>6, <1>7, <2>6 DEF TypeOK, LockInv, PortInv, Turning, Settled,
       WriterInv, WriteDeferredCheck
  <2>7. CASE WriteStart(c)
    BY <1>1, <1>5, <1>6, <1>7, <2>7 DEF TypeOK, LockInv, PortInv, Turning, Settled,
       WriterInv, WriteStart
  <2>8. CASE WriteAfterFault(c)
    BY <1>1, <1>5, <1>6, <1>7, <2>8 DEF TypeOK, LockInv, PortInv, Turning, Settled,
       WriterInv, WriteAfterFault
  <2>9. CASE WriteFinish(c)
    BY <1>1, <1>5, <1>6, <1>7, <2>9 DEF TypeOK, LockInv, PortInv, Turning, Settled,
       WriterInv, WriteFinish
  <2>10. CASE WriteResult(c)
    BY <1>1, <1>5, <1>6, <1>7, <2>10 DEF TypeOK, LockInv, PortInv, Turning, Settled,
       WriterInv, WriteResult
  <2>11. CASE WriteUnlock(c)
    BY <1>1, <1>5, <1>6, <1>7, <2>11 DEF TypeOK, LockInv, PortInv, Turning, Settled,
       WriterInv, WriteUnlock
  <2> QED BY <1>16, <2>1, <2>2, <2>3, <2>4, <2>5, <2>6, <2>7, <2>8, <2>9, <2>10, <2>11
     DEF WriteStep
<1>17. ASSUME NEW c \in Ctx, UartStep(c) PROVE PortInv'
  <2>1. CASE UartGuard(c)
    BY <1>1, <1>5, <1>6, <1>7, <2>1 DEF TypeOK, LockInv, PortInv, Turning, Settled,
       WriterInv, UartGuard
  <2>2. CASE UartRefused(c)
    BY <1>1, <1>5, <1>6, <1>7, <2>2 DEF TypeOK, LockInv, PortInv, Turning, Settled,
       WriterInv, UartRefused
  <2>3. CASE UartFlags(c)
    BY <1>1, <1>5, <1>6, <1>7, <2>3 DEF TypeOK, LockInv, PortInv, Turning, Settled,
       WriterInv, UartFlags
  <2>4. CASE UartMux(c)
    BY <1>1, <1>5, <1>6, <1>7, <2>4 DEF TypeOK, LockInv, PortInv, Turning, Settled,
       WriterInv, UartMux
  <2>5. CASE UartPublish(c)
    BY <1>1, <1>5, <1>6, <1>7, <2>5 DEF TypeOK, LockInv, PortInv, Turning, Settled,
       WriterInv, UartPublish
  <2>6. CASE UartUnlock(c)
    BY <1>1, <1>5, <1>6, <1>7, <2>6 DEF TypeOK, LockInv, PortInv, Turning, Settled,
       WriterInv, UartUnlock
  <2> QED BY <1>17, <2>1, <2>2, <2>3, <2>4, <2>5, <2>6 DEF UartStep
<1> QED BY <1>10, <1>11, <1>12, <1>13, <1>14, <1>15, <1>16, <1>17 DEF Next, Step

\* A writer keeps the lease it was admitted with.
LEMMA WriterInvStep == IInv /\ [Next]_vars => WriterInv'
<1> SUFFICES ASSUME IInv, [Next]_vars PROVE WriterInv'
    OBVIOUS
<1>1. TypeOK
    BY DEF IInv
<1>2. InitCallInv
    BY DEF IInv
<1>3. InitLockInv
    BY DEF IInv
<1>4. UninitInv
    BY DEF IInv
<1>5. LockInv
    BY DEF IInv
<1>6. PortInv
    BY DEF IInv
<1>7. WriterInv
    BY DEF IInv
<1>8. HistoryInv
    BY DEF IInv
<1>9. RefusedInv
    BY DEF IInv
<1> USE LevelsAssumption, MaxGenAssumption, CallsAssumption
<1>10. CASE UNCHANGED vars
    BY <1>1, <1>5, <1>6, <1>7, <1>10 DEF TypeOK, LockInv, PortInv, Turning, Settled,
       WriterInv
<1>11. ASSUME NEW c \in Ctx, Call(c) PROVE WriterInv'
    BY <1>1, <1>5, <1>6, <1>7, <1>11 DEF TypeOK, LockInv, PortInv, Turning, Settled,
       WriterInv, Call
<1>12. ASSUME NEW c \in Ctx, UartClose(c) PROVE WriterInv'
    BY <1>1, <1>5, <1>6, <1>7, <1>12 DEF TypeOK, LockInv, PortInv, Turning, Settled,
       WriterInv, UartClose
<1>13. ASSUME NEW c \in Ctx, InitStep(c) PROVE WriterInv'
  <2>1. CASE InitCheck(c)
    BY <1>1, <1>5, <1>6, <1>7, <2>1 DEF TypeOK, LockInv, PortInv, Turning, Settled,
       WriterInv, InitCheck
  <2>2. CASE InitTryLock(c)
    BY <1>1, <1>5, <1>6, <1>7, <2>2 DEF TypeOK, LockInv, PortInv, Turning, Settled,
       WriterInv, InitTryLock
  <2>3. CASE InitRecheck(c)
    BY <1>1, <1>5, <1>6, <1>7, <2>3 DEF TypeOK, LockInv, PortInv, Turning, Settled,
       WriterInv, InitRecheck
  <2>4. CASE InitReset(c)
    BY <1>1, <1>3, <1>4, <1>5, <1>6, <1>7, <2>4 DEF TypeOK, InitLockInv, UninitInv,
       LockInv, PortInv, Turning, Settled, WriterInv, InitReset
  <2>5. CASE InitPublish(c)
    BY <1>1, <1>3, <1>4, <1>5, <1>6, <1>7, <2>5 DEF TypeOK, InitLockInv, UninitInv,
       LockInv, PortInv, Turning, Settled, WriterInv, InitPublish
  <2>6. CASE InitUnlock(c)
    BY <1>1, <1>5, <1>6, <1>7, <2>6 DEF TypeOK, LockInv, PortInv, Turning, Settled,
       WriterInv, InitUnlock
  <2>7. CASE InitDone(c)
    <3>1. First[call[c]] \in {"e_begin", "l_lock", "w_lock", "u_guard"}
      BY <1>2, <2>7, FirstPc DEF InitCallInv, InitDone
    <3> QED BY <1>1, <1>5, <1>6, <1>7, <2>7, <3>1 DEF TypeOK, LockInv, PortInv,
       Turning, Settled, WriterInv, InitDone
  <2>8. CASE InitRefused(c)
    BY <1>1, <1>5, <1>6, <1>7, <2>8 DEF TypeOK, LockInv, PortInv, Turning, Settled,
       WriterInv, InitRefused
  <2> QED BY <1>13, <2>1, <2>2, <2>3, <2>4, <2>5, <2>6, <2>7, <2>8 DEF InitStep
<1>14. ASSUME NEW c \in Ctx, EnterStep(c) PROVE WriterInv'
  <2>1. CASE EntryContended(c)
    BY <1>1, <1>5, <1>6, <1>7, <2>1 DEF TypeOK, LockInv, PortInv, Turning, Settled,
       WriterInv, EntryContended
  <2>2. CASE EntryOwned(c)
    BY <1>1, <1>5, <1>6, <1>7, <2>2 DEF TypeOK, LockInv, PortInv, Turning, Settled,
       WriterInv, EntryOwned
  <2>3. CASE EntryBegun(c)
    BY <1>1, <1>5, <1>6, <1>7, <2>3 DEF TypeOK, LockInv, PortInv, Turning, Settled,
       WriterInv, EntryBegun
  <2>4. CASE EnterRefused(c)
    BY <1>1, <1>5, <1>6, <1>7, <2>4 DEF TypeOK, LockInv, PortInv, Turning, Settled,
       WriterInv, EnterRefused
  <2>5. CASE EnterGeneration(c)
    BY <1>1, <1>5, <1>6, <1>7, <2>5 DEF TypeOK, LockInv, PortInv, Turning, Settled,
       WriterInv, EnterGeneration
  <2>6. CASE EpochsExhausted(c)
    BY <1>1, <1>5, <1>6, <1>7, <2>6 DEF TypeOK, LockInv, PortInv, Turning, Settled,
       WriterInv, EpochsExhausted
  <2>7. CASE EnterUartCheck(c)
    BY <1>1, <1>5, <1>6, <1>7, <2>7 DEF TypeOK, LockInv, PortInv, Turning, Settled,
       WriterInv, EnterUartCheck
  <2>8. CASE EnterReleasePins(c)
    BY <1>1, <1>5, <1>6, <1>7, <2>8 DEF TypeOK, LockInv, PortInv, Turning, Settled,
       WriterInv, EnterReleasePins
  <2>9. CASE EnterPeerReady(c)
    BY <1>1, <1>5, <1>6, <1>7, <2>9 DEF TypeOK, LockInv, PortInv, Turning, Settled,
       WriterInv, EnterPeerReady
  <2>10. CASE EnterPeerNotReady(c)
    BY <1>1, <1>5, <1>6, <1>7, <2>10 DEF TypeOK, LockInv, PortInv, Turning, Settled,
       WriterInv, EnterPeerNotReady
  <2>11. CASE EnterDeferredCheck(c)
    BY <1>1, <1>5, <1>6, <1>7, <2>11 DEF TypeOK, LockInv, PortInv, Turning, Settled,
       WriterInv, EnterDeferredCheck
  <2>12. CASE EnterDrivePins(c)
    BY <1>1, <1>5, <1>6, <1>7, <2>12 DEF TypeOK, LockInv, PortInv, Turning, Settled,
       WriterInv, EnterDrivePins
  <2>13. CASE EnterEngineOpen(c)
    BY <1>1, <1>5, <1>6, <1>7, <2>13 DEF TypeOK, LockInv, PortInv, Turning, Settled,
       WriterInv, EnterEngineOpen
  <2>14. CASE EnterPublishOk(c)
    BY <1>1, <1>5, <1>6, <1>7, <2>14 DEF TypeOK, LockInv, PortInv, Turning, Settled,
       WriterInv, EnterPublishOk
  <2>15. CASE CommitEpoch(c)
    BY <1>1, <1>5, <1>6, <1>7, <2>15 DEF TypeOK, LockInv, PortInv, Turning, Settled,
       WriterInv, CommitEpoch, Commit
  <2>16. CASE CommitRoute(c)
    BY <1>1, <1>5, <1>6, <1>7, <2>16 DEF TypeOK, LockInv, PortInv, Turning, Settled,
       WriterInv, CommitRoute, Commit
  <2>17. CASE CommitAborted(c)
    BY <1>1, <1>5, <1>6, <1>7, <2>17 DEF TypeOK, LockInv, PortInv, Turning, Settled,
       WriterInv, CommitAborted
  <2>18. CASE EnterPublishRoute(c)
    BY <1>1, <1>5, <1>6, <1>7, <2>18 DEF TypeOK, LockInv, PortInv, Turning, Settled,
       WriterInv, EnterPublishRoute
  <2>19. CASE EnterCloseEngine(c)
    BY <1>1, <1>5, <1>6, <1>7, <2>19 DEF TypeOK, LockInv, PortInv, Turning, Settled,
       WriterInv, EnterCloseEngine
  <2>20. CASE EnterUnpin(c)
    BY <1>1, <1>5, <1>6, <1>7, <2>20 DEF TypeOK, LockInv, PortInv, Turning, Settled,
       WriterInv, EnterUnpin
  <2>21. CASE EnterFail(c)
    BY <1>1, <1>5, <1>6, <1>7, <2>21 DEF TypeOK, LockInv, PortInv, Turning, Settled,
       WriterInv, EnterFail
  <2>22. CASE EnterUnlock(c)
    BY <1>1, <1>5, <1>6, <1>7, <2>22 DEF TypeOK, LockInv, PortInv, Turning, Settled,
       WriterInv, EnterUnlock
  <2> QED BY <1>14, <2>1, <2>2, <2>3, <2>4, <2>5, <2>6, <2>7, <2>8, <2>9, <2>10,
     <2>11, <2>12, <2>13, <2>14, <2>15, <2>16, <2>17, <2>18, <2>19, <2>20, <2>21,
     <2>22 DEF EnterStep
<1>15. ASSUME NEW c \in Ctx, LeaveStep(c) PROVE WriterInv'
  <2>1. CASE LeaveTryLock(c)
    BY <1>1, <1>5, <1>6, <1>7, <2>1 DEF TypeOK, LockInv, PortInv, Turning, Settled,
       WriterInv, LeaveTryLock
  <2>2. CASE LeaveContended(c)
    BY <1>1, <1>5, <1>6, <1>7, <2>2 DEF TypeOK, LockInv, PortInv, Turning, Settled,
       WriterInv, LeaveContended
  <2>3. CASE LeaveRevoke(c)
    BY <1>1, <1>5, <1>6, <1>7, <2>3 DEF TypeOK, LockInv, PortInv, Turning, Settled,
       WriterInv, LeaveRevoke
  <2>4. CASE LeaveNothing(c)
    BY <1>1, <1>5, <1>6, <1>7, <2>4 DEF TypeOK, LockInv, PortInv, Turning, Settled,
       WriterInv, LeaveNothing
  <2>5. CASE LeaveCloseEngine(c)
    BY <1>1, <1>5, <1>6, <1>7, <2>5 DEF TypeOK, LockInv, PortInv, Turning, Settled,
       WriterInv, LeaveCloseEngine
  <2>6. CASE LeaveReleasePins(c)
    BY <1>1, <1>5, <1>6, <1>7, <2>6 DEF TypeOK, LockInv, PortInv, Turning, Settled,
       WriterInv, LeaveReleasePins
  <2>7. CASE LeaveResult(c)
    BY <1>1, <1>5, <1>6, <1>7, <2>7 DEF TypeOK, LockInv, PortInv, Turning, Settled,
       WriterInv, LeaveResult
  <2>8. CASE LeaveUnlock(c)
    BY <1>1, <1>5, <1>6, <1>7, <2>8 DEF TypeOK, LockInv, PortInv, Turning, Settled,
       WriterInv, LeaveUnlock
  <2>9. CASE LeaveUnlockRoute(c)
    BY <1>1, <1>5, <1>6, <1>7, <2>9 DEF TypeOK, LockInv, PortInv, Turning, Settled,
       WriterInv, LeaveUnlockRoute
  <2>10. CASE LeaveClearRoute(c)
    BY <1>1, <1>5, <1>6, <1>7, <2>10 DEF TypeOK, LockInv, PortInv, Turning, Settled,
       WriterInv, LeaveClearRoute
  <2> QED BY <1>15, <2>1, <2>2, <2>3, <2>4, <2>5, <2>6, <2>7, <2>8, <2>9, <2>10 DEF
     LeaveStep
<1>16. ASSUME NEW c \in Ctx, WriteStep(c) PROVE WriterInv'
  <2>1. CASE WriteTryLock(c)
    BY <1>1, <1>5, <1>6, <1>7, <2>1 DEF TypeOK, LockInv, PortInv, Turning, Settled,
       WriterInv, WriteTryLock
  <2>2. CASE WriteContended(c)
    BY <1>1, <1>5, <1>6, <1>7, <2>2 DEF TypeOK, LockInv, PortInv, Turning, Settled,
       WriterInv, WriteContended
  <2>3. CASE WriteRefused(c)
    BY <1>1, <1>5, <1>6, <1>7, <2>3 DEF TypeOK, LockInv, PortInv, Turning, Settled,
       WriterInv, WriteRefused
  <2>4. CASE WriteNotOwned(c)
    BY <1>1, <1>5, <1>6, <1>7, <2>4 DEF TypeOK, LockInv, PortInv, Turning, Settled,
       WriterInv, WriteNotOwned
  <2>5. CASE WriteLeaseCheck(c)
    BY <1>1, <1>5, <1>6, <1>7, <2>5 DEF TypeOK, LockInv, PortInv, Turning, Settled,
       WriterInv, WriteLeaseCheck
  <2>6. CASE WriteDeferredCheck(c)
    BY <1>1, <1>5, <1>6, <1>7, <2>6 DEF TypeOK, LockInv, PortInv, Turning, Settled,
       WriterInv, WriteDeferredCheck
  <2>7. CASE WriteStart(c)
    BY <1>1, <1>5, <1>6, <1>7, <2>7 DEF TypeOK, LockInv, PortInv, Turning, Settled,
       WriterInv, WriteStart
  <2>8. CASE WriteAfterFault(c)
    BY <1>1, <1>5, <1>6, <1>7, <2>8 DEF TypeOK, LockInv, PortInv, Turning, Settled,
       WriterInv, WriteAfterFault
  <2>9. CASE WriteFinish(c)
    BY <1>1, <1>5, <1>6, <1>7, <2>9 DEF TypeOK, LockInv, PortInv, Turning, Settled,
       WriterInv, WriteFinish
  <2>10. CASE WriteResult(c)
    BY <1>1, <1>5, <1>6, <1>7, <2>10 DEF TypeOK, LockInv, PortInv, Turning, Settled,
       WriterInv, WriteResult
  <2>11. CASE WriteUnlock(c)
    BY <1>1, <1>5, <1>6, <1>7, <2>11 DEF TypeOK, LockInv, PortInv, Turning, Settled,
       WriterInv, WriteUnlock
  <2> QED BY <1>16, <2>1, <2>2, <2>3, <2>4, <2>5, <2>6, <2>7, <2>8, <2>9, <2>10, <2>11
     DEF WriteStep
<1>17. ASSUME NEW c \in Ctx, UartStep(c) PROVE WriterInv'
  <2>1. CASE UartGuard(c)
    BY <1>1, <1>5, <1>6, <1>7, <2>1 DEF TypeOK, LockInv, PortInv, Turning, Settled,
       WriterInv, UartGuard
  <2>2. CASE UartRefused(c)
    BY <1>1, <1>5, <1>6, <1>7, <2>2 DEF TypeOK, LockInv, PortInv, Turning, Settled,
       WriterInv, UartRefused
  <2>3. CASE UartFlags(c)
    BY <1>1, <1>5, <1>6, <1>7, <2>3 DEF TypeOK, LockInv, PortInv, Turning, Settled,
       WriterInv, UartFlags
  <2>4. CASE UartMux(c)
    BY <1>1, <1>5, <1>6, <1>7, <2>4 DEF TypeOK, LockInv, PortInv, Turning, Settled,
       WriterInv, UartMux
  <2>5. CASE UartPublish(c)
    BY <1>1, <1>5, <1>6, <1>7, <2>5 DEF TypeOK, LockInv, PortInv, Turning, Settled,
       WriterInv, UartPublish
  <2>6. CASE UartUnlock(c)
    BY <1>1, <1>5, <1>6, <1>7, <2>6 DEF TypeOK, LockInv, PortInv, Turning, Settled,
       WriterInv, UartUnlock
  <2> QED BY <1>17, <2>1, <2>2, <2>3, <2>4, <2>5, <2>6 DEF UartStep
<1> QED BY <1>10, <1>11, <1>12, <1>13, <1>14, <1>15, <1>16, <1>17 DEF Next, Step

\* A retired generation is never reused and contention is never forgotten.
LEMMA HistoryInvStep == IInv /\ [Next]_vars => HistoryInv'
<1> SUFFICES ASSUME IInv, [Next]_vars PROVE HistoryInv'
    OBVIOUS
<1>1. TypeOK
    BY DEF IInv
<1>2. InitCallInv
    BY DEF IInv
<1>3. InitLockInv
    BY DEF IInv
<1>4. UninitInv
    BY DEF IInv
<1>5. LockInv
    BY DEF IInv
<1>6. PortInv
    BY DEF IInv
<1>7. WriterInv
    BY DEF IInv
<1>8. HistoryInv
    BY DEF IInv
<1>9. RefusedInv
    BY DEF IInv
<1> USE LevelsAssumption, MaxGenAssumption, CallsAssumption
<1>10. CASE UNCHANGED vars
    BY <1>1, <1>7, <1>8, <1>10 DEF TypeOK, WriterInv, HistoryInv
<1>11. ASSUME NEW c \in Ctx, Call(c) PROVE HistoryInv'
    BY <1>1, <1>7, <1>8, <1>11 DEF TypeOK, WriterInv, HistoryInv, Call
<1>12. ASSUME NEW c \in Ctx, UartClose(c) PROVE HistoryInv'
    BY <1>1, <1>7, <1>8, <1>12 DEF TypeOK, WriterInv, HistoryInv, UartClose
<1>13. ASSUME NEW c \in Ctx, InitStep(c) PROVE HistoryInv'
  <2>1. CASE InitCheck(c)
    BY <1>1, <1>7, <1>8, <2>1 DEF TypeOK, WriterInv, HistoryInv, InitCheck
  <2>2. CASE InitTryLock(c)
    BY <1>1, <1>7, <1>8, <2>2 DEF TypeOK, WriterInv, HistoryInv, InitTryLock
  <2>3. CASE InitRecheck(c)
    BY <1>1, <1>7, <1>8, <2>3 DEF TypeOK, WriterInv, HistoryInv, InitRecheck
  <2>4. CASE InitReset(c)
    BY <1>1, <1>3, <1>4, <1>7, <1>8, <2>4 DEF TypeOK, InitLockInv, UninitInv,
       WriterInv, HistoryInv, InitReset
  <2>5. CASE InitPublish(c)
    BY <1>1, <1>3, <1>4, <1>7, <1>8, <2>5 DEF TypeOK, InitLockInv, UninitInv,
       WriterInv, HistoryInv, InitPublish
  <2>6. CASE InitUnlock(c)
    BY <1>1, <1>7, <1>8, <2>6 DEF TypeOK, WriterInv, HistoryInv, InitUnlock
  <2>7. CASE InitDone(c)
    <3>1. First[call[c]] \in {"e_begin", "l_lock", "w_lock", "u_guard"}
      BY <1>2, <2>7, FirstPc DEF InitCallInv, InitDone
    <3> QED BY <1>1, <1>7, <1>8, <2>7, <3>1 DEF TypeOK, WriterInv, HistoryInv, InitDone
  <2>8. CASE InitRefused(c)
    BY <1>1, <1>7, <1>8, <2>8 DEF TypeOK, WriterInv, HistoryInv, InitRefused
  <2> QED BY <1>13, <2>1, <2>2, <2>3, <2>4, <2>5, <2>6, <2>7, <2>8 DEF InitStep
<1>14. ASSUME NEW c \in Ctx, EnterStep(c) PROVE HistoryInv'
  <2>1. CASE EntryContended(c)
    BY <1>1, <1>7, <1>8, <2>1 DEF TypeOK, WriterInv, HistoryInv, EntryContended
  <2>2. CASE EntryOwned(c)
    BY <1>1, <1>7, <1>8, <2>2 DEF TypeOK, WriterInv, HistoryInv, EntryOwned
  <2>3. CASE EntryBegun(c)
    BY <1>1, <1>7, <1>8, <2>3 DEF TypeOK, WriterInv, HistoryInv, EntryBegun
  <2>4. CASE EnterRefused(c)
    BY <1>1, <1>7, <1>8, <2>4 DEF TypeOK, WriterInv, HistoryInv, EnterRefused
  <2>5. CASE EnterGeneration(c)
    BY <1>1, <1>7, <1>8, <2>5 DEF TypeOK, WriterInv, HistoryInv, EnterGeneration
  <2>6. CASE EpochsExhausted(c)
    BY <1>1, <1>7, <1>8, <2>6 DEF TypeOK, WriterInv, HistoryInv, EpochsExhausted
  <2>7. CASE EnterUartCheck(c)
    BY <1>1, <1>7, <1>8, <2>7 DEF TypeOK, WriterInv, HistoryInv, EnterUartCheck
  <2>8. CASE EnterReleasePins(c)
    BY <1>1, <1>7, <1>8, <2>8 DEF TypeOK, WriterInv, HistoryInv, EnterReleasePins
  <2>9. CASE EnterPeerReady(c)
    BY <1>1, <1>7, <1>8, <2>9 DEF TypeOK, WriterInv, HistoryInv, EnterPeerReady
  <2>10. CASE EnterPeerNotReady(c)
    BY <1>1, <1>7, <1>8, <2>10 DEF TypeOK, WriterInv, HistoryInv, EnterPeerNotReady
  <2>11. CASE EnterDeferredCheck(c)
    BY <1>1, <1>7, <1>8, <2>11 DEF TypeOK, WriterInv, HistoryInv, EnterDeferredCheck
  <2>12. CASE EnterDrivePins(c)
    BY <1>1, <1>7, <1>8, <2>12 DEF TypeOK, WriterInv, HistoryInv, EnterDrivePins
  <2>13. CASE EnterEngineOpen(c)
    BY <1>1, <1>7, <1>8, <2>13 DEF TypeOK, WriterInv, HistoryInv, EnterEngineOpen
  <2>14. CASE EnterPublishOk(c)
    BY <1>1, <1>7, <1>8, <2>14 DEF TypeOK, WriterInv, HistoryInv, EnterPublishOk
  <2>15. CASE CommitEpoch(c)
    <3>1. arg[c] = generation + 1 /\ deferred = "OK"
      BY <1>7, <2>15 DEF WriterInv, CommitEpoch, Commit
    <3>2. \A g \in retired : g < arg[c]
      BY <1>1, <1>8, <3>1 DEF TypeOK, HistoryInv
    <3> QED BY <1>1, <1>8, <2>15, <3>1, <3>2 DEF TypeOK, HistoryInv, CommitEpoch, Commit
  <2>16. CASE CommitRoute(c)
    <3>1. arg[c] = generation + 1 /\ deferred = "OK"
      BY <1>7, <2>16 DEF WriterInv, CommitRoute, Commit
    <3>2. \A g \in retired : g < arg[c]
      BY <1>1, <1>8, <3>1 DEF TypeOK, HistoryInv
    <3> QED BY <1>1, <1>8, <2>16, <3>1, <3>2 DEF TypeOK, HistoryInv, CommitRoute, Commit
  <2>17. CASE CommitAborted(c)
    BY <1>1, <1>7, <1>8, <2>17 DEF TypeOK, WriterInv, HistoryInv, CommitAborted
  <2>18. CASE EnterPublishRoute(c)
    BY <1>1, <1>7, <1>8, <2>18 DEF TypeOK, WriterInv, HistoryInv, EnterPublishRoute
  <2>19. CASE EnterCloseEngine(c)
    BY <1>1, <1>7, <1>8, <2>19 DEF TypeOK, WriterInv, HistoryInv, EnterCloseEngine
  <2>20. CASE EnterUnpin(c)
    BY <1>1, <1>7, <1>8, <2>20 DEF TypeOK, WriterInv, HistoryInv, EnterUnpin
  <2>21. CASE EnterFail(c)
    BY <1>1, <1>7, <1>8, <2>21 DEF TypeOK, WriterInv, HistoryInv, EnterFail
  <2>22. CASE EnterUnlock(c)
    BY <1>1, <1>7, <1>8, <2>22 DEF TypeOK, WriterInv, HistoryInv, EnterUnlock
  <2> QED BY <1>14, <2>1, <2>2, <2>3, <2>4, <2>5, <2>6, <2>7, <2>8, <2>9, <2>10,
     <2>11, <2>12, <2>13, <2>14, <2>15, <2>16, <2>17, <2>18, <2>19, <2>20, <2>21,
     <2>22 DEF EnterStep
<1>15. ASSUME NEW c \in Ctx, LeaveStep(c) PROVE HistoryInv'
  <2>1. CASE LeaveTryLock(c)
    BY <1>1, <1>7, <1>8, <2>1 DEF TypeOK, WriterInv, HistoryInv, LeaveTryLock
  <2>2. CASE LeaveContended(c)
    BY <1>1, <1>7, <1>8, <2>2 DEF TypeOK, WriterInv, HistoryInv, LeaveContended
  <2>3. CASE LeaveRevoke(c)
    BY <1>1, <1>7, <1>8, <2>3 DEF TypeOK, WriterInv, HistoryInv, LeaveRevoke
  <2>4. CASE LeaveNothing(c)
    BY <1>1, <1>7, <1>8, <2>4 DEF TypeOK, WriterInv, HistoryInv, LeaveNothing
  <2>5. CASE LeaveCloseEngine(c)
    BY <1>1, <1>7, <1>8, <2>5 DEF TypeOK, WriterInv, HistoryInv, LeaveCloseEngine
  <2>6. CASE LeaveReleasePins(c)
    BY <1>1, <1>7, <1>8, <2>6 DEF TypeOK, WriterInv, HistoryInv, LeaveReleasePins
  <2>7. CASE LeaveResult(c)
    BY <1>1, <1>7, <1>8, <2>7 DEF TypeOK, WriterInv, HistoryInv, LeaveResult
  <2>8. CASE LeaveUnlock(c)
    BY <1>1, <1>7, <1>8, <2>8 DEF TypeOK, WriterInv, HistoryInv, LeaveUnlock
  <2>9. CASE LeaveUnlockRoute(c)
    BY <1>1, <1>7, <1>8, <2>9 DEF TypeOK, WriterInv, HistoryInv, LeaveUnlockRoute
  <2>10. CASE LeaveClearRoute(c)
    BY <1>1, <1>7, <1>8, <2>10 DEF TypeOK, WriterInv, HistoryInv, LeaveClearRoute
  <2> QED BY <1>15, <2>1, <2>2, <2>3, <2>4, <2>5, <2>6, <2>7, <2>8, <2>9, <2>10 DEF
     LeaveStep
<1>16. ASSUME NEW c \in Ctx, WriteStep(c) PROVE HistoryInv'
  <2>1. CASE WriteTryLock(c)
    BY <1>1, <1>7, <1>8, <2>1 DEF TypeOK, WriterInv, HistoryInv, WriteTryLock
  <2>2. CASE WriteContended(c)
    BY <1>1, <1>7, <1>8, <2>2 DEF TypeOK, WriterInv, HistoryInv, WriteContended
  <2>3. CASE WriteRefused(c)
    BY <1>1, <1>7, <1>8, <2>3 DEF TypeOK, WriterInv, HistoryInv, WriteRefused
  <2>4. CASE WriteNotOwned(c)
    BY <1>1, <1>7, <1>8, <2>4 DEF TypeOK, WriterInv, HistoryInv, WriteNotOwned
  <2>5. CASE WriteLeaseCheck(c)
    BY <1>1, <1>7, <1>8, <2>5 DEF TypeOK, WriterInv, HistoryInv, WriteLeaseCheck
  <2>6. CASE WriteDeferredCheck(c)
    BY <1>1, <1>7, <1>8, <2>6 DEF TypeOK, WriterInv, HistoryInv, WriteDeferredCheck
  <2>7. CASE WriteStart(c)
    BY <1>1, <1>7, <1>8, <2>7 DEF TypeOK, WriterInv, HistoryInv, WriteStart
  <2>8. CASE WriteAfterFault(c)
    BY <1>1, <1>7, <1>8, <2>8 DEF TypeOK, WriterInv, HistoryInv, WriteAfterFault
  <2>9. CASE WriteFinish(c)
    BY <1>1, <1>7, <1>8, <2>9 DEF TypeOK, WriterInv, HistoryInv, WriteFinish
  <2>10. CASE WriteResult(c)
    BY <1>1, <1>7, <1>8, <2>10 DEF TypeOK, WriterInv, HistoryInv, WriteResult
  <2>11. CASE WriteUnlock(c)
    BY <1>1, <1>7, <1>8, <2>11 DEF TypeOK, WriterInv, HistoryInv, WriteUnlock
  <2> QED BY <1>16, <2>1, <2>2, <2>3, <2>4, <2>5, <2>6, <2>7, <2>8, <2>9, <2>10, <2>11
     DEF WriteStep
<1>17. ASSUME NEW c \in Ctx, UartStep(c) PROVE HistoryInv'
  <2>1. CASE UartGuard(c)
    BY <1>1, <1>7, <1>8, <2>1 DEF TypeOK, WriterInv, HistoryInv, UartGuard
  <2>2. CASE UartRefused(c)
    BY <1>1, <1>7, <1>8, <2>2 DEF TypeOK, WriterInv, HistoryInv, UartRefused
  <2>3. CASE UartFlags(c)
    BY <1>1, <1>7, <1>8, <2>3 DEF TypeOK, WriterInv, HistoryInv, UartFlags
  <2>4. CASE UartMux(c)
    BY <1>1, <1>7, <1>8, <2>4 DEF TypeOK, WriterInv, HistoryInv, UartMux
  <2>5. CASE UartPublish(c)
    BY <1>1, <1>7, <1>8, <2>5 DEF TypeOK, WriterInv, HistoryInv, UartPublish
  <2>6. CASE UartUnlock(c)
    BY <1>1, <1>7, <1>8, <2>6 DEF TypeOK, WriterInv, HistoryInv, UartUnlock
  <2> QED BY <1>17, <2>1, <2>2, <2>3, <2>4, <2>5, <2>6 DEF UartStep
<1> QED BY <1>10, <1>11, <1>12, <1>13, <1>14, <1>15, <1>16, <1>17 DEF Next, Step

\* A refused context interrupted the holder of the lock and reports BUSY.
LEMMA RefusedInvStep == IInv /\ [Next]_vars => RefusedInv'
<1> SUFFICES ASSUME IInv, [Next]_vars PROVE RefusedInv'
    OBVIOUS
<1>1. TypeOK
    BY DEF IInv
<1>2. InitCallInv
    BY DEF IInv
<1>3. InitLockInv
    BY DEF IInv
<1>4. UninitInv
    BY DEF IInv
<1>5. LockInv
    BY DEF IInv
<1>6. PortInv
    BY DEF IInv
<1>7. WriterInv
    BY DEF IInv
<1>8. HistoryInv
    BY DEF IInv
<1>9. RefusedInv
    BY DEF IInv
<1> USE LevelsAssumption, MaxGenAssumption, CallsAssumption
<1>10. CASE UNCHANGED vars
    BY <1>1, <1>9, <1>10 DEF TypeOK, RefusedInv, Lost
<1>11. ASSUME NEW c \in Ctx, Call(c) PROVE RefusedInv'
    BY <1>1, <1>9, <1>11 DEF TypeOK, RefusedInv, Lost, Call
<1>12. ASSUME NEW c \in Ctx, UartClose(c) PROVE RefusedInv'
    BY <1>1, <1>9, <1>12 DEF TypeOK, RefusedInv, Lost, UartClose
<1>13. ASSUME NEW c \in Ctx, InitStep(c) PROVE RefusedInv'
  <2>1. CASE InitCheck(c)
    BY <1>1, <1>9, <2>1 DEF TypeOK, RefusedInv, Lost, InitCheck
  <2>2. CASE InitTryLock(c)
    BY <1>1, <1>9, <2>2 DEF TypeOK, RefusedInv, Lost, InitTryLock
  <2>3. CASE InitRecheck(c)
    BY <1>1, <1>9, <2>3 DEF TypeOK, RefusedInv, Lost, InitRecheck
  <2>4. CASE InitReset(c)
    BY <1>1, <1>3, <1>4, <1>9, <2>4 DEF TypeOK, InitLockInv, UninitInv, RefusedInv,
       Lost, InitReset
  <2>5. CASE InitPublish(c)
    BY <1>1, <1>3, <1>4, <1>9, <2>5 DEF TypeOK, InitLockInv, UninitInv, RefusedInv,
       Lost, InitPublish
  <2>6. CASE InitUnlock(c)
    BY <1>1, <1>9, <2>6 DEF TypeOK, RefusedInv, Lost, InitUnlock
  <2>7. CASE InitDone(c)
    <3>1. First[call[c]] \in {"e_begin", "l_lock", "w_lock", "u_guard"}
      BY <1>2, <2>7, FirstPc DEF InitCallInv, InitDone
    <3> QED BY <1>1, <1>9, <2>7, <3>1 DEF TypeOK, RefusedInv, Lost, InitDone
  <2>8. CASE InitRefused(c)
    BY <1>1, <1>9, <2>8 DEF TypeOK, RefusedInv, Lost, InitRefused
  <2> QED BY <1>13, <2>1, <2>2, <2>3, <2>4, <2>5, <2>6, <2>7, <2>8 DEF InitStep
<1>14. ASSUME NEW c \in Ctx, EnterStep(c) PROVE RefusedInv'
  <2>1. CASE EntryContended(c)
    BY <1>1, <1>9, <2>1 DEF TypeOK, RefusedInv, Lost, EntryContended
  <2>2. CASE EntryOwned(c)
    BY <1>1, <1>9, <2>2 DEF TypeOK, RefusedInv, Lost, EntryOwned
  <2>3. CASE EntryBegun(c)
    BY <1>1, <1>9, <2>3 DEF TypeOK, RefusedInv, Lost, EntryBegun
  <2>4. CASE EnterRefused(c)
    BY <1>1, <1>9, <2>4 DEF TypeOK, RefusedInv, Lost, EnterRefused
  <2>5. CASE EnterGeneration(c)
    BY <1>1, <1>9, <2>5 DEF TypeOK, RefusedInv, Lost, EnterGeneration
  <2>6. CASE EpochsExhausted(c)
    BY <1>1, <1>9, <2>6 DEF TypeOK, RefusedInv, Lost, EpochsExhausted
  <2>7. CASE EnterUartCheck(c)
    BY <1>1, <1>9, <2>7 DEF TypeOK, RefusedInv, Lost, EnterUartCheck
  <2>8. CASE EnterReleasePins(c)
    BY SMTT(30), <1>1, <1>9, <2>8 DEF TypeOK, RefusedInv, Lost, EnterReleasePins
  <2>9. CASE EnterPeerReady(c)
    BY SMTT(30), <1>1, <1>9, <2>9 DEF TypeOK, RefusedInv, Lost, EnterPeerReady
  <2>10. CASE EnterPeerNotReady(c)
    BY <1>1, <1>9, <2>10 DEF TypeOK, RefusedInv, Lost, EnterPeerNotReady
  <2>11. CASE EnterDeferredCheck(c)
    BY <1>1, <1>9, <2>11 DEF TypeOK, RefusedInv, Lost, EnterDeferredCheck
  <2>12. CASE EnterDrivePins(c)
    BY SMTT(30), <1>1, <1>9, <2>12 DEF TypeOK, RefusedInv, Lost, EnterDrivePins
  <2>13. CASE EnterEngineOpen(c)
    BY <1>1, <1>9, <2>13 DEF TypeOK, RefusedInv, Lost, EnterEngineOpen
  <2>14. CASE EnterPublishOk(c)
    BY SMTT(30), <1>1, <1>9, <2>14 DEF TypeOK, RefusedInv, Lost, EnterPublishOk
  <2>15. CASE CommitEpoch(c)
    BY <1>1, <1>9, <2>15 DEF TypeOK, RefusedInv, Lost, CommitEpoch, Commit
  <2>16. CASE CommitRoute(c)
    BY <1>1, <1>9, <2>16 DEF TypeOK, RefusedInv, Lost, CommitRoute, Commit
  <2>17. CASE CommitAborted(c)
    BY <1>1, <1>9, <2>17 DEF TypeOK, RefusedInv, Lost, CommitAborted
  <2>18. CASE EnterPublishRoute(c)
    BY <1>1, <1>9, <2>18 DEF TypeOK, RefusedInv, Lost, EnterPublishRoute
  <2>19. CASE EnterCloseEngine(c)
    BY <1>1, <1>9, <2>19 DEF TypeOK, RefusedInv, Lost, EnterCloseEngine
  <2>20. CASE EnterUnpin(c)
    BY SMTT(30), <1>1, <1>9, <2>20 DEF TypeOK, RefusedInv, Lost, EnterUnpin
  <2>21. CASE EnterFail(c)
    BY <1>1, <1>9, <2>21 DEF TypeOK, RefusedInv, Lost, EnterFail
  <2>22. CASE EnterUnlock(c)
    BY <1>1, <1>9, <2>22 DEF TypeOK, RefusedInv, Lost, EnterUnlock
  <2> QED BY <1>14, <2>1, <2>2, <2>3, <2>4, <2>5, <2>6, <2>7, <2>8, <2>9, <2>10,
     <2>11, <2>12, <2>13, <2>14, <2>15, <2>16, <2>17, <2>18, <2>19, <2>20, <2>21,
     <2>22 DEF EnterStep
<1>15. ASSUME NEW c \in Ctx, LeaveStep(c) PROVE RefusedInv'
  <2>1. CASE LeaveTryLock(c)
    BY <1>1, <1>9, <2>1 DEF TypeOK, RefusedInv, Lost, LeaveTryLock
  <2>2. CASE LeaveContended(c)
    BY <1>1, <1>9, <2>2 DEF TypeOK, RefusedInv, Lost, LeaveContended
  <2>3. CASE LeaveRevoke(c)
    BY <1>1, <1>9, <2>3 DEF TypeOK, RefusedInv, Lost, LeaveRevoke
  <2>4. CASE LeaveNothing(c)
    BY <1>1, <1>9, <2>4 DEF TypeOK, RefusedInv, Lost, LeaveNothing
  <2>5. CASE LeaveCloseEngine(c)
    BY <1>1, <1>9, <2>5 DEF TypeOK, RefusedInv, Lost, LeaveCloseEngine
  <2>6. CASE LeaveReleasePins(c)
    BY SMTT(30), <1>1, <1>9, <2>6 DEF TypeOK, RefusedInv, Lost, LeaveReleasePins
  <2>7. CASE LeaveResult(c)
    BY <1>1, <1>9, <2>7 DEF TypeOK, RefusedInv, Lost, LeaveResult
  <2>8. CASE LeaveUnlock(c)
    BY <1>1, <1>9, <2>8 DEF TypeOK, RefusedInv, Lost, LeaveUnlock
  <2>9. CASE LeaveUnlockRoute(c)
    BY <1>1, <1>9, <2>9 DEF TypeOK, RefusedInv, Lost, LeaveUnlockRoute
  <2>10. CASE LeaveClearRoute(c)
    BY <1>1, <1>9, <2>10 DEF TypeOK, RefusedInv, Lost, LeaveClearRoute
  <2> QED BY <1>15, <2>1, <2>2, <2>3, <2>4, <2>5, <2>6, <2>7, <2>8, <2>9, <2>10 DEF
     LeaveStep
<1>16. ASSUME NEW c \in Ctx, WriteStep(c) PROVE RefusedInv'
  <2>1. CASE WriteTryLock(c)
    BY <1>1, <1>9, <2>1 DEF TypeOK, RefusedInv, Lost, WriteTryLock
  <2>2. CASE WriteContended(c)
    BY <1>1, <1>9, <2>2 DEF TypeOK, RefusedInv, Lost, WriteContended
  <2>3. CASE WriteRefused(c)
    BY <1>1, <1>9, <2>3 DEF TypeOK, RefusedInv, Lost, WriteRefused
  <2>4. CASE WriteNotOwned(c)
    BY <1>1, <1>9, <2>4 DEF TypeOK, RefusedInv, Lost, WriteNotOwned
  <2>5. CASE WriteLeaseCheck(c)
    BY <1>1, <1>9, <2>5 DEF TypeOK, RefusedInv, Lost, WriteLeaseCheck
  <2>6. CASE WriteDeferredCheck(c)
    BY <1>1, <1>9, <2>6 DEF TypeOK, RefusedInv, Lost, WriteDeferredCheck
  <2>7. CASE WriteStart(c)
    BY <1>1, <1>9, <2>7 DEF TypeOK, RefusedInv, Lost, WriteStart
  <2>8. CASE WriteAfterFault(c)
    BY <1>1, <1>9, <2>8 DEF TypeOK, RefusedInv, Lost, WriteAfterFault
  <2>9. CASE WriteFinish(c)
    BY <1>1, <1>9, <2>9 DEF TypeOK, RefusedInv, Lost, WriteFinish
  <2>10. CASE WriteResult(c)
    BY <1>1, <1>9, <2>10 DEF TypeOK, RefusedInv, Lost, WriteResult
  <2>11. CASE WriteUnlock(c)
    BY <1>1, <1>9, <2>11 DEF TypeOK, RefusedInv, Lost, WriteUnlock
  <2> QED BY <1>16, <2>1, <2>2, <2>3, <2>4, <2>5, <2>6, <2>7, <2>8, <2>9, <2>10, <2>11
     DEF WriteStep
<1>17. ASSUME NEW c \in Ctx, UartStep(c) PROVE RefusedInv'
  <2>1. CASE UartGuard(c)
    BY <1>1, <1>9, <2>1 DEF TypeOK, RefusedInv, Lost, UartGuard
  <2>2. CASE UartRefused(c)
    BY <1>1, <1>9, <2>2 DEF TypeOK, RefusedInv, Lost, UartRefused
  <2>3. CASE UartFlags(c)
    BY SMTT(30), <1>1, <1>9, <2>3 DEF TypeOK, RefusedInv, Lost, UartFlags
  <2>4. CASE UartMux(c)
    BY <1>1, <1>9, <2>4 DEF TypeOK, RefusedInv, Lost, UartMux
  <2>5. CASE UartPublish(c)
    BY SMTT(30), <1>1, <1>9, <2>5 DEF TypeOK, RefusedInv, Lost, UartPublish
  <2>6. CASE UartUnlock(c)
    BY <1>1, <1>9, <2>6 DEF TypeOK, RefusedInv, Lost, UartUnlock
  <2> QED BY <1>17, <2>1, <2>2, <2>3, <2>4, <2>5, <2>6 DEF UartStep
<1> QED BY <1>10, <1>11, <1>12, <1>13, <1>14, <1>15, <1>16, <1>17 DEF Next, Step

\* The invariant holds when the program starts.
LEMMA InitIInv == Init => IInv
<1> SUFFICES ASSUME Init PROVE IInv
    OBVIOUS
<1> USE LevelsAssumption, MaxGenAssumption DEF Init
<1>1. TypeOK
    BY DEF TypeOK
<1>2. InitCallInv /\ InitLockInv /\ UninitInv
    BY DEF InitCallInv, InitLockInv, UninitInv
<1>3. LockInv
    BY DEF LockInv
<1>4. PortInv
    BY DEF PortInv, Turning, Settled
<1>5. WriterInv /\ HistoryInv /\ RefusedInv
    BY DEF WriterInv, HistoryInv, RefusedInv, Lost
<1> QED BY <1>1, <1>2, <1>3, <1>4, <1>5 DEF IInv

\* The inductive invariant: at every step of every interleaving each section of
\* emos_parallel.c and uart.c finds what it relies on.
THEOREM Invariance == Spec => []IInv
<1>1. IInv /\ [Next]_vars => IInv'
    BY TypeOKStep, InitCallInvStep, InitLockInvStep, UninitInvStep, LockInvStep,
       PortInvStep, WriterInvStep, HistoryInvStep, RefusedInvStep DEF IInv
<1> QED BY InitIInv, <1>1, PTL DEF Spec

\* Type correctness.
THEOREM TypeCorrect == Spec => []TypeOK
<1>1. IInv => TypeOK
    BY DEF IInv
<1> QED BY Invariance, <1>1, PTL

\* The byte lock is a mutex among contexts that interrupt one another at any point.
THEOREM LockExclusion == Spec => []LockIsExclusive
<1>1. IInv => LockIsExclusive
    BY DEF IInv, LockInv, LockIsExclusive, TypeOK
<1> QED BY Invariance, <1>1, PTL

\* UART1 published active keeps Port C; a published epoch is complete.
THEOREM PortExclusion == Spec => []PortHasOneOwner
<1>1. IInv => PortHasOneOwner
    BY DEF IInv, PortInv, TypeOK, PortHasOneOwner, UartKeepsThePort, EpochIsComplete
<1> QED BY Invariance, <1>1, PTL

\* Whoever gives the lock back has settled the port: no refused, aborted or finished
\* call leaves pins driven or an engine open outside a published epoch.
THEOREM PinsAreReturned == Spec => []QuiescentPinsAreOwned
<1>1. IInv => QuiescentPinsAreOwned
  <2> SUFFICES ASSUME IInv, lock = 0 PROVE Settled
      BY DEF QuiescentPinsAreOwned, Settled
  <2>1. \A c \in Ctx : pc[c] \notin Held
      BY DEF IInv, LockInv
  <2>2. \A c \in Ctx : pc[c] \notin Turning
      BY <2>1 DEF Turning
  <2> QED BY <2>2 DEF IInv, PortInv
<1> QED BY Invariance, <1>1, PTL

\* The record engine runs only under the lease of the live epoch.
THEOREM WritersAreFenced == Spec => []WriterHoldsLiveLease
<1>1. IInv => WriterHoldsLiveLease
  <2> SUFFICES ASSUME IInv, NEW c \in Ctx, pc[c] = "w_run"
               PROVE /\ pinsOwned = 1 /\ arg[c] = generation /\ arg[c] \notin retired
                     /\ busy = 1 /\ epochOpen = 1 /\ pins = "parallel"
      BY DEF WriterHoldsLiveLease
  <2>1. pinsOwned = 1 /\ arg[c] = generation /\ busy = 1
      BY DEF IInv, WriterInv
  <2>2. generation \notin retired
      BY <2>1 DEF IInv, HistoryInv
  <2>3. epochOpen = 1 /\ pins = "parallel"
      BY <2>1 DEF IInv, PortInv
  <2> QED BY <2>1, <2>2, <2>3
<1> QED BY Invariance, <1>1, PTL

\* A writer refused the lock reports BUSY although it returns the shared status.
THEOREM RefusalIsReported == Spec => []RefusedWriterReportsBusy
<1>1. IInv => RefusedWriterReportsBusy
    BY DEF IInv, RefusedInv, RefusedWriterReportsBusy
<1> QED BY Invariance, <1>1, PTL

\* An epoch is published only if nothing was refused while it was being entered.
THEOREM ContentionAborts == Spec => ContentionAbortsEntry
<1>1. IInv /\ [Next]_vars => [pinsOwned' = 1 => pinsOwned = 1 \/ contended = 0]_vars
  <2> SUFFICES ASSUME IInv, Next PROVE pinsOwned' = 1 => pinsOwned = 1 \/ contended = 0
      OBVIOUS
  <2>1. TypeOK /\ HistoryInv
      BY DEF IInv
  <2>2. ASSUME NEW c \in Ctx, Commit(c) PROVE contended = 0
      BY <2>1, <2>2 DEF Commit, TypeOK, HistoryInv
  <2>3. ASSUME NEW c \in Ctx, Call(c) \/ UartClose(c) \/ InitStep(c)
       PROVE pinsOwned' = 1 => pinsOwned = 1
      BY <2>3 DEF Call, UartClose, InitStep, InitCheck, InitTryLock, InitRecheck,
         InitReset, InitPublish, InitUnlock, InitDone, InitRefused
  <2>4. ASSUME NEW c \in Ctx, EnterStep(c)
       PROVE pinsOwned' = 1 => pinsOwned = 1 \/ contended = 0
    <3>1. CASE CommitEpoch(c) \/ CommitRoute(c)
        BY <2>2, <3>1 DEF CommitEpoch, CommitRoute
    <3>2. CASE ~(CommitEpoch(c) \/ CommitRoute(c))
        BY <2>4, <3>2 DEF EnterStep, EntryContended, EntryOwned, EntryBegun,
           EnterRefused, EnterGeneration, EpochsExhausted, EnterUartCheck,
           EnterReleasePins, EnterPeerReady, EnterPeerNotReady, EnterDeferredCheck,
           EnterDrivePins, EnterEngineOpen, EnterPublishOk, CommitAborted,
           EnterPublishRoute, EnterCloseEngine, EnterUnpin, EnterFail, EnterUnlock
    <3> QED BY <3>1, <3>2
  <2>5. ASSUME NEW c \in Ctx, LeaveStep(c) \/ WriteStep(c) \/ UartStep(c)
       PROVE pinsOwned' = 1 => pinsOwned = 1
      BY <2>5 DEF LeaveStep, WriteStep, UartStep, LeaveTryLock, LeaveContended,
         LeaveRevoke, LeaveNothing, LeaveCloseEngine, LeaveReleasePins, LeaveResult,
         LeaveUnlock, LeaveUnlockRoute, LeaveClearRoute, WriteTryLock, WriteContended,
         WriteRefused, WriteNotOwned, WriteLeaseCheck, WriteDeferredCheck, WriteStart,
         WriteAfterFault, WriteFinish, WriteResult, WriteUnlock, UartGuard,
         UartRefused, UartFlags, UartMux, UartPublish, UartUnlock
  <2> QED BY <2>3, <2>4, <2>5 DEF Next, Step
<1> QED BY Invariance, <1>1, PTL DEF Spec, ContentionAbortsEntry

\* After a refusal no writer starts the engine until the epoch is entered again.
THEOREM ContentionStops == Spec => ContentionStopsWriters
<1>1. IInv /\ [Next]_vars =>
        [\A c \in Ctx : WriteDeferredCheck(c) /\ contended = 1 => pc'[c] # "w_start"]_vars
    BY DEF IInv, TypeOK, HistoryInv, WriteDeferredCheck
<1> QED BY Invariance, <1>1, PTL DEF Spec, ContentionStopsWriters

\* Everything the runs check of each state of emos_parallel.c and uart.c, for any
\* number of interrupt levels and any generation limit.
THEOREM Safety == Spec => []PortCIsSafe
BY TypeCorrect, LockExclusion, PortExclusion, PinsAreReturned, WritersAreFenced,
   RefusalIsReported, PTL DEF PortCIsSafe

\* A refusal during an entry or an epoch (emos_parallel_note_locked_contention) is
\* kept until it has ended the entry or kept the writers out.
THEOREM ContentionKept == Spec => ContentionIsKept
BY ContentionAborts, ContentionStops DEF ContentionIsKept

\* Only an entry or a leave begins with the steps of one.
LEMMA FirstOf ==
    \A e \in Entry :
        /\ First[e] \in {"e_begin", "l_lock", "w_lock", "u_guard"}
        /\ First[e] = "e_begin" => e \in {"enter", "routeEnter"}
        /\ First[e] = "l_lock" => e \in {"leave", "routeLeave"}
BY DEF First

\* The route's invariant is preserved by every step.
LEMMA RouteInvStep == RouteOnly /\ IInv /\ RouteInv /\ [Next]_vars => RouteInv'
<1> SUFFICES ASSUME RouteOnly, IInv, RouteInv, [Next]_vars PROVE RouteInv'
    OBVIOUS
<1>1. TypeOK
    BY DEF IInv
<1>2. InitCallInv
    BY DEF IInv
<1>3. InitLockInv
    BY DEF IInv
<1>4. UninitInv
    BY DEF IInv
<1>5. LockInv
    BY DEF IInv
<1>6. PortInv
    BY DEF IInv
<1>7. WriterInv
    BY DEF IInv
<1>8. HistoryInv
    BY DEF IInv
<1> USE LevelsAssumption, MaxGenAssumption, CallsAssumption DEF RouteInv, EnterSection, LeaveSection, RouteCredentialIsLive
<1>10. CASE UNCHANGED vars
    BY <1>1, <1>10 DEF TypeOK
<1>11. ASSUME NEW c \in Ctx, Call(c) PROVE RouteInv'
    BY <1>1, <1>11 DEF TypeOK, Call
<1>12. ASSUME NEW c \in Ctx, UartClose(c) PROVE RouteInv'
    BY <1>1, <1>12 DEF TypeOK, UartClose
<1>13. ASSUME NEW c \in Ctx, InitStep(c) PROVE RouteInv'
  <2>1. CASE InitCheck(c)
    BY <1>1, <2>1 DEF TypeOK, InitCheck
  <2>2. CASE InitTryLock(c)
    BY <1>1, <2>2 DEF TypeOK, InitTryLock
  <2>3. CASE InitRecheck(c)
    BY <1>1, <2>3 DEF TypeOK, InitRecheck
  <2>4. CASE InitReset(c)
    BY <1>1, <1>3, <1>4, <2>4 DEF TypeOK, InitLockInv, UninitInv, InitReset
  <2>5. CASE InitPublish(c)
    BY <1>1, <1>3, <1>4, <2>5 DEF TypeOK, InitLockInv, UninitInv, InitPublish
  <2>6. CASE InitUnlock(c)
    BY <1>1, <2>6 DEF TypeOK, InitUnlock
  <2>7. CASE InitDone(c)
    <3>1. call[c] \in Entry /\ call[c] \in Calls[c] /\ pc' = [pc EXCEPT ![c] = First[call[c]]]
      BY <1>2, <2>7 DEF InitCallInv, InitDone
    <3>2. (c = 0 /\ call[c] = "routeEnter") \/ (c = 0 /\ call[c] = "routeLeave") \/ First[call[c]] \in {"w_lock", "u_guard"}
      BY <3>1, FirstOf DEF RouteOnly
    <3>3. First[call[c]] \in {"e_begin", "l_lock", "w_lock", "u_guard"}
          /\ (First[call[c]] = "e_begin" => call[c] \in {"enter", "routeEnter"})
          /\ (First[call[c]] = "l_lock" => call[c] \in {"leave", "routeLeave"})
      BY <3>1, FirstOf
    <3> DEFINE f == First[call[c]]
    <3> HIDE DEF f
    <3>4. f \in {"e_begin", "l_lock", "w_lock", "u_guard"} /\ (f = "e_begin" => c = 0 /\ call[c] = "routeEnter")
          /\ (f = "l_lock" => c = 0 /\ call[c] = "routeLeave") /\ pc' = [pc EXCEPT ![c] = f]
      BY <3>1, <3>2, <3>3 DEF f
    <3> QED BY <1>1, <2>7, <3>4 DEF TypeOK, InitDone
  <2>8. CASE InitRefused(c)
    BY <1>1, <2>8 DEF TypeOK, InitRefused
  <2> QED BY <1>13, <2>1, <2>2, <2>3, <2>4, <2>5, <2>6, <2>7, <2>8 DEF InitStep
<1>14. ASSUME NEW c \in Ctx, EnterStep(c) PROVE RouteInv'
  <2>1. CASE EntryContended(c)
    BY <1>1, <2>1 DEF TypeOK, EntryContended
  <2>2. CASE EntryOwned(c)
    BY <1>1, <2>2 DEF TypeOK, EntryOwned
  <2>3. CASE EntryBegun(c)
    BY <1>1, <2>3 DEF TypeOK, EntryBegun
  <2>4. CASE EnterRefused(c)
    BY <1>1, <2>4 DEF TypeOK, EnterRefused
  <2>5. CASE EnterGeneration(c)
    BY <1>1, <2>5 DEF TypeOK, EnterGeneration
  <2>6. CASE EpochsExhausted(c)
    BY <1>1, <2>6 DEF TypeOK, EpochsExhausted
  <2>7. CASE EnterUartCheck(c)
    BY <1>1, <2>7 DEF TypeOK, EnterUartCheck
  <2>8. CASE EnterReleasePins(c)
    BY SMTT(30), <1>1, <2>8 DEF TypeOK, EnterReleasePins
  <2>9. CASE EnterPeerReady(c)
    BY SMTT(30), <1>1, <2>9 DEF TypeOK, EnterPeerReady
  <2>10. CASE EnterPeerNotReady(c)
    BY <1>1, <2>10 DEF TypeOK, EnterPeerNotReady
  <2>11. CASE EnterDeferredCheck(c)
    BY <1>1, <2>11 DEF TypeOK, EnterDeferredCheck
  <2>12. CASE EnterDrivePins(c)
    BY SMTT(30), <1>1, <2>12 DEF TypeOK, EnterDrivePins
  <2>13. CASE EnterEngineOpen(c)
    BY <1>1, <2>13 DEF TypeOK, EnterEngineOpen
  <2>14. CASE EnterPublishOk(c)
    BY SMTT(30), <1>1, <2>14 DEF TypeOK, EnterPublishOk
  <2>15. CASE CommitEpoch(c)
    BY <1>1, <2>15 DEF TypeOK, CommitEpoch, Commit
  <2>16. CASE CommitRoute(c)
    <3>1. c = 0 /\ call[c] = "routeEnter" /\ pinsOwned = 0 /\ arg[c] = generation + 1 /\ routeLease = 0
      BY <1>1, <1>6, <1>7, <2>16 DEF TypeOK, PortInv, WriterInv, CommitRoute, Commit
    <3>2. pinsOwned' = 1 /\ generation' = arg[c] /\ pc' = [pc EXCEPT ![c] = "e_route"]
          /\ UNCHANGED <<routeLease, call, arg, status>>
      BY <2>16 DEF CommitRoute, Commit
    <3>3. \A d \in Ctx : d # c => pc[d] # "e_route"
      BY <3>1
    <3> QED BY <1>1, <3>1, <3>2, <3>3 DEF TypeOK
  <2>17. CASE CommitAborted(c)
    BY <1>1, <2>17 DEF TypeOK, CommitAborted
  <2>18. CASE EnterPublishRoute(c)
    BY <1>1, <2>18 DEF TypeOK, EnterPublishRoute
  <2>19. CASE EnterCloseEngine(c)
    BY <1>1, <2>19 DEF TypeOK, EnterCloseEngine
  <2>20. CASE EnterUnpin(c)
    BY SMTT(30), <1>1, <2>20 DEF TypeOK, EnterUnpin
  <2>21. CASE EnterFail(c)
    BY <1>1, <2>21 DEF TypeOK, EnterFail
  <2>22. CASE EnterUnlock(c)
    BY <1>1, <2>22 DEF TypeOK, EnterUnlock
  <2> QED BY <1>14, <2>1, <2>2, <2>3, <2>4, <2>5, <2>6, <2>7, <2>8, <2>9, <2>10,
     <2>11, <2>12, <2>13, <2>14, <2>15, <2>16, <2>17, <2>18, <2>19, <2>20, <2>21,
     <2>22 DEF EnterStep
<1>15. ASSUME NEW c \in Ctx, LeaveStep(c) PROVE RouteInv'
  <2>1. CASE LeaveTryLock(c)
    BY <1>1, <2>1 DEF TypeOK, LeaveTryLock
  <2>2. CASE LeaveContended(c)
    BY <1>1, <2>2 DEF TypeOK, LeaveContended
  <2>3. CASE LeaveRevoke(c)
    BY <1>1, <2>3 DEF TypeOK, LeaveRevoke
  <2>4. CASE LeaveNothing(c)
    BY <1>1, <2>4 DEF TypeOK, LeaveNothing
  <2>5. CASE LeaveCloseEngine(c)
    <3>1. busy = 0
      <4>1. \A d \in Ctx : pc[d] # "w_run"
        BY <1>5, <2>5 DEF LockInv, LeaveCloseEngine
      <4> QED BY <1>1, <1>7, <4>1 DEF TypeOK, WriterInv
    <3> QED BY <1>1, <2>5, <3>1 DEF TypeOK, LeaveCloseEngine
  <2>6. CASE LeaveReleasePins(c)
    BY SMTT(30), <1>1, <2>6 DEF TypeOK, LeaveReleasePins
  <2>7. CASE LeaveResult(c)
    BY <1>1, <2>7 DEF TypeOK, LeaveResult
  <2>8. CASE LeaveUnlock(c)
    BY <1>1, <2>8 DEF TypeOK, LeaveUnlock
  <2>9. CASE LeaveUnlockRoute(c)
    BY <1>1, <2>9 DEF TypeOK, LeaveUnlockRoute
  <2>10. CASE LeaveClearRoute(c)
    BY <1>1, <2>10 DEF TypeOK, LeaveClearRoute
  <2> QED BY <1>15, <2>1, <2>2, <2>3, <2>4, <2>5, <2>6, <2>7, <2>8, <2>9, <2>10 DEF
     LeaveStep
<1>16. ASSUME NEW c \in Ctx, WriteStep(c) PROVE RouteInv'
  <2>1. CASE WriteTryLock(c)
    BY <1>1, <2>1 DEF TypeOK, WriteTryLock
  <2>2. CASE WriteContended(c)
    BY <1>1, <2>2 DEF TypeOK, WriteContended
  <2>3. CASE WriteRefused(c)
    BY <1>1, <2>3 DEF TypeOK, WriteRefused
  <2>4. CASE WriteNotOwned(c)
    BY <1>1, <2>4 DEF TypeOK, WriteNotOwned
  <2>5. CASE WriteLeaseCheck(c)
    BY <1>1, <2>5 DEF TypeOK, WriteLeaseCheck
  <2>6. CASE WriteDeferredCheck(c)
    BY <1>1, <2>6 DEF TypeOK, WriteDeferredCheck
  <2>7. CASE WriteStart(c)
    BY <1>1, <2>7 DEF TypeOK, WriteStart
  <2>8. CASE WriteAfterFault(c)
    BY <1>1, <2>8 DEF TypeOK, WriteAfterFault
  <2>9. CASE WriteFinish(c)
    BY <1>1, <2>9 DEF TypeOK, WriteFinish
  <2>10. CASE WriteResult(c)
    BY <1>1, <2>10 DEF TypeOK, WriteResult
  <2>11. CASE WriteUnlock(c)
    BY <1>1, <2>11 DEF TypeOK, WriteUnlock
  <2> QED BY <1>16, <2>1, <2>2, <2>3, <2>4, <2>5, <2>6, <2>7, <2>8, <2>9, <2>10, <2>11
     DEF WriteStep
<1>17. ASSUME NEW c \in Ctx, UartStep(c) PROVE RouteInv'
  <2>1. CASE UartGuard(c)
    BY <1>1, <2>1 DEF TypeOK, UartGuard
  <2>2. CASE UartRefused(c)
    BY <1>1, <2>2 DEF TypeOK, UartRefused
  <2>3. CASE UartFlags(c)
    BY SMTT(30), <1>1, <2>3 DEF TypeOK, UartFlags
  <2>4. CASE UartMux(c)
    BY <1>1, <2>4 DEF TypeOK, UartMux
  <2>5. CASE UartPublish(c)
    BY SMTT(30), <1>1, <2>5 DEF TypeOK, UartPublish
  <2>6. CASE UartUnlock(c)
    BY <1>1, <2>6 DEF TypeOK, UartUnlock
  <2> QED BY <1>17, <2>1, <2>2, <2>3, <2>4, <2>5, <2>6 DEF UartStep
<1> QED BY <1>10, <1>11, <1>12, <1>13, <1>14, <1>15, <1>16, <1>17 DEF Next, Step

\* The route's invariant, when the foreground alone enters and leaves the route.
THEOREM RouteInvariance == Spec => [](RouteOnly => RouteInv)
<1>1. Init => RouteInv
    BY LevelsAssumption DEF Init, RouteInv, EnterSection, LeaveSection, RouteCredentialIsLive
<1>2. RouteOnly /\ IInv /\ RouteInv /\ [Next]_vars => RouteInv'
    BY RouteInvStep
<1>3. RouteOnly' <=> RouteOnly
    BY DEF RouteOnly
<1> QED BY <1>1, <1>2, <1>3, Invariance, PTL DEF Spec

\* A dispatcher that is told that the route is owned (emos_parallel_route_owned) holds
\* the credential of the live epoch, for any number of interrupt levels.
THEOREM RouteSafety == Spec => []RouteIsLive
<1>1. (RouteOnly => RouteInv) => RouteIsLive
    BY DEF RouteInv, RouteIsLive
<1> QED BY RouteInvariance, <1>1, PTL

\* A step that leaves the port's owner and the epoch number alone stutters.
LEMMA OwnerStutters ==
    ASSUME UNCHANGED <<pinsOwned, uart1, generation>>
    PROVE  UNCHANGED <<Owner, generation>>
BY DEF Owner

\* Every step of the code is a step of the abstract owner, or leaves it alone.
LEMMA OwnerStep == IInv /\ [Next]_vars => [Abstract!Next]_<<Owner, generation>>
<1> SUFFICES ASSUME IInv, [Next]_vars PROVE [Abstract!Next]_<<Owner, generation>>
    OBVIOUS
<1> USE MaxGenAssumption
<1>1. TypeOK /\ UninitInv /\ InitLockInv /\ PortInv /\ WriterInv /\ EpochIsComplete
    BY DEF IInv, PortInv, TypeOK, EpochIsComplete
<1>2. CASE UNCHANGED vars
    BY <1>2, OwnerStutters
<1>3. ASSUME NEW c \in Ctx, Call(c) PROVE UNCHANGED <<Owner, generation>>
    BY <1>3, OwnerStutters DEF Call
<1>4. ASSUME NEW c \in Ctx, UartClose(c) PROVE [Abstract!Next]_<<Owner, generation>>
    BY <1>1, <1>4 DEF UartClose, TypeOK, Owner, Abstract!Next, Abstract!Release
<1>5. ASSUME NEW c \in Ctx, InitStep(c) PROVE [Abstract!Next]_<<Owner, generation>>
  <2>1. CASE InitCheck(c)
    BY <2>1, OwnerStutters DEF InitCheck
  <2>2. CASE InitTryLock(c)
    BY <2>2, OwnerStutters DEF InitTryLock
  <2>3. CASE InitRecheck(c)
    BY <2>3, OwnerStutters DEF InitRecheck
  <2>4. CASE InitReset(c)
    BY <1>1, <2>4 DEF InitReset, InitLockInv, UninitInv, Owner
  <2>5. CASE InitPublish(c)
    BY <2>5, OwnerStutters DEF InitPublish
  <2>6. CASE InitUnlock(c)
    BY <2>6, OwnerStutters DEF InitUnlock
  <2>7. CASE InitDone(c)
    BY <2>7, OwnerStutters DEF InitDone
  <2>8. CASE InitRefused(c)
    BY <2>8, OwnerStutters DEF InitRefused
  <2> QED BY <1>5, <2>1, <2>2, <2>3, <2>4, <2>5, <2>6, <2>7, <2>8 DEF InitStep
<1>6. ASSUME NEW c \in Ctx, EnterStep(c) PROVE [Abstract!Next]_<<Owner, generation>>
  <2>1. CASE EntryContended(c)
    BY <2>1, OwnerStutters DEF EntryContended
  <2>2. CASE EntryOwned(c)
    BY <2>2, OwnerStutters DEF EntryOwned
  <2>3. CASE EntryBegun(c)
    BY <2>3, OwnerStutters DEF EntryBegun
  <2>4. CASE EnterRefused(c)
    BY <2>4, OwnerStutters DEF EnterRefused
  <2>5. CASE EnterGeneration(c)
    BY <2>5, OwnerStutters DEF EnterGeneration
  <2>6. CASE EpochsExhausted(c)
    BY <2>6, OwnerStutters DEF EpochsExhausted
  <2>7. CASE EnterUartCheck(c)
    BY <2>7, OwnerStutters DEF EnterUartCheck
  <2>8. CASE EnterReleasePins(c)
    BY <2>8, OwnerStutters DEF EnterReleasePins
  <2>9. CASE EnterPeerReady(c)
    BY <2>9, OwnerStutters DEF EnterPeerReady
  <2>10. CASE EnterPeerNotReady(c)
    BY <2>10, OwnerStutters DEF EnterPeerNotReady
  <2>11. CASE EnterDeferredCheck(c)
    BY <2>11, OwnerStutters DEF EnterDeferredCheck
  <2>12. CASE EnterDrivePins(c)
    BY <2>12, OwnerStutters DEF EnterDrivePins
  <2>13. CASE EnterEngineOpen(c)
    BY <2>13, OwnerStutters DEF EnterEngineOpen
  <2>14. CASE EnterPublishOk(c)
    BY <2>14, OwnerStutters DEF EnterPublishOk
  <2>15. CASE CommitEpoch(c)
    <3>1. pinsOwned = 0 /\ uart1 = 0 /\ arg[c] = generation + 1 /\ arg[c] <= MaxGen
      BY <1>1, <2>15 DEF CommitEpoch, Commit, PortInv, Turning, WriterInv, TypeOK
    <3>2. Owner = "free" /\ Owner' = "epoch" /\ generation' = generation + 1
      BY <2>15, <3>1 DEF CommitEpoch, Commit, Owner
    <3>3. generation < MaxGen
      BY <1>1, <3>1 DEF TypeOK
    <3> QED BY <3>2, <3>3 DEF Abstract!Next, Abstract!GrantEpoch
  <2>16. CASE CommitRoute(c)
    <3>1. pinsOwned = 0 /\ uart1 = 0 /\ arg[c] = generation + 1 /\ arg[c] <= MaxGen
      BY <1>1, <2>16 DEF CommitRoute, Commit, PortInv, Turning, WriterInv, TypeOK
    <3>2. Owner = "free" /\ Owner' = "epoch" /\ generation' = generation + 1
      BY <2>16, <3>1 DEF CommitRoute, Commit, Owner
    <3>3. generation < MaxGen
      BY <1>1, <3>1 DEF TypeOK
    <3> QED BY <3>2, <3>3 DEF Abstract!Next, Abstract!GrantEpoch
  <2>17. CASE CommitAborted(c)
    BY <2>17, OwnerStutters DEF CommitAborted
  <2>18. CASE EnterPublishRoute(c)
    BY <2>18, OwnerStutters DEF EnterPublishRoute
  <2>19. CASE EnterCloseEngine(c)
    BY <2>19, OwnerStutters DEF EnterCloseEngine
  <2>20. CASE EnterUnpin(c)
    BY <2>20, OwnerStutters DEF EnterUnpin
  <2>21. CASE EnterFail(c)
    BY <2>21, OwnerStutters DEF EnterFail
  <2>22. CASE EnterUnlock(c)
    BY <2>22, OwnerStutters DEF EnterUnlock
  <2> QED BY <1>6, <2>1, <2>2, <2>3, <2>4, <2>5, <2>6, <2>7, <2>8, <2>9, <2>10, <2>11,
     <2>12, <2>13, <2>14, <2>15, <2>16, <2>17, <2>18, <2>19, <2>20, <2>21, <2>22 DEF
     EnterStep
<1>7. ASSUME NEW c \in Ctx, LeaveStep(c) PROVE [Abstract!Next]_<<Owner, generation>>
  <2>1. CASE LeaveTryLock(c)
    BY <2>1, OwnerStutters DEF LeaveTryLock
  <2>2. CASE LeaveContended(c)
    BY <2>2, OwnerStutters DEF LeaveContended
  <2>3. CASE LeaveRevoke(c)
    BY <1>1, <2>3 DEF LeaveRevoke, EpochIsComplete, Owner, Abstract!Next,
       Abstract!Release
  <2>4. CASE LeaveNothing(c)
    BY <2>4, OwnerStutters DEF LeaveNothing
  <2>5. CASE LeaveCloseEngine(c)
    BY <2>5, OwnerStutters DEF LeaveCloseEngine
  <2>6. CASE LeaveReleasePins(c)
    BY <2>6, OwnerStutters DEF LeaveReleasePins
  <2>7. CASE LeaveResult(c)
    BY <2>7, OwnerStutters DEF LeaveResult
  <2>8. CASE LeaveUnlock(c)
    BY <2>8, OwnerStutters DEF LeaveUnlock
  <2>9. CASE LeaveUnlockRoute(c)
    BY <2>9, OwnerStutters DEF LeaveUnlockRoute
  <2>10. CASE LeaveClearRoute(c)
    BY <2>10, OwnerStutters DEF LeaveClearRoute
  <2> QED BY <1>7, <2>1, <2>2, <2>3, <2>4, <2>5, <2>6, <2>7, <2>8, <2>9, <2>10 DEF
     LeaveStep
<1>8. ASSUME NEW c \in Ctx, WriteStep(c) PROVE [Abstract!Next]_<<Owner, generation>>
  <2>1. CASE WriteTryLock(c)
    BY <2>1, OwnerStutters DEF WriteTryLock
  <2>2. CASE WriteContended(c)
    BY <2>2, OwnerStutters DEF WriteContended
  <2>3. CASE WriteRefused(c)
    BY <2>3, OwnerStutters DEF WriteRefused
  <2>4. CASE WriteNotOwned(c)
    BY <2>4, OwnerStutters DEF WriteNotOwned
  <2>5. CASE WriteLeaseCheck(c)
    BY <2>5, OwnerStutters DEF WriteLeaseCheck
  <2>6. CASE WriteDeferredCheck(c)
    BY <2>6, OwnerStutters DEF WriteDeferredCheck
  <2>7. CASE WriteStart(c)
    BY <2>7, OwnerStutters DEF WriteStart
  <2>8. CASE WriteAfterFault(c)
    BY <2>8, OwnerStutters DEF WriteAfterFault
  <2>9. CASE WriteFinish(c)
    BY <2>9, OwnerStutters DEF WriteFinish
  <2>10. CASE WriteResult(c)
    BY <2>10, OwnerStutters DEF WriteResult
  <2>11. CASE WriteUnlock(c)
    BY <2>11, OwnerStutters DEF WriteUnlock
  <2> QED BY <1>8, <2>1, <2>2, <2>3, <2>4, <2>5, <2>6, <2>7, <2>8, <2>9, <2>10, <2>11
     DEF WriteStep
<1>9. ASSUME NEW c \in Ctx, UartStep(c) PROVE [Abstract!Next]_<<Owner, generation>>
  <2>1. CASE UartGuard(c)
    BY <2>1, OwnerStutters DEF UartGuard
  <2>2. CASE UartRefused(c)
    BY <2>2, OwnerStutters DEF UartRefused
  <2>3. CASE UartFlags(c)
    BY <1>1, <2>3 DEF UartFlags, PortInv, TypeOK, Owner, Abstract!Next, Abstract!Release
  <2>4. CASE UartMux(c)
    BY <2>4, OwnerStutters DEF UartMux
  <2>5. CASE UartPublish(c)
    BY <1>1, <2>5 DEF UartPublish, PortInv, TypeOK, Owner, Abstract!Next,
       Abstract!GrantUart
  <2>6. CASE UartUnlock(c)
    BY <2>6, OwnerStutters DEF UartUnlock
  <2> QED BY <1>9, <2>1, <2>2, <2>3, <2>4, <2>5, <2>6 DEF UartStep
<1> QED BY <1>2, <1>3, <1>4, <1>5, <1>6, <1>7, <1>8, <1>9 DEF Next, Step

\* The parallel owner and the opening of UART1 implement one owner of Port C that
\* grants numbered epochs and never hands over without passing through "free".
THEOREM Refinement == Spec => ImplementsOwner
<1>1. Init => Abstract!Init
    BY DEF Init, Owner, Abstract!Init
<1> QED BY Invariance, <1>1, OwnerStep, PTL DEF Spec, ImplementsOwner, Abstract!Spec
============================================================================
