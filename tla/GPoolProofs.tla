---------------------------- MODULE GPoolProofs ----------------------------
(***************************************************************************)
(* Proofs about GPool, for every set of callers and workers and every      *)
(* legal choice of options.                                                *)
(***************************************************************************)
EXTENDS GPool, FiniteSetTheorems, TLAPS

(***************************************************************************)
(* Type correctness: every handler of the pool keeps its state in range;   *)
(* in particular Tune never leaves a capacity that is neither positive nor *)
(* the "no limit" of NewPool.                                              *)
(***************************************************************************)
\* NewPool starts in range.
LEMMA TypeOKInit == Init => TypeOK
  BY TokensAreDistinct, OptionsAreLegal DEF Init, TypeOK, CallerPC, WorkerPC

\* Every step of a caller, a worker, the scavenger or Release keeps the state in range.
LEMMA TypeOKStep == TypeOK /\ [Next]_vars => TypeOK'
<1> SUFFICES ASSUME TypeOK, [Next]_vars PROVE TypeOK'
  BY Zenon
<1> USE TokensAreDistinct, OptionsAreLegal DEF TypeOK, CallerPC, WorkerPC,
        poolVars, callerVars, workerVars, purgeVars, releaseVars
<1>1. ASSUME NEW c \in Caller, Submit(c) PROVE TypeOK'
  BY <1>1 DEF Submit, Return, Goto
<1>2. ASSUME NEW c \in Caller, RetrieveWorker(c) PROVE TypeOK'
  BY <1>2 DEF RetrieveWorker, Return, Goto
<1>3. ASSUME NEW c \in Caller, Block(c) PROVE TypeOK'
  BY <1>3 DEF Block, Return, Goto, Forget
<1>4. ASSUME NEW c \in Caller, Wake(c) PROVE TypeOK'
  BY <1>4 DEF Wake, Goto, Forget
<1>5. ASSUME NEW c \in Caller, WakeIdle(c) PROVE TypeOK'
  BY <1>5 DEF WakeIdle, Return, Goto
<1>6. ASSUME NEW c \in Caller, SpawnWorker(c) PROVE TypeOK'
  BY <1>6 DEF SpawnWorker, Goto
<1>7. ASSUME NEW c \in Caller, SendTask(c) PROVE TypeOK'
  BY <1>7 DEF SendTask, Return, Goto
<1>8. ASSUME NEW w \in Worker, Receive(w) PROVE TypeOK'
  BY ZenonT(30), <1>8 DEF Receive
<1>9. ASSUME NEW w \in Worker, TaskEnds(w) PROVE TypeOK'
  BY <1>9 DEF TaskEnds
<1>10. ASSUME NEW w \in Worker, RevertCheck(w) PROVE TypeOK'
  BY Zenon, <1>10 DEF RevertCheck
<1>11. ASSUME NEW w \in Worker, RevertInsert(w) PROVE TypeOK'
  BY <1>11 DEF RevertInsert, Signal
<1>12. ASSUME NEW w \in Worker, ExitDec(w) PROVE TypeOK'
  BY <1>12 DEF ExitDec
<1>13. ASSUME NEW w \in Worker, ExitSignal(w) PROVE TypeOK'
  BY Zenon, <1>13 DEF ExitSignal, Signal
<1>14. CASE PurgeStep
  BY <1>14 DEF PurgeStep, Tick, RetrieveExpiry, NotifyExpired, PurgeBroadcast, Broadcast
<1>15. CASE Tune
  BY Zenon, <1>15 DEF Tune
<1>16. CASE Release
  BY <1>16 DEF Release
<1>17. CASE ReleaseStep
  BY <1>17 DEF ReleaseStep, ReleaseLock, ResetSend, ReleaseUnlock, ReleaseBroadcast, Broadcast
<1>18. CASE Reboot
  BY Zenon, <1>18 DEF Reboot
<1>19. CASE UNCHANGED vars
  BY Zenon, <1>19 DEF vars
<1> QED
  BY Zenon, <1>1, <1>2, <1>3, <1>4, <1>5, <1>6, <1>7, <1>8, <1>9, <1>10, <1>11, <1>12,
     <1>13, <1>14, <1>15, <1>16, <1>17, <1>18, <1>19
     DEF Next, CallerStep, WorkerStep

-----------------------------------------------------------------------------
(***************************************************************************)
(* The ownership of workers.  SendRightIsExclusive is inductive together   *)
(* with TypeOK: every action that gives the right to send to a worker to   *)
(* somebody takes it from whoever had it.                                  *)
(***************************************************************************)
\* At first there is no worker to own.
LEMMA ExclusiveInit == Init => SendRightIsExclusive
  BY Zenon, TokensAreDistinct DEF Init, SendRightIsExclusive, HeldBy, Held

\* Every step hands a worker from one owner to one other.
LEMMA ExclusiveStep == TypeOK /\ SendRightIsExclusive /\ [Next]_vars => SendRightIsExclusive'
<1> SUFFICES ASSUME TypeOK, SendRightIsExclusive, [Next]_vars PROVE SendRightIsExclusive'
  BY Zenon
<1> USE TokensAreDistinct DEF TypeOK, CallerPC, WorkerPC, HeldBy, Held,
        poolVars, callerVars, workerVars, purgeVars, releaseVars,
        SendRightIsExclusive
<1>1. ASSUME NEW c0 \in Caller, Submit(c0) PROVE SendRightIsExclusive'
  BY <1>1 DEF Submit, Return, Goto
<1>2. ASSUME NEW c0 \in Caller, RetrieveWorker(c0) PROVE SendRightIsExclusive'
  BY <1>2 DEF RetrieveWorker, Return, Goto
<1>3. ASSUME NEW c0 \in Caller, Block(c0) PROVE SendRightIsExclusive'
  BY <1>3 DEF Block, Return, Goto
<1>4. ASSUME NEW c0 \in Caller, Wake(c0) PROVE SendRightIsExclusive'
  BY <1>4 DEF Wake, Goto
<1>5. ASSUME NEW c0 \in Caller, WakeIdle(c0) PROVE SendRightIsExclusive'
  BY <1>5 DEF WakeIdle, Return, Goto
<1>6. ASSUME NEW c0 \in Caller, SpawnWorker(c0) PROVE SendRightIsExclusive'
  BY <1>6 DEF SpawnWorker, Goto
<1>7. ASSUME NEW c0 \in Caller, SendTask(c0) PROVE SendRightIsExclusive'
  BY <1>7 DEF SendTask, Return, Goto, CanSend
<1>8. ASSUME NEW w0 \in Worker, Receive(w0) PROVE SendRightIsExclusive'
  BY <1>8 DEF Receive
<1>9. ASSUME NEW w0 \in Worker, TaskEnds(w0) PROVE SendRightIsExclusive'
  BY <1>9 DEF TaskEnds
<1>10. ASSUME NEW w0 \in Worker, RevertCheck(w0) PROVE SendRightIsExclusive'
  BY <1>10 DEF RevertCheck
<1>11. ASSUME NEW w0 \in Worker, RevertInsert(w0) PROVE SendRightIsExclusive'
  BY <1>11 DEF RevertInsert, Signal
<1>12. ASSUME NEW w0 \in Worker, ExitDec(w0) PROVE SendRightIsExclusive'
  BY <1>12 DEF ExitDec
<1>13. ASSUME NEW w0 \in Worker, ExitSignal(w0) PROVE SendRightIsExclusive'
  BY <1>13 DEF ExitSignal, Signal
<1>14. CASE Tick
  BY <1>14 DEF Tick
<1>15. CASE RetrieveExpiry
  BY <1>15 DEF RetrieveExpiry
<1>16. CASE NotifyExpired
  BY <1>16 DEF NotifyExpired, CanSend
<1>17. CASE PurgeBroadcast
  BY <1>17 DEF PurgeBroadcast, Broadcast
<1>18. CASE Tune
  BY <1>18 DEF Tune
<1>19. CASE Release
  BY <1>19 DEF Release
<1>20. CASE ReleaseLock
  BY ZenonT(30), <1>20 DEF ReleaseLock
<1>21. CASE ResetSend
  BY <1>21 DEF ResetSend, CanSend
<1>22. CASE ReleaseUnlock
  BY <1>22 DEF ReleaseUnlock
<1>23. CASE ReleaseBroadcast
  BY <1>23 DEF ReleaseBroadcast, Broadcast
<1>24. CASE Reboot
  BY ZenonT(30), <1>24 DEF Reboot
<1>25. CASE UNCHANGED vars
  BY <1>25 DEF vars
<1> QED
  BY Zenon, <1>1, <1>2, <1>3, <1>4, <1>5, <1>6, <1>7, <1>8, <1>9, <1>10, <1>11,
     <1>12, <1>13, <1>14, <1>15, <1>16, <1>17, <1>18, <1>19, <1>20, <1>21,
     <1>22, <1>23, <1>24, <1>25
     DEF Next, CallerStep, WorkerStep, PurgeStep, ReleaseStep

\* No worker is forgotten because expiredWorkers is used up before the next tick.
ForgottenInv ==
  /\ NoWorkerIsForgotten
  /\ expired # {} => spc = "notify"

\* At first there is no worker to forget.
LEMMA ForgottenInit == Init => ForgottenInv
  BY Zenon DEF Init, NoWorkerIsForgotten, ForgottenInv

\* A worker that leaves the idle array, or fails to enter it, stays in somebody's hands.
LEMMA ForgottenStep ==
  TypeOK /\ SendRightIsExclusive /\ ForgottenInv /\ [Next]_vars => ForgottenInv'
<1> SUFFICES ASSUME TypeOK, SendRightIsExclusive, ForgottenInv, [Next]_vars PROVE ForgottenInv'
  BY Zenon
<1> USE TokensAreDistinct DEF TypeOK, CallerPC, WorkerPC, HeldBy, Held,
        poolVars, callerVars, workerVars, purgeVars, releaseVars,
        SendRightIsExclusive, NoWorkerIsForgotten, ForgottenInv
<1>1. ASSUME NEW c0 \in Caller, Submit(c0) PROVE ForgottenInv'
  BY <1>1 DEF Submit, Return, Goto
<1>2. ASSUME NEW c0 \in Caller, RetrieveWorker(c0) PROVE ForgottenInv'
  BY <1>2 DEF RetrieveWorker, Return, Goto
<1>3. ASSUME NEW c0 \in Caller, Block(c0) PROVE ForgottenInv'
  BY <1>3 DEF Block, Return, Goto
<1>4. ASSUME NEW c0 \in Caller, Wake(c0) PROVE ForgottenInv'
  BY <1>4 DEF Wake, Goto
<1>5. ASSUME NEW c0 \in Caller, WakeIdle(c0) PROVE ForgottenInv'
  BY <1>5 DEF WakeIdle, Return, Goto
<1>6. ASSUME NEW c0 \in Caller, SpawnWorker(c0) PROVE ForgottenInv'
  BY <1>6 DEF SpawnWorker, Goto
<1>7. ASSUME NEW c0 \in Caller, SendTask(c0) PROVE ForgottenInv'
  BY ZenonT(30), <1>7 DEF SendTask, Return, Goto, CanSend
<1>8. ASSUME NEW w0 \in Worker, Receive(w0) PROVE ForgottenInv'
  BY <1>8 DEF Receive
<1>9. ASSUME NEW w0 \in Worker, TaskEnds(w0) PROVE ForgottenInv'
  BY Zenon, <1>9 DEF TaskEnds
<1>10. ASSUME NEW w0 \in Worker, RevertCheck(w0) PROVE ForgottenInv'
  BY Zenon, <1>10 DEF RevertCheck
<1>11. ASSUME NEW w0 \in Worker, RevertInsert(w0) PROVE ForgottenInv'
  BY <1>11 DEF RevertInsert, Signal
<1>12. ASSUME NEW w0 \in Worker, ExitDec(w0) PROVE ForgottenInv'
  BY Zenon, <1>12 DEF ExitDec
<1>13. ASSUME NEW w0 \in Worker, ExitSignal(w0) PROVE ForgottenInv'
  BY <1>13 DEF ExitSignal, Signal
<1>14. CASE Tick
  BY Zenon, <1>14 DEF Tick
<1>15. CASE RetrieveExpiry
  BY Zenon, <1>15 DEF RetrieveExpiry
<1>16. CASE NotifyExpired
  BY ZenonT(30), <1>16 DEF NotifyExpired, CanSend
<1>17. CASE PurgeBroadcast
  BY <1>17 DEF PurgeBroadcast, Broadcast
<1>18. CASE Tune
  BY Zenon, <1>18 DEF Tune
<1>19. CASE Release
  BY Zenon, <1>19 DEF Release
<1>20. CASE ReleaseLock
  BY Zenon, <1>20 DEF ReleaseLock
<1>21. CASE ResetSend
  BY ZenonT(30), <1>21 DEF ResetSend, CanSend
<1>22. CASE ReleaseUnlock
  BY Zenon, <1>22 DEF ReleaseUnlock
<1>23. CASE ReleaseBroadcast
  BY Zenon, <1>23 DEF ReleaseBroadcast, Broadcast
<1>24. CASE Reboot
  BY Zenon, <1>24 DEF Reboot
<1>25. CASE UNCHANGED vars
  BY Zenon, <1>25 DEF vars
<1> QED
  BY Zenon, <1>1, <1>2, <1>3, <1>4, <1>5, <1>6, <1>7, <1>8, <1>9, <1>10, <1>11,
     <1>12, <1>13, <1>14, <1>15, <1>16, <1>17, <1>18, <1>19, <1>20, <1>21,
     <1>22, <1>23, <1>24, <1>25
     DEF Next, CallerStep, WorkerStep, PurgeStep, ReleaseStep

\* NewPool makes an open pool.
LEMMA ClosedInit == Init => ClosedPoolHasNoIdleWorkers
  BY Zenon DEF Init, ClosedPoolHasNoIdleWorkers, IsClosed

\* Once closed and reset, the array gets no worker: revertWorker looks at the state again.
LEMMA ClosedStep ==
  TypeOK /\ ClosedPoolHasNoIdleWorkers /\ [Next]_vars => ClosedPoolHasNoIdleWorkers'
<1> SUFFICES ASSUME TypeOK, ClosedPoolHasNoIdleWorkers, [Next]_vars PROVE ClosedPoolHasNoIdleWorkers'
  BY Zenon
<1> USE DEF TypeOK, poolVars, callerVars, workerVars, purgeVars, releaseVars,
        ClosedPoolHasNoIdleWorkers, IsClosed
<1>1. ASSUME NEW c0 \in Caller, Submit(c0) PROVE ClosedPoolHasNoIdleWorkers'
  BY Zenon, <1>1 DEF Submit, Return, Goto
<1>2. ASSUME NEW c0 \in Caller, RetrieveWorker(c0) PROVE ClosedPoolHasNoIdleWorkers'
  BY Zenon, <1>2 DEF RetrieveWorker, Return, Goto
<1>3. ASSUME NEW c0 \in Caller, Block(c0) PROVE ClosedPoolHasNoIdleWorkers'
  BY Zenon, <1>3 DEF Block, Return, Goto
<1>4. ASSUME NEW c0 \in Caller, Wake(c0) PROVE ClosedPoolHasNoIdleWorkers'
  BY Zenon, <1>4 DEF Wake, Goto
<1>5. ASSUME NEW c0 \in Caller, WakeIdle(c0) PROVE ClosedPoolHasNoIdleWorkers'
  BY Zenon, <1>5 DEF WakeIdle, Return, Goto
<1>6. ASSUME NEW c0 \in Caller, SpawnWorker(c0) PROVE ClosedPoolHasNoIdleWorkers'
  BY Zenon, <1>6 DEF SpawnWorker, Goto
<1>7. ASSUME NEW c0 \in Caller, SendTask(c0) PROVE ClosedPoolHasNoIdleWorkers'
  BY Zenon, <1>7 DEF SendTask, Return, Goto, CanSend
<1>8. ASSUME NEW w0 \in Worker, Receive(w0) PROVE ClosedPoolHasNoIdleWorkers'
  BY Zenon, <1>8 DEF Receive
<1>9. ASSUME NEW w0 \in Worker, TaskEnds(w0) PROVE ClosedPoolHasNoIdleWorkers'
  BY Zenon, <1>9 DEF TaskEnds
<1>10. ASSUME NEW w0 \in Worker, RevertCheck(w0) PROVE ClosedPoolHasNoIdleWorkers'
  BY Zenon, <1>10 DEF RevertCheck
<1>11. ASSUME NEW w0 \in Worker, RevertInsert(w0) PROVE ClosedPoolHasNoIdleWorkers'
  BY Zenon, <1>11 DEF RevertInsert, Signal
<1>12. ASSUME NEW w0 \in Worker, ExitDec(w0) PROVE ClosedPoolHasNoIdleWorkers'
  BY Zenon, <1>12 DEF ExitDec
<1>13. ASSUME NEW w0 \in Worker, ExitSignal(w0) PROVE ClosedPoolHasNoIdleWorkers'
  BY Zenon, <1>13 DEF ExitSignal, Signal
<1>14. CASE Tick
  BY Zenon, <1>14 DEF Tick
<1>15. CASE RetrieveExpiry
  BY Zenon, <1>15 DEF RetrieveExpiry
<1>16. CASE NotifyExpired
  BY Zenon, <1>16 DEF NotifyExpired, CanSend
<1>17. CASE PurgeBroadcast
  BY Zenon, <1>17 DEF PurgeBroadcast, Broadcast
<1>18. CASE Tune
  BY Zenon, <1>18 DEF Tune
<1>19. CASE Release
  BY Zenon, <1>19 DEF Release
<1>20. CASE ReleaseLock
  BY Zenon, <1>20 DEF ReleaseLock
<1>21. CASE ResetSend
  BY Zenon, <1>21 DEF ResetSend, CanSend
<1>22. CASE ReleaseUnlock
  BY Zenon, <1>22 DEF ReleaseUnlock
<1>23. CASE ReleaseBroadcast
  BY Zenon, <1>23 DEF ReleaseBroadcast, Broadcast
<1>24. CASE Reboot
  BY Zenon, <1>24 DEF Reboot
<1>25. CASE UNCHANGED vars
  BY Zenon, <1>25 DEF vars
<1> QED
  BY Zenon, <1>1, <1>2, <1>3, <1>4, <1>5, <1>6, <1>7, <1>8, <1>9, <1>10, <1>11,
     <1>12, <1>13, <1>14, <1>15, <1>16, <1>17, <1>18, <1>19, <1>20, <1>21,
     <1>22, <1>23, <1>24, <1>25
     DEF Next, CallerStep, WorkerStep, PurgeStep, ReleaseStep

-----------------------------------------------------------------------------
(***************************************************************************)
(* Where tasks are.  That a task has one carrier needs two more facts: a   *)
(* caller inside Submit has no task in the pool yet, and only a worker     *)
(* that is executing has a task.                                           *)
(***************************************************************************)
TasksInv ==
  /\ TaskHasOneCarrier
  /\ \A c \in Caller : cpc[c] \notin {"idle", "done"} => ~Outstanding(c)
  /\ \A w \in Worker : wtask[w] # NoTask => wpc[w] = "run"

\* At first there are no tasks.
LEMMA TasksInit == Init => TasksInv
  BY TokensAreDistinct DEF Init, TasksInv, TaskHasOneCarrier, Outstanding

\* A task moves from the caller to a channel, to the worker, and is gone when it ends.
LEMMA TasksStep ==
  TypeOK /\ SendRightIsExclusive /\ TasksInv /\ [Next]_vars => TasksInv'
<1> SUFFICES ASSUME TypeOK, SendRightIsExclusive, TasksInv, [Next]_vars PROVE TasksInv'
  BY Zenon
<1> USE TokensAreDistinct DEF TypeOK, CallerPC, WorkerPC, HeldBy, Held,
        poolVars, callerVars, workerVars, purgeVars, releaseVars,
        SendRightIsExclusive, TasksInv, TaskHasOneCarrier, Outstanding
<1>1. ASSUME NEW c0 \in Caller, Submit(c0) PROVE TasksInv'
  BY <1>1 DEF Submit, Return, Goto
<1>2. ASSUME NEW c0 \in Caller, RetrieveWorker(c0) PROVE TasksInv'
  BY <1>2 DEF RetrieveWorker, Return, Goto
<1>3. ASSUME NEW c0 \in Caller, Block(c0) PROVE TasksInv'
  BY <1>3 DEF Block, Return, Goto
<1>4. ASSUME NEW c0 \in Caller, Wake(c0) PROVE TasksInv'
  BY <1>4 DEF Wake, Goto
<1>5. ASSUME NEW c0 \in Caller, WakeIdle(c0) PROVE TasksInv'
  BY <1>5 DEF WakeIdle, Return, Goto
<1>6. ASSUME NEW c0 \in Caller, SpawnWorker(c0) PROVE TasksInv'
  BY <1>6 DEF SpawnWorker, Goto
<1>7. ASSUME NEW c0 \in Caller, SendTask(c0) PROVE TasksInv'
  BY <1>7 DEF SendTask, Return, Goto, CanSend
<1>8. ASSUME NEW w0 \in Worker, Receive(w0) PROVE TasksInv'
  BY <1>8 DEF Receive
<1>9. ASSUME NEW w0 \in Worker, TaskEnds(w0) PROVE TasksInv'
  BY <1>9 DEF TaskEnds
<1>10. ASSUME NEW w0 \in Worker, RevertCheck(w0) PROVE TasksInv'
  BY <1>10 DEF RevertCheck
<1>11. ASSUME NEW w0 \in Worker, RevertInsert(w0) PROVE TasksInv'
  BY <1>11 DEF RevertInsert, Signal
<1>12. ASSUME NEW w0 \in Worker, ExitDec(w0) PROVE TasksInv'
  BY <1>12 DEF ExitDec
<1>13. ASSUME NEW w0 \in Worker, ExitSignal(w0) PROVE TasksInv'
  BY <1>13 DEF ExitSignal, Signal
<1>14. CASE Tick
  BY <1>14 DEF Tick
<1>15. CASE RetrieveExpiry
  BY <1>15 DEF RetrieveExpiry
<1>16. CASE NotifyExpired
  BY <1>16 DEF NotifyExpired, CanSend
<1>17. CASE PurgeBroadcast
  BY <1>17 DEF PurgeBroadcast, Broadcast
<1>18. CASE Tune
  BY <1>18 DEF Tune
<1>19. CASE Release
  BY <1>19 DEF Release
<1>20. CASE ReleaseLock
  BY <1>20 DEF ReleaseLock
<1>21. CASE ResetSend
  BY <1>21 DEF ResetSend, CanSend
<1>22. CASE ReleaseUnlock
  BY <1>22 DEF ReleaseUnlock
<1>23. CASE ReleaseBroadcast
  BY <1>23 DEF ReleaseBroadcast, Broadcast
<1>24. CASE Reboot
  BY <1>24 DEF Reboot
<1>25. CASE UNCHANGED vars
  BY <1>25 DEF vars
<1> QED
  BY Zenon, <1>1, <1>2, <1>3, <1>4, <1>5, <1>6, <1>7, <1>8, <1>9, <1>10, <1>11,
     <1>12, <1>13, <1>14, <1>15, <1>16, <1>17, <1>18, <1>19, <1>20, <1>21,
     <1>22, <1>23, <1>24, <1>25
     DEF Next, CallerStep, WorkerStep, PurgeStep, ReleaseStep

-----------------------------------------------------------------------------
(***************************************************************************)
(* The counters.  Only spawnWorker and the deferred decRunning change the  *)
(* set of live workers, only entering and leaving cond.Wait the set of     *)
(* blocked callers; each changes its counter by one.                       *)
(***************************************************************************)
LiveWorkers == {w \in Worker : Live(w)}
Blocked == {c \in Caller : cpc[c] \in {"waiting", "woken"}}

\* The worker goroutines are finitely many, before and after a step.
LEMMA FiniteLive == IsFiniteSet(LiveWorkers) /\ IsFiniteSet(LiveWorkers')
<1>1. LiveWorkers \subseteq Worker /\ LiveWorkers' \subseteq Worker
  BY Zenon DEF LiveWorkers
<1> QED
  BY Zenon, <1>1, FiniteProcesses, FS_Subset

\* The callers in cond.Wait are finitely many, before and after a step.
LEMMA FiniteBlocked == IsFiniteSet(Blocked) /\ IsFiniteSet(Blocked')
<1>1. Blocked \subseteq Caller /\ Blocked' \subseteq Caller
  BY Zenon DEF Blocked
<1> QED
  BY Zenon, <1>1, FiniteProcesses, FS_Subset

\* At first nothing runs.
LEMMA RunningInit == Init => RunningCountsWorkers
<1> SUFFICES ASSUME Init PROVE RunningCountsWorkers
  BY Zenon
<1>1. {w \in Worker : Live(w)} = {}
  BY Zenon DEF Init, Live
<1> QED
  BY Zenon, <1>1, FS_EmptySet DEF Init, RunningCountsWorkers

\* incRunning and decRunning keep pace with the goroutines started and ended.
LEMMA RunningStep ==
  TypeOK /\ RunningCountsWorkers /\ [Next]_vars => RunningCountsWorkers'
<1> SUFFICES ASSUME TypeOK, RunningCountsWorkers, [Next]_vars PROVE RunningCountsWorkers'
  BY Zenon
<1> USE DEF TypeOK, CallerPC, WorkerPC, poolVars, callerVars, workerVars, purgeVars, releaseVars, Live
<1>1. ASSUME NEW c0 \in Caller, Submit(c0) PROVE RunningCountsWorkers'
  <2>1. LiveWorkers' = LiveWorkers
    BY Zenon, <1>1 DEF Submit, Return, Goto, LiveWorkers
  <2> QED
    BY Zenon, <2>1, <1>1 DEF Submit, LiveWorkers, RunningCountsWorkers
<1>2. ASSUME NEW c0 \in Caller, RetrieveWorker(c0) PROVE RunningCountsWorkers'
  <2>1. LiveWorkers' = LiveWorkers
    BY Zenon, <1>2 DEF RetrieveWorker, Return, Goto, LiveWorkers
  <2> QED
    BY Zenon, <2>1, <1>2 DEF RetrieveWorker, LiveWorkers, RunningCountsWorkers
<1>3. ASSUME NEW c0 \in Caller, Block(c0) PROVE RunningCountsWorkers'
  <2>1. LiveWorkers' = LiveWorkers
    BY Zenon, <1>3 DEF Block, Return, Goto, LiveWorkers
  <2> QED
    BY Zenon, <2>1, <1>3 DEF Block, LiveWorkers, RunningCountsWorkers
<1>4. ASSUME NEW c0 \in Caller, Wake(c0) PROVE RunningCountsWorkers'
  <2>1. LiveWorkers' = LiveWorkers
    BY Zenon, <1>4 DEF Wake, Goto, LiveWorkers
  <2> QED
    BY Zenon, <2>1, <1>4 DEF Wake, LiveWorkers, RunningCountsWorkers
<1>5. ASSUME NEW c0 \in Caller, WakeIdle(c0) PROVE RunningCountsWorkers'
  <2>1. LiveWorkers' = LiveWorkers
    BY Zenon, <1>5 DEF WakeIdle, Return, Goto, LiveWorkers
  <2> QED
    BY Zenon, <2>1, <1>5 DEF WakeIdle, LiveWorkers, RunningCountsWorkers
<1>6. ASSUME NEW c0 \in Caller, SpawnWorker(c0) PROVE RunningCountsWorkers'
  <2>1. PICK w \in Worker : wpc[w] = "free" /\ wpc' = [wpc EXCEPT ![w] = "recv"]
    BY Zenon, <1>6 DEF SpawnWorker
  <2>2. LiveWorkers' = LiveWorkers \cup {w} /\ w \notin LiveWorkers
    BY Zenon, <2>1 DEF LiveWorkers
  <2>3. Cardinality(LiveWorkers') = Cardinality(LiveWorkers) + 1
    BY Zenon, <2>2, FiniteLive, FS_AddElement
  <2> QED
    BY Zenon, <2>3, <1>6 DEF SpawnWorker, LiveWorkers, RunningCountsWorkers
<1>7. ASSUME NEW c0 \in Caller, SendTask(c0) PROVE RunningCountsWorkers'
  <2>1. LiveWorkers' = LiveWorkers
    BY Zenon, <1>7 DEF SendTask, Return, Goto, CanSend, LiveWorkers
  <2> QED
    BY Zenon, <2>1, <1>7 DEF SendTask, LiveWorkers, RunningCountsWorkers
<1>8. ASSUME NEW w0 \in Worker, Receive(w0) PROVE RunningCountsWorkers'
  <2>1. LiveWorkers' = LiveWorkers
    BY Zenon, <1>8 DEF Receive, LiveWorkers
  <2> QED
    BY Zenon, <2>1, <1>8 DEF Receive, LiveWorkers, RunningCountsWorkers
<1>9. ASSUME NEW w0 \in Worker, TaskEnds(w0) PROVE RunningCountsWorkers'
  <2>1. LiveWorkers' = LiveWorkers
    BY Zenon, <1>9 DEF TaskEnds, LiveWorkers
  <2> QED
    BY Zenon, <2>1, <1>9 DEF TaskEnds, LiveWorkers, RunningCountsWorkers
<1>10. ASSUME NEW w0 \in Worker, RevertCheck(w0) PROVE RunningCountsWorkers'
  <2>1. LiveWorkers' = LiveWorkers
    BY Zenon, <1>10 DEF RevertCheck, LiveWorkers
  <2> QED
    BY Zenon, <2>1, <1>10 DEF RevertCheck, LiveWorkers, RunningCountsWorkers
<1>11. ASSUME NEW w0 \in Worker, RevertInsert(w0) PROVE RunningCountsWorkers'
  <2>1. LiveWorkers' = LiveWorkers
    BY Zenon, <1>11 DEF RevertInsert, Signal, LiveWorkers
  <2> QED
    BY Zenon, <2>1, <1>11 DEF RevertInsert, LiveWorkers, RunningCountsWorkers
<1>12. ASSUME NEW w0 \in Worker, ExitDec(w0) PROVE RunningCountsWorkers'
  <2>1. LiveWorkers' = LiveWorkers \ {w0} /\ w0 \in LiveWorkers
    BY Zenon, <1>12 DEF ExitDec, LiveWorkers
  <2>2. Cardinality(LiveWorkers') = Cardinality(LiveWorkers) - 1
    BY Zenon, <2>1, FiniteLive, FS_RemoveElement
  <2> QED
    BY Zenon, <2>2, <1>12 DEF ExitDec, LiveWorkers, RunningCountsWorkers
<1>13. ASSUME NEW w0 \in Worker, ExitSignal(w0) PROVE RunningCountsWorkers'
  <2>1. LiveWorkers' = LiveWorkers
    BY Zenon, <1>13 DEF ExitSignal, Signal, LiveWorkers
  <2> QED
    BY Zenon, <2>1, <1>13 DEF ExitSignal, LiveWorkers, RunningCountsWorkers
<1>14. CASE Tick
  <2>1. LiveWorkers' = LiveWorkers
    BY Zenon, <1>14 DEF Tick, LiveWorkers
  <2> QED
    BY Zenon, <2>1, <1>14 DEF Tick, LiveWorkers, RunningCountsWorkers
<1>15. CASE RetrieveExpiry
  <2>1. LiveWorkers' = LiveWorkers
    BY Zenon, <1>15 DEF RetrieveExpiry, LiveWorkers
  <2> QED
    BY Zenon, <2>1, <1>15 DEF RetrieveExpiry, LiveWorkers, RunningCountsWorkers
<1>16. CASE NotifyExpired
  <2>1. LiveWorkers' = LiveWorkers
    BY Zenon, <1>16 DEF NotifyExpired, CanSend, LiveWorkers
  <2> QED
    BY Zenon, <2>1, <1>16 DEF NotifyExpired, LiveWorkers, RunningCountsWorkers
<1>17. CASE PurgeBroadcast
  <2>1. LiveWorkers' = LiveWorkers
    BY Zenon, <1>17 DEF PurgeBroadcast, Broadcast, LiveWorkers
  <2> QED
    BY Zenon, <2>1, <1>17 DEF PurgeBroadcast, LiveWorkers, RunningCountsWorkers
<1>18. CASE Tune
  <2>1. LiveWorkers' = LiveWorkers
    BY Zenon, <1>18 DEF Tune, LiveWorkers
  <2> QED
    BY Zenon, <2>1, <1>18 DEF Tune, LiveWorkers, RunningCountsWorkers
<1>19. CASE Release
  <2>1. LiveWorkers' = LiveWorkers
    BY Zenon, <1>19 DEF Release, LiveWorkers
  <2> QED
    BY Zenon, <2>1, <1>19 DEF Release, LiveWorkers, RunningCountsWorkers
<1>20. CASE ReleaseLock
  <2>1. LiveWorkers' = LiveWorkers
    BY Zenon, <1>20 DEF ReleaseLock, LiveWorkers
  <2> QED
    BY Zenon, <2>1, <1>20 DEF ReleaseLock, LiveWorkers, RunningCountsWorkers
<1>21. CASE ResetSend
  <2>1. LiveWorkers' = LiveWorkers
    BY Zenon, <1>21 DEF ResetSend, CanSend, LiveWorkers
  <2> QED
    BY Zenon, <2>1, <1>21 DEF ResetSend, LiveWorkers, RunningCountsWorkers
<1>22. CASE ReleaseUnlock
  <2>1. LiveWorkers' = LiveWorkers
    BY Zenon, <1>22 DEF ReleaseUnlock, LiveWorkers
  <2> QED
    BY Zenon, <2>1, <1>22 DEF ReleaseUnlock, LiveWorkers, RunningCountsWorkers
<1>23. CASE ReleaseBroadcast
  <2>1. LiveWorkers' = LiveWorkers
    BY Zenon, <1>23 DEF ReleaseBroadcast, Broadcast, LiveWorkers
  <2> QED
    BY Zenon, <2>1, <1>23 DEF ReleaseBroadcast, LiveWorkers, RunningCountsWorkers
<1>24. CASE Reboot
  <2>1. LiveWorkers' = LiveWorkers
    BY Zenon, <1>24 DEF Reboot, LiveWorkers
  <2> QED
    BY Zenon, <2>1, <1>24 DEF Reboot, LiveWorkers, RunningCountsWorkers
<1>25. CASE UNCHANGED vars
  BY Zenon, <1>25 DEF vars, RunningCountsWorkers
<1> QED
  BY Zenon, <1>1, <1>2, <1>3, <1>4, <1>5, <1>6, <1>7, <1>8, <1>9, <1>10, <1>11,
     <1>12, <1>13, <1>14, <1>15, <1>16, <1>17, <1>18, <1>19, <1>20, <1>21,
     <1>22, <1>23, <1>24, <1>25
     DEF Next, CallerStep, WorkerStep, PurgeStep, ReleaseStep

\* At first nobody is blocked.
LEMMA BlockingInit == Init => BlockingIsBounded
<1> SUFFICES ASSUME Init PROVE BlockingIsBounded
  BY Zenon
<1>1. {c \in Caller : cpc[c] \in {"waiting", "woken"}} = {}
  BY Zenon DEF Init
<1> QED
  BY <1>1, FS_EmptySet, OptionsAreLegal DEF Init, BlockingIsBounded

\* blockingNum is raised before cond.Wait and lowered after it, and only below its limit.
LEMMA BlockingStep ==
  TypeOK /\ BlockingIsBounded /\ [Next]_vars => BlockingIsBounded'
<1> SUFFICES ASSUME TypeOK, BlockingIsBounded, [Next]_vars PROVE BlockingIsBounded'
  BY Zenon
<1> USE DEF TypeOK, CallerPC, poolVars, callerVars, workerVars, purgeVars, releaseVars
<1>1. ASSUME NEW c0 \in Caller, Submit(c0) PROVE BlockingIsBounded'
  <2>1. Blocked' = Blocked
    BY Zenon, <1>1 DEF Submit, Return, Goto, Blocked
  <2> QED
    BY Zenon, <2>1, <1>1 DEF Submit, Blocked, BlockingIsBounded
<1>2. ASSUME NEW c0 \in Caller, RetrieveWorker(c0) PROVE BlockingIsBounded'
  <2>1. Blocked' = Blocked
    BY Zenon, <1>2 DEF RetrieveWorker, Return, Goto, Blocked
  <2> QED
    BY Zenon, <2>1, <1>2 DEF RetrieveWorker, Blocked, BlockingIsBounded
<1>3. ASSUME NEW c0 \in Caller, Block(c0) PROVE BlockingIsBounded'
  <2>1. CASE TooManyBlocked
    <3>1. Blocked' = Blocked
      BY Zenon, <1>3, <2>1 DEF Block, Return, Goto, Blocked
    <3> QED
      BY Zenon, <3>1, <2>1, <1>3 DEF Block, Blocked, BlockingIsBounded
  <2>2. CASE ~TooManyBlocked
    <3>1. Blocked' = Blocked \cup {c0} /\ c0 \notin Blocked
      BY Zenon, <1>3, <2>2 DEF Block, Goto, Blocked
    <3>2. Cardinality(Blocked') = Cardinality(Blocked) + 1
      BY Zenon, <3>1, FiniteBlocked, FS_AddElement
    <3> QED
      BY <3>2, <2>2, <1>3, OptionsAreLegal DEF Block, Blocked, BlockingIsBounded, TooManyBlocked
  <2> QED
    BY Zenon, <2>1, <2>2
<1>4. ASSUME NEW c0 \in Caller, Wake(c0) PROVE BlockingIsBounded'
  <2>1. Blocked' = Blocked \ {c0} /\ c0 \in Blocked
    BY Zenon, <1>4 DEF Wake, Goto, Blocked
  <2>2. Cardinality(Blocked') = Cardinality(Blocked) - 1
    BY Zenon, <2>1, FiniteBlocked, FS_RemoveElement
  <2> QED
    BY <2>2, <1>4, OptionsAreLegal DEF Wake, Blocked, BlockingIsBounded
<1>5. ASSUME NEW c0 \in Caller, WakeIdle(c0) PROVE BlockingIsBounded'
  <2>1. Blocked' = Blocked
    BY Zenon, <1>5 DEF WakeIdle, Return, Goto, Blocked
  <2> QED
    BY Zenon, <2>1, <1>5 DEF WakeIdle, Blocked, BlockingIsBounded
<1>6. ASSUME NEW c0 \in Caller, SpawnWorker(c0) PROVE BlockingIsBounded'
  <2>1. Blocked' = Blocked
    BY Zenon, <1>6 DEF SpawnWorker, Goto, Blocked
  <2> QED
    BY Zenon, <2>1, <1>6 DEF SpawnWorker, Blocked, BlockingIsBounded
<1>7. ASSUME NEW c0 \in Caller, SendTask(c0) PROVE BlockingIsBounded'
  <2>1. Blocked' = Blocked
    BY Zenon, <1>7 DEF SendTask, Return, Goto, CanSend, Blocked
  <2> QED
    BY Zenon, <2>1, <1>7 DEF SendTask, Blocked, BlockingIsBounded
<1>8. ASSUME NEW w0 \in Worker, Receive(w0) PROVE BlockingIsBounded'
  <2>1. Blocked' = Blocked
    BY Zenon, <1>8 DEF Receive, Blocked
  <2> QED
    BY Zenon, <2>1, <1>8 DEF Receive, Blocked, BlockingIsBounded
<1>9. ASSUME NEW w0 \in Worker, TaskEnds(w0) PROVE BlockingIsBounded'
  <2>1. Blocked' = Blocked
    BY Zenon, <1>9 DEF TaskEnds, Blocked
  <2> QED
    BY Zenon, <2>1, <1>9 DEF TaskEnds, Blocked, BlockingIsBounded
<1>10. ASSUME NEW w0 \in Worker, RevertCheck(w0) PROVE BlockingIsBounded'
  <2>1. Blocked' = Blocked
    BY Zenon, <1>10 DEF RevertCheck, Blocked
  <2> QED
    BY Zenon, <2>1, <1>10 DEF RevertCheck, Blocked, BlockingIsBounded
<1>11. ASSUME NEW w0 \in Worker, RevertInsert(w0) PROVE BlockingIsBounded'
  <2>1. Blocked' = Blocked
    BY Zenon, <1>11 DEF RevertInsert, Signal, Blocked
  <2> QED
    BY Zenon, <2>1, <1>11 DEF RevertInsert, Blocked, BlockingIsBounded
<1>12. ASSUME NEW w0 \in Worker, ExitDec(w0) PROVE BlockingIsBounded'
  <2>1. Blocked' = Blocked
    BY Zenon, <1>12 DEF ExitDec, Blocked
  <2> QED
    BY Zenon, <2>1, <1>12 DEF ExitDec, Blocked, BlockingIsBounded
<1>13. ASSUME NEW w0 \in Worker, ExitSignal(w0) PROVE BlockingIsBounded'
  <2>1. Blocked' = Blocked
    BY Zenon, <1>13 DEF ExitSignal, Signal, Blocked
  <2> QED
    BY Zenon, <2>1, <1>13 DEF ExitSignal, Blocked, BlockingIsBounded
<1>14. CASE Tick
  <2>1. Blocked' = Blocked
    BY Zenon, <1>14 DEF Tick, Blocked
  <2> QED
    BY Zenon, <2>1, <1>14 DEF Tick, Blocked, BlockingIsBounded
<1>15. CASE RetrieveExpiry
  <2>1. Blocked' = Blocked
    BY Zenon, <1>15 DEF RetrieveExpiry, Blocked
  <2> QED
    BY Zenon, <2>1, <1>15 DEF RetrieveExpiry, Blocked, BlockingIsBounded
<1>16. CASE NotifyExpired
  <2>1. Blocked' = Blocked
    BY Zenon, <1>16 DEF NotifyExpired, CanSend, Blocked
  <2> QED
    BY Zenon, <2>1, <1>16 DEF NotifyExpired, Blocked, BlockingIsBounded
<1>17. CASE PurgeBroadcast
  <2>1. Blocked' = Blocked
    BY Zenon, <1>17 DEF PurgeBroadcast, Broadcast, Blocked
  <2> QED
    BY Zenon, <2>1, <1>17 DEF PurgeBroadcast, Blocked, BlockingIsBounded
<1>18. CASE Tune
  <2>1. Blocked' = Blocked
    BY Zenon, <1>18 DEF Tune, Blocked
  <2> QED
    BY Zenon, <2>1, <1>18 DEF Tune, Blocked, BlockingIsBounded
<1>19. CASE Release
  <2>1. Blocked' = Blocked
    BY Zenon, <1>19 DEF Release, Blocked
  <2> QED
    BY Zenon, <2>1, <1>19 DEF Release, Blocked, BlockingIsBounded
<1>20. CASE ReleaseLock
  <2>1. Blocked' = Blocked
    BY Zenon, <1>20 DEF ReleaseLock, Blocked
  <2> QED
    BY Zenon, <2>1, <1>20 DEF ReleaseLock, Blocked, BlockingIsBounded
<1>21. CASE ResetSend
  <2>1. Blocked' = Blocked
    BY Zenon, <1>21 DEF ResetSend, CanSend, Blocked
  <2> QED
    BY Zenon, <2>1, <1>21 DEF ResetSend, Blocked, BlockingIsBounded
<1>22. CASE ReleaseUnlock
  <2>1. Blocked' = Blocked
    BY Zenon, <1>22 DEF ReleaseUnlock, Blocked
  <2> QED
    BY Zenon, <2>1, <1>22 DEF ReleaseUnlock, Blocked, BlockingIsBounded
<1>23. CASE ReleaseBroadcast
  <2>1. Blocked' = Blocked
    BY Zenon, <1>23 DEF ReleaseBroadcast, Broadcast, Blocked
  <2> QED
    BY Zenon, <2>1, <1>23 DEF ReleaseBroadcast, Blocked, BlockingIsBounded
<1>24. CASE Reboot
  <2>1. Blocked' = Blocked
    BY Zenon, <1>24 DEF Reboot, Blocked
  <2> QED
    BY Zenon, <2>1, <1>24 DEF Reboot, Blocked, BlockingIsBounded
<1>25. CASE UNCHANGED vars
  BY Zenon, <1>25 DEF vars, BlockingIsBounded
<1> QED
  BY Zenon, <1>1, <1>2, <1>3, <1>4, <1>5, <1>6, <1>7, <1>8, <1>9, <1>10, <1>11,
     <1>12, <1>13, <1>14, <1>15, <1>16, <1>17, <1>18, <1>19, <1>20, <1>21,
     <1>22, <1>23, <1>24, <1>25
     DEF Next, CallerStep, WorkerStep, PurgeStep, ReleaseStep

-----------------------------------------------------------------------------
(***************************************************************************)
(* The refinement of TaskPool: the initial states agree, and a step of the *)
(* pool moves the status of one caller as TaskPool allows, or of none.     *)
(***************************************************************************)
\* A step that moves no caller's task is a stuttering step of TaskPool.
LEMMA StatusSame ==
  ASSUME \A c \in Caller : StatusOf(c)' = StatusOf(c)
  PROVE  [Promise!Next]_TaskStatus
  BY Zenon DEF TaskStatus

\* A step that moves one caller's task moves one status of TaskPool.
LEMMA StatusMoves ==
  ASSUME NEW c \in Caller, NEW from, NEW to,
         StatusOf(c) = from, StatusOf(c)' = to,
         \A d \in Caller \ {c} : StatusOf(d)' = StatusOf(d)
  PROVE  TaskStatus[c] = from /\ TaskStatus' = [TaskStatus EXCEPT ![c] = to]
  BY Zenon DEF TaskStatus

\* NewPool starts where TaskPool does.
LEMMA PromiseInit == Init => Promise!Init
  BY TokensAreDistinct DEF Init, Promise!Init, TaskStatus, StatusOf

\* Every step of the pool is a step of TaskPool, or a stuttering one.
LEMMA PromiseStep ==
  TypeOK /\ SendRightIsExclusive /\ TasksInv /\ [Next]_vars => [Promise!Next]_TaskStatus
<1> SUFFICES ASSUME TypeOK, SendRightIsExclusive, TasksInv, [Next]_vars PROVE [Promise!Next]_TaskStatus
  BY Zenon
<1> USE TokensAreDistinct DEF TypeOK, CallerPC, WorkerPC, poolVars, callerVars, workerVars, purgeVars, releaseVars,
        SendRightIsExclusive, TasksInv
<1>1. ASSUME NEW c0 \in Caller, Submit(c0) PROVE [Promise!Next]_TaskStatus
  <2>1. CASE IsClosed
    <3>1. \A c \in Caller : StatusOf(c)' = StatusOf(c)
      BY <1>1, <2>1 DEF Submit, Return, Goto, StatusOf
    <3> QED
      BY Zenon, <3>1, StatusSame
  <2>2. CASE ~IsClosed
    <3>1. /\ StatusOf(c0) = "idle" /\ StatusOf(c0)' = "calling"
          /\ \A d \in Caller \ {c0} : StatusOf(d)' = StatusOf(d)
      BY <1>1, <2>2 DEF Submit, Goto, Outstanding, StatusOf
    <3>2. Promise!Call(c0)
      BY <3>1, StatusMoves DEF Promise!Call, Promise!Move
    <3> QED
      BY Zenon, <3>2 DEF Promise!Next
  <2> QED
    BY Zenon, <2>1, <2>2
<1>2. ASSUME NEW c0 \in Caller, RetrieveWorker(c0) PROVE [Promise!Next]_TaskStatus
  <2>1. CASE cpc'[c0] \in {"idle", "done"}
    <3>1. /\ StatusOf(c0) = "calling" /\ StatusOf(c0)' = "idle"
          /\ \A d \in Caller \ {c0} : StatusOf(d)' = StatusOf(d)
      BY <1>2, <2>1 DEF RetrieveWorker, Return, Goto, Outstanding, StatusOf
    <3>2. Promise!Reject(c0)
      BY <3>1, StatusMoves DEF Promise!Reject, Promise!Move
    <3> QED
      BY Zenon, <3>2 DEF Promise!Next
  <2>2. CASE cpc'[c0] \notin {"idle", "done"}
    <3>1. \A c \in Caller : StatusOf(c)' = StatusOf(c)
      BY <1>2, <2>2 DEF RetrieveWorker, Return, Goto, StatusOf
    <3> QED
      BY Zenon, <3>1, StatusSame
  <2> QED
    BY Zenon, <2>1, <2>2
<1>3. ASSUME NEW c0 \in Caller, Block(c0) PROVE [Promise!Next]_TaskStatus
  <2>1. CASE TooManyBlocked
    <3>1. /\ StatusOf(c0) = "calling" /\ StatusOf(c0)' = "idle"
          /\ \A d \in Caller \ {c0} : StatusOf(d)' = StatusOf(d)
      BY <1>3, <2>1 DEF Block, Return, Goto, Outstanding, StatusOf
    <3>2. Promise!Reject(c0)
      BY <3>1, StatusMoves DEF Promise!Reject, Promise!Move
    <3> QED
      BY Zenon, <3>2 DEF Promise!Next
  <2>2. CASE ~TooManyBlocked
    <3>1. \A c \in Caller : StatusOf(c)' = StatusOf(c)
      BY <1>3, <2>2 DEF Block, Goto, StatusOf
    <3> QED
      BY Zenon, <3>1, StatusSame
  <2> QED
    BY Zenon, <2>1, <2>2
<1>4. ASSUME NEW c0 \in Caller, Wake(c0) PROVE [Promise!Next]_TaskStatus
  <2>1. \A c \in Caller : StatusOf(c)' = StatusOf(c)
    BY <1>4 DEF Wake, Goto, StatusOf
  <2> QED
    BY Zenon, <2>1, StatusSame
<1>5. ASSUME NEW c0 \in Caller, WakeIdle(c0) PROVE [Promise!Next]_TaskStatus
  <2>1. CASE IsClosed
    <3>1. /\ StatusOf(c0) = "calling" /\ StatusOf(c0)' = "idle"
          /\ \A d \in Caller \ {c0} : StatusOf(d)' = StatusOf(d)
      BY <1>5, <2>1 DEF WakeIdle, Return, Goto, Outstanding, StatusOf
    <3>2. Promise!Reject(c0)
      BY <3>1, StatusMoves DEF Promise!Reject, Promise!Move
    <3> QED
      BY Zenon, <3>2 DEF Promise!Next
  <2>2. CASE ~IsClosed
    <3>1. \A c \in Caller : StatusOf(c)' = StatusOf(c)
      BY <1>5, <2>2 DEF WakeIdle, Goto, StatusOf
    <3> QED
      BY Zenon, <3>1, StatusSame
  <2> QED
    BY Zenon, <2>1, <2>2
<1>6. ASSUME NEW c0 \in Caller, SpawnWorker(c0) PROVE [Promise!Next]_TaskStatus
  <2>1. \A c \in Caller : StatusOf(c)' = StatusOf(c)
    BY <1>6 DEF SpawnWorker, Goto, StatusOf
  <2> QED
    BY Zenon, <2>1, StatusSame
<1>7. ASSUME NEW c0 \in Caller, SendTask(c0) PROVE [Promise!Next]_TaskStatus
  <2>1. cw[c0] \in Worker /\ args' = [args EXCEPT ![cw[c0]] = c0] /\ args[cw[c0]] = NoTask
    BY Zenon, <1>7 DEF SendTask, CanSend
  <2>2. /\ StatusOf(c0) = "calling" /\ StatusOf(c0)' = "accepted"
        /\ \A d \in Caller \ {c0} : StatusOf(d)' = StatusOf(d)
    BY <1>7, <2>1 DEF SendTask, Return, Goto, StatusOf
  <2>3. Promise!Accept(c0)
    BY <2>2, StatusMoves DEF Promise!Accept, Promise!Move
  <2> QED
    BY Zenon, <2>3 DEF Promise!Next
<1>8. ASSUME NEW w0 \in Worker, Receive(w0) PROVE [Promise!Next]_TaskStatus
  <2>1. CASE args[w0] = Nil
    <3>1. \A c \in Caller : StatusOf(c)' = StatusOf(c)
      BY <1>8, <2>1 DEF Receive, StatusOf
    <3> QED
      BY Zenon, <3>1, StatusSame
  <2>2. CASE args[w0] # Nil
    <3>1. PICK c1 \in Caller : args[w0] = c1
      BY Zenon, <1>8, <2>2 DEF Receive
    <3>2. /\ StatusOf(c1) = "accepted" /\ StatusOf(c1)' = "running"
          /\ \A d \in Caller \ {c1} : StatusOf(d)' = StatusOf(d)
      BY <1>8, <2>2, <3>1 DEF Receive, StatusOf, TaskHasOneCarrier, Outstanding
    <3>3. Promise!Start(c1)
      BY <3>1, <3>2, StatusMoves DEF Promise!Start, Promise!Move
    <3> QED
      BY Zenon, <3>1, <3>3 DEF Promise!Next
  <2> QED
    BY Zenon, <2>1, <2>2
<1>9. ASSUME NEW w0 \in Worker, TaskEnds(w0) PROVE [Promise!Next]_TaskStatus
  <2>1. CASE wtask[w0] = NoTask
    <3>1. \A c \in Caller : StatusOf(c)' = StatusOf(c)
      BY <1>9, <2>1 DEF TaskEnds, StatusOf
    <3> QED
      BY Zenon, <3>1, StatusSame
  <2>2. CASE wtask[w0] # NoTask
    <3>1. PICK c1 \in Caller : wtask[w0] = c1
      BY Zenon, <2>2
    <3>2. /\ StatusOf(c1) = "running" /\ StatusOf(c1)' = "idle"
          /\ \A d \in Caller \ {c1} : StatusOf(d)' = StatusOf(d)
      BY <1>9, <2>2, <3>1 DEF TaskEnds, StatusOf, TaskHasOneCarrier, Outstanding
    <3>3. Promise!Finish(c1)
      BY <3>1, <3>2, StatusMoves DEF Promise!Finish, Promise!Move
    <3> QED
      BY Zenon, <3>1, <3>3 DEF Promise!Next
  <2> QED
    BY Zenon, <2>1, <2>2
<1>10. ASSUME NEW w0 \in Worker, RevertCheck(w0) PROVE [Promise!Next]_TaskStatus
  <2>1. \A c \in Caller : StatusOf(c)' = StatusOf(c)
    BY Zenon, <1>10 DEF RevertCheck, StatusOf
  <2> QED
    BY Zenon, <2>1, StatusSame
<1>11. ASSUME NEW w0 \in Worker, RevertInsert(w0) PROVE [Promise!Next]_TaskStatus
  <2>1. \A c \in Caller : StatusOf(c)' = StatusOf(c)
    BY <1>11 DEF RevertInsert, Signal, StatusOf
  <2> QED
    BY Zenon, <2>1, StatusSame
<1>12. ASSUME NEW w0 \in Worker, ExitDec(w0) PROVE [Promise!Next]_TaskStatus
  <2>1. \A c \in Caller : StatusOf(c)' = StatusOf(c)
    BY Zenon, <1>12 DEF ExitDec, StatusOf
  <2> QED
    BY Zenon, <2>1, StatusSame
<1>13. ASSUME NEW w0 \in Worker, ExitSignal(w0) PROVE [Promise!Next]_TaskStatus
  <2>1. \A c \in Caller : StatusOf(c)' = StatusOf(c)
    BY <1>13 DEF ExitSignal, Signal, StatusOf
  <2> QED
    BY Zenon, <2>1, StatusSame
<1>14. CASE Tick
  <2>1. \A c \in Caller : StatusOf(c)' = StatusOf(c)
    BY Zenon, <1>14 DEF Tick, StatusOf
  <2> QED
    BY Zenon, <2>1, StatusSame
<1>15. CASE RetrieveExpiry
  <2>1. \A c \in Caller : StatusOf(c)' = StatusOf(c)
    BY Zenon, <1>15 DEF RetrieveExpiry, StatusOf
  <2> QED
    BY Zenon, <2>1, StatusSame
<1>16. CASE NotifyExpired
  <2>1. \A c \in Caller : StatusOf(c)' = StatusOf(c)
    BY <1>16 DEF NotifyExpired, CanSend, StatusOf
  <2> QED
    BY Zenon, <2>1, StatusSame
<1>17. CASE PurgeBroadcast
  <2>1. \A c \in Caller : StatusOf(c)' = StatusOf(c)
    BY <1>17 DEF PurgeBroadcast, Broadcast, StatusOf
  <2> QED
    BY Zenon, <2>1, StatusSame
<1>18. CASE Tune
  <2>1. \A c \in Caller : StatusOf(c)' = StatusOf(c)
    BY Zenon, <1>18 DEF Tune, StatusOf
  <2> QED
    BY Zenon, <2>1, StatusSame
<1>19. CASE Release
  <2>1. \A c \in Caller : StatusOf(c)' = StatusOf(c)
    BY Zenon, <1>19 DEF Release, StatusOf
  <2> QED
    BY Zenon, <2>1, StatusSame
<1>20. CASE ReleaseLock
  <2>1. \A c \in Caller : StatusOf(c)' = StatusOf(c)
    BY Zenon, <1>20 DEF ReleaseLock, StatusOf
  <2> QED
    BY Zenon, <2>1, StatusSame
<1>21. CASE ResetSend
  <2>1. \A c \in Caller : StatusOf(c)' = StatusOf(c)
    BY <1>21 DEF ResetSend, CanSend, StatusOf
  <2> QED
    BY Zenon, <2>1, StatusSame
<1>22. CASE ReleaseUnlock
  <2>1. \A c \in Caller : StatusOf(c)' = StatusOf(c)
    BY Zenon, <1>22 DEF ReleaseUnlock, StatusOf
  <2> QED
    BY Zenon, <2>1, StatusSame
<1>23. CASE ReleaseBroadcast
  <2>1. \A c \in Caller : StatusOf(c)' = StatusOf(c)
    BY Zenon, <1>23 DEF ReleaseBroadcast, Broadcast, StatusOf
  <2> QED
    BY Zenon, <2>1, StatusSame
<1>24. CASE Reboot
  <2>1. \A c \in Caller : StatusOf(c)' = StatusOf(c)
    BY Zenon, <1>24 DEF Reboot, StatusOf
  <2> QED
    BY Zenon, <2>1, StatusSame
<1>25. CASE UNCHANGED vars
  <2>1. \A c \in Caller : StatusOf(c)' = StatusOf(c)
    BY Zenon, <1>25 DEF vars, StatusOf
  <2> QED
    BY Zenon, <2>1, StatusSame
<1> QED
  BY Zenon, <1>1, <1>2, <1>3, <1>4, <1>5, <1>6, <1>7, <1>8, <1>9, <1>10, <1>11,
     <1>12, <1>13, <1>14, <1>15, <1>16, <1>17, <1>18, <1>19, <1>20, <1>21,
     <1>22, <1>23, <1>24, <1>25
     DEF Next, CallerStep, WorkerStep, PurgeStep, ReleaseStep

-----------------------------------------------------------------------------
(***************************************************************************)
(* The inductive invariant, and what follows from it.                      *)
(***************************************************************************)
IInv ==
  /\ TypeOK
  /\ SendRightIsExclusive
  /\ ForgottenInv
  /\ ClosedPoolHasNoIdleWorkers
  /\ TasksInv
  /\ RunningCountsWorkers
  /\ BlockingIsBounded

\* The invariant is inductive.
LEMMA IInvHolds == Spec => []IInv
<1>1. Init => IInv
  BY Zenon, TypeOKInit, ExclusiveInit, ForgottenInit, ClosedInit, TasksInit, RunningInit,
     BlockingInit DEF IInv
<1>2. IInv /\ [Next]_vars => IInv'
  BY Zenon, TypeOKStep, ExclusiveStep, ForgottenStep, ClosedStep, TasksStep, RunningStep,
     BlockingStep DEF IInv
<1> QED
  BY <1>1, <1>2, PTL DEF Spec

(***************************************************************************)
(* For every number of callers and workers and every option, the pool's    *)
(* state stays in range.                                                   *)
(***************************************************************************)
THEOREM TypeCorrect == Spec => []TypeOK
<1>1. IInv => TypeOK
  BY Zenon DEF IInv
<1> QED
  BY <1>1, IInvHolds, PTL

(***************************************************************************)
(* detach, retrieveExpiry, reset and spawnWorker never give one worker to  *)
(* two parties, so no send on w.args can block behind another.             *)
(***************************************************************************)
THEOREM SendRight == Spec => []SendRightIsExclusive
<1>1. IInv => SendRightIsExclusive
  BY Zenon DEF IInv
<1> QED
  BY <1>1, IInvHolds, PTL

(***************************************************************************)
(* No goroutine of the pool waits on a channel that nobody will use.       *)
(***************************************************************************)
THEOREM NoLeak == Spec => []NoWorkerIsForgotten
<1>1. IInv => NoWorkerIsForgotten
  BY Zenon DEF IInv, ForgottenInv
<1> QED
  BY <1>1, IInvHolds, PTL

(***************************************************************************)
(* revertWorker's second look at the state keeps a closed pool empty.      *)
(***************************************************************************)
THEOREM ClosedPoolStaysEmpty == Spec => []ClosedPoolHasNoIdleWorkers
<1>1. IInv => ClosedPoolHasNoIdleWorkers
  BY Zenon DEF IInv
<1> QED
  BY <1>1, IInvHolds, PTL

(***************************************************************************)
(* An accepted task is in one place only.                                  *)
(***************************************************************************)
THEOREM OneCarrier == Spec => []TaskHasOneCarrier
<1>1. IInv => TaskHasOneCarrier
  BY Zenon DEF IInv, TasksInv
<1> QED
  BY <1>1, IInvHolds, PTL

(***************************************************************************)
(* Running() counts the worker goroutines exactly.                         *)
(***************************************************************************)
THEOREM RunningIsExact == Spec => []RunningCountsWorkers
<1>1. IInv => RunningCountsWorkers
  BY Zenon DEF IInv
<1> QED
  BY <1>1, IInvHolds, PTL

(***************************************************************************)
(* blockingNum is exact and within MaxBlockingTasks.                       *)
(***************************************************************************)
THEOREM BlockingBound == Spec => []BlockingIsBounded
<1>1. IInv => BlockingIsBounded
  BY Zenon DEF IInv
<1> QED
  BY <1>1, IInvHolds, PTL

(***************************************************************************)
(* The pool implements the safety part of TaskPool: no accepted task is    *)
(* dropped or run twice.                                                   *)
(***************************************************************************)
THEOREM Refinement == Spec => KeepsTasks
<1>1. Init => Promise!Init
  BY Zenon, PromiseInit
<1>2. IInv /\ [Next]_vars => [Promise!Next]_TaskStatus
  BY Zenon, PromiseStep DEF IInv
<1> QED
  BY <1>1, <1>2, IInvHolds, PTL DEF Spec, KeepsTasks, Promise!Safety

=============================================================================
