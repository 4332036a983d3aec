------------------------------- MODULE GPool -------------------------------
(***************************************************************************)
(* The goroutine pool of src/gpool: callers that submit tasks, worker      *)
(* goroutines, the scavenger goroutine, and the management calls Tune,     *)
(* Release and Reboot, interleaved at every point where the code releases  *)
(* the pool lock, reads an atomic, sends on a channel or blocks.           *)
(*                                                                         *)
(* The idle workers (workerArray) are a set here: the order in which       *)
(* detach returns them is the business of WorkerStack and LoopQueue.  So   *)
(* is the Release of a pre-allocated pool: loopQueue.reset does not end.   *)
(***************************************************************************)
EXTENDS Integers, FiniteSets

CONSTANTS
  Caller,            \* goroutines that call Submit / Invoke
  Worker,            \* goWorker objects, in workerCache or running
  NoTask,            \* an empty args channel
  Nil,               \* the nil argument that tells a worker to stop
  Size,              \* size given to NewPool: -1 (no limit) or positive
  PreAlloc,          \* Options.PreAlloc: the idle workers are a loopQueue
  Nonblocking,       \* Options.Nonblocking
  MaxBlockingTasks,  \* Options.MaxBlockingTasks, 0 for no limit
  ChanCap,           \* workerChanCap: 0 when GOMAXPROCS = 1, else 1
  TuneSizes,         \* the sizes Tune is called with
  MaxReleases,       \* how often Release is called (a bound)
  Resubmit           \* whether a caller calls again once its task is over

ASSUME TokensAreDistinct == NoTask \notin Caller /\ Nil \notin Caller /\ NoTask # Nil
ASSUME FiniteProcesses == IsFiniteSet(Caller) /\ IsFiniteSet(Worker)
ASSUME OptionsAreLegal ==
  /\ Size \in Int /\ (Size > 0 \/ Size = -1)
  /\ PreAlloc \in BOOLEAN /\ (PreAlloc => Size # -1)
  /\ Nonblocking \in BOOLEAN /\ Resubmit \in BOOLEAN
  /\ MaxReleases \in Nat /\ (PreAlloc => MaxReleases = 0)
  /\ MaxBlockingTasks \in Nat
  /\ ChanCap \in {0, 1}
  /\ TuneSizes \subseteq Int

VARIABLES
  capacity, running, state, lock, items, blockingNum,
  cpc, cw, ccap,     \* retrieveWorker: where each caller is, its w and capacity
  wpc, args, wtask,  \* goWorker.run: where each worker is, its channel, its task
  spc, expired,      \* purgePeriodically and its expiredWorkers
  rpc, releases      \* Release, and how often it has been called

poolVars == <<capacity, running, state, lock, items, blockingNum>>
callerVars == <<cpc, cw, ccap>>
workerVars == <<wpc, args, wtask>>
purgeVars == <<spc, expired>>
releaseVars == <<rpc, releases>>
vars == <<capacity, running, state, lock, items, blockingNum, cpc, cw, ccap,
          wpc, args, wtask, spc, expired, rpc, releases>>

CallerPC == {"idle", "lock", "block", "waiting", "woken", "wokenIdle", "spawn",
             "send", "done"}
WorkerPC == {"free", "recv", "run", "revert", "insert", "exit", "signal"}

TypeOK ==
  /\ capacity \in Int /\ (capacity > 0 \/ capacity = -1)
  /\ running \in Int
  /\ state \in {"OPENED", "CLOSED"}
  /\ lock \in {"free", "retrieve", "release"}
  /\ items \subseteq Worker
  /\ blockingNum \in Int
  /\ cpc \in [Caller -> CallerPC]
  /\ cw \in [Caller -> Worker \cup {Nil}]
  /\ ccap \in [Caller -> Int]
  /\ wpc \in [Worker -> WorkerPC]
  /\ args \in [Worker -> Caller \cup {NoTask, Nil}]
  /\ wtask \in [Worker -> Caller \cup {NoTask}]
  /\ spc \in {"off", "tick", "purge", "notify"}
  /\ expired \subseteq Worker
  /\ rpc \in {"idle", "reset", "clear", "bcast"}
  /\ releases \in 0..MaxReleases

\* NewPool, NewPoolWithFunc: an open pool without workers, its scavenger started.
Init ==
  /\ capacity = Size /\ running = 0 /\ state = "OPENED"
  /\ lock = "free" /\ items = {} /\ blockingNum = 0
  /\ cpc = [c \in Caller |-> "idle"]
  /\ cw = [c \in Caller |-> Nil]
  /\ ccap = [c \in Caller |-> 0]
  /\ wpc = [w \in Worker |-> "free"]
  /\ args = [w \in Worker |-> NoTask]
  /\ wtask = [w \in Worker |-> NoTask]
  /\ spc = "tick" /\ expired = {}
  /\ rpc = "idle" /\ releases = 0

-----------------------------------------------------------------------------
(* Helpers *)

IsClosed == state = "CLOSED"

\* sync.Cond: some waiter is woken, if there is one; or all of them are.
Signal ==
  IF \E c \in Caller : cpc[c] = "waiting"
  THEN \E c \in Caller : /\ cpc[c] = "waiting"
                         /\ cpc' = [cpc EXCEPT ![c] = "woken"]
  ELSE cpc' = cpc

Broadcast ==
  cpc' = [c \in Caller |-> IF cpc[c] = "waiting" THEN "woken" ELSE cpc[c]]

\* w.args <- x goes through: there is room, or the worker is there to take it.
CanSend(w) == args[w] = NoTask /\ (ChanCap = 0 => wpc[w] = "recv")

\* The task of c's last call has been accepted and is not over.
Outstanding(c) == \E w \in Worker : args[w] = c \/ wtask[w] = c

Goto(c, pc) == cpc' = [cpc EXCEPT ![c] = pc]

\* The call of c returns.  Without Resubmit a caller calls once.
Return(c) == Goto(c, IF Resubmit THEN "idle" ELSE "done")

\* The local variable capacity of retrieveWorker goes out of use.
Forget(c) == ccap' = [ccap EXCEPT ![c] = 0]

HasRoom == capacity = -1 \/ capacity > running

\* Mutant: one more than the limit is let in.
TooManyBlockedOffByOne == MaxBlockingTasks # 0 /\ blockingNum > MaxBlockingTasks

TooManyBlocked == MaxBlockingTasks # 0 /\ blockingNum >= MaxBlockingTasks

-----------------------------------------------------------------------------
(* Submit and Invoke, with retrieveWorker *)

\* The task is named after its caller, which therefore has one at a time.
Submit(c) ==
  /\ cpc[c] = "idle" /\ ~Outstanding(c)
  /\ IF IsClosed THEN Return(c) ELSE Goto(c, "lock")
  /\ UNCHANGED <<poolVars, cw, ccap, workerVars, purgeVars, releaseVars>>

\* Under the lock: take an idle worker, or go and spawn one, or give up, or block.
RetrieveWorker(c) ==
  /\ cpc[c] = "lock" /\ lock = "free"
  /\ \/ \E w \in items : /\ items' = items \ {w}
                         /\ cw' = [cw EXCEPT ![c] = w]
                         /\ Goto(c, "send")
                         /\ UNCHANGED <<lock, ccap>>
     \/ /\ items = {} /\ HasRoom
        /\ Goto(c, "spawn")
        /\ UNCHANGED <<lock, items, cw, ccap>>
     \/ /\ items = {} /\ ~HasRoom /\ Nonblocking
        /\ Return(c)
        /\ UNCHANGED <<lock, items, cw, ccap>>
     \/ /\ items = {} /\ ~HasRoom /\ ~Nonblocking
        /\ lock' = "retrieve"
        /\ ccap' = [ccap EXCEPT ![c] = capacity]
        /\ Goto(c, "block")
        /\ UNCHANGED <<items, cw>>
  /\ UNCHANGED <<capacity, running, state, blockingNum, workerVars, purgeVars, releaseVars>>

\* The head of the loop, still under the lock: cond.Wait enqueues and unlocks.
Block(c) ==
  /\ cpc[c] = "block"
  /\ lock' = "free"
  /\ IF TooManyBlocked
     THEN Return(c) /\ Forget(c) /\ UNCHANGED blockingNum
     ELSE Goto(c, "waiting") /\ blockingNum' = blockingNum + 1 /\ UNCHANGED ccap
  /\ UNCHANGED <<capacity, running, state, items, cw, workerVars, purgeVars, releaseVars>>

\* cond.Wait returns with the lock: nw is Running() here, capacity the old ccap.
Wake(c) ==
  /\ cpc[c] = "woken" /\ lock = "free"
  /\ blockingNum' = blockingNum - 1
  /\ \/ /\ running = 0
        /\ Goto(c, "wokenIdle") /\ Forget(c)
        /\ UNCHANGED <<lock, items, cw>>
     \/ /\ running # 0
        /\ \E w \in items : /\ items' = items \ {w}
                            /\ cw' = [cw EXCEPT ![c] = w]
        /\ Goto(c, "send") /\ Forget(c)
        /\ UNCHANGED lock
     \/ /\ running # 0 /\ items = {} /\ running < ccap[c]
        /\ Goto(c, "spawn") /\ Forget(c)
        /\ UNCHANGED <<lock, items, cw>>
     \/ /\ running # 0 /\ items = {} /\ running >= ccap[c]
        /\ lock' = "retrieve"
        /\ Goto(c, "block")
        /\ UNCHANGED <<items, cw, ccap>>
  /\ UNCHANGED <<capacity, running, state, workerVars, purgeVars, releaseVars>>

\* Woken with no worker running: spawn one unless the pool was closed.
WakeIdle(c) ==
  /\ cpc[c] = "wokenIdle"
  /\ IF IsClosed THEN Return(c) ELSE Goto(c, "spawn")
  /\ UNCHANGED <<poolVars, cw, ccap, workerVars, purgeVars, releaseVars>>

\* spawnWorker, outside the lock: workerCache.Get, then run.
SpawnWorker(c) ==
  /\ cpc[c] = "spawn"
  /\ \E w \in Worker : /\ wpc[w] = "free"
                       /\ wpc' = [wpc EXCEPT ![w] = "recv"]
                       /\ cw' = [cw EXCEPT ![c] = w]
  /\ running' = running + 1
  /\ Goto(c, "send")
  /\ UNCHANGED <<capacity, state, lock, items, blockingNum, ccap, args, wtask, purgeVars, releaseVars>>

\* w.args <- task; return nil
SendTask(c) ==
  /\ cpc[c] = "send" /\ CanSend(cw[c])
  /\ args' = [args EXCEPT ![cw[c]] = c]
  /\ cw' = [cw EXCEPT ![c] = Nil]
  /\ Return(c)
  /\ UNCHANGED <<poolVars, ccap, wpc, wtask, purgeVars, releaseVars>>

-----------------------------------------------------------------------------
(* The worker goroutine: goWorker.run and revertWorker *)

\* Mutant: a worker of a closed pool stops without running what it was sent.
ReceiveDropsWhenClosed(w) ==
  /\ wpc[w] = "recv" /\ args[w] # NoTask
  /\ args' = [args EXCEPT ![w] = NoTask]
  /\ IF args[w] = Nil \/ IsClosed
     THEN /\ wpc' = [wpc EXCEPT ![w] = "exit"]
          /\ UNCHANGED wtask
     ELSE /\ wpc' = [wpc EXCEPT ![w] = "run"]
          /\ wtask' = [wtask EXCEPT ![w] = args[w]]
  /\ UNCHANGED <<poolVars, callerVars, purgeVars, releaseVars>>

Receive(w) ==
  /\ wpc[w] = "recv" /\ args[w] # NoTask
  /\ args' = [args EXCEPT ![w] = NoTask]
  /\ IF args[w] = Nil
     THEN /\ wpc' = [wpc EXCEPT ![w] = "exit"]
          /\ UNCHANGED wtask
     ELSE /\ wpc' = [wpc EXCEPT ![w] = "run"]
          /\ wtask' = [wtask EXCEPT ![w] = args[w]]
  /\ UNCHANGED <<poolVars, callerVars, purgeVars, releaseVars>>

\* The task returns; or it panics (recovered in the defer), or is a nil func.
TaskEnds(w) ==
  /\ wpc[w] = "run"
  /\ \E pc \in {"revert", "exit"} : wpc' = [wpc EXCEPT ![w] = pc]
  /\ wtask' = [wtask EXCEPT ![w] = NoTask]
  /\ UNCHANGED <<poolVars, callerVars, args, purgeVars, releaseVars>>

\* revertWorker before it takes the lock.
RevertCheck(w) ==
  /\ wpc[w] = "revert"
  /\ wpc' = [wpc EXCEPT ![w] = IF (capacity > 0 /\ running > capacity) \/ IsClosed
                               THEN "exit" ELSE "insert"]
  /\ UNCHANGED <<poolVars, callerVars, args, wtask, purgeVars, releaseVars>>

\* insert fails on a loopQueue that holds as many workers as it was made for.
ArrayFull == PreAlloc /\ Cardinality(items) >= Size

\* Mutant: the state is not looked at again under the lock.
RevertInsertNoRecheck(w) ==
  /\ wpc[w] = "insert" /\ lock = "free"
  /\ wpc' = [wpc EXCEPT ![w] = "recv"]
  /\ items' = items \cup {w}
  /\ Signal
  /\ UNCHANGED <<capacity, running, state, lock, blockingNum, cw, ccap, args, wtask, purgeVars, releaseVars>>

\* Mutant: the worker goes on although it was not put back.
RevertInsertIgnoresFailure(w) ==
  /\ wpc[w] = "insert" /\ lock = "free"
  /\ wpc' = [wpc EXCEPT ![w] = "recv"]
  /\ IF IsClosed \/ ArrayFull
     THEN UNCHANGED <<items, cpc>>
     ELSE items' = items \cup {w} /\ Signal
  /\ UNCHANGED <<capacity, running, state, lock, blockingNum, cw, ccap, args, wtask, purgeVars, releaseVars>>

\* revertWorker under the lock: check again, insert, signal.
RevertInsert(w) ==
  /\ wpc[w] = "insert" /\ lock = "free"
  /\ IF IsClosed \/ ArrayFull
     THEN /\ wpc' = [wpc EXCEPT ![w] = "exit"]
          /\ UNCHANGED <<items, cpc>>
     ELSE /\ wpc' = [wpc EXCEPT ![w] = "recv"]
          /\ items' = items \cup {w}
          /\ Signal
  /\ UNCHANGED <<capacity, running, state, lock, blockingNum, cw, ccap, args, wtask, purgeVars, releaseVars>>

\* Mutant: decRunning is forgotten.
ExitNoDec(w) ==
  /\ wpc[w] = "exit"
  /\ wpc' = [wpc EXCEPT ![w] = "signal"]
  /\ UNCHANGED <<poolVars, callerVars, args, wtask, purgeVars, releaseVars>>

\* The deferred function: decRunning and workerCache.Put ...
ExitDec(w) ==
  /\ wpc[w] = "exit"
  /\ wpc' = [wpc EXCEPT ![w] = "signal"]
  /\ running' = running - 1
  /\ UNCHANGED <<capacity, state, lock, items, blockingNum, callerVars, args, wtask, purgeVars, releaseVars>>

\* ... and then cond.Signal, without the lock.
ExitSignal(w) ==
  /\ wpc[w] = "signal"
  /\ wpc' = [wpc EXCEPT ![w] = "free"]
  /\ Signal
  /\ UNCHANGED <<poolVars, cw, ccap, args, wtask, purgeVars, releaseVars>>

-----------------------------------------------------------------------------
(* purgePeriodically *)

Tick ==
  /\ spc = "tick"
  /\ spc' = IF IsClosed THEN "off" ELSE "purge"
  /\ UNCHANGED <<poolVars, callerVars, workerVars, expired, releaseVars>>

\* Mutant: the expired workers are not cut off the idle array.
RetrieveExpiryKeeps ==
  /\ spc = "purge" /\ lock = "free"
  /\ \E E \in SUBSET items : expired' = E
  /\ spc' = "notify"
  /\ UNCHANGED <<poolVars, callerVars, workerVars, releaseVars>>

\* Any of the idle workers may have been idle for longer than ExpiryDuration.
RetrieveExpiry ==
  /\ spc = "purge" /\ lock = "free"
  /\ \E E \in SUBSET items : expired' = E /\ items' = items \ E
  /\ spc' = "notify"
  /\ UNCHANGED <<capacity, running, state, lock, blockingNum, callerVars, workerVars, releaseVars>>

NotifyExpired ==
  /\ spc = "notify"
  /\ \E w \in expired : /\ CanSend(w)
                        /\ args' = [args EXCEPT ![w] = Nil]
                        /\ expired' = expired \ {w}
  /\ UNCHANGED <<poolVars, callerVars, wpc, wtask, spc, releaseVars>>

\* Mutant: the scavenger wakes nobody.
PurgeNoBroadcast ==
  /\ spc = "notify" /\ expired = {}
  /\ spc' = "tick"
  /\ UNCHANGED <<poolVars, callerVars, workerVars, expired, releaseVars>>

PurgeBroadcast ==
  /\ spc = "notify" /\ expired = {}
  /\ IF running = 0 THEN Broadcast ELSE UNCHANGED cpc
  /\ spc' = "tick"
  /\ UNCHANGED <<poolVars, cw, ccap, workerVars, expired, releaseVars>>

-----------------------------------------------------------------------------
(* Tune, Release and Reboot *)

\* Mutant: a size that is not positive is accepted.
TuneAnySize ==
  /\ capacity # -1 /\ ~PreAlloc
  /\ \E s \in TuneSizes : s # capacity /\ capacity' = s
  /\ UNCHANGED <<running, state, lock, items, blockingNum, callerVars, workerVars, purgeVars, releaseVars>>

Tune ==
  /\ capacity # -1 /\ ~PreAlloc
  /\ \E s \in TuneSizes : s > 0 /\ s # capacity /\ capacity' = s
  /\ UNCHANGED <<running, state, lock, items, blockingNum, callerVars, workerVars, purgeVars, releaseVars>>

Release ==
  /\ rpc = "idle" /\ releases < MaxReleases
  /\ releases' = releases + 1
  /\ state' = "CLOSED"
  /\ rpc' = "reset"
  /\ UNCHANGED <<capacity, running, lock, items, blockingNum, callerVars, workerVars, purgeVars>>

ReleaseLock ==
  /\ rpc = "reset" /\ lock = "free"
  /\ lock' = "release"
  /\ rpc' = "clear"
  /\ UNCHANGED <<capacity, running, state, items, blockingNum, callerVars, workerVars, purgeVars, releases>>

\* workers.reset: one nil per idle worker, sent while the lock is held.
ResetSend ==
  /\ rpc = "clear"
  /\ \E w \in items : /\ CanSend(w)
                      /\ args' = [args EXCEPT ![w] = Nil]
                      /\ items' = items \ {w}
  /\ UNCHANGED <<capacity, running, state, lock, blockingNum, callerVars, wpc, wtask, purgeVars, releaseVars>>

ReleaseUnlock ==
  /\ rpc = "clear" /\ items = {}
  /\ lock' = "free"
  /\ rpc' = "bcast"
  /\ UNCHANGED <<capacity, running, state, items, blockingNum, callerVars, workerVars, purgeVars, releases>>

ReleaseBroadcast ==
  /\ rpc = "bcast"
  /\ Broadcast
  /\ rpc' = "idle"
  /\ UNCHANGED <<poolVars, cw, ccap, workerVars, purgeVars, releases>>

\* Reboot of a pool whose scavenger has seen the close (PoolPurge has the others).
Reboot ==
  /\ IsClosed /\ spc = "off"
  /\ state' = "OPENED"
  /\ spc' = "tick"
  /\ UNCHANGED <<capacity, running, lock, items, blockingNum, callerVars, workerVars, expired, releaseVars>>

-----------------------------------------------------------------------------

CallerStep(c) ==
  \/ RetrieveWorker(c) \/ Block(c) \/ Wake(c) \/ WakeIdle(c)
  \/ SpawnWorker(c) \/ SendTask(c)

WorkerStep(w) ==
  \/ Receive(w) \/ TaskEnds(w) \/ RevertCheck(w) \/ RevertInsert(w)
  \/ ExitDec(w) \/ ExitSignal(w)

PurgeStep == Tick \/ RetrieveExpiry \/ NotifyExpired \/ PurgeBroadcast

ReleaseStep == ReleaseLock \/ ResetSend \/ ReleaseUnlock \/ ReleaseBroadcast

Next ==
  \/ \E c \in Caller : Submit(c) \/ CallerStep(c)
  \/ \E w \in Worker : WorkerStep(w)
  \/ PurgeStep
  \/ Tune \/ Release \/ ReleaseStep \/ Reboot

\* Every goroutine that can run does; nobody has to call Submit, Tune, Release or Reboot.
Fairness ==
  /\ \A c \in Caller : WF_vars(CallerStep(c))
  /\ \A w \in Worker : WF_vars(WorkerStep(w))
  /\ WF_vars(PurgeStep)
  /\ WF_vars(ReleaseStep)

Spec == Init /\ [][Next]_vars
FairSpec == Spec /\ Fairness

-----------------------------------------------------------------------------
(* Properties *)

Live(w) == wpc[w] \notin {"free", "signal"}
Busy(w) == wpc[w] \in {"run", "revert", "insert", "exit"}
HeldBy(c, w) == cpc[c] = "send" /\ cw[c] = w
Held(w) == \E c \in Caller : HeldBy(c, w)

(***************************************************************************)
(* The right to send to a worker is never shared: a worker is in the idle  *)
(* array, or among the expired workers, or in the hands of one caller, or  *)
(* has its argument waiting, or is busy - never two of these.  Hence       *)
(* detach never hands one worker to two callers and neither Submit, nor    *)
(* the scavenger, nor Release under the lock can block on a full w.args.   *)
(***************************************************************************)
SendRightIsExclusive ==
  /\ items \cap expired = {}
  /\ \A w \in items \cup expired :
       wpc[w] = "recv" /\ args[w] = NoTask /\ ~Held(w)
  /\ \A c \in Caller : cpc[c] = "send" =>
       /\ cw[c] \in Worker /\ wpc[cw[c]] = "recv" /\ args[cw[c]] = NoTask
       /\ \A d \in Caller : HeldBy(d, cw[c]) => d = c
  /\ \A w \in Worker : args[w] # NoTask => wpc[w] = "recv"

(***************************************************************************)
(* No worker goroutine is leaked: one that waits on w.args is still known  *)
(* to somebody who will send to it (the idle array, the scavenger, a       *)
(* caller) or has its argument already, whatever the interleaving of       *)
(* revertWorker, retrieveExpiry, Release and Reboot.                       *)
(***************************************************************************)
NoWorkerIsForgotten ==
  \A w \in Worker : wpc[w] = "recv" =>
    w \in items \/ w \in expired \/ Held(w) \/ args[w] # NoTask

(***************************************************************************)
(* Running() is the number of worker goroutines that have not run their    *)
(* deferred decRunning: incRunning and decRunning balance on every path.   *)
(***************************************************************************)
RunningCountsWorkers == running = Cardinality({w \in Worker : Live(w)})

(***************************************************************************)
(* blockingNum is the number of callers inside cond.Wait, woken or not,    *)
(* and MaxBlockingTasks bounds it although waiters re-enter the loop.      *)
(***************************************************************************)
BlockingIsBounded ==
  /\ blockingNum = Cardinality({c \in Caller : cpc[c] \in {"waiting", "woken"}})
  /\ MaxBlockingTasks # 0 => blockingNum <= MaxBlockingTasks

(***************************************************************************)
(* Once Release has emptied the idle array of a closed pool no worker gets *)
(* back into it: revertWorker looks at the state again under the lock.     *)
(***************************************************************************)
ClosedPoolHasNoIdleWorkers == IsClosed /\ rpc \in {"idle", "bcast"} => items = {}

(***************************************************************************)
(* An accepted task is in exactly one place: the channel of one worker or  *)
(* in execution by one worker.                                             *)
(***************************************************************************)
TaskHasOneCarrier ==
  \A c \in Caller : \A v, w \in Worker :
    (args[v] = c \/ wtask[v] = c) /\ (args[w] = c \/ wtask[w] = c) =>
       v = w /\ ~(args[v] = c /\ wtask[v] = c)

(***************************************************************************)
(* A pool without Release answers every call: although the exit of a       *)
(* worker signals without the lock, so that its wake-up can be lost, a     *)
(* later revertWorker or the scavenger makes up for it.                    *)
(***************************************************************************)
CallsReturn ==
  [](releases = 0) => \A c \in Caller :
    cpc[c] \notin {"idle", "done"} ~> cpc[c] \in {"idle", "done"}

(***************************************************************************)
(* A pool that is closed for good drains: all its worker goroutines end,   *)
(* those that callers spawn after the close included.                      *)
(***************************************************************************)
ClosedPoolDrains == <>[]IsClosed => <>[](running = 0 /\ items = {})

(***************************************************************************)
(* The pool implements TaskPool: an accepted task is never dropped, not by *)
(* Release, the scavenger or a shrinking capacity, and it is run once.     *)
(***************************************************************************)
StatusOf(c) ==
  IF cpc[c] \notin {"idle", "done"} THEN "calling"
  ELSE IF \E w \in Worker : args[w] = c THEN "accepted"
  ELSE IF \E w \in Worker : wtask[w] = c THEN "running"
  ELSE "idle"

TaskStatus == [c \in Caller |-> StatusOf(c)]

Promise == INSTANCE TaskPool WITH status <- TaskStatus

KeepsTasks == Promise!Safety
RunsTasks == Promise!Spec

(***************************************************************************)
(* pool.go:10: the pool "limits the total of goroutines to a given number" *)
(***************************************************************************)
RunningWithinCapacity == capacity # -1 => running <= capacity

(***************************************************************************)
(* pool.go:242: Release wakes "callers waiting in retrieveWorker()" "to    *)
(* prevent those callers blocking infinitely": in a pool that stays closed *)
(* nobody stays in cond.Wait.                                              *)
(***************************************************************************)
ReleaseFreesWaiters ==
  \A c \in Caller : <>[]IsClosed => []<>(cpc[c] # "waiting")

=============================================================================
