---------------------------- MODULE WorkerStack ----------------------------
(***************************************************************************)
(* workerStack of src/gpool: the idle workers of a pool that is not        *)
(* pre-allocated.  Workers stamp their recycleTime before they take the    *)
(* pool lock (Pool.revertWorker), so they may enter the stack in another   *)
(* order than that of their stamps.                                        *)
(***************************************************************************)
EXTENDS Integers, Sequences, SequencesExt

CONSTANTS
  Worker,
  Duration,  \* Options.ExpiryDuration
  MaxTime    \* bound of the clock

TimesAreNatural == Duration \in Nat \ {0} /\ MaxTime \in Nat

VARIABLES
  now,
  recycleTime,  \* goWorker.recycleTime
  where,        \* busy with a task, stamped (about to take the lock), or idle
  items,
  expiry        \* what the last retrieveExpiry returned

vars == <<now, recycleTime, where, items, expiry>>

TypeOK ==
  /\ now \in 0..MaxTime
  /\ recycleTime \in [Worker -> 0..MaxTime]
  /\ where \in [Worker -> {"busy", "stamped", "idle"}]
  /\ items \in Seq(Worker) /\ expiry \in Seq(Worker)

Init ==
  /\ now = 0
  /\ recycleTime = [w \in Worker |-> 0]
  /\ where = [w \in Worker |-> "busy"]
  /\ items = <<>> /\ expiry = <<>>

Tick ==
  /\ now < MaxTime /\ now' = now + 1
  /\ UNCHANGED <<recycleTime, where, items, expiry>>

\* revertWorker, before it takes the pool lock.
Stamp(w) ==
  /\ where[w] = "busy"
  /\ recycleTime' = [recycleTime EXCEPT ![w] = now]
  /\ where' = [where EXCEPT ![w] = "stamped"]
  /\ UNCHANGED <<now, items, expiry>>

Insert(w) ==
  /\ where[w] = "stamped"
  /\ items' = Append(items, w)
  /\ where' = [where EXCEPT ![w] = "idle"]
  /\ UNCHANGED <<now, recycleTime, expiry>>

Detach ==
  /\ items # <<>>
  /\ where' = [where EXCEPT ![Last(items)] = "busy"]
  /\ items' = Front(items)
  /\ UNCHANGED <<now, recycleTime, expiry>>

\* Mutant: the comparison is turned around at equality.
BinarySearchStrict(l, r, expiryTime) ==
  LET search[a, b \in -1..Len(items)] ==
        IF a > b THEN b
        ELSE LET mid == (a + b) \div 2
             IN IF expiryTime <= recycleTime[items[mid + 1]]
                THEN search[a, mid - 1] ELSE search[mid + 1, b]
  IN search[l, r]

\* The code's indices start at 0, those of a sequence at 1.
BinarySearch(l, r, expiryTime) ==
  LET search[a, b \in -1..Len(items)] ==
        IF a > b THEN b
        ELSE LET mid == (a + b) \div 2
             IN IF expiryTime < recycleTime[items[mid + 1]]
                THEN search[a, mid - 1] ELSE search[mid + 1, b]
  IN search[l, r]

\* A retrieved worker ends and goes back to the workerCache, from where it is run again.
RetrieveExpiry ==
  /\ items # <<>>
  /\ LET index == BinarySearch(0, Len(items) - 1, now - Duration)
     IN /\ expiry' = SubSeq(items, 1, index + 1)
        /\ items' = SubSeq(items, index + 2, Len(items))
        /\ where' = [w \in Worker |-> IF Contains(expiry', w) THEN "busy" ELSE where[w]]
  /\ UNCHANGED <<now, recycleTime>>

\* Every worker is told to stop, under the pool lock.
Reset ==
  /\ items # <<>>
  /\ where' = [w \in Worker |-> IF where[w] = "idle" THEN "busy" ELSE where[w]]
  /\ items' = <<>>
  /\ UNCHANGED <<now, recycleTime, expiry>>

Next ==
  \/ Tick \/ Detach \/ RetrieveExpiry \/ Reset
  \/ \E w \in Worker : Stamp(w) \/ Insert(w)

Spec == Init /\ [][Next]_vars

-----------------------------------------------------------------------------
(* Properties *)

Expired(w) == recycleTime[w] <= now - Duration

Sorted ==
  \A i, j \in 1..Len(items) : i < j => recycleTime[items[i]] <= recycleTime[items[j]]

(***************************************************************************)
(* insert, detach, retrieveExpiry and reset keep every idle worker in the  *)
(* stack exactly once, and no other.                                       *)
(***************************************************************************)
StackHoldsIdleOnce ==
  /\ IsInjective(items)
  /\ \A w \in Worker : where[w] = "idle" <=> Contains(items, w)

(***************************************************************************)
(* retrieveExpiry cuts the stack in two: what it returns and what it keeps *)
(* are the old stack, in order, whatever the stamps.                       *)
(***************************************************************************)
PurgeSplits == [][RetrieveExpiry => items = expiry' \o items']_vars

(***************************************************************************)
(* binarySearch against its definition: in a stack sorted by recycleTime,  *)
(* retrieveExpiry returns all the expired workers and no other, also when  *)
(* stamps are equal, all have expired, or none has.                        *)
(***************************************************************************)
PurgeIsExact ==
  [][RetrieveExpiry /\ Sorted =>
       /\ \A i \in 1..Len(expiry') : Expired(expiry'[i])
       /\ \A i \in 1..Len(items') : ~Expired(items'[i])]_vars
=============================================================================
