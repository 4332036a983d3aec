----------------------------- MODULE LoopQueue -----------------------------
(***************************************************************************)
(* loopQueue of src/gpool: the idle workers of a pre-allocated pool, in a  *)
(* ring of fixed size.  Every operation runs under the pool lock; a reset  *)
(* sends on the workers' channels while it holds the lock, and is split    *)
(* where it sends.                                                         *)
(***************************************************************************)
EXTENDS Integers, Sequences

CONSTANTS
  Worker,
  None,      \* the nil pointer
  Size,      \* size given to newWorkerLoopQueue
  Duration,  \* Options.ExpiryDuration
  ChanCap,   \* workerChanCap
  MaxTime    \* bound of the clock

QueueAssumption ==
  /\ None \notin Worker
  /\ Size \in Nat \ {0} /\ Duration \in Nat \ {0} /\ MaxTime \in Nat
  /\ ChanCap \in {0, 1}

VARIABLES
  now, recycleTime,
  where,                      \* busy, stamped, idle, or exited after a nil
  args,                       \* how many nils lie in the worker's channel
  items, head, tail, isFull,
  victim                      \* the w of reset, None outside reset

ring == <<items, head, tail, isFull>>
vars == <<now, recycleTime, where, args, items, head, tail, isFull, victim>>

TypeOK ==
  /\ now \in 0..MaxTime
  /\ recycleTime \in [Worker -> 0..MaxTime]
  /\ where \in [Worker -> {"busy", "stamped", "idle", "exited"}]
  /\ args \in [Worker -> 0..ChanCap]
  /\ items \in [0..Size-1 -> Worker \cup {None}]
  /\ head \in 0..Size-1 /\ tail \in 0..Size-1 /\ isFull \in BOOLEAN
  /\ victim \in Worker \cup {None}

Init ==
  /\ now = 0
  /\ recycleTime = [w \in Worker |-> 0]
  /\ where = [w \in Worker |-> "busy"]
  /\ args = [w \in Worker |-> 0]
  /\ items = [i \in 0..Size-1 |-> None]
  /\ head = 0 /\ tail = 0 /\ isFull = FALSE
  /\ victim = None

IsEmpty == head = tail /\ ~isFull

\* Mutant: a full ring is not told from an empty one.
LengthIgnoresFull ==
  IF head = tail THEN 0
  ELSE IF tail > head THEN tail - head
  ELSE Size - head + tail

Length ==
  IF head = tail THEN IF isFull THEN Size ELSE 0
  ELSE IF tail > head THEN tail - head
  ELSE Size - head + tail

\* An index that has moved on wraps at the end.
Wrap(i) == IF i < Size THEN i ELSE i - Size

\* The worker k places behind the head.
At(k) == items[Wrap(head + k)]

LockFree == victim = None

Tick ==
  /\ now < MaxTime /\ now' = now + 1
  /\ UNCHANGED <<recycleTime, where, args, ring, victim>>

\* revertWorker, before it takes the pool lock.
Stamp(w) ==
  /\ where[w] = "busy"
  /\ recycleTime' = [recycleTime EXCEPT ![w] = now]
  /\ where' = [where EXCEPT ![w] = "stamped"]
  /\ UNCHANGED <<now, args, ring, victim>>

\* A worker refused by a full ring ends, and is run again from the workerCache.
Insert(w) ==
  /\ where[w] = "stamped" /\ LockFree
  /\ IF isFull
     THEN /\ where' = [where EXCEPT ![w] = "busy"]
          /\ UNCHANGED <<items, tail, isFull>>
     ELSE /\ where' = [where EXCEPT ![w] = "idle"]
          /\ items' = [items EXCEPT ![tail] = w]
          /\ tail' = Wrap(tail + 1)
          /\ isFull' = (tail' = head)
  /\ UNCHANGED <<now, recycleTime, args, head, victim>>

\* The first n of the ring leave it.
Advance(n) ==
  /\ items' = [i \in 0..Size-1 |->
                 IF \E k \in 0..n-1 : Wrap(head + k) = i THEN None ELSE items[i]]
  /\ head' = Wrap(head + n)
  /\ isFull' = FALSE
  /\ UNCHANGED tail

Detach ==
  /\ LockFree /\ ~IsEmpty
  /\ where' = [where EXCEPT ![items[head]] = "busy"]
  /\ Advance(1)
  /\ UNCHANGED <<now, recycleTime, args, victim>>

Expired(w) == recycleTime[w] <= now - Duration

\* The loop of retrieveExpiry takes workers until one has not expired or none is left.
RetrieveExpiry ==
  /\ LockFree
  /\ \E n \in 1..Length :
       /\ \A k \in 0..n-1 : Expired(At(k))
       /\ n < Length => ~Expired(At(n))
       /\ where' = [w \in Worker |-> IF \E k \in 0..n-1 : At(k) = w THEN "busy" ELSE where[w]]
       /\ Advance(n)
  /\ UNCHANGED <<now, recycleTime, args, victim>>

\* for w := wq.detach(); w != nil; { w.args <- nil }: w is never assigned again,
\* so the loop, and the lines after it, never end.
Reset ==
  /\ LockFree /\ ~IsEmpty
  /\ victim' = items[head]
  /\ Advance(1)
  /\ UNCHANGED <<now, recycleTime, where, args>>

\* The nil goes to the waiting worker, or into the channel if it has room.
ResetSend ==
  /\ ~LockFree
  /\ \/ /\ where[victim] = "idle" /\ args[victim] = 0
        /\ where' = [where EXCEPT ![victim] = "exited"]
        /\ UNCHANGED args
     \/ /\ where[victim] = "exited" /\ args[victim] < ChanCap
        /\ args' = [args EXCEPT ![victim] = @ + 1]
        /\ UNCHANGED where
  /\ UNCHANGED <<now, recycleTime, ring, victim>>

Next ==
  \/ Tick \/ Detach \/ RetrieveExpiry \/ Reset \/ ResetSend
  \/ \E w \in Worker : Stamp(w) \/ Insert(w)

Spec == Init /\ [][Next]_vars

\* The goroutine that calls Release runs until it blocks for good.
FairSpec == Spec /\ WF_vars(ResetSend)

-----------------------------------------------------------------------------
(* Properties *)

Contents == [i \in 1..Length |-> At(i - 1)]

Queue == INSTANCE IdleQueue WITH queue <- Contents, Capacity <- Size

(***************************************************************************)
(* insert, detach and retrieveExpiry, with wrapping head and tail and the  *)
(* isFull flag, are those of a bounded FIFO queue.                         *)
(***************************************************************************)
IsFifo == Queue!Spec

(***************************************************************************)
(* The ring holds each idle worker once, in the slots from head to tail,   *)
(* and nil in all others, so that no worker is kept or lost by a wrap.     *)
(***************************************************************************)
RingHoldsIdleOnce ==
  /\ \A i, j \in 1..Length : Contents[i] = Contents[j] => i = j
  /\ {Contents[i] : i \in 1..Length} = {w \in Worker : where[w] = "idle" /\ w # victim}
  /\ \A k \in 0..Size-1 :
       items[k] # None <=> \E i \in 0..Length-1 : Wrap(head + i) = k

(***************************************************************************)
(* Unlike the stack, the ring is scanned worker by worker: retrieveExpiry  *)
(* ends no worker before its time, even when the stamps are out of order.  *)
(***************************************************************************)
OnlyExpiredLeave ==
  [][RetrieveExpiry => \A w \in Worker : where[w] = "idle" /\ where'[w] = "busy" => Expired(w)]_vars

(***************************************************************************)
(* pool.go:236: "Release closes this pool and releases the worker queue."  *)
(* A reset that has begun ends and gives back the pool lock.  It does not, *)
(* once there is an idle worker: reset sends to the same worker for ever.  *)
(***************************************************************************)
ReleaseEnds == ~LockFree ~> LockFree
=============================================================================
