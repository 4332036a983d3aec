----------------------------- MODULE IdleQueue -----------------------------
(***************************************************************************)
(* What loopQueue promises: a bounded first-in first-out queue of idle     *)
(* workers, from whose front a purge takes workers that have expired.      *)
(***************************************************************************)
EXTENDS Integers, Sequences

CONSTANTS Worker, Capacity, Duration

VARIABLES queue, now, recycleTime

Expired(w) == recycleTime[w] <= now - Duration

Init == queue = <<>>

Insert ==
  /\ Len(queue) < Capacity
  /\ \E w \in Worker : queue' = Append(queue, w)

Detach == queue # <<>> /\ queue' = Tail(queue)

\* The longest prefix of expired workers leaves.
Purge ==
  \E n \in 1..Len(queue) :
    /\ \A i \in 1..n : Expired(queue[i])
    /\ n < Len(queue) => ~Expired(queue[n + 1])
    /\ queue' = SubSeq(queue, n + 1, Len(queue))

Spec == Init /\ [][Insert \/ Detach \/ Purge]_queue
=============================================================================
