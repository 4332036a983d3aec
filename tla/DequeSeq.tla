------------------------------ MODULE DequeSeq ------------------------------
(***************************************************************************)
(* What mem.Deque promises: a double-ended queue, as a sequence.  result   *)
(* is what the last pop returned.                                          *)
(***************************************************************************)
EXTENDS Integers, Sequences

CONSTANT Elem

VARIABLES seq, result

PushBack == \E e \in Elem : seq' = Append(seq, e) /\ UNCHANGED result

PushFront == \E e \in Elem : seq' = <<e>> \o seq /\ UNCHANGED result

PopFront == seq # <<>> /\ result' = Head(seq) /\ seq' = Tail(seq)

PopBack ==
  /\ seq # <<>>
  /\ result' = seq[Len(seq)]
  /\ seq' = SubSeq(seq, 1, Len(seq) - 1)

Set == \E k \in 1..Len(seq), e \in Elem : seq' = [seq EXCEPT ![k] = e] /\ UNCHANGED result

Clear == seq' = <<>> /\ UNCHANGED result

\* k steps front-to-back: the first k elements go to the back.
Rotate ==
  /\ \E k \in 1..Len(seq)-1 : seq' = SubSeq(seq, k + 1, Len(seq)) \o SubSeq(seq, 1, k)
  /\ UNCHANGED result

Next == PushBack \/ PushFront \/ PopFront \/ PopBack \/ Set \/ Clear \/ Rotate

Spec == seq = <<>> /\ [][Next]_<<seq, result>>
=============================================================================
