------------------------------- MODULE Deque -------------------------------
(***************************************************************************)
(* mem.Deque of src/util/mem/queue.go: a ring buffer that doubles when it  *)
(* is full and halves when it is a quarter full.  Indices are taken        *)
(* modulo the capacity with a bitwise and, which needs powers of two.      *)
(***************************************************************************)
EXTENDS Integers, Sequences, SequencesExt, Bitwise

CONSTANTS
  Elem,
  Nil,          \* an empty slot
  MinCapacity,  \* the constant minCapacity, 16 in the code
  Sizes,        \* the arguments <<capacity, minimum>> New is called with
  MinExps,      \* the arguments SetMinCapacity is called with
  Rotations,    \* the arguments Rotate is called with
  MaxLen        \* bound of the number of elements

DequeAssumption ==
  /\ Nil \notin Elem
  /\ MinCapacity \in Nat /\ MaxLen \in Nat
  /\ Sizes \subseteq Nat \X Nat /\ MinExps \subseteq Nat /\ Rotations \subseteq Int

VARIABLES buf, head, tail, count, minCap, result

vars == <<buf, head, tail, count, minCap, result>>

Cap == Len(buf)

TypeOK ==
  /\ buf \in Seq(Elem \cup {Nil})
  /\ head \in 0..Cap /\ tail \in 0..Cap /\ count \in 0..Cap
  /\ minCap = 0 \/ minCap >= MinCapacity
  /\ result \in Elem \cup {Nil}

\* The machine's x & mask; a negative x is in two's complement.  Any width
\* beyond that of the mask gives the same result as the code's 64 bits.
Mask(x, mask) == IF x < 0 THEN (x + 2^8) & mask ELSE x & mask

Mod(x) == Mask(x, Cap - 1)

\* buf[i] of the code, whose indices start at 0.
Slot(i) == buf[i + 1]

Nils(n) == [k \in 1..n |-> Nil]

\* The least doubling of c that is at least n.
RECURSIVE DoubleTo(_, _)
DoubleTo(c, n) == IF c < n THEN DoubleTo(2 * c, n) ELSE c

\* New, or the zero value of the type.
Init ==
  /\ \/ \E size \in Sizes :
          /\ minCap = DoubleTo(MinCapacity, size[2])
          /\ buf = IF size[1] = 0 THEN <<>> ELSE Nils(DoubleTo(minCap, size[1]))
     \/ minCap = 0 /\ buf = <<>>
  /\ head = 0 /\ tail = 0 /\ count = 0 /\ result = Nil

\* Mutant: the part before tail is left behind when the contents wrap.
ResizedDropsWrap(b, h, t, n) ==
  IF t > h THEN SubSeq(b, h + 1, t) \o Nils(2 * n - (t - h))
  ELSE SubSeq(b, h + 1, Len(b)) \o Nils(2 * n - (Len(b) - h))

\* The buffer that resize makes of a buffer with n elements.
Resized(b, h, t, n) ==
  LET contents == IF t > h THEN SubSeq(b, h + 1, t)
                  ELSE SubSeq(b, h + 1, Len(b)) \o SubSeq(b, 1, t)
  IN contents \o Nils(2 * n - Len(contents))

\* The state after growIfFull, as a record.
Grown ==
  IF count # Cap THEN [buf |-> buf, head |-> head, tail |-> tail, minCap |-> minCap]
  ELSE IF Cap = 0
  THEN LET m == IF minCap = 0 THEN MinCapacity ELSE minCap
       IN [buf |-> Nils(m), head |-> head, tail |-> tail, minCap |-> m]
  ELSE [buf |-> Resized(buf, head, tail, count), head |-> 0, tail |-> count,
        minCap |-> minCap]

PushBack(e) ==
  /\ count < MaxLen
  /\ LET g == Grown
     IN /\ buf' = [g.buf EXCEPT ![g.tail + 1] = e]
        /\ tail' = Mask(g.tail + 1, Len(g.buf) - 1)
        /\ head' = g.head /\ minCap' = g.minCap
  /\ count' = count + 1
  /\ UNCHANGED result

PushFront(e) ==
  /\ count < MaxLen
  /\ LET g == Grown
         h == Mask(g.head - 1, Len(g.buf) - 1)
     IN /\ buf' = [g.buf EXCEPT ![h + 1] = e]
        /\ head' = h /\ tail' = g.tail /\ minCap' = g.minCap
  /\ count' = count + 1
  /\ UNCHANGED result

\* shrinkIfExcess, on the buffer that a pop leaves.
ShrinkIfExcess(b, h, t, n) ==
  IF Len(b) > minCap /\ n * 4 = Len(b)
  THEN buf' = Resized(b, h, t, n) /\ head' = 0 /\ tail' = n
  ELSE buf' = b /\ head' = h /\ tail' = t

PopFront ==
  /\ count > 0
  /\ result' = Slot(head)
  /\ count' = count - 1
  /\ ShrinkIfExcess([buf EXCEPT ![head + 1] = Nil], Mod(head + 1), tail, count - 1)
  /\ UNCHANGED minCap

PopBack ==
  /\ count > 0
  /\ LET t == Mod(tail - 1)
     IN /\ result' = Slot(t)
        /\ ShrinkIfExcess([buf EXCEPT ![t + 1] = Nil], head, t, count - 1)
  /\ count' = count - 1
  /\ UNCHANGED minCap

At(k) == Slot(Mod(head + k))

Back == Slot(Mod(tail - 1))

Set(k, e) ==
  /\ k < count
  /\ buf' = [buf EXCEPT ![Mod(head + k) + 1] = e]
  /\ UNCHANGED <<head, tail, count, minCap, result>>

\* The loop runs from head to tail: not at all when the buffer is full.
Clear ==
  /\ LET cleared == IF head <= tail THEN head..tail-1
                    ELSE (head..Cap-1) \cup (0..tail-1)
     IN buf' = [k \in 1..Cap |-> IF k - 1 \in cleared THEN Nil ELSE buf[k]]
  /\ head' = 0 /\ tail' = 0 /\ count' = 0
  /\ UNCHANGED <<minCap, result>>

\* Go's %: the sign of the dividend.
Rem(n, m) == IF n >= 0 THEN n % m ELSE -((-n) % m)

\* One round of Rotate's loops, on <<buf, head, tail>>.
StepBack(s) ==
  LET h == Mod(s[2] - 1)
      t == Mod(s[3] - 1)
  IN <<[s[1] EXCEPT ![h + 1] = s[1][t + 1], ![t + 1] = Nil], h, t>>

StepForth(s) ==
  <<[s[1] EXCEPT ![s[3] + 1] = s[1][s[2] + 1], ![s[2] + 1] = Nil],
    Mod(s[2] + 1), Mod(s[3] + 1)>>

RECURSIVE Rotated(_, _)
Rotated(s, n) ==
  IF n < 0 THEN Rotated(StepBack(s), n + 1)
  ELSE IF n > 0 THEN Rotated(StepForth(s), n - 1)
  ELSE s

\* A full buffer only moves its indices.
Rotate(n) ==
  /\ count > 1 /\ Rem(n, count) # 0
  /\ LET r == Rem(n, count)
         s == Rotated(<<buf, head, tail>>, r)
     IN IF head = tail
        THEN /\ head' = Mod(head + r)
             /\ tail' = Mod(tail + r)
             /\ UNCHANGED buf
        ELSE buf' = s[1] /\ head' = s[2] /\ tail' = s[3]
  /\ UNCHANGED <<count, minCap, result>>

SetMinCapacity(exp) ==
  /\ minCap' = IF 2^exp > MinCapacity THEN 2^exp ELSE MinCapacity
  /\ UNCHANGED <<buf, head, tail, count, result>>

Next ==
  \/ \E e \in Elem : PushBack(e) \/ PushFront(e)
  \/ \E k \in 0..MaxLen-1, e \in Elem : Set(k, e)
  \/ PopFront \/ PopBack \/ Clear
  \/ \E n \in Rotations : Rotate(n)
  \/ \E exp \in MinExps : SetMinCapacity(exp)

Spec == Init /\ [][Next]_vars

-----------------------------------------------------------------------------
(* Properties *)

Contents == [k \in 1..count |-> At(k - 1)]

Sequence == INSTANCE DequeSeq WITH seq <- Contents

(***************************************************************************)
(* Through growing, shrinking, wrapping and rotating, Deque behaves as a   *)
(* sequence: every pop returns what a sequence would.                      *)
(***************************************************************************)
IsSequence == Sequence!Spec

PowersOfTwo == {2^k : k \in 0..MaxLen}

(***************************************************************************)
(* The capacity stays a power of two, which the bitwise modulus relies on, *)
(* and head, tail and count agree: tail is count slots after head.         *)
(***************************************************************************)
IndicesAgree ==
  /\ Cap = 0 \/ Cap \in PowersOfTwo
  /\ Cap # 0 => tail = (head + count) % Cap
  /\ count > 0 => Back = Contents[count]
=============================================================================
