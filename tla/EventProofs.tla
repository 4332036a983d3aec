---------------------------- MODULE EventProofs -----------------------------
(***************************************************************************)
(* Proofs about EventManager, for every number of goroutines and listeners *)
(* and every priority: append and the array it may share, the loop of      *)
(* Remove, and the slice a firing walks while others change the queues.    *)
(***************************************************************************)
EXTENDS EventManager, WellFoundedInduction, TLAPS

-----------------------------------------------------------------------------
(* What the operators on sequences return. *)

\* A sequence is a function on the numbers up to its length, ...
LEMMA SeqDef == \A S : Seq(S) = UNION {[1..n -> S] : n \in Nat}
  OBVIOUS

\* ... which is its domain.
LEMMA LenProperties ==
  ASSUME NEW S, NEW s \in Seq(S)
  PROVE  Len(s) \in Nat /\ s \in [1..Len(s) -> S] /\ DOMAIN s = 1..Len(s)
  OBVIOUS

\* Its values are its elements.
LEMMA ElementOfSeq == ASSUME NEW S, NEW s \in Seq(S), NEW k \in 1..Len(s) PROVE s[k] \in S
  OBVIOUS

\* Only the empty sequence has no element.
LEMMA EmptySeq ==
  ASSUME NEW S
  PROVE  <<>> \in Seq(S) /\ Len(<<>>) = 0 /\ \A s \in Seq(S) : s # <<>> => Len(s) \in Nat \ {0}
  OBVIOUS

\* s[i] = e, in place.
LEMMA ExceptSeq ==
  ASSUME NEW S, NEW s \in Seq(S), NEW i \in 1..Len(s), NEW e \in S
  PROVE  /\ [s EXCEPT ![i] = e] \in Seq(S) /\ Len([s EXCEPT ![i] = e]) = Len(s)
         /\ \A j \in 1..Len(s) : [s EXCEPT ![i] = e][j] = IF j = i THEN e ELSE s[j]
  OBVIOUS

\* Two sequences after each other, ...
LEMMA ConcatProperties ==
  ASSUME NEW S, NEW s \in Seq(S), NEW t \in Seq(S)
  PROVE  /\ s \o t \in Seq(S) /\ Len(s \o t) = Len(s) + Len(t)
         /\ \A j \in 1..Len(s) + Len(t) : (s \o t)[j] = IF j <= Len(s) THEN s[j] ELSE t[j - Len(s)]
  OBVIOUS

\* ... one element more, ...
LEMMA AppendProperties ==
  ASSUME NEW S, NEW s \in Seq(S), NEW e \in S
  PROVE  /\ Append(s, e) \in Seq(S) /\ Append(s, e) # <<>> /\ Len(Append(s, e)) = Len(s) + 1
         /\ Append(s, e)[Len(s) + 1] = e /\ \A j \in 1..Len(s) : Append(s, e)[j] = s[j]
  OBVIOUS

\* ... and a part of one.
LEMMA SubSeqProperties ==
  ASSUME NEW S, NEW s, NEW m \in Int, NEW n \in Int, \A i \in m..n : s[i] \in S
  PROVE  /\ SubSeq(s, m, n) \in Seq(S) /\ Len(SubSeq(s, m, n)) = (IF m <= n THEN n - m + 1 ELSE 0)
         /\ \A j \in 1..n - m + 1 : SubSeq(s, m, n)[j] = s[m + j - 1]
  OBVIOUS

\* Two facts about numbers.
LEMMA Through == \A i, j, k \in Nat : i <= j /\ j <= k => i <= k
  OBVIOUS

LEMMA NextIn == \A i, j, k \in Nat : i < j /\ j <= k => i + 1 \in 1..k
  OBVIOUS

-----------------------------------------------------------------------------
(* Induction over numbers, in terms of sets, and the recursion it justifies. *)

\* A set of natural numbers that is not empty has a least element.
LEMMA Least ==
  ASSUME NEW T \in SUBSET Nat, T # {}
  PROVE  \E x \in T : \A y \in T : x <= y
<1> DEFINE R == {ss \in Nat \X Nat : ss[1] < ss[2]}
<1>1. IsWellFoundedOn(R, Nat)
  BY Zenon, NatLessThanWellFounded DEF OpToRel
<1>2. ASSUME NEW x \in Nat, NEW y \in Nat, <<y, x>> \notin R PROVE x <= y
  BY <1>2
<1>3. \E x \in T : \A y \in T : <<y, x>> \notin R
  <2> HIDE DEF R
  <2> QED BY Zenon, <1>1, WFMin
<1> HIDE DEF R
<1> QED BY Zenon, <1>2, <1>3

\* What holds of 0 and passes from each number to the next holds up to n.
LEMMA UpTo ==
  ASSUME NEW n \in Nat, NEW P, 0 \in P, \A i \in 0..n-1 : i \in P => i + 1 \in P
  PROVE  \A i \in 0..n : i \in P
<1> SUFFICES ASSUME NEW m \in 0..n, m \notin P PROVE FALSE
  BY Zenon
<1> DEFINE T == {i \in 0..n : i \notin P}
<1>0. T \in SUBSET Nat /\ m \in T
  OBVIOUS
<1>1. PICK x \in T : \A y \in T : x <= y
  <2> HIDE DEF T
  <2> QED BY Zenon, <1>0, Least
<1>2. x # 0 /\ x - 1 \in 0..n-1 /\ x - 1 \notin T
  BY <1>1
<1>3. x - 1 \in P /\ (x - 1) + 1 = x
  BY <1>2
<1> QED
  BY Zenon, <1>2, <1>3

\* The values after each round of a loop that starts with base and turns t into h[<<t, i>>]
\* in its round i.
Rounds(S, base, n, h) == {g \in [0..n -> S] : g[0] = base /\ \A i \in 1..n : g[i] = h[<<g[i-1], i>>]}

\* A loop has values after each of its rounds.
LEMMA Loop ==
  ASSUME NEW S, NEW base \in S, NEW n \in Nat, NEW h \in [S \X (1..n) -> S]
  PROVE  \E g : g \in Rounds(S, base, n, h)
<1> DEFINE Runs(m) == \E g \in [0..m -> S] : g[0] = base /\ \A i \in 1..m : g[i] = h[<<g[i-1], i>>]
           P == {m \in 0..n : Runs(m)}
<1>1. 0 \in P
  <2> DEFINE g == [i \in 0..0 |-> base]
  <2>1. g \in [0..0 -> S] /\ g[0] = base
    OBVIOUS
  <2>2. \A i \in 1..0 : g[i] = h[<<g[i-1], i>>]
    OBVIOUS
  <2> HIDE DEF g
  <2>3. Runs(0)
    BY Zenon, <2>1, <2>2
  <2> HIDE DEF Runs
  <2> QED
    BY <2>3
<1>2. ASSUME NEW m \in 0..n-1, m \in P PROVE m + 1 \in P
  <2>1. PICK g \in [0..m -> S] : g[0] = base /\ \A i \in 1..m : g[i] = h[<<g[i-1], i>>]
    BY Zenon, <1>2
  <2> DEFINE f == [i \in 0..m+1 |-> IF i <= m THEN g[i] ELSE h[<<g[m], m + 1>>]]
  <2>2. m + 1 \in 1..n /\ m \in 0..m
    OBVIOUS
  <2>3. h[<<g[m], m + 1>>] \in S
    BY Zenon, <2>1, <2>2
  <2>4. f \in [0..m+1 -> S] /\ f[0] = base
    BY <2>1, <2>3
  <2>5. ASSUME NEW i \in 1..m+1 PROVE f[i] = h[<<f[i-1], i>>]
    <3>1. i - 1 \in 0..m /\ f[i-1] = g[i-1]
      OBVIOUS
    <3>2. CASE i = m + 1
      <4>1. i - 1 = m /\ ~(i <= m) /\ i \in 0..m+1
        BY <3>2
      <4>2. f[i] = h[<<g[m], m + 1>>]
        BY Zenon, <4>1
      <4> HIDE DEF f
      <4> QED
        BY Zenon, <3>1, <3>2, <4>1, <4>2
    <3>3. CASE i \in 1..m
      BY <2>1, <3>1, <3>3
    <3> QED
      BY <3>2, <3>3
  <2>6. m + 1 \in 0..n
    OBVIOUS
  <2> HIDE DEF f
  <2> QED
    BY Zenon, <2>4, <2>5, <2>6
<1> HIDE DEF P
<1>3. n \in P
  BY <1>1, <1>2, UpTo
<1> QED
  BY Zenon, <1>3 DEF P, Rounds

\* What is left of a sequence without its first n elements.
LEMMA Dropped ==
  ASSUME NEW S, NEW s \in Seq(S), NEW n \in 0..Len(s)
  PROVE  /\ SubSeq(s, n + 1, Len(s)) \in Seq(S) /\ Len(SubSeq(s, n + 1, Len(s))) = Len(s) - n
         /\ \A k \in 1..Len(s) - n : SubSeq(s, n + 1, Len(s))[k] = s[n + k]
<1>1. Len(s) \in Nat
  BY Zenon, LenProperties
<1>2. PICK m \in Int : m = n + 1
  BY <1>1
<1>3. PICK l \in Int : l = Len(s)
  BY <1>1
<1>4. \A k \in m..l : s[k] \in S
  <2>1. \A k \in m..l : k \in 1..Len(s)
    BY <1>1, <1>2, <1>3
  <2> QED
    BY Zenon, <2>1, ElementOfSeq
<1>5. /\ SubSeq(s, m, l) \in Seq(S) /\ Len(SubSeq(s, m, l)) = (IF m <= l THEN l - m + 1 ELSE 0)
      /\ \A k \in 1..l - m + 1 : SubSeq(s, m, l)[k] = s[m + k - 1]
  BY <1>4, SubSeqProperties
<1>6. (IF m <= l THEN l - m + 1 ELSE 0) = Len(s) - n /\ l - m + 1 = Len(s) - n
  BY <1>1, <1>2, <1>3
<1>7. \A k \in 1..Len(s) - n : m + k - 1 = n + k
  BY <1>1, <1>2
<1> QED
  BY Zenon, <1>2, <1>3, <1>5, <1>6, <1>7

-----------------------------------------------------------------------------

\* A slice value: cells of which the first len are items.
Slices == {r \in [cells : Cells, len : Nat] : r.len <= Len(r.cells)}

\* append keeps the items before, puts the new one behind them and has room for it.
LEMMA Appended ==
  ASSUME NEW c \in Cells, NEW n \in 0..Len(c), NEW it \in AnItem
  PROVE  /\ append(c, n, it) \in Cells
         /\ n + 1 <= Len(append(c, n, it)) /\ Len(c) <= Len(append(c, n, it))
         /\ \A k \in 1..n : append(c, n, it)[k] = c[k]
<1>1. CASE n < Len(c)
  <2>1. n + 1 \in 1..Len(c)
    BY <1>1
  <2> QED
    BY <1>1, <2>1, ExceptSeq DEF append, Cells
<1>2. CASE ~(n < Len(c))
  <2>1. n = Len(c)
    BY <1>2
  <2> DEFINE t == [k \in 1..n - 1 |-> NoItem]
             u == Append(c, it)
  <2>2. u \in Cells /\ Len(u) = n + 1 /\ \A k \in 1..n : u[k] = c[k]
    BY <2>1, AppendProperties DEF Cells
  <2>3. CASE n = 0
    <3>1. append(c, n, it) = u
      BY Zenon, <1>2, <2>3 DEF append
    <3> HIDE DEF u
    <3> QED
      BY <2>1, <2>2, <3>1
  <2>4. CASE n > 0
    <3>1. t \in Cells
      <4>1. NoItem \in AnItem
        BY Zenon DEF NoItem, AnItem
      <4>2. n - 1 \in Nat /\ t \in [1..n-1 -> AnItem]
        BY <2>4, <4>1
      <4> QED
        BY <4>2, SeqDef DEF Cells
    <3>2. n # 0
      BY <2>4
    <3>3. append(c, n, it) = u \o t
      BY Zenon, <1>2, <3>2 DEF append
    <3> HIDE DEF t, u
    <3>4. /\ u \o t \in Cells /\ Len(u \o t) = Len(u) + Len(t)
          /\ \A k \in 1..Len(u) + Len(t) : (u \o t)[k] = IF k <= Len(u) THEN u[k] ELSE t[k - Len(u)]
      BY Zenon, <2>2, <3>1, ConcatProperties DEF Cells
    <3>5. Len(t) \in Nat
      BY Zenon, <3>1, LenProperties DEF Cells
    <3> QED
      BY <2>1, <2>2, <3>3, <3>4, <3>5
  <2> QED
    BY <2>3, <2>4
<1> QED
  BY Zenon, <1>1, <1>2

\* The loop of Remove ends with a slice of items.
LEMMA KeptIsSlice == ASSUME NEW s \in Cells, NEW l PROVE Kept(s, l) \in Slices
<1> DEFINE n == Len(s)
           none == [cells |-> <<>>, len |-> 0]
           Round(r, k) == IF s[k].l = l THEN r
                          ELSE [cells |-> append(r.cells, r.len, s[k]), len |-> r.len + 1]
           h == [x \in Slices \X (1..n) |-> Round(x[1], x[2])]
<1>1. n \in Nat
  BY Zenon, LenProperties DEF Cells
<1>2. none \in Slices
  BY EmptySeq DEF Slices, Cells
<1>3. ASSUME NEW r \in Slices, NEW k \in 1..n PROVE Round(r, k) \in Slices
  <2>1. s[k] \in AnItem
    BY Zenon, ElementOfSeq DEF Cells
  <2>2. r.cells \in Cells /\ r.len \in 0..Len(r.cells) /\ r.len \in Nat
    BY LenProperties DEF Slices, Cells
  <2>3. append(r.cells, r.len, s[k]) \in Cells /\ r.len + 1 <= Len(append(r.cells, r.len, s[k]))
    BY Zenon, <2>1, <2>2, Appended
  <2>4. CASE s[k].l = l
    BY Zenon, <2>4
  <2>5. CASE s[k].l # l
    BY <2>2, <2>3, <2>5 DEF Slices
  <2> QED
    BY Zenon, <2>4, <2>5
<1>4. h \in [Slices \X (1..n) -> Slices]
  <2> HIDE DEF Round
  <2> QED BY Zenon, <1>3
<1>5. PICK g \in [0..n -> Slices] : g[0] = none /\ \A k \in 1..n : g[k] = h[<<g[k-1], k>>]
  <2> HIDE DEF h, none, n
  <2>1. PICK g : g \in Rounds(Slices, none, n, h)
    BY Zenon, <1>1, <1>2, <1>4, Loop
  <2> QED
    BY Zenon, <2>1 DEF Rounds
<1>6. ASSUME NEW k \in 1..n PROVE g[k] = Round(g[k-1], k)
  <2>1. g[k-1] \in Slices
    BY <1>1, <1>5
  <2> QED
    BY Zenon, <1>5, <2>1
<1>7. g = [k \in 0..n |-> IF k = 0 THEN none ELSE IF s[k].l = l THEN g[k-1]
             ELSE [cells |-> append(g[k-1].cells, g[k-1].len, s[k]), len |-> g[k-1].len + 1]]
  <2>1. \A k \in 0..n : k # 0 => k \in 1..n
    BY <1>1
  <2> QED
    BY Zenon, <1>1, <1>5, <1>6, <2>1
<1>8. DEFINE f == CHOOSE f : f = [k \in 0..n |-> IF k = 0 THEN none ELSE IF s[k].l = l THEN f[k-1]
             ELSE [cells |-> append(f[k-1].cells, f[k-1].len, s[k]), len |-> f[k-1].len + 1]]
<1>9. f = [k \in 0..n |-> IF k = 0 THEN none ELSE IF s[k].l = l THEN f[k-1]
             ELSE [cells |-> append(f[k-1].cells, f[k-1].len, s[k]), len |-> f[k-1].len + 1]]
  BY Zenon, <1>7
<1>10. Kept(s, l) = f[n]
  BY Zenon DEF Kept
<1>11. \A k \in 0..n : f[k] \in Slices
  <2> DEFINE P == {k \in 0..n : f[k] \in Slices}
  <2>1. f[0] = none /\ \A k \in 1..n : f[k] = Round(f[k-1], k)
    <3> HIDE DEF f, none
    <3>1. 0 \in 0..n /\ \A k \in 1..n : k \in 0..n /\ k # 0
      BY <1>1
    <3> QED
      BY Zenon, <1>9, <3>1
  <2> HIDE DEF f
  <2>2. 0 \in P
    BY <1>1, <1>2, <2>1
  <2>3. ASSUME NEW k \in 0..n-1, k \in P PROVE k + 1 \in P
    <3>1. k + 1 \in 1..n /\ k + 1 \in 0..n /\ (k + 1) - 1 = k
      BY <1>1
    <3>2. f[k+1] \in Slices
      <4> HIDE DEF Round
      <4> QED BY Zenon, <1>3, <2>1, <2>3, <3>1
    <3> QED
      BY Zenon, <3>1, <3>2
  <2> HIDE DEF P
  <2>4. \A k \in 0..n : k \in P
    BY Zenon, <1>1, <2>2, <2>3, UpTo
  <2> QED
    BY Zenon, <2>4 DEF P
<1> QED
  <2> HIDE DEF f
  <2> QED BY <1>1, <1>10, <1>11

Queues == [Names -> [arr : Nat, len : Nat]]

\* Every queue has an array of its own, with its items in it.
Whole(ls, ar) ==
  /\ \A n \in Names :
       \/ ls[n].arr = 0 /\ ls[n].len = 0
       \/ ls[n].arr \in 1..Len(ar) /\ ls[n].len \in 1..Len(ar[ls[n].arr])
  /\ ls["event"].arr = ls["*"].arr => ls["event"].arr = 0

Placed(q, ar) == (q.arr = 0 /\ q.len = 0) \/ (q.arr \in 1..Len(ar) /\ q.len \in 1..Len(ar[q.arr]))

\* Whole, for one queue and for the others.
LEMMA WholeSplit ==
  ASSUME NEW ls, NEW ar, NEW n \in Names
  PROVE  Whole(ls, ar) <=> /\ Placed(ls[n], ar)
                           /\ \A m \in Names : m # n => Placed(ls[m], ar) /\ (ls[m].arr = 0 \/ ls[m].arr # ls[n].arr)
  BY Zenon DEF Whole, Placed, Names

\* The slice a firing walks still holds what it held when the firing came to queue n: the
\* array is that of no other queue, and n has not become shorter in it.
Seen(ls, ar, n, f) ==
  /\ f.len = Len(f.expect)
  /\ f.len > 0 =>
       /\ f.arr \in 1..Len(ar) /\ f.len <= Len(ar[f.arr])
       /\ \A k \in 1..f.len : ar[f.arr][k] = f.expect[k]
       /\ \A m \in Names : ls[m].arr = f.arr => m = n /\ f.len <= ls[m].len

\* Queue n gets the slice r, in an array of its own.
Put(ls, ar, n, r) ==
  IF r.len = 0 THEN <<[ls EXCEPT ![n] = [arr |-> 0, len |-> 0]], ar>>
  ELSE <<[ls EXCEPT ![n] = [arr |-> Len(ar) + 1, len |-> r.len]], Append(ar, r.cells)>>

Keeps(ls, ar, ls2, ar2) ==
  /\ ls2 \in Queues /\ ar2 \in Seq(Cells) /\ Whole(ls2, ar2)
  /\ Len(ar) <= Len(ar2) /\ \A k \in 1..Len(ar) : Len(ar[k]) <= Len(ar2[k])
  /\ \A n \in Names, f \in Frames : Seen(ls, ar, n, f) => Seen(ls2, ar2, n, f)

\* A queue that gets an array of its own leaves the others and the arrays before as they were.
LEMMA PutKeeps ==
  ASSUME NEW ls \in Queues, NEW ar \in Seq(Cells), Whole(ls, ar), NEW n \in Names, NEW r \in Slices,
         NEW ls2, NEW ar2, ls2 = Put(ls, ar, n, r)[1], ar2 = Put(ls, ar, n, r)[2]
  PROVE  Keeps(ls, ar, ls2, ar2)
<1>0. /\ r.len \in Nat /\ r.cells \in Cells /\ r.len <= Len(r.cells) /\ Len(ar) \in Nat
      /\ \A m \in Names : ls[m].arr \in Nat /\ ls[m].len \in Nat
  BY Zenon, LenProperties DEF Slices, Queues
<1>1. CASE r.len = 0
  <2>1. ls2 = [ls EXCEPT ![n] = [arr |-> 0, len |-> 0]] /\ ar2 = ar
    BY Zenon, <1>1 DEF Put
  <2>2. ls2 \in Queues /\ \A m \in Names : ls2[m] = IF m = n THEN [arr |-> 0, len |-> 0] ELSE ls[m]
    BY <2>1 DEF Queues
  <2>x. ar2 = ar
    BY Zenon, <2>1
  <2>3. Whole(ls2, ar)
    <3>1. ls2[n].arr = 0 /\ Placed(ls2[n], ar)
      BY <2>2 DEF Placed
    <3>2. ASSUME NEW m \in Names, m # n PROVE Placed(ls2[m], ar)
      BY Zenon, <2>2, <3>2, WholeSplit
    <3> QED
      BY Zenon, <3>1, <3>2, WholeSplit
  <2>4. ASSUME NEW m \in Names, NEW f \in Frames, Seen(ls, ar, m, f) PROVE Seen(ls2, ar, m, f)
    BY <1>0, <2>2, <2>4 DEF Seen
  <2>5. \A k \in 1..Len(ar) : Len(ar[k]) \in Nat
    BY Zenon, ElementOfSeq, LenProperties DEF Cells
  <2> QED
    BY <1>0, <2>x, <2>2, <2>3, <2>4, <2>5 DEF Keeps
<1>2. CASE r.len # 0
  <2>1. ls2 = [ls EXCEPT ![n] = [arr |-> Len(ar) + 1, len |-> r.len]] /\ ar2 = Append(ar, r.cells)
    BY Zenon, <1>2 DEF Put
  <2>2. /\ ls2 \in Queues
        /\ \A m \in Names : ls2[m] = IF m = n THEN [arr |-> Len(ar) + 1, len |-> r.len] ELSE ls[m]
    BY <1>0, <2>1 DEF Queues
  <2>3. /\ ar2 \in Seq(Cells) /\ Len(ar2) = Len(ar) + 1
        /\ \A k \in 1..Len(ar) : ar2[k] = ar[k]
        /\ ar2[Len(ar) + 1] = r.cells
    BY <1>0, <2>1, AppendProperties
  <2>4. Whole(ls2, ar2)
    <3>1. ls2[n].arr = Len(ar) + 1 /\ ls2[n].len \in 1..Len(ar2[ls2[n].arr])
      <4>1. ls2[n].arr = Len(ar) + 1 /\ ls2[n].len = r.len
        BY <2>2
      <4>2. ar2[ls2[n].arr] = r.cells /\ Len(r.cells) \in Nat
        BY Zenon, <1>0, <2>3, <4>1, LenProperties DEF Cells
      <4>3. r.len \in 1..Len(r.cells)
        BY <1>0, <1>2, <4>2
      <4> QED
        BY Zenon, <4>1, <4>2, <4>3
    <3>2. ASSUME NEW m \in Names, m # n
          PROVE  Placed(ls2[m], ar2) /\ (ls2[m].arr = 0 \/ ls2[m].arr # ls2[n].arr)
      <4>1. ls2[m] = ls[m] /\ Placed(ls[m], ar)
        BY Zenon, <2>2, <3>2, WholeSplit
      <4>2. CASE ls[m].arr = 0 /\ ls[m].len = 0
        BY Zenon, <4>1, <4>2 DEF Placed
      <4>3. CASE ls[m].arr \in 1..Len(ar) /\ ls[m].len \in 1..Len(ar[ls[m].arr])
        <5>1. \A k \in 1..Len(ar) : k \in 1..Len(ar) + 1 /\ k # Len(ar) + 1
          BY <1>0
        <5> QED
          BY Zenon, <2>3, <3>1, <4>1, <4>3, <5>1 DEF Placed
      <4> QED
        BY Zenon, <4>1, <4>2, <4>3 DEF Placed
    <3>3. Placed(ls2[n], ar2)
      BY <1>0, <2>3, <3>1 DEF Placed
    <3> QED
      BY Zenon, <3>2, <3>3, WholeSplit
  <2>5. ASSUME NEW m \in Names, NEW f \in Frames, Seen(ls, ar, m, f) PROVE Seen(ls2, ar2, m, f)
    <3>1. CASE f.len > 0
      <4>1. /\ f.arr \in 1..Len(ar) /\ f.len <= Len(ar[f.arr])
            /\ \A k \in 1..f.len : ar[f.arr][k] = f.expect[k]
            /\ \A k \in Names : ls[k].arr = f.arr => k = m /\ f.len <= ls[k].len
        BY Zenon, <2>5, <3>1 DEF Seen
      <4>2. \A k \in Names : ls2[k].arr = f.arr => k = m /\ f.len <= ls2[k].len
        BY <1>0, <2>2, <4>1
      <4>3. f.arr \in 1..Len(ar2) /\ ar2[f.arr] = ar[f.arr]
        BY <1>0, <2>3, <4>1
      <4> QED
        BY Zenon, <2>5, <4>1, <4>2, <4>3 DEF Seen
    <3> QED
      BY Zenon, <2>5, <3>1 DEF Seen
  <2>6. \A k \in 1..Len(ar) : Len(ar[k]) \in Nat
    BY Zenon, ElementOfSeq, LenProperties DEF Cells
  <2> QED
    BY <1>0, <2>2, <2>3, <2>4, <2>5, <2>6 DEF Keeps
<1> QED
  BY Zenon, <1>1, <1>2

\* An item appended to a queue, in its array or in a larger copy, leaves every item before it.
LEMMA PushKeeps ==
  ASSUME NEW ls \in Queues, NEW ar \in Seq(Cells), Whole(ls, ar), NEW n \in Names, NEW it \in AnItem,
         NEW ls2, NEW ar2, ls2 = Push(ls, ar, n, it)[1], ar2 = Push(ls, ar, n, it)[2]
  PROVE  Keeps(ls, ar, ls2, ar2)
<1> DEFINE q == ls[n]
           a == IF q.len = 0 THEN <<>> ELSE ar[q.arr]
<1>0. Len(ar) \in Nat /\ \A m \in Names : ls[m].arr \in Nat /\ ls[m].len \in Nat
  BY Zenon, LenProperties DEF Queues
<1>1. a \in Cells /\ q.len \in 0..Len(a)
  <2>1. CASE q.len = 0
    BY <2>1, EmptySeq DEF Cells
  <2>2. CASE q.len # 0
    BY <1>0, <2>2, ElementOfSeq DEF Whole
  <2> QED
    BY Zenon, <2>1, <2>2
<1>2. /\ append(a, q.len, it) \in Cells /\ q.len + 1 <= Len(append(a, q.len, it))
      /\ Len(a) <= Len(append(a, q.len, it))
      /\ \A k \in 1..q.len : append(a, q.len, it)[k] = a[k]
  <2> HIDE DEF a, q
  <2> QED BY Zenon, <1>1, Appended
<1>3. CASE q.len < Len(a)
  <2>1. q.len # 0 /\ q.arr \in 1..Len(ar) /\ a = ar[q.arr]
    <3>1. q.len # 0
      BY <1>3, EmptySeq
    <3> QED
      BY Zenon, <1>0, <3>1 DEF Whole
  <2>2. ls2 = [ls EXCEPT ![n] = [arr |-> q.arr, len |-> q.len + 1]] /\ ar2 = [ar EXCEPT ![q.arr] = append(a, q.len, it)]
    BY Zenon, <1>3 DEF Push
  <2>3. ls2 \in Queues /\ \A m \in Names : ls2[m] = IF m = n THEN [arr |-> q.arr, len |-> q.len + 1] ELSE ls[m]
    BY <1>0, <2>2 DEF Queues
  <2>4. /\ ar2 \in Seq(Cells) /\ Len(ar2) = Len(ar)
        /\ \A k \in 1..Len(ar) : ar2[k] = IF k = q.arr THEN append(a, q.len, it) ELSE ar[k]
    <3> HIDE DEF a
    <3>1. ar \in Seq(Cells) /\ q.arr \in 1..Len(ar) /\ append(a, q.len, it) \in Cells
      BY Zenon, <1>2, <2>1
    <3> HIDE DEF q
    <3> QED
      BY <2>2, <3>1, ExceptSeq
  <2>5. \A k \in 1..Len(ar) : Len(ar[k]) \in Nat /\ Len(ar[k]) <= Len(ar2[k])
    <3>1. \A k \in 1..Len(ar) : Len(ar[k]) \in Nat
      BY Zenon, ElementOfSeq, LenProperties DEF Cells
    <3>2. ASSUME NEW k \in 1..Len(ar) PROVE Len(ar[k]) <= Len(ar2[k])
      <4> HIDE DEF a, q
      <4>1. CASE k = q.arr
        <5>1. ar[k] = a /\ ar2[k] = append(a, q.len, it)
          BY Zenon, <2>1, <2>4, <4>1
        <5> QED
          BY Zenon, <1>2, <5>1
      <4>2. CASE k # q.arr
        <5>1. ar2[k] = ar[k]
          BY Zenon, <2>4, <4>2
        <5> QED
          BY <3>1, <5>1
      <4> QED
        BY Zenon, <4>1, <4>2
    <3> QED
      BY Zenon, <3>1, <3>2
  <2>6. Whole(ls2, ar2)
    <3>1. Len(append(a, q.len, it)) \in Nat
      BY Zenon, <1>2, LenProperties DEF Cells
    <3>2. ls2[n].arr = q.arr /\ ls2[n].len = q.len + 1 /\ Placed(ls2[n], ar2)
      <4>1. ls2[n].arr = q.arr /\ ls2[n].len = q.len + 1
        BY <2>3
      <4>2. q.len + 1 \in 1..Len(append(a, q.len, it)) /\ ar2[q.arr] = append(a, q.len, it) /\ q.arr \in 1..Len(ar2)
        <5> HIDE DEF a
        <5> QED BY <1>0, <1>2, <2>1, <2>4, <3>1
      <4> QED
        BY Zenon, <4>1, <4>2 DEF Placed
    <3>3. ASSUME NEW m \in Names, m # n
          PROVE  Placed(ls2[m], ar2) /\ (ls2[m].arr = 0 \/ ls2[m].arr # ls2[n].arr)
      <4>1. ls2[m] = ls[m] /\ Placed(ls[m], ar) /\ (ls[m].arr = 0 \/ ls[m].arr # ls[n].arr)
        BY Zenon, <2>3, <3>3, WholeSplit
      <4>2. ls[m].arr # q.arr
        BY <2>1, <4>1
      <4>3. CASE ls[m].arr = 0 /\ ls[m].len = 0
        BY Zenon, <3>2, <4>1, <4>2, <4>3 DEF Placed
      <4>4. CASE ls[m].arr \in 1..Len(ar) /\ ls[m].len \in 1..Len(ar[ls[m].arr])
        <5>1. ar2[ls[m].arr] = ar[ls[m].arr]
          BY Zenon, <2>4, <4>2, <4>4
        <5> QED
          BY Zenon, <2>4, <3>2, <4>1, <4>2, <4>4, <5>1 DEF Placed
      <4> QED
        BY Zenon, <4>1, <4>3, <4>4 DEF Placed
    <3> QED
      BY <3>2, <3>3, WholeSplit
  <2>7. ASSUME NEW m \in Names, NEW f \in Frames, Seen(ls, ar, m, f), f.len > 0 PROVE Seen(ls2, ar2, m, f)
    <3>1. f.len \in Nat /\ f.arr \in 1..Len(ar) /\ f.len <= Len(ar[f.arr])
      BY Zenon, <2>7 DEF Seen, Frames
    <3>2. f.len <= Len(ar2[f.arr]) 
      <4>1. Len(ar2[f.arr]) \in Nat
        BY Zenon, <2>4, <3>1, ElementOfSeq, LenProperties DEF Cells
      <4>2. Len(ar[f.arr]) \in Nat /\ Len(ar[f.arr]) <= Len(ar2[f.arr])
        BY Zenon, <2>5, <3>1
      <4> QED
        BY Zenon, <3>1, <4>1, <4>2, Through
    <3>3. \A k \in 1..f.len : ar2[f.arr][k] = ar[f.arr][k]
      <4>1. CASE f.arr = q.arr
        <5>1. f.len <= q.len
          BY Zenon, <2>7, <4>1 DEF Seen
        <5>2. \A k \in 1..f.len : k \in 1..q.len
          BY <1>0, <3>1, <5>1
        <5> HIDE DEF a, q
        <5> QED
          BY Zenon, <1>2, <2>1, <2>4, <3>1, <4>1, <5>2
      <4>2. CASE f.arr # q.arr
        BY Zenon, <2>4, <3>1, <4>2
      <4> QED
        BY Zenon, <4>1, <4>2
    <3>4. \A k \in Names : ls2[k].arr = f.arr => k = m /\ f.len <= ls2[k].len
      <4>1. \A k \in Names : ls[k].arr = f.arr => k = m /\ f.len <= ls[k].len
        BY Zenon, <2>7 DEF Seen
      <4>2. \A k \in Names : ls2[k].arr = ls[k].arr /\ ls[k].len <= ls2[k].len /\ ls2[k].len \in Nat
        BY <1>0, <2>3
      <4> QED
        BY <1>0, <3>1, <4>1, <4>2
    <3> QED
      BY Zenon, <2>4, <2>7, <3>1, <3>2, <3>3, <3>4 DEF Seen
  <2>8. ASSUME NEW m \in Names, NEW f \in Frames, Seen(ls, ar, m, f) PROVE Seen(ls2, ar2, m, f)
    BY Zenon, <2>7, <2>8 DEF Seen
  <2> QED
    BY <1>0, <2>3, <2>4, <2>5, <2>6, <2>8 DEF Keeps
<1>4. CASE ~(q.len < Len(a))
  <2> DEFINE r == [cells |-> append(a, q.len, it), len |-> q.len + 1]
  <2>1. r \in Slices /\ r.len # 0
    <3> HIDE DEF a
    <3> QED BY <1>0, <1>2 DEF Slices
  <2>2. ls2 = Put(ls, ar, n, r)[1] /\ ar2 = Put(ls, ar, n, r)[2]
    <3>1. r.len # 0 /\ r.len = q.len + 1 /\ r.cells = append(a, q.len, it)
      BY Zenon, <2>1
    <3>2. ls2 = [ls EXCEPT ![n] = [arr |-> Len(ar) + 1, len |-> q.len + 1]] /\ ar2 = Append(ar, append(a, q.len, it))
      BY Zenon, <1>4 DEF Push
    <3> HIDE DEF r, a
    <3> QED
      BY Zenon, <3>1, <3>2 DEF Put
  <2> HIDE DEF r
  <2> QED
    BY Zenon, <2>1, <2>2, PutKeeps
<1> QED
  BY Zenon, <1>3, <1>4

\* The slice a firing walks is in its array, and the walk within the slice.
Within(f, ar) ==
  /\ f.i <= f.len
  /\ f.len > 0 => f.arr \in 1..Len(ar) /\ f.len <= Len(ar[f.arr])

\* The walks that nothing disturbs: over the event's queue, and under the lock over the other.
Guarded(f) == f.at = "event" \/ (f.at = "*" /\ enableLock)

Steady(f) ==
  Guarded(f) =>
    /\ Seen(listeners, arrays, f.at, f)
    /\ Len(f.called) = f.i /\ \A k \in 1..f.i : f.called[k] = f.expect[k]
    /\ f.at = "*" => ByPriority(f.expect)

Locking ==
  /\ enableLock => \A g \in Procs : Firing(g) <=> mutex = g
  /\ ~enableLock => mutex = None
  /\ AbortEndsFiring

IInv ==
  /\ TypeOK /\ Whole(listeners, arrays) /\ Locking
  /\ \A g \in Procs : Within(frame[g], arrays) /\ Steady(frame[g])

\* The manager starts in the invariant: no queue has an array.
LEMMA InitHolds == ASSUME EventAssumption PROVE Init => IInv
<1> SUFFICES ASSUME Init PROVE IInv
  BY Zenon
<1>1. TypeOK
  BY Zenon, EmptySeq DEF Init, TypeOK, NoFrame, Frames, Names, Cells
<1>2. Whole(listeners, arrays)
  BY Zenon DEF Init, Whole, Names
<1>3. Locking
  BY Zenon DEF Init, Locking, AbortEndsFiring, Firing, NoFrame, EventAssumption
<1>4. ASSUME NEW g \in Procs PROVE Within(frame[g], arrays) /\ Steady(frame[g])
  BY DEF Init, Within, Steady, Guarded, NoFrame
<1> QED
  BY Zenon, <1>1, <1>2, <1>3, <1>4 DEF IInv

\* A change of the queues that keeps the items a firing may still read preserves the invariant.
LEMMA ChangeHolds ==
  ASSUME IInv, Keeps(listeners, arrays, listeners', arrays'), UNCHANGED <<enableLock, mutex, aborted, frame>>
  PROVE  IInv'
<1>1. TypeOK'
  BY Zenon DEF IInv, TypeOK, Keeps, Queues
<1>2. Locking'
  BY Zenon DEF IInv, Locking, AbortEndsFiring, Firing
<1>3. ASSUME NEW g \in Procs PROVE Within(frame[g], arrays)' /\ Steady(frame[g])'
  <2>1. frame[g] \in Frames /\ frame'[g] = frame[g] /\ Within(frame[g], arrays) /\ Steady(frame[g])
    BY Zenon DEF IInv, TypeOK
  <2>2. ASSUME frame[g].len > 0
        PROVE  frame[g].arr \in 1..Len(arrays') /\ frame[g].len <= Len(arrays'[frame[g].arr])
    <3>1. frame[g].arr \in 1..Len(arrays) /\ frame[g].len <= Len(arrays[frame[g].arr])
      BY Zenon, <2>1, <2>2 DEF Within
    <3>2. /\ Len(arrays) <= Len(arrays') /\ Len(arrays[frame[g].arr]) <= Len(arrays'[frame[g].arr])
          /\ arrays' \in Seq(Cells) /\ arrays \in Seq(Cells)
      BY Zenon, <3>1 DEF Keeps, IInv, TypeOK
    <3>3. Len(arrays) \in Nat /\ Len(arrays') \in Nat /\ frame[g].arr \in 1..Len(arrays')
      BY <3>1, <3>2, LenProperties
    <3>4. arrays[frame[g].arr] \in Cells /\ arrays'[frame[g].arr] \in Cells
      BY Zenon, <3>1, <3>2, <3>3, ElementOfSeq
    <3>5. /\ Len(arrays[frame[g].arr]) \in Nat /\ Len(arrays'[frame[g].arr]) \in Nat
          /\ frame[g].len \in Nat
      BY Zenon, <2>1, <3>4, LenProperties DEF Cells, Frames
    <3> QED
      BY Zenon, <3>1, <3>2, <3>3, <3>5, Through
  <2>3. Within(frame[g], arrays)'
    BY Zenon, <2>1, <2>2 DEF Within
  <2>4. Steady(frame[g])'
    <3>1. Guarded(frame[g])' <=> Guarded(frame[g])
      BY Zenon DEF Guarded
    <3>2. CASE Guarded(frame[g])
      <4>1. frame[g].at \in Names
        BY Zenon, <3>2 DEF Guarded, Names
      <4>2. Seen(listeners', arrays', frame[g].at, frame[g])
        BY Zenon, <2>1, <3>2, <4>1 DEF Steady, Keeps
      <4> QED
        BY Zenon, <2>1, <3>2, <4>2 DEF Steady
    <3> QED
      BY Zenon, <3>1, <3>2 DEF Steady
  <2> QED
    BY Zenon, <2>3, <2>4
<1> QED
  BY Zenon, <1>1, <1>2, <1>3 DEF IInv, Keeps

\* On (AddListener): one item is pushed.
LEMMA OnStep ==
  ASSUME IInv, NEW n \in Names, NEW l \in Listeners, NEW p \in Nat, On(n, l, p) PROVE IInv'
<1>1. Item(l, p) \in AnItem
  BY Zenon DEF Item, AnItem
<1>2. listeners \in Queues /\ arrays \in Seq(Cells) /\ Whole(listeners, arrays)
  BY Zenon DEF IInv, TypeOK, Queues
<1>3. /\ listeners' = Push(listeners, arrays, n, Item(l, p))[1]
      /\ arrays' = Push(listeners, arrays, n, Item(l, p))[2]
  BY Zenon DEF On
<1>4. Keeps(listeners, arrays, listeners', arrays')
  BY Zenon, <1>1, <1>2, <1>3, PushKeeps
<1> QED
  BY Zenon, <1>4, ChangeHolds DEF On

\* Two changes that keep the items, one after the other, keep them.
LEMMA KeepsBoth ==
  ASSUME NEW ls, NEW ar \in Seq(Cells), NEW ls1, NEW ar1, NEW ls2, NEW ar2,
         Keeps(ls, ar, ls1, ar1), Keeps(ls1, ar1, ls2, ar2)
  PROVE  Keeps(ls, ar, ls2, ar2)
<1>1. ar1 \in Seq(Cells) /\ ar2 \in Seq(Cells)
  BY Zenon DEF Keeps
<1>2. Len(ar) \in Nat /\ Len(ar1) \in Nat /\ Len(ar2) \in Nat
  BY Zenon, <1>1, LenProperties
<1>3. Len(ar) <= Len(ar1) /\ Len(ar1) <= Len(ar2)
  BY Zenon DEF Keeps
<1>4. ASSUME NEW k \in 1..Len(ar) PROVE Len(ar[k]) <= Len(ar2[k])
  <2>1. k \in 1..Len(ar1) /\ k \in 1..Len(ar2)
    BY <1>2, <1>3
  <2>2. Len(ar[k]) <= Len(ar1[k]) /\ Len(ar1[k]) <= Len(ar2[k])
    BY Zenon, <2>1 DEF Keeps
  <2>3. ar[k] \in Cells /\ ar1[k] \in Cells /\ ar2[k] \in Cells
    BY Zenon, <1>1, <2>1, ElementOfSeq
  <2> QED
    BY <2>2, <2>3, LenProperties DEF Cells
<1> QED
  BY <1>2, <1>3, <1>4 DEF Keeps

\* So does no change at all.
LEMMA KeepsNothing ==
  ASSUME NEW ls \in Queues, NEW ar \in Seq(Cells), Whole(ls, ar) PROVE Keeps(ls, ar, ls, ar)
<1>1. Len(ar) \in Nat /\ \A k \in 1..Len(ar) : Len(ar[k]) \in Nat
  BY Zenon, ElementOfSeq, LenProperties DEF Cells
<1> QED
  BY <1>1 DEF Keeps

\* AddSubscriber: an item for each name, one push after the other.
LEMMA SubscribeStep == ASSUME IInv, NEW l \in Listeners, AddSubscriber(l) PROVE IInv'
<1> DEFINE r == Push(listeners, arrays, "event", Item(l, 0))
           t == Push(r[1], r[2], "*", Item(l, 0))
<1>1. Item(l, 0) \in AnItem /\ "event" \in Names /\ "*" \in Names
  BY Zenon DEF Item, AnItem, Names
<1>2. listeners \in Queues /\ arrays \in Seq(Cells) /\ Whole(listeners, arrays)
  BY Zenon DEF IInv, TypeOK, Queues
<1>3. Keeps(listeners, arrays, r[1], r[2])
  BY Zenon, <1>1, <1>2, PushKeeps
<1>4. listeners' = t[1] /\ arrays' = t[2]
  BY Zenon DEF AddSubscriber
<1> HIDE DEF r
<1>5. r[1] \in Queues /\ r[2] \in Seq(Cells) /\ Whole(r[1], r[2])
  BY Zenon, <1>3 DEF Keeps
<1>6. Keeps(r[1], r[2], t[1], t[2])
  BY Zenon, <1>1, <1>5, PushKeeps
<1> HIDE DEF t
<1>7. Keeps(listeners, arrays, listeners', arrays')
  BY <1>2, <1>3, <1>4, <1>6, KeepsBoth
<1> QED
  BY Zenon, <1>7, ChangeHolds DEF AddSubscriber

\* The items of a queue are the first cells of its array.
LEMMA ItemsOf ==
  ASSUME IInv, NEW n \in Names
  PROVE  /\ Items(listeners[n]) \in Cells /\ Len(Items(listeners[n])) = listeners[n].len
         /\ \A k \in 1..listeners[n].len : Items(listeners[n])[k] = arrays[listeners[n].arr][k]
<1> DEFINE q == listeners[n]
<1>1. arrays \in Seq(Cells) /\ Placed(q, arrays) /\ q.len \in Nat /\ Len(arrays) \in Nat
  BY Zenon, WholeSplit, LenProperties DEF IInv, TypeOK
<1>2. CASE q.len = 0
  BY <1>2, EmptySeq DEF Items, Cells
<1>3. CASE q.len # 0
  <2>1. q.arr \in 1..Len(arrays) /\ q.len \in 1..Len(arrays[q.arr])
    BY Zenon, <1>1, <1>3 DEF Placed
  <2>2. arrays[q.arr] \in Cells
    BY Zenon, <1>1, <2>1, ElementOfSeq
  <2>3. Items(q) = SubSeq(arrays[q.arr], 1, q.len)
    BY Zenon, <1>3 DEF Items
  <2> HIDE DEF q
  <2>4. /\ SubSeq(arrays[q.arr], 1, q.len) \in Cells /\ Len(SubSeq(arrays[q.arr], 1, q.len)) = q.len
        /\ \A k \in 1..q.len : SubSeq(arrays[q.arr], 1, q.len)[k] = arrays[q.arr][k]
    <3>1. /\ arrays[q.arr] \in Seq(AnItem) /\ 1 \in Int /\ q.len \in Int
          /\ 1..q.len \subseteq 1..Len(arrays[q.arr])
      BY <2>1, <2>2, LenProperties DEF Cells
    <3>2. \A k \in 1..q.len : arrays[q.arr][k] \in AnItem
      BY Zenon, <2>2, <3>1, ElementOfSeq DEF Cells
    <3> QED
      BY <2>1, <3>1, <3>2, SubSeqProperties DEF Cells
  <2> QED
    BY Zenon, <2>3, <2>4 DEF q
<1> QED
  BY Zenon, <1>2, <1>3

\* Leaving the named queues without l: each of the two steps puts a new slice.
LEMMA RemoveListenerStep ==
  ASSUME IInv, NEW names \in SUBSET Names, NEW l, RemoveListener(names, l) PROVE IInv'
<1> DEFINE ke == Kept(Items(listeners["event"]), l)
           kw == Kept(Items(listeners["*"]), l)
           r == IF "event" \in names THEN Without(listeners["event"], l, arrays) ELSE <<listeners["event"], arrays>>
           t == IF "*" \in names THEN Without(listeners["*"], l, r[2]) ELSE <<listeners["*"], r[2]>>
           ls1 == [n \in Names |-> IF n = "event" THEN r[1] ELSE listeners[n]]
<1>1. ke \in Slices /\ kw \in Slices
  BY Zenon, ItemsOf, KeptIsSlice DEF Names
<1>2. listeners \in Queues /\ arrays \in Seq(Cells) /\ Whole(listeners, arrays)
  BY Zenon DEF IInv, TypeOK, Queues
<1>3. listeners' = [n \in Names |-> IF n = "event" THEN r[1] ELSE t[1]] /\ arrays' = t[2]
  BY Zenon DEF RemoveListener
<1>4. Keeps(listeners, arrays, ls1, r[2])
  <2>1. CASE "event" \in names
    <3>1. r[1] = IF ke.len = 0 THEN [arr |-> 0, len |-> 0] ELSE [arr |-> Len(arrays) + 1, len |-> ke.len]
      BY Zenon, <2>1 DEF Without
    <3>2. r[2] = IF ke.len = 0 THEN arrays ELSE Append(arrays, ke.cells)
      BY Zenon, <2>1 DEF Without
    <3>3. ls1 = [listeners EXCEPT !["event"] = r[1]]
      BY Zenon, <1>2 DEF Queues, Names
    <3> HIDE DEF r, ke
    <3>4. ls1 = Put(listeners, arrays, "event", ke)[1]
      BY Zenon, <3>1, <3>3 DEF Put
    <3>5. r[2] = Put(listeners, arrays, "event", ke)[2]
      BY Zenon, <3>2 DEF Put
    <3> HIDE DEF ls1
    <3> QED
      BY Zenon, <1>1, <1>2, <3>4, <3>5, PutKeeps DEF Names
  <2>2. CASE "event" \notin names
    <3>1. r = <<listeners["event"], arrays>>
      BY Zenon, <2>2
    <3>2. ls1 = listeners /\ r[2] = arrays
      BY <1>2, <3>1 DEF Queues
    <3> HIDE DEF r, ls1
    <3> QED
      BY Zenon, <1>2, <3>2, KeepsNothing
  <2> QED
    BY Zenon, <2>1, <2>2
<1> HIDE DEF r
<1>5. ls1 \in Queues /\ r[2] \in Seq(Cells) /\ Whole(ls1, r[2])
  BY Zenon, <1>4 DEF Keeps
<1>6. Keeps(ls1, r[2], listeners', arrays')
  <2>1. CASE "*" \in names
    <3>1. t[1] = IF kw.len = 0 THEN [arr |-> 0, len |-> 0] ELSE [arr |-> Len(r[2]) + 1, len |-> kw.len]
      BY Zenon, <2>1 DEF Without
    <3>2. t[2] = IF kw.len = 0 THEN r[2] ELSE Append(r[2], kw.cells)
      BY Zenon, <2>1 DEF Without
    <3>3. listeners' = [ls1 EXCEPT !["*"] = t[1]]
      BY Zenon, <1>3 DEF Names
    <3> HIDE DEF t, kw, ls1
    <3>4. listeners' = Put(ls1, r[2], "*", kw)[1]
      BY Zenon, <3>1, <3>3 DEF Put
    <3>5. arrays' = Put(ls1, r[2], "*", kw)[2]
      BY Zenon, <1>3, <3>2 DEF Put
    <3> QED
      BY Zenon, <1>1, <1>5, <3>4, <3>5, PutKeeps DEF Names
  <2>2. CASE "*" \notin names
    <3>1. t[1] = listeners["*"] /\ t[2] = r[2]
      BY Zenon, <2>2
    <3>2. listeners' = ls1 /\ arrays' = r[2]
      BY Zenon, <1>3, <3>1 DEF Names
    <3> HIDE DEF t, ls1
    <3> QED
      BY Zenon, <1>5, <3>2, KeepsNothing
  <2> QED
    BY Zenon, <2>1, <2>2
<1> HIDE DEF ls1
<1>7. Keeps(listeners, arrays, listeners', arrays')
  BY Zenon, <1>2, <1>4, <1>6, KeepsBoth
<1> QED
  BY Zenon, <1>7, ChangeHolds DEF RemoveListener

\* Remove, of one name or of all: each queue gets a new array with what is kept.
LEMMA RemoveListenersStep ==
  ASSUME IInv, NEW names \in SUBSET Names, RemoveListeners(names) PROVE IInv'
<1>1. listeners \in Queues /\ arrays \in Seq(Cells) /\ Whole(listeners, arrays) /\ arrays' = arrays
  BY Zenon DEF IInv, TypeOK, Queues, RemoveListeners
<1>2. listeners' = [n \in Names |-> IF n \in names THEN [arr |-> 0, len |-> 0] ELSE listeners[n]]
  BY Zenon DEF RemoveListeners
<1>3. /\ listeners' \in Queues
      /\ \A n \in Names : listeners'[n] = IF n \in names THEN [arr |-> 0, len |-> 0] ELSE listeners[n]
  BY Zenon, <1>1, <1>2 DEF Queues
<1>4. Whole(listeners', arrays)
  <2>1. ASSUME NEW n \in Names PROVE Placed(listeners'[n], arrays) /\ listeners'[n].arr \in {0, listeners[n].arr}
    <3>1. Placed(listeners[n], arrays)
      BY Zenon, <1>1, WholeSplit
    <3>2. CASE n \in names
      BY <1>3, <3>2 DEF Placed
    <3>3. CASE n \notin names
      BY Zenon, <1>3, <3>1, <3>3
    <3> QED
      BY Zenon, <3>2, <3>3
  <2>2. ASSUME NEW m \in Names, m # "event"
        PROVE  listeners'[m].arr = 0 \/ listeners'[m].arr # listeners'["event"].arr
    <3>1. listeners[m].arr = 0 \/ listeners[m].arr # listeners["event"].arr
      BY Zenon, <1>1, <2>2, WholeSplit DEF Names
    <3> QED
      BY Zenon, <2>1, <3>1 DEF Names
  <2>3. "event" \in Names
    BY Zenon DEF Names
  <2> QED
    BY Zenon, <2>1, <2>2, <2>3, WholeSplit
<1>5. ASSUME NEW n \in Names, NEW f \in Frames, Seen(listeners, arrays, n, f)
      PROVE  Seen(listeners', arrays, n, f)
  <2>1. CASE f.len > 0
    <3>1. f.arr # 0 /\ \A k \in Names : listeners[k].arr = f.arr => k = n /\ f.len <= listeners[k].len
      BY <1>5, <2>1 DEF Seen
    <3>2. \A k \in Names : listeners'[k].arr = f.arr => k = n /\ f.len <= listeners'[k].len
      BY <1>3, <3>1
    <3> QED
      BY Zenon, <1>5, <3>2 DEF Seen
  <2> QED
    BY Zenon, <1>5, <2>1 DEF Seen
<1>6. Keeps(listeners, arrays, listeners, arrays)
  BY Zenon, <1>1, KeepsNothing
<1>7. Keeps(listeners, arrays, listeners', arrays')
  BY Zenon, <1>1, <1>3, <1>4, <1>5, <1>6 DEF Keeps
<1> QED
  BY Zenon, <1>7, ChangeHolds DEF RemoveListeners

\* What a step of g leaves alone of the walks of the others.
LEMMA OthersHold ==
  ASSUME IInv, NEW g \in Procs, NEW f \in Frames, frame' = [frame EXCEPT ![g] = f],
         UNCHANGED <<enableLock, listeners, arrays>>,
         (Within(f, arrays) /\ Steady(f))', Locking', mutex' \in Procs \cup {None}, aborted' \in BOOLEAN
  PROVE  IInv'
<1>1. TypeOK'
  BY Zenon DEF IInv, TypeOK
<1>2. Whole(listeners, arrays)'
  BY Zenon DEF IInv
<1>3. ASSUME NEW h \in Procs PROVE (Within(frame[h], arrays) /\ Steady(frame[h]))'
  <2>1. CASE h = g
    <3>1. frame'[h] = f
      BY Zenon, <2>1 DEF IInv, TypeOK
    <3> QED
      BY Zenon, <3>1 DEF Steady, Guarded, Within
  <2>2. CASE h # g
    <3>1. frame'[h] = frame[h] /\ Within(frame[h], arrays) /\ Steady(frame[h])
      BY Zenon, <2>2 DEF IInv, TypeOK
    <3> QED
      BY Zenon, <3>1 DEF Steady, Guarded, Within
  <2> QED
    BY Zenon, <2>1, <2>2
<1> QED
  BY Zenon, <1>1, <1>2, <1>3 DEF IInv

\* A firing that returns, with the lock released if it was taken.
LEMMA ReturnStep ==
  ASSUME EventAssumption, IInv, NEW g \in Procs, Firing(g), Return(g), aborted' \in BOOLEAN,
         UNCHANGED <<enableLock, listeners, arrays>>,
         ~enableLock \/ aborted' = aborted \/ mutex = g
  PROVE  IInv'
<1>1. NoFrame \in Frames
  BY Zenon, EmptySeq DEF NoFrame, Frames, Cells
<1>2. (Within(NoFrame, arrays) /\ Steady(NoFrame))'
  BY DEF Within, Steady, Guarded, NoFrame
<1>3. \A h \in Procs : frame'[h] = IF h = g THEN NoFrame ELSE frame[h]
  BY Zenon DEF Return, IInv, TypeOK
<1>4. Locking'
  <2>1. CASE enableLock
    <3>1. mutex = g /\ mutex' = None
      BY Zenon, <2>1 DEF IInv, Locking, Return
    <3>2. \A h \in Procs : ~Firing(h)'
      BY <1>3, <2>1, <3>1 DEF IInv, Locking, Firing, NoFrame
    <3> QED
      BY Zenon, <3>1, <3>2 DEF Locking, AbortEndsFiring, EventAssumption
  <2>2. CASE ~enableLock
    BY Zenon, <2>2 DEF IInv, Locking, AbortEndsFiring, Return
  <2> QED
    BY Zenon, <2>1, <2>2
<1>5. mutex' \in Procs \cup {None} /\ frame' = [frame EXCEPT ![g] = NoFrame]
  BY Zenon DEF Return, IInv, TypeOK
<1> HIDE DEF NoFrame
<1> QED
  BY Zenon, <1>1, <1>2, <1>4, <1>5, OthersHold

\* The end of a firing that has called every listener.
LEMMA DoneStep == ASSUME EventAssumption, IInv, NEW g \in Procs, Done(g) PROVE IInv'
<1>1. Firing(g) /\ Return(g) /\ aborted' \in BOOLEAN /\ aborted' = aborted /\ UNCHANGED <<enableLock, listeners, arrays>>
  BY Zenon DEF Done, Firing, IInv, TypeOK
<1> QED
  BY Zenon, <1>1, ReturnStep

\* FireEvent: the firing takes the array and the length of the queue as they are.
LEMMA FireStep == ASSUME EventAssumption, IInv, NEW g \in Procs, FireEvent(g) PROVE IInv'
<1> DEFINE q == listeners["event"]
<1>1. /\ frame[g] \in Frames /\ q.arr \in Nat /\ q.len \in Nat /\ "event" \in Names
      /\ Placed(q, arrays) /\ Whole(listeners, arrays)
  BY Zenon, WholeSplit DEF IInv, TypeOK, Names
<1>2. Items(q) \in Cells /\ Len(Items(q)) = q.len /\ \A k \in 1..q.len : Items(q)[k] = arrays[q.arr][k]
  BY Zenon, <1>1, ItemsOf
<1> HIDE DEF q
<1>3. PICK f \in Frames :
      /\ f = Start(g, "event", q) /\ f.at = "event" /\ f.arr = q.arr /\ f.len = q.len /\ f.i = 0 /\ f.called = <<>>
      /\ f.expect = Items(q)
  <2> DEFINE x == Start(g, "event", q)
  <2>1. x \in Frames /\ x.at = "event" /\ x.arr = q.arr /\ x.len = q.len /\ x.i = 0 /\ x.called = <<>> /\ x.expect = Items(q)
    BY Zenon, <1>1, <1>2, EmptySeq DEF Start, Frames, Cells, Names
  <2> HIDE DEF x
  <2> QED
    BY Zenon, <2>1 DEF x
<1>4. /\ frame' = [frame EXCEPT ![g] = f] /\ UNCHANGED <<enableLock, listeners, arrays>>
      /\ frame[g].at = "out" /\ aborted' = FALSE /\ mutex' = (IF enableLock THEN g ELSE None)
      /\ enableLock => mutex = None
  BY Zenon, <1>3 DEF FireEvent, q
<1>5. Within(f, arrays)'
  BY <1>1, <1>3, <1>4 DEF Within, Placed
<1>6. Seen(listeners, arrays, "event", f)
  <2>1. ASSUME q.len > 0 PROVE q.arr \in 1..Len(arrays) /\ q.len <= Len(arrays[q.arr])
    BY <1>1, <2>1 DEF Placed
  <2>2. ASSUME q.len > 0, NEW m \in Names, listeners[m].arr = q.arr PROVE m = "event" /\ q.len <= listeners[m].len
    <3>1. q.arr # 0
      BY <2>1, <2>2
    <3>2. m = "event"
      BY Zenon, <1>1, <2>2, <3>1, WholeSplit DEF q
    <3> QED
      BY <1>1, <3>2 DEF q
  <2> QED
    BY Zenon, <1>1, <1>2, <1>3, <2>1, <2>2 DEF Seen
<1>7. Steady(f)'
  <2>1. Len(f.called) = f.i /\ \A k \in 1..f.i : f.called[k] = f.expect[k]
    BY <1>3, EmptySeq
  <2> QED
    BY Zenon, <1>3, <1>4, <1>6, <2>1 DEF Steady
<1>8. \A h \in Procs : frame'[h] = IF h = g THEN f ELSE frame[h]
  BY Zenon, <1>4 DEF IInv, TypeOK
<1>9. Locking'
  <2>1. CASE enableLock
    <3>1. \A h \in Procs : ~Firing(h)
      BY Zenon, <1>4, <2>1 DEF IInv, Locking, EventAssumption
    <3>2. \A h \in Procs : Firing(h)' <=> h = g
      BY Zenon, <1>3, <1>8, <3>1 DEF Firing
    <3> QED
      BY Zenon, <1>4, <2>1, <3>2 DEF Locking, AbortEndsFiring
  <2>2. CASE ~enableLock
    BY Zenon, <1>4, <2>2 DEF Locking, AbortEndsFiring
  <2> QED
    BY Zenon, <2>1, <2>2
<1>10. mutex' \in Procs \cup {None} /\ aborted' \in BOOLEAN
  BY Zenon, <1>4
<1> QED
  BY Zenon, <1>3, <1>4, <1>5, <1>7, <1>9, <1>10, OthersHold

Moved(f, n, c) == [f EXCEPT !.i = n, !.called = c]

\* A firing that goes on to its next listener keeps what it has taken.
LEMMA Advance ==
  ASSUME NEW f \in Frames, NEW n \in Nat, NEW c \in Cells
  PROVE  /\ Moved(f, n, c) \in Frames /\ Moved(f, n, c).i = n /\ Moved(f, n, c).called = c
         /\ Moved(f, n, c).at = f.at /\ Moved(f, n, c).arr = f.arr /\ Moved(f, n, c).len = f.len
         /\ Moved(f, n, c).expect = f.expect
  BY Zenon DEF Frames, Moved

\* The call of one listener, which may abort the event or fail.
LEMMA HandleStep ==
  ASSUME EventAssumption, IInv, NEW g \in Procs, NEW result, Handle(g, result) PROVE IInv'
<1>1. /\ frame[g].at \in Names /\ frame[g].i < frame[g].len /\ frame[g] \in Frames /\ Firing(g)
      /\ Within(frame[g], arrays) /\ Steady(frame[g])
  BY Zenon DEF Handle, IInv, TypeOK, Firing, Names
<1>2. /\ aborted' \in BOOLEAN /\ UNCHANGED <<enableLock, listeners, arrays>>
      /\ aborted' = (aborted \/ result = "abort")
  BY Zenon DEF Handle, IInv, TypeOK
<1>3. enableLock => mutex = g
  BY Zenon, <1>1 DEF IInv, Locking
<1>4. CASE Return(g)
  BY Zenon, <1>1, <1>2, <1>3, <1>4, ReturnStep
<1>5. CASE ~aborted' /\ mutex' = mutex
           /\ frame' = [frame EXCEPT ![g].i = @ + 1, ![g].called = Append(@, arrays[frame[g].arr][frame[g].i + 1])]
  <2> DEFINE it == arrays[frame[g].arr][frame[g].i + 1]
  <2>1. /\ frame[g].i \in Nat /\ frame[g].len \in Nat /\ frame[g].called \in Cells
        /\ frame[g].arr \in 1..Len(arrays) /\ frame[g].len <= Len(arrays[frame[g].arr])
    BY <1>1 DEF Frames, Within
  <2>2. it \in AnItem
    <3>1. arrays[frame[g].arr] \in Cells
      BY Zenon, <2>1, ElementOfSeq DEF IInv, TypeOK
    <3>2. frame[g].i + 1 \in 1..Len(arrays[frame[g].arr])
      <4>1. Len(arrays[frame[g].arr]) \in Nat
        BY Zenon, <3>1, LenProperties DEF Cells
      <4> QED
        BY Zenon, <1>1, <2>1, <4>1, NextIn
    <3> QED
      BY Zenon, <3>1, <3>2, ElementOfSeq DEF Cells
  <2>3. PICK f \in Frames :
          /\ f = [frame[g] EXCEPT !.i = @ + 1, !.called = Append(@, it)]
          /\ f.i = frame[g].i + 1 /\ f.called = Append(frame[g].called, it)
          /\ f.at = frame[g].at /\ f.arr = frame[g].arr /\ f.len = frame[g].len /\ f.expect = frame[g].expect
    <3> HIDE DEF it
    <3>0. PICK n \in Nat : n = frame[g].i + 1
      BY <2>1
    <3>1. PICK c \in Cells : c = Append(frame[g].called, it)
      BY Zenon, <2>1, <2>2, AppendProperties DEF Cells
    <3> DEFINE x == Moved(frame[g], n, c)
    <3>2. /\ x \in Frames /\ x.i = frame[g].i + 1 /\ x.called = Append(frame[g].called, it)
          /\ x.at = frame[g].at /\ x.arr = frame[g].arr /\ x.len = frame[g].len /\ x.expect = frame[g].expect
      <4>1. frame[g] \in Frames
        BY Zenon, <1>1
      <4>2. /\ x \in Frames /\ x.i = n /\ x.called = c
            /\ x.at = frame[g].at /\ x.arr = frame[g].arr /\ x.len = frame[g].len /\ x.expect = frame[g].expect
        BY <4>1, Advance
      <4> HIDE DEF x
      <4> QED
        BY Zenon, <3>0, <3>1, <4>2
    <3>3. x = [frame[g] EXCEPT !.i = @ + 1, !.called = Append(@, it)]
      BY Zenon, <3>0, <3>1 DEF Moved
    <3> HIDE DEF x
    <3> QED
      BY Zenon, <3>2, <3>3
  <2>4. frame' = [frame EXCEPT ![g] = f]
    BY Zenon, <1>5, <2>3
  <2>5. Within(f, arrays)'
    <3>1. f.i <= f.len
      <4>1. frame[g].i \in Nat /\ frame[g].len \in Nat /\ frame[g].i < frame[g].len
        BY Zenon, <1>1, <2>1
      <4>2. f.i = frame[g].i + 1 /\ f.len = frame[g].len
        BY Zenon, <2>3
      <4> QED
        BY <4>1, <4>2
    <3> QED
      BY Zenon, <1>2, <2>1, <2>3, <3>1 DEF Within
  <2>6. Steady(f)'
    <3>1. CASE Guarded(frame[g])
      <4>1. /\ Seen(listeners, arrays, frame[g].at, frame[g]) /\ Len(frame[g].called) = frame[g].i
            /\ \A k \in 1..frame[g].i : frame[g].called[k] = frame[g].expect[k]
            /\ frame[g].at = "*" => ByPriority(frame[g].expect)
        BY Zenon, <1>1, <3>1 DEF Steady
      <4>2. it = frame[g].expect[frame[g].i + 1]
        <5>1. frame[g].i + 1 \in 1..frame[g].len /\ frame[g].len > 0
          BY <1>1, <2>1
        <5>2. \A k \in 1..frame[g].len : arrays[frame[g].arr][k] = frame[g].expect[k]
          BY Zenon, <4>1, <5>1 DEF Seen
        <5> QED
          BY Zenon, <5>1, <5>2
      <4>3. Len(f.called) = f.i /\ \A k \in 1..f.i : f.called[k] = f.expect[k]
        <5>1. /\ Len(Append(frame[g].called, it)) = frame[g].i + 1
              /\ Append(frame[g].called, it)[frame[g].i + 1] = it
              /\ \A k \in 1..frame[g].i : Append(frame[g].called, it)[k] = frame[g].called[k]
          <6> HIDE DEF it
          <6> QED BY <2>1, <2>2, <4>1, AppendProperties DEF Cells
        <5>2. \A k \in 1..f.i : k = frame[g].i + 1 \/ k \in 1..frame[g].i
          <6>1. PICK m \in Nat : m = frame[g].i
            BY Zenon, <2>1
          <6>2. \A k \in 1..m + 1 : k = m + 1 \/ k \in 1..m
            OBVIOUS
          <6> QED
            BY Zenon, <2>3, <6>1, <6>2
        <5> HIDE DEF it
        <5>3. ASSUME NEW k \in 1..f.i PROVE f.called[k] = f.expect[k]
          <6>1. CASE k = frame[g].i + 1
            BY Zenon, <2>3, <4>2, <5>1, <6>1
          <6>2. CASE k \in 1..frame[g].i
            <7>1. Append(frame[g].called, it)[k] = frame[g].expect[k]
              BY Zenon, <4>1, <5>1, <6>2
            <7>2. f.called = Append(frame[g].called, it) /\ f.expect = frame[g].expect
              BY Zenon, <2>3
            <7> QED
              BY Zenon, <7>1, <7>2
          <6> QED
            BY Zenon, <5>2, <6>1, <6>2
        <5> QED
          BY Zenon, <2>3, <5>1, <5>3
      <4>4. Seen(listeners, arrays, f.at, f)
        BY Zenon, <2>3, <4>1 DEF Seen
      <4> QED
        BY Zenon, <1>2, <2>3, <4>1, <4>3, <4>4 DEF Steady
    <3>2. CASE ~Guarded(frame[g])
      BY Zenon, <1>2, <2>3, <3>2 DEF Steady, Guarded
    <3> QED
      BY Zenon, <3>1, <3>2
  <2>7. Locking'
    <3>1. \A h \in Procs : Firing(h)' <=> Firing(h)
      BY Zenon, <2>3, <2>4 DEF IInv, TypeOK, Firing
    <3> QED
      BY Zenon, <1>2, <1>5, <3>1 DEF IInv, Locking, AbortEndsFiring
  <2>8. mutex' \in Procs \cup {None}
    BY Zenon, <1>5 DEF IInv, TypeOK
  <2> QED
    BY Zenon, <1>2, <2>4, <2>5, <2>6, <2>7, <2>8, OthersHold
<1> QED
  BY Zenon, <1>4, <1>5 DEF Handle

\* What sorting leaves is a sequence of the same length, by priority.
LEMMA Sorted ==
  ASSUME NEW c \in Cells, NEW s \in Sort(c)
  PROVE  s \in Cells /\ Len(s) = Len(c) /\ ByPriority(s)
<1>1. PICK swaps \in Bijection(DOMAIN c, DOMAIN c) : s = [k \in DOMAIN c |-> c[swaps[k]]]
  BY Zenon DEF Sort
<1>2. Len(c) \in Nat /\ DOMAIN c = 1..Len(c) /\ \A k \in 1..Len(c) : c[k] \in AnItem
  BY Zenon, ElementOfSeq, LenProperties DEF Cells
<1>3. swaps \in [1..Len(c) -> 1..Len(c)]
  BY Zenon, <1>1, <1>2 DEF Bijection, Injection
<1>4. s \in [1..Len(c) -> AnItem]
  BY Zenon, <1>1, <1>2, <1>3
<1>5. s \in Cells /\ Len(s) = Len(c)
  BY <1>2, <1>4, SeqDef, LenProperties DEF Cells
<1>6. ByPriority(s)
  BY Zenon DEF Sort
<1> QED
  BY Zenon, <1>5, <1>6

Resorted(q, s) == [arrays EXCEPT ![q.arr] = s \o SubSeq(@, q.len + 1, Len(@))]

\* Sorting the first cells of an array changes no length and no other array.
LEMMA SortedArray ==
  ASSUME IInv, NEW s \in Cells, NEW q, q = listeners["*"], q.len # 0, Len(s) = q.len,
         arrays' = Resorted(q, s)
  PROVE  /\ q.arr \in 1..Len(arrays) /\ q.len \in 1..Len(arrays[q.arr])
         /\ arrays' \in Seq(Cells) /\ Len(arrays') = Len(arrays)
         /\ \A k \in 1..Len(arrays) : Len(arrays'[k]) = Len(arrays[k])
         /\ \A k \in 1..Len(arrays) : k # q.arr => arrays'[k] = arrays[k]
         /\ \A k \in 1..q.len : arrays'[q.arr][k] = s[k]
<1> DEFINE a == arrays[q.arr]
           u == SubSeq(a, q.len + 1, Len(a))
<1>1. arrays \in Seq(Cells) /\ q.arr \in 1..Len(arrays) /\ q.len \in 1..Len(a) /\ q.len \in Nat
  BY Zenon, WholeSplit DEF IInv, TypeOK, Names, Placed
<1>2. a \in Cells /\ Len(a) \in Nat
  BY Zenon, <1>1, ElementOfSeq, LenProperties DEF Cells
<1> HIDE DEF a
<1>3. q.len \in 0..Len(a)
  BY <1>1, <1>2
<1>4. u \in Cells /\ Len(u) = Len(a) - q.len
  BY Zenon, <1>2, <1>3, Dropped DEF Cells
<1> HIDE DEF u
<1>5. /\ s \o u \in Cells /\ Len(s \o u) = Len(s) + Len(u)
      /\ \A k \in 1..Len(s) + Len(u) : (s \o u)[k] = IF k <= Len(s) THEN s[k] ELSE u[k - Len(s)]
  BY Zenon, <1>4, ConcatProperties DEF Cells
<1>6. Len(s \o u) = Len(a) /\ \A k \in 1..q.len : (s \o u)[k] = s[k]
  <2>1. PICK n \in Nat : n = q.len
    BY Zenon, <1>1
  <2>2. Len(s) = n /\ Len(u) = Len(a) - n /\ n <= Len(a)
    BY <1>1, <1>4, <2>1
  <2>3. Len(s) + Len(u) = Len(a) /\ \A k \in 1..n : k \in 1..Len(s) + Len(u) /\ k <= Len(s)
    BY <1>2, <2>2
  <2> QED
    BY Zenon, <1>5, <2>1, <2>3
<1>7. arrays' = [arrays EXCEPT ![q.arr] = s \o u]
  BY Zenon DEF a, u, Resorted
<1>8. /\ arrays' \in Seq(Cells) /\ Len(arrays') = Len(arrays)
      /\ \A k \in 1..Len(arrays) : arrays'[k] = IF k = q.arr THEN s \o u ELSE arrays[k]
  <2>1. PICK c \in Cells : c = s \o u
    BY Zenon, <1>5
  <2>2. PICK k \in 1..Len(arrays) : k = q.arr
    BY Zenon, <1>1
  <2>3. arrays' = [arrays EXCEPT ![k] = c]
    BY Zenon, <1>7, <2>1, <2>2
  <2> QED
    BY <1>1, <2>1, <2>2, <2>3, ExceptSeq
<1> QED
  BY Zenon, <1>1, <1>6, <1>8 DEF a

\* The wildcard's queue, sorted in place before it is fired.
LEMMA WildcardStep == ASSUME EventAssumption, IInv, NEW g \in Procs, Wildcard(g) PROVE IInv'
<1>1. PICK q : q = listeners["*"]
  BY Zenon
<1>2. /\ frame[g] \in Frames /\ q.arr \in Nat /\ q.len \in Nat /\ "*" \in Names /\ "event" \in Names
      /\ Placed(q, arrays) /\ Whole(listeners, arrays)
  BY Zenon, <1>1, WholeSplit DEF IInv, TypeOK, Names
<1>3. Items(q) \in Cells /\ Len(Items(q)) = q.len
  BY Zenon, <1>1, <1>2, ItemsOf
<1>4. PICK s \in Sort(Items(q)) :
        /\ arrays' = IF q.len = 0 THEN arrays
                     ELSE [arrays EXCEPT ![q.arr] = s \o SubSeq(@, q.len + 1, Len(@))]
        /\ frame' = [frame EXCEPT ![g] = [Start(g, "*", q) EXCEPT !.expect = s]]
  BY Zenon, <1>1 DEF Wildcard
<1>5. s \in Cells /\ Len(s) = q.len /\ ByPriority(s)
  BY Zenon, <1>3, Sorted
<1>6. UNCHANGED <<enableLock, mutex, listeners, aborted>> /\ frame[g].at = "event"
  BY Zenon DEF Wildcard
<1>7. /\ arrays' \in Seq(Cells) /\ Len(arrays') = Len(arrays)
      /\ \A k \in 1..Len(arrays) : Len(arrays'[k]) = Len(arrays[k])
      /\ \A k \in 1..Len(arrays) : k # q.arr => arrays'[k] = arrays[k]
      /\ q.len # 0 => \A k \in 1..q.len : arrays'[q.arr][k] = s[k]
  <2>1. CASE q.len = 0
    BY Zenon, <1>4, <2>1 DEF IInv, TypeOK
  <2>2. CASE q.len # 0
    <3>1. arrays' = Resorted(q, s)
      BY Zenon, <1>4, <2>2 DEF Resorted
    <3> QED
      BY <1>1, <1>5, <2>2, <3>1, SortedArray
  <2> QED
    BY Zenon, <2>1, <2>2
<1>8. PICK f \in Frames :
      /\ f = [Start(g, "*", q) EXCEPT !.expect = s]
      /\ f.at = "*" /\ f.arr = q.arr /\ f.len = q.len /\ f.i = 0 /\ f.called = <<>> /\ f.expect = s
  <2>1. <<>> \in Cells
    BY Zenon, EmptySeq DEF Cells
  <2>2. PICK x : x = [Start(g, "*", q) EXCEPT !.expect = s]
    BY Zenon
  <2>3. x = [frame[g] EXCEPT !.at = "*", !.arr = q.arr, !.len = q.len, !.i = 0, !.called = <<>>, !.expect = s]
    BY Zenon, <2>2 DEF Start
  <2>4. /\ x \in Frames /\ x.at = "*" /\ x.arr = q.arr /\ x.len = q.len /\ x.i = 0 /\ x.called = <<>>
        /\ x.expect = s
    BY Zenon, <1>2, <1>5, <2>1, <2>3 DEF Frames
  <2> QED
    BY Zenon, <2>2, <2>4
<1>9. \A h \in Procs : frame'[h] = IF h = g THEN f ELSE frame[h]
  BY Zenon, <1>4, <1>8 DEF IInv, TypeOK
<1>10. TypeOK'
  <2>1. frame' \in [Procs -> Frames]
    BY Zenon, <1>4, <1>8 DEF IInv, TypeOK
  <2> QED
    BY Zenon, <1>6, <1>7, <2>1 DEF IInv, TypeOK
<1>11. Whole(listeners, arrays)'
  <2>1. ASSUME NEW n \in Names PROVE Placed(listeners[n], arrays')
    <3>1. Placed(listeners[n], arrays)
      BY Zenon, <1>2, WholeSplit
    <3> QED
      BY Zenon, <1>7, <3>1 DEF Placed
  <2> QED
    BY Zenon, <1>2, <1>6, <2>1 DEF Whole, Placed
<1>12. Locking'
  <2>1. \A h \in Procs : Firing(h)' <=> Firing(h)
    BY Zenon, <1>6, <1>8, <1>9 DEF Firing
  <2> QED
    BY Zenon, <1>6, <2>1 DEF IInv, Locking, AbortEndsFiring
<1>13. ASSUME NEW h \in Procs, h # g PROVE (Within(frame[h], arrays) /\ Steady(frame[h]))'
  <2>1. frame'[h] = frame[h] /\ Within(frame[h], arrays) /\ Steady(frame[h])
    BY Zenon, <1>9, <1>13 DEF IInv
  <2>2. Within(frame[h], arrays)'
    BY Zenon, <1>7, <2>1 DEF Within
  <2>3. CASE Guarded(frame[h])
    <3>1. frame[h].at = "event"
      BY Zenon, <1>6, <1>13, <2>3 DEF Guarded, IInv, Locking, Firing
    <3>2. Seen(listeners, arrays, "event", frame[h])
      BY Zenon, <2>1, <2>3, <3>1 DEF Steady
    <3>3. ASSUME frame[h].len > 0 PROVE Seen(listeners', arrays', "event", frame[h])
      <4>1. /\ frame[h].arr \in 1..Len(arrays) /\ frame[h].len <= Len(arrays[frame[h].arr])
            /\ \A k \in 1..frame[h].len : arrays[frame[h].arr][k] = frame[h].expect[k]
            /\ \A m \in Names : listeners[m].arr = frame[h].arr => m = "event" /\ frame[h].len <= listeners[m].len
            /\ frame[h].len = Len(frame[h].expect)
        BY Zenon, <3>2, <3>3 DEF Seen
      <4>2. frame[h].arr # q.arr
        BY Zenon, <1>1, <1>2, <4>1
      <4>3. Len(arrays') = Len(arrays) /\ arrays'[frame[h].arr] = arrays[frame[h].arr]
        BY Zenon, <1>7, <4>1, <4>2
      <4> QED
        BY Zenon, <1>6, <4>1, <4>3 DEF Seen
    <3>4. ASSUME ~(frame[h].len > 0) PROVE Seen(listeners', arrays', "event", frame[h])
      BY Zenon, <3>2, <3>4 DEF Seen
    <3>5. Seen(listeners', arrays', "event", frame[h])
      BY Zenon, <3>3, <3>4
    <3>6. Steady(frame[h])'
      BY Zenon, <2>1, <2>3, <3>1, <3>5 DEF Steady
    <3> QED
      BY Zenon, <2>2, <3>6
  <2>4. CASE ~Guarded(frame[h])
    BY Zenon, <1>6, <2>1, <2>2, <2>4 DEF Steady, Guarded
  <2> QED
    BY Zenon, <2>2, <2>3, <2>4
<1>14. Within(f, arrays)' /\ Steady(f)'
  <2>1. Within(f, arrays')
    BY <1>2, <1>7, <1>8 DEF Within, Placed
  <2>2. Seen(listeners', arrays', "*", f)
    <3>1. ASSUME q.len > 0, NEW m \in Names, listeners[m].arr = q.arr PROVE m = "*" /\ q.len <= listeners[m].len
      <4>1. q.arr # 0
        BY <1>2, <3>1 DEF Placed
      <4>2. m = "*"
        BY Zenon, <1>1, <1>2, <3>1, <4>1, WholeSplit
      <4> QED
        BY <1>1, <1>2, <4>2
    <3>2. q.len > 0 => f.arr \in 1..Len(arrays') /\ f.len <= Len(arrays'[f.arr])
      BY Zenon, <1>8, <2>1 DEF Within
    <3> QED
      BY <1>5, <1>6, <1>7, <1>8, <3>1, <3>2 DEF Seen
  <2>3. Len(f.called) = f.i /\ \A k \in 1..f.i : f.called[k] = f.expect[k]
    BY <1>8, EmptySeq
  <2> QED
    BY Zenon, <1>5, <1>8, <2>1, <2>2, <2>3 DEF Steady
<1> QED
  BY Zenon, <1>9, <1>10, <1>11, <1>12, <1>13, <1>14 DEF IInv

\* Every step keeps the invariant.
LEMMA NextHolds == ASSUME EventAssumption PROVE IInv /\ [Next]_vars => IInv'
<1> SUFFICES ASSUME IInv, [Next]_vars PROVE IInv'
  BY Zenon
<1>1. CASE UNCHANGED vars
  BY Zenon, <1>1 DEF vars, IInv, TypeOK, Locking, AbortEndsFiring, Firing, Steady, Guarded
<1>2. ASSUME NEW g \in Procs, Fire(g) \/ AsyncFire(g) PROVE IInv'
  BY Zenon, <1>2, FireStep DEF Fire, AsyncFire
<1>3. ASSUME NEW g \in Procs, Wildcard(g) \/ Done(g) \/ \E r \in {"ok", "error", "abort"} : Handle(g, r) PROVE IInv'
  BY Zenon, <1>3, WildcardStep, DoneStep, HandleStep
<1>4. ASSUME NEW l \in Listeners, On("event", l, 0) \/ \E p \in Priorities : On("*", l, p) PROVE IInv'
  BY Zenon, <1>4, OnStep DEF Names, EventAssumption
<1>5. ASSUME NEW l \in Listeners, AddSubscriber(l) \/ \E names \in {{"event"}, {"*"}, Names} : RemoveListener(names, l)
      PROVE  IInv'
  BY Zenon, <1>5, SubscribeStep, RemoveListenerStep DEF Names
<1>6. ASSUME NEW names \in {{"event"}, {"*"}, Names}, RemoveListeners(names) PROVE IInv'
  BY Zenon, <1>6, RemoveListenersStep DEF Names
<1> QED
  BY Zenon, <1>1, <1>2, <1>3, <1>4, <1>5, <1>6 DEF Next

\* The invariant says what a firing promises.
LEMMA IInvFires == ASSUME IInv PROVE TypeOK /\ FiresSnapshot /\ WildcardByPriority /\ AbortEndsFiring
<1>1. ASSUME NEW g \in Procs, Guarded(frame[g])
      PROVE  Begins(frame[g].called, frame[g].expect) /\ (frame[g].at = "*" => ByPriority(frame[g].called))
  <2>1. /\ frame[g] \in Frames /\ Steady(frame[g]) /\ frame[g].i <= frame[g].len
    BY Zenon DEF IInv, TypeOK, Within
  <2>2. /\ Len(frame[g].called) = frame[g].i /\ frame[g].len = Len(frame[g].expect)
        /\ \A k \in 1..frame[g].i : frame[g].called[k] = frame[g].expect[k]
        /\ frame[g].at = "*" => ByPriority(frame[g].expect)
    BY Zenon, <1>1, <2>1 DEF Steady, Seen
  <2>3. frame[g].called \in Cells /\ frame[g].expect \in Cells /\ frame[g].i \in Nat /\ frame[g].len \in Nat
    BY Zenon, <2>1 DEF Frames
  <2>4. DOMAIN frame[g].called = 1..frame[g].i /\ DOMAIN frame[g].expect = 1..frame[g].len
    BY Zenon, <2>2, <2>3, LenProperties DEF Cells
  <2>5. \A k \in 1..frame[g].i : k \in 1..frame[g].len
    BY <2>1, <2>3
  <2>6. Begins(frame[g].called, frame[g].expect)
    BY Zenon, <2>1, <2>2, <2>3 DEF Begins
  <2>7. frame[g].at = "*" => ByPriority(frame[g].called)
    BY Zenon, <2>2, <2>4, <2>5 DEF ByPriority
  <2> QED
    BY Zenon, <2>6, <2>7
<1> QED
  BY Zenon, <1>1 DEF IInv, Locking, FiresSnapshot, WildcardByPriority, Guarded

(***************************************************************************)
(* A firing calls the listeners that were there when it began, those of    *)
(* the wildcard by priority, and none once it is aborted, whatever other   *)
(* goroutines add, remove and fire meanwhile.                              *)
(***************************************************************************)
THEOREM Snapshot ==
  ASSUME EventAssumption
  PROVE  Init /\ [][Next]_vars => []FiringIsSnapshot
  BY InitHolds, NextHolds, IInvFires, PTL DEF FiringIsSnapshot
=============================================================================
