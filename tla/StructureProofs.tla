-------------------------- MODULE StructureProofs ---------------------------
(***************************************************************************)
(* Proofs about the scavengers of a pool (PoolPurge), the state machine    *)
(* (FSM) and the ring of idle workers (LoopQueue), for every number of     *)
(* workers, scavengers and goroutines, every table of transitions and      *)
(* every size of the ring.                                                 *)
(***************************************************************************)
EXTENDS Structures, WellFoundedInduction, TLAPS

\* A sequence is a function on the numbers up to its length ...
LEMMA LenProperties ==
  ASSUME NEW S, NEW s \in Seq(S)
  PROVE  Len(s) \in Nat /\ s \in [1..Len(s) -> S] /\ DOMAIN s = 1..Len(s)
  OBVIOUS

\* ... whose values are its elements, ...
LEMMA ElementOfSeq == ASSUME NEW S, NEW s \in Seq(S), NEW k \in 1..Len(s) PROVE s[k] \in S
  OBVIOUS

\* ... and one over fewer values is one over more.
LEMMA SeqMonotonic == ASSUME NEW S, NEW T, NEW s \in Seq(S), S \subseteq T PROVE s \in Seq(T)
  OBVIOUS

\* Only the empty sequence has no element.
LEMMA EmptySeq ==
  ASSUME NEW S
  PROVE  <<>> \in Seq(S) /\ Len(<<>>) = 0 /\ \A s \in Seq(S) : s # <<>> => Len(s) \in Nat \ {0}
  OBVIOUS

\* s[i] = e, in place.
LEMMA ExceptSeq ==
  ASSUME NEW S, NEW s \in Seq(S), NEW i \in 1..Len(s), NEW e \in S
  PROVE  /\ [s EXCEPT ![i] = e] \in Seq(S) /\ Len([s EXCEPT ![i] = e]) = Len(s)
         /\ \A j \in 1..Len(s) : [s EXCEPT ![i] = e][j] = IF j = i THEN e ELSE s[j]
  OBVIOUS

\* Two sequences after each other, ...
LEMMA ConcatProperties ==
  ASSUME NEW S, NEW s \in Seq(S), NEW t \in Seq(S)
  PROVE  /\ s \o t \in Seq(S) /\ Len(s \o t) = Len(s) + Len(t)
         /\ \A j \in 1..Len(s) + Len(t) : (s \o t)[j] = IF j <= Len(s) THEN s[j] ELSE t[j - Len(s)]
  OBVIOUS

\* ... one element more, ...
LEMMA AppendProperties ==
  ASSUME NEW S, NEW s \in Seq(S), NEW e \in S
  PROVE  /\ Append(s, e) \in Seq(S) /\ Append(s, e) # <<>> /\ Len(Append(s, e)) = Len(s) + 1
         /\ Append(s, e)[Len(s) + 1] = e /\ \A j \in 1..Len(s) : Append(s, e)[j] = s[j]
  OBVIOUS

\* ... and a part of one.
LEMMA SubSeqProperties ==
  ASSUME NEW S, NEW s, NEW m \in Int, NEW n \in Int, \A i \in m..n : s[i] \in S
  PROVE  /\ SubSeq(s, m, n) \in Seq(S) /\ Len(SubSeq(s, m, n)) = (IF m <= n THEN n - m + 1 ELSE 0)
         /\ \A j \in 1..n - m + 1 : SubSeq(s, m, n)[j] = s[m + j - 1]
  OBVIOUS

\* A set of natural numbers that is not empty has a least element.
LEMMA Least ==
  ASSUME NEW T \in SUBSET Nat, T # {}
  PROVE  \E x \in T : \A y \in T : x <= y
<1> DEFINE R == {ss \in Nat \X Nat : ss[1] < ss[2]}
<1>1. IsWellFoundedOn(R, Nat)
  BY Zenon, NatLessThanWellFounded DEF OpToRel
<1>2. ASSUME NEW x \in Nat, NEW y \in Nat, <<y, x>> \notin R PROVE x <= y
  BY <1>2
<1>3. \E x \in T : \A y \in T : <<y, x>> \notin R
  <2> HIDE DEF R
  <2> QED BY Zenon, <1>1, WFMin
<1> HIDE DEF R
<1> QED BY Zenon, <1>2, <1>3

\* The first n elements of a sequence, and what is left without them.
LEMMA Taken ==
  ASSUME NEW S, NEW s \in Seq(S), NEW n \in 0..Len(s)
  PROVE  /\ SubSeq(s, 1, n) \in Seq(S) /\ Len(SubSeq(s, 1, n)) = n
         /\ \A k \in 1..n : SubSeq(s, 1, n)[k] = s[k]
<1>1. Len(s) \in Nat /\ \A k \in 1..n : k \in 1..Len(s)
  BY LenProperties
<1>2. \A k \in 1..n : s[k] \in S
  BY Zenon, <1>1, ElementOfSeq
<1>3. SubSeq(s, 1, n) \in Seq(S) /\ Len(SubSeq(s, 1, n)) = (IF 1 <= n THEN n - 1 + 1 ELSE 0)
      /\ \A k \in 1..n - 1 + 1 : SubSeq(s, 1, n)[k] = s[1 + k - 1]
  BY <1>2, SubSeqProperties
<1>4. n - 1 + 1 = n /\ \A k \in 1..n : 1 + k - 1 = k
  BY <1>1
<1> QED
  BY <1>1, <1>3, <1>4

\* What is left of a sequence without its first n elements.
LEMMA Dropped ==
  ASSUME NEW S, NEW s \in Seq(S), NEW n \in 0..Len(s)
  PROVE  /\ SubSeq(s, n + 1, Len(s)) \in Seq(S) /\ Len(SubSeq(s, n + 1, Len(s))) = Len(s) - n
         /\ \A k \in 1..Len(s) - n : SubSeq(s, n + 1, Len(s))[k] = s[n + k]
<1>1. Len(s) \in Nat
  BY Zenon, LenProperties
<1>2. PICK m \in Int : m = n + 1
  BY <1>1
<1>3. PICK l \in Int : l = Len(s)
  BY <1>1
<1>4. \A k \in m..l : s[k] \in S
  <2>1. \A k \in m..l : k \in 1..Len(s)
    BY <1>1, <1>2, <1>3
  <2> QED
    BY Zenon, <2>1, ElementOfSeq
<1>5. /\ SubSeq(s, m, l) \in Seq(S) /\ Len(SubSeq(s, m, l)) = (IF m <= l THEN l - m + 1 ELSE 0)
      /\ \A k \in 1..l - m + 1 : SubSeq(s, m, l)[k] = s[m + k - 1]
  BY <1>4, SubSeqProperties
<1>6. (IF m <= l THEN l - m + 1 ELSE 0) = Len(s) - n /\ l - m + 1 = Len(s) - n
  BY <1>1, <1>2, <1>3
<1>7. \A k \in 1..Len(s) - n : m + k - 1 = n + k
  BY <1>1, <1>2
<1> QED
  BY Zenon, <1>2, <1>3, <1>5, <1>6, <1>7

-----------------------------------------------------------------------------
(***************************************************************************)
(* PoolPurge.  A worker is on the stack or in the part of a scavenger's    *)
(* slice that is still to be told, and the array under that part is not    *)
(* written by another scavenger.                                           *)
(***************************************************************************)

\* Nobody is on the stack twice, and those on it are the idle workers.
PurgeStacked ==
  /\ \A j, k \in 1..Len(pItems) : pItems[j] = pItems[k] => j = k
  /\ \A w \in Worker : pWhere[w] = "idle" <=> \E k \in 1..Len(pItems) : pItems[k] = w

\* One scavenger at a time.
PurgeAlone == \A s, r \in Purge!Scavenger :
                pSpc[s] \in {"tick", "notify"} /\ pSpc[r] \in {"tick", "notify"} => s = r

\* What is left of a scavenger's slice: workers, each once, in an array that is there.
PurgeListed(s) ==
  LET a == pSlice[s].array
  IN /\ a \in 1..Len(pArrays) /\ pSlice[s].len <= Len(pArrays[a])
     /\ pI[s] \in 1..pSlice[s].len + 1
     /\ \A k \in pI[s]..pSlice[s].len : pArrays[a][k] \in Worker
     /\ \A j, k \in pI[s]..pSlice[s].len : pArrays[a][j] = pArrays[a][k] => j = k

\* PurgedWorkersAreTold, worker by worker.
PurgeTold ==
  \A w \in Worker :
    pWhere[w] = "purged" <=>
      \E s \in Purge!Scavenger : /\ pSpc[s] = "notify"
                                 /\ \E k \in pI[s]..pSlice[s].len : pArrays[pSlice[s].array][k] = w

\* The inductive invariant.
PurgeIInv ==
  /\ Purge!TypeOK /\ PurgeStacked /\ PurgeAlone
  /\ pExpiry.array \in 0..Len(pArrays)
  /\ \A s \in Purge!Scavenger : pSpc[s] = "notify" => PurgeListed(s)
  /\ PurgeTold

\* The pool starts in the invariant: no worker is on the stack.
LEMMA PurgeInitHolds == ASSUME Purge!PurgeAssumption PROVE Purge!Init => PurgeIInv
<1> SUFFICES ASSUME Purge!Init PROVE PurgeIInv
  BY Zenon
<1>1. Purge!TypeOK
  BY DEF Purge!Init, Purge!TypeOK, Purge!Slice, Purge!Empty, Purge!Scavenger, Purge!PurgeAssumption
<1>2. PurgeStacked /\ PurgeAlone
  BY DEF Purge!Init, PurgeStacked, PurgeAlone, Purge!Scavenger
<1>3. PurgeTold
  BY Zenon DEF Purge!Init, PurgeTold
<1> QED
  BY <1>1, <1>2, <1>3 DEF PurgeIInv, Purge!Init, Purge!Empty

\* What the notifying scavengers know does not change while they, their slices and the
\* arrays stay as they are.
LEMMA PurgeUndisturbed ==
  ASSUME PurgeIInv, Purge!TypeOK', PurgeStacked', UNCHANGED <<Purge!sliceVars, Purge!scavVars>>,
         \A w \in Worker : pWhere[w] = "purged" <=> pWhere'[w] = "purged"
  PROVE  PurgeIInv'
  BY DEF PurgeIInv, PurgeAlone, PurgeListed, PurgeTold, Purge!sliceVars, Purge!scavVars

\* A new worker begins busy.
LEMMA PurgeSpawnStep ==
  ASSUME PurgeIInv, NEW w \in Worker, Purge!Spawn(w) PROVE PurgeIInv'
<1>1. Purge!TypeOK' /\ PurgeStacked'
  BY DEF Purge!Spawn, PurgeIInv, Purge!TypeOK, PurgeStacked, Purge!sliceVars, Purge!scavVars
<1> QED
  BY Zenon, <1>1, PurgeUndisturbed DEF Purge!Spawn, PurgeIInv, Purge!TypeOK

\* The worker taken from the stack is its last.
LEMMA PurgeDetachStep ==
  ASSUME PurgeIInv, Purge!Detach PROVE PurgeIInv'
<1> DEFINE n == Len(pItems)
<1>1. n \in Nat /\ n > 0 /\ pItems \in [1..n -> Worker]
  BY EmptySeq, LenProperties DEF Purge!Detach, PurgeIInv, Purge!TypeOK
<1>2. /\ pItems' \in Seq(Worker) /\ Len(pItems') = n - 1
      /\ \A k \in 1..n-1 : pItems'[k] = pItems[k]
  BY <1>1, SubSeqProperties DEF Purge!Detach, PurgeIInv, Purge!TypeOK
<1>3. pWhere' = [pWhere EXCEPT ![pItems[n]] = "busy"] /\ pWhere[pItems[n]] = "idle"
  BY <1>1 DEF Purge!Detach, PurgeIInv, PurgeStacked
<1>4. Purge!TypeOK'
  BY Zenon, <1>2, <1>3 DEF Purge!Detach, PurgeIInv, Purge!TypeOK, Purge!sliceVars, Purge!scavVars
<1>5. PurgeStacked'
  <2>1. \A j, k \in 1..n : pItems[j] = pItems[k] => j = k
    BY Zenon DEF PurgeIInv, PurgeStacked
  <2>2. \A j, k \in 1..Len(pItems') : pItems'[j] = pItems'[k] => j = k
    BY <1>1, <1>2, <2>1
  <2>3. ASSUME NEW w \in Worker
        PROVE  pWhere'[w] = "idle" <=> \E k \in 1..Len(pItems') : pItems'[k] = w
    <3>1. pWhere[w] = "idle" <=> \E k \in 1..n : pItems[k] = w
      BY Zenon DEF PurgeIInv, PurgeStacked
    <3>2. pWhere'[w] = IF w = pItems[n] THEN "busy" ELSE pWhere[w]
      BY Zenon, <1>1, <1>3 DEF PurgeIInv, Purge!TypeOK
    <3>3. (\E k \in 1..n-1 : pItems[k] = w) <=> w # pItems[n] /\ \E k \in 1..n : pItems[k] = w
      BY <1>1, <2>1
    <3> QED
      BY Zenon, <1>1, <1>2, <3>1, <3>2, <3>3
  <2> QED
    BY Zenon, <2>2, <2>3 DEF PurgeStacked
<1> QED
  BY Zenon, <1>1, <1>3, <1>4, <1>5, PurgeUndisturbed DEF Purge!Detach, PurgeIInv, Purge!TypeOK

\* A worker that comes back is pushed on the stack.
LEMMA PurgeRevertStep ==
  ASSUME PurgeIInv, NEW w \in Worker, Purge!Revert(w) PROVE PurgeIInv'
<1>1. CASE pState = "OPENED"
  <2>1. /\ pItems' \in Seq(Worker) /\ Len(pItems') = Len(pItems) + 1 /\ Len(pItems) \in Nat
        /\ pItems'[Len(pItems) + 1] = w /\ \A k \in 1..Len(pItems) : pItems'[k] = pItems[k]
    <3>1. pItems \in Seq(Worker) /\ pItems' = Append(pItems, w)
      BY Zenon, <1>1 DEF Purge!Revert, PurgeIInv, Purge!TypeOK
    <3> QED
      BY <3>1, AppendProperties, LenProperties
  <2>2. Purge!TypeOK'
    BY Zenon, <1>1, <2>1 DEF Purge!Revert, PurgeIInv, Purge!TypeOK, Purge!sliceVars, Purge!scavVars
  <2>3. pWhere' = [pWhere EXCEPT ![w] = "idle"] /\ pWhere[w] = "busy"
    BY Zenon, <1>1 DEF Purge!Revert
  <2>4. \A j, k \in 1..Len(pItems') : pItems'[j] = pItems'[k] => j = k
    BY <2>1, <2>3 DEF PurgeIInv, PurgeStacked
  <2>5. ASSUME NEW v \in Worker
        PROVE  pWhere'[v] = "idle" <=> \E k \in 1..Len(pItems') : pItems'[k] = v
    <3>1. pWhere[v] = "idle" <=> \E k \in 1..Len(pItems) : pItems[k] = v
      BY Zenon DEF PurgeIInv, PurgeStacked
    <3>2. pWhere'[v] = IF v = w THEN "idle" ELSE pWhere[v]
      BY Zenon, <2>3 DEF PurgeIInv, Purge!TypeOK
    <3> QED
      BY <2>1, <3>1, <3>2
  <2>6. PurgeStacked'
    BY Zenon, <2>4, <2>5 DEF PurgeStacked
  <2> QED
    BY Zenon, <2>2, <2>3, <2>6, PurgeUndisturbed DEF Purge!Revert, PurgeIInv, Purge!TypeOK
<1>2. CASE pState # "OPENED"
  <2>1. pItems' = pItems /\ pWhere' = [pWhere EXCEPT ![w] = "ended"] /\ pWhere[w] = "busy"
    BY Zenon, <1>2 DEF Purge!Revert
  <2>2. Purge!TypeOK'
    BY Zenon, <2>1 DEF Purge!Revert, PurgeIInv, Purge!TypeOK, Purge!sliceVars, Purge!scavVars
  <2>3. \A v \in Worker : pWhere'[v] = "idle" <=> pWhere[v] = "idle"
    BY Zenon, <2>1 DEF PurgeIInv, Purge!TypeOK
  <2>4. PurgeStacked'
    BY ZenonT(30), <2>1, <2>3 DEF PurgeIInv, PurgeStacked
  <2> QED
    BY Zenon, <2>1, <2>2, <2>4, PurgeUndisturbed DEF Purge!Revert, PurgeIInv, Purge!TypeOK
<1> QED
  BY Zenon, <1>1, <1>2

\* Release empties the stack, whose workers are told on the spot.
LEMMA PurgeReleaseStep ==
  ASSUME PurgeIInv, Purge!Release PROVE PurgeIInv'
<1>1. Purge!TypeOK'
  BY DEF Purge!Release, PurgeIInv, Purge!TypeOK, Purge!sliceVars, Purge!scavVars
<1>2. PurgeStacked'
  BY EmptySeq DEF Purge!Release, PurgeIInv, Purge!TypeOK, PurgeStacked
<1> QED
  BY Zenon, <1>1, <1>2, PurgeUndisturbed DEF Purge!Release, PurgeIInv, Purge!TypeOK

\* Reboot starts a scavenger when the one before it is gone.
LEMMA PurgeRebootStep ==
  ASSUME PurgeIInv, RebootWaits, Purge!Reboot PROVE PurgeIInv'
<1>1. PICK s \in Purge!Scavenger : pSpc[s] = "unborn" /\ pSpc' = [pSpc EXCEPT ![s] = "tick"]
  BY Zenon DEF Purge!Reboot
<1>2. \A r \in Purge!Scavenger : pSpc'[r] = IF r = s THEN "tick" ELSE pSpc[r]
  BY Zenon, <1>1 DEF PurgeIInv, Purge!TypeOK
<1>3. Purge!TypeOK' /\ PurgeStacked'
  BY <1>1 DEF Purge!Reboot, PurgeIInv, Purge!TypeOK, PurgeStacked, Purge!sliceVars
<1>4. PurgeAlone'
  BY Zenon, <1>2 DEF PurgeAlone, Purge!Reboot
<1> QED
  BY <1>1, <1>2, <1>3, <1>4 DEF PurgeIInv, Purge!Reboot, PurgeListed, PurgeTold, Purge!sliceVars

\* A scavenger that sees the pool closed ends, with nothing left to tell.
LEMMA PurgeStopStep ==
  ASSUME PurgeIInv, NEW s \in Purge!Scavenger, Purge!Stop(s) PROVE PurgeIInv'
<1>1. \A r \in Purge!Scavenger : pSpc'[r] = IF r = s THEN "stopped" ELSE pSpc[r]
  BY Zenon DEF Purge!Stop, PurgeIInv, Purge!TypeOK
<1>2. Purge!TypeOK' /\ PurgeStacked'
  BY ZenonT(30) DEF Purge!Stop, PurgeIInv, Purge!TypeOK, PurgeStacked, Purge!sliceVars,
     Purge!poolVars
<1>3. PurgeAlone'
  BY Zenon, <1>1 DEF PurgeAlone, PurgeIInv
<1>4. pWhere' = pWhere /\ pArrays' = pArrays /\ pExpiry' = pExpiry /\ pSlice' = pSlice /\ pI' = pI
  BY Zenon DEF Purge!Stop, Purge!sliceVars, Purge!poolVars
<1>5. \A r \in Purge!Scavenger : pSpc'[r] = "notify" <=> pSpc[r] = "notify"
  <2> TAKE r \in Purge!Scavenger
  <2>1. CASE r = s
    <3>1. pSpc'[r] = "stopped" /\ pSpc[r] = "tick"
      BY Zenon, <1>1, <2>1 DEF Purge!Stop
    <3> QED
      BY Zenon, <3>1
  <2>2. CASE r # s
    <3>1. pSpc'[r] = pSpc[r]
      BY Zenon, <1>1, <2>2
    <3> QED
      BY Zenon, <3>1
  <2> QED
    BY Zenon, <2>1, <2>2
<1>6. PurgeTold'
  BY <1>4, <1>5 DEF PurgeIInv, PurgeTold
<1>7. \A r \in Purge!Scavenger : pSpc'[r] = "notify" => PurgeListed(r)'
  BY <1>4, <1>5 DEF PurgeIInv, PurgeListed
<1> QED
  BY Zenon, <1>2, <1>3, <1>4, <1>6, <1>7 DEF PurgeIInv

\* append(wq.expiry[:0], taken...): the new slice holds what was taken.
LEMMA PurgeFilled ==
  ASSUME pArrays \in Seq(Seq(Worker \cup {Nil})), pExpiry \in Purge!Slice,
         pExpiry.array \in 0..Len(pArrays),
         NEW taken \in Seq(Worker), Purge!Fill(taken)
  PROVE  /\ pArrays' \in Seq(Seq(Worker \cup {Nil})) /\ pExpiry' \in Purge!Slice
         /\ pExpiry'.array \in 1..Len(pArrays') /\ pExpiry'.len = Len(taken)
         /\ Len(taken) <= Len(pArrays'[pExpiry'.array])
         /\ \A k \in 1..Len(taken) : pArrays'[pExpiry'.array][k] = taken[k]
<1> DEFINE W == Worker \cup {Nil}
           a == pExpiry.array
           fits == a # 0 /\ Len(taken) <= Len(pArrays[a])
<1>1. taken \in Seq(W) /\ Len(taken) \in Nat /\ Len(pArrays) \in Nat
  BY Zenon, SeqMonotonic, LenProperties
<1>2. CASE fits
  <2>1. a \in 1..Len(pArrays) /\ pArrays[a] \in Seq(W) /\ Len(pArrays[a]) \in Nat
    BY <1>1, <1>2, ElementOfSeq, LenProperties
  <2> DEFINE rest == SubSeq(pArrays[a], Len(taken) + 1, Len(pArrays[a]))
             filled == taken \o rest
  <2>2. rest \in Seq(W) /\ Len(rest) = Len(pArrays[a]) - Len(taken)
    BY <1>1, <1>2, <2>1, SubSeqProperties
  <2>3. /\ filled \in Seq(W) /\ Len(filled) = Len(pArrays[a])
        /\ \A k \in 1..Len(taken) : filled[k] = taken[k]
    BY <1>1, <2>1, <2>2, ConcatProperties
  <2>4. pArrays' = [pArrays EXCEPT ![a] = filled] /\ pExpiry' = [array |-> a, len |-> Len(taken)]
    BY Zenon, <1>2 DEF Purge!Fill
  <2>5. pArrays' \in Seq(Seq(W)) /\ Len(pArrays') = Len(pArrays) /\ pArrays'[a] = filled
    <3>1. pArrays \in Seq(Seq(W)) /\ filled \in Seq(W) /\ a \in 1..Len(pArrays)
      BY Zenon, <2>1, <2>3
    <3> HIDE DEF a, filled, W
    <3>2. /\ [pArrays EXCEPT ![a] = filled] \in Seq(Seq(W)) /\ Len([pArrays EXCEPT ![a] = filled]) = Len(pArrays)
          /\ [pArrays EXCEPT ![a] = filled][a] = filled
      BY <3>1, ExceptSeq
    <3> QED
      BY Zenon, <2>4, <3>2
  <2> QED
    BY Zenon, <1>1, <1>2, <2>1, <2>3, <2>4, <2>5 DEF Purge!Slice
<1>3. CASE ~fits
  <2>1. /\ pArrays' = Append(pArrays, taken)
        /\ pExpiry' = [array |-> Len(pArrays'), len |-> Len(taken)]
    BY Zenon, <1>3 DEF Purge!Fill
  <2>2. /\ pArrays' \in Seq(Seq(W)) /\ Len(pArrays') = Len(pArrays) + 1
        /\ pArrays'[Len(pArrays) + 1] = taken
    BY <1>1, <2>1, AppendProperties
  <2> QED
    BY <1>1, <2>1, <2>2 DEF Purge!Slice
<1> QED
  BY Zenon, <1>2, <1>3

\* The expired workers move from the stack to the slice, in the old array or a larger one.
LEMMA PurgePurgeStep ==
  ASSUME PurgeIInv, NEW s \in Purge!Scavenger, Purge!Purge(s) PROVE PurgeIInv'
<1>1. PICK n \in 1..Len(pItems) :
        /\ Purge!Fill(SubSeq(pItems, 1, n))
        /\ pSlice' = [pSlice EXCEPT ![s] = pExpiry']
        /\ pWhere' = [w \in Worker |->
                        IF \E k \in 1..n : pItems[k] = w THEN "purged" ELSE pWhere[w]]
        /\ pItems' = SubSeq(pItems, n + 1, Len(pItems))
  BY Zenon DEF Purge!Purge
<1> DEFINE taken == SubSeq(pItems, 1, n)
<1>2. pItems \in Seq(Worker) /\ Len(pItems) \in Nat /\ pItems \in [1..Len(pItems) -> Worker]
  BY Zenon, LenProperties DEF PurgeIInv, Purge!TypeOK
<1>3. taken \in Seq(Worker) /\ Len(taken) = n /\ \A k \in 1..n : taken[k] = pItems[k]
  <2>1. n \in 0..Len(pItems)
    BY <1>2
  <2> QED
    BY Zenon, <1>2, <2>1, Taken
<1>4. /\ pItems' \in Seq(Worker) /\ Len(pItems') = Len(pItems) - n
      /\ \A k \in 1..Len(pItems) - n : pItems'[k] = pItems[n + k]
  <2>1. n \in 0..Len(pItems)
    BY <1>2
  <2>2. /\ SubSeq(pItems, n + 1, Len(pItems)) \in Seq(Worker)
        /\ Len(SubSeq(pItems, n + 1, Len(pItems))) = Len(pItems) - n
        /\ \A k \in 1..Len(pItems) - n : SubSeq(pItems, n + 1, Len(pItems))[k] = pItems[n + k]
    BY Zenon, <1>2, <2>1, Dropped
  <2> QED
    BY Zenon, <1>1, <2>2
<1>5. /\ pArrays' \in Seq(Seq(Worker \cup {Nil})) /\ pExpiry' \in Purge!Slice
      /\ pExpiry'.array \in 1..Len(pArrays') /\ pExpiry'.len = n
      /\ n <= Len(pArrays'[pExpiry'.array])
      /\ \A k \in 1..n : pArrays'[pExpiry'.array][k] = pItems[k]
  BY Zenon, <1>1, <1>3, PurgeFilled DEF PurgeIInv, Purge!TypeOK
<1>6. /\ pSpc'[s] = "notify" /\ pSlice'[s] = pExpiry' /\ pI'[s] = 1
      /\ \A r \in Purge!Scavenger \ {s} : pSpc'[r] = pSpc[r] /\ pSpc[r] # "notify"
  BY Zenon, <1>1 DEF Purge!Purge, PurgeIInv, Purge!TypeOK, PurgeAlone
<1>7. \A w \in Worker : pWhere'[w] = IF \E k \in 1..n : pItems[k] = w THEN "purged" ELSE pWhere[w]
  BY Zenon, <1>1, <1>3
<1>8. Purge!TypeOK'
  <2>1. pWhere' \in [Worker -> {"busy", "idle", "purged", "ended"}]
    BY Zenon, <1>1 DEF PurgeIInv, Purge!TypeOK
  <2>2. pSlice' \in [Purge!Scavenger -> Purge!Slice] /\ pI' \in [Purge!Scavenger -> Nat]
    BY Zenon, <1>1, <1>5 DEF Purge!Purge, PurgeIInv, Purge!TypeOK
  <2> QED
    BY Zenon, <1>4, <1>5, <2>1, <2>2 DEF Purge!Purge, PurgeIInv, Purge!TypeOK
<1>9. PurgeStacked'
  <2>1. \A j, k \in 1..Len(pItems) : pItems[j] = pItems[k] => j = k
    BY Zenon DEF PurgeIInv, PurgeStacked
  <2>2. \A j, k \in 1..Len(pItems') : pItems'[j] = pItems'[k] => j = k
    BY <1>2, <1>4, <2>1
  <2>3. ASSUME NEW w \in Worker
        PROVE  pWhere'[w] = "idle" <=> \E k \in 1..Len(pItems') : pItems'[k] = w
    <3>1. pWhere[w] = "idle" <=> \E k \in 1..Len(pItems) : pItems[k] = w
      BY Zenon DEF PurgeIInv, PurgeStacked
    <3>2. ASSUME NEW k \in 1..Len(pItems') PROVE n + k \in 1..Len(pItems) /\ n + k > n
      BY <1>2, <1>4
    <3>3. ASSUME NEW k \in 1..Len(pItems), k > n
          PROVE  k - n \in 1..Len(pItems') /\ pItems'[k - n] = pItems[k]
      <4>1. k - n \in 1..Len(pItems) - n /\ n + (k - n) = k
        BY <1>2, <3>3
      <4> QED
        BY Zenon, <1>4, <4>1
    <3>4. (\E k \in 1..Len(pItems') : pItems'[k] = w)
             <=> \E k \in 1..Len(pItems) : k > n /\ pItems[k] = w
      BY Zenon, <1>2, <1>4, <3>2, <3>3
    <3>5. (\E k \in 1..Len(pItems) : k > n /\ pItems[k] = w)
             <=> (\E k \in 1..Len(pItems) : pItems[k] = w) /\ ~\E k \in 1..n : pItems[k] = w
      BY <1>2, <2>1
    <3> QED
      BY Zenon, <1>7, <3>1, <3>4, <3>5
  <2> QED
    BY Zenon, <2>2, <2>3 DEF PurgeStacked
<1>10. PurgeAlone'
  BY <1>6 DEF PurgeAlone, PurgeIInv, Purge!Purge
<1>11. PurgeListed(s)'
  <2>1. \A k \in 1..n : pItems[k] \in Worker
    BY <1>2
  <2>2. \A j, k \in 1..n : pItems[j] = pItems[k] => j = k
    BY <1>2 DEF PurgeIInv, PurgeStacked
  <2>3. pSlice'[s].array = pExpiry'.array /\ pSlice'[s].len = n
    BY Zenon, <1>5, <1>6
  <2>4. \A k \in 1..n : pArrays'[pSlice'[s].array][k] = pItems[k]
    BY Zenon, <1>5, <2>3
  <2> QED
    <3>1. pSlice'[s].array \in 1..Len(pArrays') /\ pSlice'[s].len <= Len(pArrays'[pSlice'[s].array])
      BY Zenon, <1>5, <2>3
    <3>2. 1 \in 1..n + 1
      OBVIOUS
    <3>3. pI'[s] = 1 /\ pI'[s]..pSlice'[s].len = 1..n
      BY Zenon, <1>6, <2>3
    <3>4. /\ \A k \in 1..n : pArrays'[pSlice'[s].array][k] \in Worker
          /\ \A j, k \in 1..n : pArrays'[pSlice'[s].array][j] = pArrays'[pSlice'[s].array][k] => j = k
      BY Zenon, <2>1, <2>2, <2>4
    <3> QED
      BY Zenon, <2>3, <3>1, <3>2, <3>3, <3>4 DEF PurgeListed
<1>12. PurgeTold'
  <2>1. ASSUME NEW w \in Worker PROVE pWhere[w] # "purged"
    BY Zenon, <1>6 DEF PurgeIInv, PurgeTold, Purge!Purge
  <2>2. ASSUME NEW w \in Worker
        PROVE  pWhere'[w] = "purged" <=> \E k \in 1..n : pItems[k] = w
    BY Zenon, <1>7, <2>1
  <2>3. pSlice'[s].array = pExpiry'.array /\ pSlice'[s].len = n
    BY Zenon, <1>5, <1>6
  <2>4. \A k \in 1..n : pArrays'[pSlice'[s].array][k] = pItems[k]
    BY Zenon, <1>5, <2>3
  <2> QED
    BY <1>6, <2>2, <2>3, <2>4 DEF PurgeTold
<1>13. pExpiry'.array \in 0..Len(pArrays')
  BY <1>5
<1>14. \A r \in Purge!Scavenger : pSpc'[r] = "notify" => PurgeListed(r)'
  BY Zenon, <1>6, <1>11
<1> QED
  BY Zenon, <1>8, <1>9, <1>10, <1>12, <1>13, <1>14 DEF PurgeIInv

\* The scavenger tells the next worker of its slice.
LEMMA PurgeNotifyStep ==
  ASSUME PurgeIInv, Purge!PurgeAssumption, NEW s \in Purge!Scavenger, Purge!Notify(s) PROVE PurgeIInv'
<1> DEFINE a == pSlice[s].array
<1>1. /\ a \in 1..Len(pArrays) /\ pSlice[s].len \in Nat /\ pI[s] \in Nat
      /\ pSlice[s].len <= Len(pArrays[a]) /\ pI[s] \in 1..pSlice[s].len + 1
      /\ pArrays[a] \in Seq(Worker \cup {Nil}) /\ Len(pArrays[a]) \in Nat
  BY Zenon, ElementOfSeq, LenProperties DEF Purge!Notify, PurgeIInv, Purge!TypeOK, PurgeListed,
     Purge!Slice
<1>2. \A r \in Purge!Scavenger \ {s} : pSpc[r] # "notify"
  BY Zenon DEF Purge!Notify, PurgeIInv, PurgeAlone
<1>3. CASE pI[s] > pSlice[s].len
  <2>1. /\ \A r \in Purge!Scavenger : pSpc'[r] = IF r = s THEN "tick" ELSE pSpc[r]
        /\ pSlice' \in [Purge!Scavenger -> Purge!Slice] /\ pI' \in [Purge!Scavenger -> Nat]
        /\ UNCHANGED <<pWhere, pArrays, pState, pItems, pExpiry>>
    <3>1. Purge!Empty \in Purge!Slice
      BY Zenon DEF Purge!Empty, Purge!Slice
    <3>2. /\ pSpc' = [pSpc EXCEPT ![s] = "tick"]
          /\ pSlice' = [pSlice EXCEPT ![s] = Purge!Empty] /\ pI' = [pI EXCEPT ![s] = 0]
          /\ UNCHANGED <<pWhere, pArrays, pState, pItems, pExpiry>>
      BY Zenon, <1>3 DEF Purge!Notify
    <3> QED
      BY Zenon, <3>1, <3>2 DEF PurgeIInv, Purge!TypeOK
  <2>2. Purge!TypeOK' /\ PurgeStacked'
    BY <1>3, <2>1 DEF Purge!Notify, PurgeIInv, Purge!TypeOK, PurgeStacked
  <2>3. PurgeAlone'
    BY Zenon, <2>1 DEF PurgeIInv, PurgeAlone, Purge!Notify
  <2>4. \A w \in Worker : pWhere[w] # "purged"
    <3>1. pI[s]..pSlice[s].len = {}
      BY <1>1, <1>3
    <3> QED
      BY Zenon, <1>2, <3>1 DEF PurgeIInv, PurgeTold
  <2> QED
    BY ZenonT(30), <1>2, <2>1, <2>2, <2>3, <2>4 DEF PurgeIInv, PurgeTold
<1>4. CASE ~(pI[s] > pSlice[s].len)
  <2>1. pI[s] \in 1..pSlice[s].len /\ Purge!Slot(s) \in Worker /\ Purge!Slot(s) = pArrays[a][pI[s]]
    <3>1. pI[s] \in 1..pSlice[s].len /\ pI[s] \in pI[s]..pSlice[s].len
      BY <1>1, <1>4
    <3> QED
      BY Zenon, <3>1 DEF Purge!Slot, PurgeIInv, PurgeListed, Purge!Notify
  <2>2. Purge!Slot(s) # Nil
    BY Zenon, <2>1 DEF Purge!PurgeAssumption
  <2>3. /\ pWhere' = [pWhere EXCEPT ![Purge!Slot(s)] = "ended"]
        /\ pArrays' = [pArrays EXCEPT ![a][pI[s]] = Nil]
        /\ pI' = [pI EXCEPT ![s] = @ + 1]
        /\ UNCHANGED <<pSpc, pSlice, pState, pItems, pExpiry>>
    BY Zenon, <1>4, <2>2 DEF Purge!Notify
  <2>4. pI[s] \in 1..Len(pArrays[a])
    BY <1>1, <2>1
  <2>5. /\ [pArrays[a] EXCEPT ![pI[s]] = Nil] \in Seq(Worker \cup {Nil})
        /\ Len([pArrays[a] EXCEPT ![pI[s]] = Nil]) = Len(pArrays[a])
        /\ \A k \in 1..Len(pArrays[a]) : k # pI[s] => [pArrays[a] EXCEPT ![pI[s]] = Nil][k] = pArrays[a][k]
    BY <1>1, <2>4, ExceptSeq
  <2>6. /\ pArrays' \in Seq(Seq(Worker \cup {Nil})) /\ Len(pArrays') = Len(pArrays)
        /\ Len(pArrays'[a]) = Len(pArrays[a])
        /\ \A k \in 1..Len(pArrays[a]) : k # pI[s] => pArrays'[a][k] = pArrays[a][k]
    <3>1. pArrays \in Seq(Seq(Worker \cup {Nil}))
      BY Zenon DEF PurgeIInv, Purge!TypeOK
    <3>2. pArrays' = [pArrays EXCEPT ![a] = [pArrays[a] EXCEPT ![pI[s]] = Nil]]
      BY Zenon, <2>3
    <3> QED
      BY <1>1, <2>5, <3>1, <3>2, ExceptSeq
  <2>7. pI'[s] = pI[s] + 1 /\ pI' \in [Purge!Scavenger -> Nat]
    BY <1>1, <2>3 DEF PurgeIInv, Purge!TypeOK
  <2>8. \A w \in Worker : pWhere'[w] = IF w = Purge!Slot(s) THEN "ended" ELSE pWhere[w]
    BY Zenon, <2>3 DEF PurgeIInv, Purge!TypeOK
  <2>9. Purge!TypeOK'
    BY Zenon, <2>1, <2>3, <2>6, <2>7 DEF PurgeIInv, Purge!TypeOK
  <2>10. pWhere[Purge!Slot(s)] = "purged"
    <3>1. pI[s] \in pI[s]..pSlice[s].len
      BY <1>1, <2>1
    <3> QED
      <4>1. pSpc[s] = "notify" /\ pArrays[pSlice[s].array][pI[s]] = Purge!Slot(s)
        BY Zenon, <2>1 DEF Purge!Notify
      <4>2. PurgeTold
        BY Zenon DEF PurgeIInv
      <4>3. \E k \in pI[s]..pSlice[s].len : pArrays[pSlice[s].array][k] = Purge!Slot(s)
        BY Zenon, <3>1, <4>1
      <4>4. \E r \in Purge!Scavenger : /\ pSpc[r] = "notify"
              /\ \E k \in pI[r]..pSlice[r].len : pArrays[pSlice[r].array][k] = Purge!Slot(s)
        BY Zenon, <4>1, <4>3
      <4> HIDE DEF a
      <4> QED
        BY Zenon, <2>1, <4>2, <4>4 DEF PurgeTold
  <2>11. PurgeStacked' /\ PurgeAlone'
    BY <2>3, <2>8, <2>10 DEF PurgeIInv, PurgeStacked, PurgeAlone
  <2>12. PurgeListed(s)'
    <3>1. /\ \A k \in pI[s]..pSlice[s].len : pArrays[a][k] \in Worker
          /\ \A j, k \in pI[s]..pSlice[s].len : pArrays[a][j] = pArrays[a][k] => j = k
      BY Zenon DEF PurgeIInv, PurgeListed, Purge!Notify
    <3>2. ASSUME NEW k \in pI[s] + 1..pSlice[s].len
          PROVE  pArrays'[a][k] = pArrays[a][k] /\ k \in pI[s]..pSlice[s].len
      <4>1. k \in Int /\ pI[s] + 1 <= k /\ k <= pSlice[s].len
        BY <1>1
      <4>2. k \in 1..Len(pArrays[a])
        BY <1>1, <4>1
      <4>3. k # pI[s] /\ k \in pI[s]..pSlice[s].len
        BY <1>1, <4>1
      <4> QED
        BY Zenon, <2>6, <4>2, <4>3
    <3>3. pSlice'[s] = pSlice[s]
      BY Zenon, <2>3
    <3>4. pI'[s] \in 1..pSlice[s].len + 1
      BY <1>1, <2>1, <2>7
    <3>5. pI'[s]..pSlice'[s].len = pI[s] + 1..pSlice[s].len
      BY Zenon, <2>7, <3>3
    <3>6. /\ \A k \in pI[s] + 1..pSlice[s].len : pArrays'[a][k] \in Worker
          /\ \A j, k \in pI[s] + 1..pSlice[s].len : pArrays'[a][j] = pArrays'[a][k] => j = k
      BY Zenon, <3>1, <3>2
    <3>7. pSlice'[s].array = a /\ a \in 1..Len(pArrays') /\ pSlice'[s].len <= Len(pArrays'[a])
      BY Zenon, <1>1, <2>6, <3>3
    <3> QED
      BY Zenon, <3>3, <3>4, <3>5, <3>6, <3>7 DEF PurgeListed
  <2>13. ASSUME NEW w \in Worker
         PROVE  pWhere'[w] = "purged" <=> \E k \in pI[s] + 1..pSlice[s].len : pArrays[a][k] = w
    <3>1. pWhere[w] = "purged" <=> \E k \in pI[s]..pSlice[s].len : pArrays[a][k] = w
      BY <1>2 DEF PurgeIInv, PurgeTold, Purge!Notify
    <3>2. \A j, k \in pI[s]..pSlice[s].len : pArrays[a][j] = pArrays[a][k] => j = k
      BY Zenon DEF PurgeIInv, PurgeListed, Purge!Notify
    <3>3. (\E k \in pI[s] + 1..pSlice[s].len : pArrays[a][k] = w)
            <=> w # pArrays[a][pI[s]] /\ \E k \in pI[s]..pSlice[s].len : pArrays[a][k] = w
      <4>1. \A k \in pI[s]..pSlice[s].len : k = pI[s] \/ k \in pI[s] + 1..pSlice[s].len
        BY <1>1
      <4>2. \A k \in pI[s] + 1..pSlice[s].len : k # pI[s] /\ k \in pI[s]..pSlice[s].len
        BY <1>1
      <4>3. pI[s] \in pI[s]..pSlice[s].len
        BY <2>1
      <4> QED
        BY Zenon, <3>2, <4>1, <4>2, <4>3
    <3> QED
      BY Zenon, <2>1, <2>8, <3>1, <3>3
  <2>14. PurgeTold'
    <3>1. ASSUME NEW k \in pI[s] + 1..pSlice[s].len PROVE pArrays'[a][k] = pArrays[a][k]
      <4>1. k \in Int /\ pI[s] + 1 <= k /\ k <= pSlice[s].len
        BY <1>1
      <4>2. k \in 1..Len(pArrays[a]) /\ k # pI[s]
        BY <1>1, <4>1
      <4> QED
        BY Zenon, <2>6, <4>2
    <3>2. ASSUME NEW w \in Worker
          PROVE  pWhere'[w] = "purged" <=>
                   \E k \in pI'[s]..pSlice'[s].len : pArrays'[pSlice'[s].array][k] = w
      <4>1. pI'[s]..pSlice'[s].len = pI[s] + 1..pSlice[s].len /\ pSlice'[s].array = a
        BY Zenon, <2>3, <2>7
      <4>2. (\E k \in pI[s] + 1..pSlice[s].len : pArrays[a][k] = w)
              <=> \E k \in pI[s] + 1..pSlice[s].len : pArrays'[a][k] = w
        BY Zenon, <3>1
      <4> HIDE DEF a
      <4> QED
        BY Zenon, <2>13, <4>1, <4>2
    <3>3. \A r \in Purge!Scavenger : pSpc'[r] = "notify" <=> r = s
      BY Zenon, <1>2, <2>3 DEF Purge!Notify
    <3> QED
      BY Zenon, <3>2, <3>3 DEF PurgeTold
  <2> QED
    BY Zenon, <1>2, <2>3, <2>6, <2>9, <2>11, <2>12, <2>14 DEF PurgeIInv
<1> QED
  BY Zenon, <1>3, <1>4

\* Every step keeps the invariant.
LEMMA PurgeNextHolds == ASSUME Purge!PurgeAssumption, RebootWaits PROVE PurgeIInv /\ [Purge!Next]_(Purge!vars) => PurgeIInv'
<1> SUFFICES ASSUME PurgeIInv, [Purge!Next]_(Purge!vars) PROVE PurgeIInv'
  BY Zenon
<1>1. CASE UNCHANGED Purge!vars
  <2>1. Purge!TypeOK' /\ PurgeStacked'
    BY <1>1 DEF Purge!vars, PurgeIInv, Purge!TypeOK, PurgeStacked
  <2> QED
    BY Zenon, <1>1, <2>1, PurgeUndisturbed DEF Purge!vars, Purge!sliceVars, Purge!scavVars
<1> QED
  BY Zenon, <1>1, PurgeSpawnStep, PurgeDetachStep, PurgeRevertStep, PurgeReleaseStep,
     PurgeRebootStep, PurgePurgeStep, PurgeStopStep, PurgeNotifyStep DEF Purge!Next

\* The invariant says that every purged worker is still to be told.
LEMMA PurgeIInvTells == ASSUME PurgeIInv PROVE Purge!TypeOK /\ Purge!PurgedWorkersAreTold
<1>1. Purge!TypeOK /\ \A s \in Purge!Scavenger : pSpc[s] = "notify" => PurgeListed(s)
  BY Zenon DEF PurgeIInv
<1>2. ASSUME NEW w PROVE
        w \in {v \in Worker : pWhere[v] = "purged"} <=> w \in UNION {Purge!Pending(s) : s \in Purge!Scavenger}
  <2>1. ASSUME NEW s \in Purge!Scavenger
        PROVE  w \in Purge!Pending(s) <=>
                 /\ pSpc[s] = "notify"
                 /\ \E k \in pI[s]..pSlice[s].len : pArrays[pSlice[s].array][k] = w
    BY Zenon DEF Purge!Pending
  <2>2. \A s \in Purge!Scavenger : w \in Purge!Pending(s) => w \in Worker
    <3> TAKE s \in Purge!Scavenger
    <3> HAVE w \in Purge!Pending(s)
    <3>1. PICK k \in pI[s]..pSlice[s].len : pArrays[pSlice[s].array][k] = w
      BY Zenon, <2>1
    <3> QED
      BY Zenon, <1>1, <2>1, <3>1 DEF PurgeListed
  <2>3. w \in Worker => (pWhere[w] = "purged" <=> \E s \in Purge!Scavenger : w \in Purge!Pending(s))
    BY Zenon, <2>1 DEF PurgeIInv, PurgeTold
  <2> QED
    BY Zenon, <2>2, <2>3
<1> QED
  BY Zenon, <1>1, <1>2 DEF Purge!PurgedWorkersAreTold

(***************************************************************************)
(* When Reboot waits for the old scavenger, every worker that a purge has  *)
(* taken off the stack is in the part of the slice that is still to be     *)
(* told, for every number of workers and of scavengers one after another.  *)
(***************************************************************************)
THEOREM Purged == ASSUME Purge!PurgeAssumption, RebootWaits PROVE Purge!Spec => []PurgedWorkersAreTold
  BY PurgeInitHolds, PurgeNextHolds, PurgeIInvTells, PTL DEF Purge!Spec, PurgedWorkersAreTold

-----------------------------------------------------------------------------
(***************************************************************************)
(* FSM.  A call that nobody has disturbed knows the state of the machine.  *)
(***************************************************************************)

\* GetDestState follows a transition of the event.
LEMMA FsmDestIsListed ==
  ASSUME Fsm!FSMAssumption, NEW event, Fsm!Can(event)
  PROVE  Fsm!GetDestState(event) \in States /\ Fsm!Listed(fCurrent, Fsm!GetDestState(event), event)
<1> DEFINE T == {i \in DOMAIN Transitions : Fsm!Usable(Transitions[i], event)}
<1>1. T # {} /\ T \in SUBSET Nat
  BY Zenon DEF Fsm!Can, Fsm!FSMAssumption
<1>2. PICK i \in T : \A j \in T : i <= j
  BY Zenon, <1>1, Least
<1>3. \E k \in DOMAIN Transitions :
        /\ Fsm!Usable(Transitions[k], event)
        /\ \A j \in DOMAIN Transitions : Fsm!Usable(Transitions[j], event) => k <= j
  BY Zenon, <1>2
<1>4. Fsm!FirstUsable(event) \in DOMAIN Transitions /\ Fsm!Usable(Transitions[Fsm!FirstUsable(event)], event)
  BY Zenon, <1>3 DEF Fsm!FirstUsable
<1> QED
  BY Zenon, <1>4 DEF Fsm!GetDestState, Fsm!Listed, Fsm!Usable, Fsm!FSMAssumption

\* The call of p, which nobody disturbed, knows the state of the machine.
FsmKnows(p) ==
    /\ fPc[p] = "idle" => fCall[p] = Fsm!NoCall
    /\ fPc[p] # "idle" => fCall[p].event \in Fsm!Events /\ fCall[p].dst \in States
    /\ fPc[p] # "idle" /\ fCall[p].op = "Event" => fMu = p
    /\ fPc[p] \in {"check", "set"} /\ ~fDisturbed[p] => Fsm!Listed(fCurrent, fCall[p].dst, fCall[p].event)
    /\ fPc[p] = "enter" /\ ~fDisturbed[p] => fCall[p].dst = fCurrent

\* The shape of a call.
FsmCallShape == [op : {"none", "Event", "EventNoArgs"}, event : Fsm!Events \cup {Nil}, dst : States]

\* The inductive invariant.
FsmIInv ==
       /\ Fsm!TypeOK /\ fCall \in [Callers -> FsmCallShape]
       /\ fDisturbed \in [Callers -> BOOLEAN]
       /\ \A p \in Callers : FsmKnows(p)
       /\ Fsm!MovesAreListed /\ Fsm!EntersItsState

\* The machine starts in the invariant: nobody has called.
LEMMA FsmInitHolds == ASSUME Fsm!FSMAssumption PROVE Fsm!Init => FsmIInv
<1> SUFFICES ASSUME Fsm!Init PROVE FsmIInv
  BY Zenon
<1>1. Fsm!TypeOK /\ fDisturbed \in [Callers -> BOOLEAN]
  BY Zenon DEF Fsm!Init, Fsm!TypeOK, Fsm!FSMAssumption
<1>2. fCall \in [Callers -> FsmCallShape]
  BY Zenon DEF Fsm!Init, Fsm!NoCall, FsmCallShape, Fsm!FSMAssumption
<1>3. \A p \in Callers : FsmKnows(p)
  BY Zenon DEF Fsm!Init, FsmKnows
<1>4. Fsm!MovesAreListed /\ Fsm!EntersItsState
  BY Zenon DEF Fsm!Init, Fsm!MovesAreListed, Fsm!EntersItsState, Fsm!NoMove
<1> QED
  BY Zenon, <1>1, <1>2, <1>3, <1>4 DEF FsmIInv

\* Event and EventNoArgs look the transition up, under the lock or without it.
LEMMA FsmEventStep ==
  ASSUME Fsm!FSMAssumption, FsmIInv, NEW p \in Callers, NEW op \in {"Event", "EventNoArgs"},
         NEW event \in Fsm!Events, Fsm!Event(p, op, event)
  PROVE  FsmIInv'
<1>1. CASE ~Fsm!Can(event)
  <2>1. UNCHANGED <<fCurrent, fMoves, fMu, fPc, fCall, fDisturbed>>
    BY Zenon, <1>1 DEF Fsm!Event
  <2> QED
    BY Zenon, <2>1 DEF FsmIInv, Fsm!TypeOK, FsmKnows, Fsm!MovesAreListed, Fsm!EntersItsState,
       Fsm!Listed
<1>2. CASE Fsm!Can(event)
  <2> DEFINE c == [op |-> op, event |-> event, dst |-> Fsm!GetDestState(event)]
  <2>1. /\ fPc' = [fPc EXCEPT ![p] = "check"] /\ fCall' = [fCall EXCEPT ![p] = c]
        /\ fDisturbed' = [fDisturbed EXCEPT ![p] = FALSE]
        /\ fMu' = IF op = "Event" THEN p ELSE fMu
        /\ UNCHANGED <<fCurrent, fMoves>> /\ fPc[p] = "idle"
        /\ op = "Event" => fMu = Nil
    BY Zenon, <1>2 DEF Fsm!Event
  <2>2. Fsm!GetDestState(event) \in States /\ Fsm!Listed(fCurrent, Fsm!GetDestState(event), event)
    BY Zenon, <1>2, FsmDestIsListed
  <2>3. /\ fPc'[p] = "check" /\ fCall'[p] = c /\ ~fDisturbed'[p]
        /\ \A q \in Callers \ {p} : fPc'[q] = fPc[q] /\ fCall'[q] = fCall[q] /\ fDisturbed'[q] = fDisturbed[q]
    BY Zenon, <2>1 DEF FsmIInv, Fsm!TypeOK
  <2>4. c \in FsmCallShape
    BY Zenon, <2>2 DEF FsmCallShape
  <2>5. fCall' \in [Callers -> FsmCallShape] /\ fDisturbed' \in [Callers -> BOOLEAN]
    BY Zenon, <2>1, <2>4 DEF FsmIInv, FsmCallShape
  <2>6. Fsm!TypeOK'
    BY Zenon, <2>1 DEF FsmIInv, Fsm!TypeOK
  <2>7. FsmKnows(p)'
    BY <2>1, <2>2, <2>3 DEF FsmKnows, Fsm!Listed
  <2>8. ASSUME NEW q \in Callers \ {p} PROVE FsmKnows(q)'
    <3>1. FsmKnows(q) /\ q # Nil /\ (fMu = q => fMu' = q)
      BY Zenon, <2>1 DEF FsmIInv, Fsm!FSMAssumption
    <3> QED
      BY ZenonT(30), <2>1, <2>3, <3>1 DEF FsmKnows, Fsm!Listed
  <2> QED
    BY Zenon, <2>1, <2>5, <2>6, <2>7, <2>8 DEF FsmIInv, FsmCallShape, Fsm!MovesAreListed,
       Fsm!EntersItsState, Fsm!Listed
<1> QED
  BY Zenon, <1>1, <1>2

\* The steps that leave the state of the machine alone.
LEMMA FsmReturnStep ==
  ASSUME Fsm!FSMAssumption, FsmIInv, NEW p \in Callers, fPc[p] # "idle", Fsm!Return(p),
         UNCHANGED <<fCurrent, fDisturbed>>, Fsm!MovesAreListed', Fsm!EntersItsState'
  PROVE  FsmIInv'
<1>1. /\ fPc' = [fPc EXCEPT ![p] = "idle"] /\ fCall' = [fCall EXCEPT ![p] = Fsm!NoCall]
      /\ fMu' = IF fCall[p].op = "Event" THEN Nil ELSE fMu
  BY Zenon DEF Fsm!Return, Fsm!Unlock
<1>2. /\ fPc'[p] = "idle" /\ fCall'[p] = Fsm!NoCall
      /\ \A q \in Callers \ {p} : fPc'[q] = fPc[q] /\ fCall'[q] = fCall[q]
  BY Zenon, <1>1 DEF FsmIInv, Fsm!TypeOK
<1>3. Fsm!NoCall \in FsmCallShape
  BY Zenon DEF Fsm!NoCall, FsmCallShape, Fsm!FSMAssumption
<1>4. fCall' \in [Callers -> FsmCallShape]
  BY Zenon, <1>1, <1>3 DEF FsmIInv, FsmCallShape
<1>5. Fsm!TypeOK'
  BY Zenon, <1>1 DEF FsmIInv, Fsm!TypeOK
<1>6. FsmKnows(p)'
  BY Zenon, <1>2 DEF FsmKnows
<1>7. ASSUME NEW q \in Callers \ {p} PROVE FsmKnows(q)'
  <2>1. FsmKnows(q) /\ FsmKnows(p)
    BY Zenon DEF FsmIInv
  <2>2. fMu = q => fMu' = q
    BY Zenon, <1>1, <2>1 DEF FsmKnows
  <2> QED
    BY Zenon, <1>2, <2>1, <2>2 DEF FsmKnows, Fsm!Listed
<1> QED
  BY Zenon, <1>4, <1>5, <1>6, <1>7 DEF FsmIInv, FsmCallShape

\* The check callbacks change nothing, or end the call.
LEMMA FsmCheckStep ==
  ASSUME Fsm!FSMAssumption, FsmIInv, NEW p \in Callers, Fsm!beforeEventCallbacks(p)
  PROVE  FsmIInv'
<1>1. fPc[p] = "check" /\ UNCHANGED <<fCurrent, fDisturbed, fMoves>>
  BY Zenon DEF Fsm!beforeEventCallbacks
<1>2. Fsm!MovesAreListed' /\ Fsm!EntersItsState'
  BY Zenon, <1>1 DEF FsmIInv, Fsm!MovesAreListed, Fsm!EntersItsState, Fsm!Listed
<1>3. CASE Fsm!Return(p)
  BY Zenon, <1>1, <1>2, <1>3, FsmReturnStep
<1>4. CASE fPc' = [fPc EXCEPT ![p] = "set"] /\ UNCHANGED <<fMu, fCall>>
  <2>1. fPc'[p] = "set" /\ \A q \in Callers \ {p} : fPc'[q] = fPc[q]
    BY Zenon, <1>4 DEF FsmIInv, Fsm!TypeOK
  <2>2. \A q \in Callers : FsmKnows(q)'
    BY <1>1, <1>4, <2>1 DEF FsmIInv, FsmKnows, Fsm!Listed
  <2> QED
    BY Zenon, <1>1, <1>2, <1>4, <2>2 DEF FsmIInv, Fsm!TypeOK
<1> QED
  BY Zenon, <1>3, <1>4 DEF Fsm!beforeEventCallbacks

\* A write of the state disturbs every call that does not know of it.
LEMMA FsmDisturbed ==
  ASSUME FsmIInv, NEW p \in Callers, Fsm!Disturb(p), NEW q \in Callers \ {p}, fPc[q] # "idle"
  PROVE  fDisturbed' \in [Callers -> BOOLEAN] /\ fDisturbed'[q]
<1>1. ~(fPc[p] # "idle" /\ fCall[p].op = "Event" /\ fCall[q].op = "Event")
  BY Zenon DEF FsmIInv, FsmKnows
<1>2. fPc[p] = "idle" => fCall[p].op # "Event"
  BY DEF FsmIInv, FsmKnows, Fsm!NoCall
<1>3. Fsm!Meets(p, q)
  BY Zenon, <1>1, <1>2 DEF Fsm!Meets
<1> QED
  BY Zenon, <1>3 DEF Fsm!Disturb

\* The transition is the one that was looked up, unless the call was disturbed.
LEMMA FsmTransitStep ==
  ASSUME Fsm!FSMAssumption, FsmIInv, NEW p \in Callers, Fsm!Transit(p)
  PROVE  FsmIInv'
<1>1. /\ fPc[p] = "set" /\ fCurrent' = fCall[p].dst /\ fPc' = [fPc EXCEPT ![p] = "enter"]
      /\ UNCHANGED <<fMu, fCall>> /\ Fsm!Disturb(p)
      /\ fMoves' = [from |-> fCurrent, to |-> fCurrent', event |-> fCall[p].event, clean |-> ~fDisturbed[p]]
  BY Zenon DEF Fsm!Transit
<1>2. FsmKnows(p)
  BY Zenon DEF FsmIInv
<1>3. fPc'[p] = "enter" /\ \A q \in Callers \ {p} : fPc'[q] = fPc[q]
  BY Zenon, <1>1 DEF FsmIInv, Fsm!TypeOK
<1>4. Fsm!TypeOK'
  BY Zenon, <1>1, <1>2 DEF FsmIInv, Fsm!TypeOK, FsmKnows
<1>5. fDisturbed' \in [Callers -> BOOLEAN]
  BY Zenon, <1>1 DEF Fsm!Disturb
<1>6. FsmKnows(p)'
  BY Zenon, <1>1, <1>2, <1>3 DEF FsmKnows
<1>7. ASSUME NEW q \in Callers \ {p} PROVE FsmKnows(q)'
  <2>1. FsmKnows(q) /\ (fPc[q] # "idle" => fDisturbed'[q])
    BY Zenon, <1>1, FsmDisturbed DEF FsmIInv
  <2> QED
    BY Zenon, <1>1, <1>3, <2>1 DEF FsmKnows
<1>8. Fsm!MovesAreListed' /\ Fsm!EntersItsState'
  <2>1. fCall[p].event # Nil
    BY Zenon, <1>1, <1>2 DEF FsmKnows, Fsm!FSMAssumption
  <2>2. fMoves'.event # Nil
    BY Zenon, <1>1, <2>1
  <2>3. fMoves'.clean => Fsm!Listed(fCurrent, fCall[p].dst, fCall[p].event)
    BY Zenon, <1>1, <1>2 DEF FsmKnows
  <2> QED
    BY Zenon, <1>1, <2>2, <2>3 DEF Fsm!MovesAreListed, Fsm!EntersItsState, Fsm!Listed
<1> QED
  BY Zenon, <1>1, <1>4, <1>5, <1>6, <1>7, <1>8 DEF FsmIInv

\* The enter callback runs, and the call returns.
LEMMA FsmEnterStep ==
  ASSUME Fsm!FSMAssumption, FsmIInv, NEW p \in Callers, Fsm!enterStateCallbacks(p)
  PROVE  FsmIInv'
<1>1. /\ fPc[p] = "enter" /\ Fsm!Return(p) /\ UNCHANGED <<fCurrent, fDisturbed>>
      /\ fMoves' = IF fCurrent \in Entered /\ ~fDisturbed[p]
                   THEN [from |-> fCall[p].dst, to |-> fCurrent, event |-> Nil, clean |-> TRUE]
                   ELSE Fsm!NoMove
  BY Zenon DEF Fsm!enterStateCallbacks
<1>2. ~fDisturbed[p] => fCall[p].dst = fCurrent
  BY Zenon, <1>1 DEF FsmIInv, FsmKnows
<1>3. Fsm!MovesAreListed' /\ Fsm!EntersItsState'
  BY Zenon, <1>1, <1>2 DEF Fsm!MovesAreListed, Fsm!EntersItsState, Fsm!NoMove
<1> QED
  BY Zenon, <1>1, <1>3, FsmReturnStep

\* SetState and Reset of a user.
LEMMA FsmAssignStep ==
  ASSUME Fsm!FSMAssumption, FsmIInv, NEW p \in Callers, NEW s \in States, fPc[p] = "idle",
         fCurrent' = s, Fsm!Disturb(p), fMoves' = Fsm!NoMove, UNCHANGED <<fMu, fPc, fCall>>
  PROVE  FsmIInv'
<1>1. Fsm!TypeOK' /\ fDisturbed' \in [Callers -> BOOLEAN]
  BY Zenon DEF FsmIInv, Fsm!TypeOK, Fsm!Disturb
<1>2. ASSUME NEW q \in Callers PROVE FsmKnows(q)'
  <2>1. FsmKnows(q) /\ (fPc[q] # "idle" => fDisturbed'[q])
    BY Zenon, FsmDisturbed DEF FsmIInv
  <2> QED
    BY Zenon, <2>1 DEF FsmKnows
<1>3. Fsm!MovesAreListed' /\ Fsm!EntersItsState'
  BY Zenon DEF Fsm!MovesAreListed, Fsm!EntersItsState, Fsm!NoMove
<1> QED
  BY Zenon, <1>1, <1>2, <1>3 DEF FsmIInv

\* Every step preserves the invariant.
LEMMA FsmNextHolds == ASSUME Fsm!FSMAssumption PROVE FsmIInv /\ [Fsm!Next]_(Fsm!vars) => FsmIInv'
<1> SUFFICES ASSUME FsmIInv, [Fsm!Next]_(Fsm!vars) PROVE FsmIInv'
  BY Zenon
<1>1. CASE UNCHANGED Fsm!vars
  BY Zenon, <1>1 DEF Fsm!vars, FsmIInv, Fsm!TypeOK, FsmKnows, Fsm!MovesAreListed,
     Fsm!EntersItsState, Fsm!Listed
<1>2. ASSUME NEW p \in Callers, NEW s \in States, Fsm!SetState(p, s) PROVE FsmIInv'
  BY Zenon, <1>2, FsmAssignStep DEF Fsm!SetState
<1>3. ASSUME NEW p \in Callers, Fsm!Reset(p) PROVE FsmIInv'
  BY Zenon, <1>3, FsmAssignStep DEF Fsm!Reset, Fsm!FSMAssumption
<1> QED
  BY Zenon, <1>1, <1>2, <1>3, FsmEventStep, FsmCheckStep, FsmTransitStep, FsmEnterStep DEF Fsm!Next,
     Fsm!Step

(***************************************************************************)
(* An Event that no SetState, Reset or EventNoArgs gets between moves      *)
(* along a listed transition, and the enter callback runs in its state,    *)
(* for every machine and every number of goroutines.                       *)
(***************************************************************************)
THEOREM Atomic == ASSUME Fsm!FSMAssumption PROVE Fsm!Spec => []EventsAreAtomic
<1>1. FsmIInv => EventsAreAtomic
  BY Zenon DEF FsmIInv, EventsAreAtomic
<1> QED
  BY <1>1, FsmInitHolds, FsmNextHolds, PTL DEF Fsm!Spec

-----------------------------------------------------------------------------
(***************************************************************************)
(* LoopQueue.  The ring is read by places behind the head: the workers at  *)
(* the first Length places are the idle ones, each once, and every slot    *)
(* that is no such place holds nil.                                        *)
(***************************************************************************)

\* RingHoldsIdleOnce by the places behind the head.
ByPlace ==
  /\ \A j, k \in 0 .. Ring!Length - 1 : Ring!At(j) = Ring!At(k) => j = k
  /\ \A k \in 0 .. Ring!Length - 1 :
       Ring!At(k) \in Worker /\ rWhere[Ring!At(k)] = "idle" /\ Ring!At(k) # rVictim
  /\ \A w \in Worker : rWhere[w] = "idle" /\ w # rVictim =>
       \E k \in 0 .. Ring!Length - 1 : Ring!At(k) = w
  /\ \A s \in 0 .. RingSize - 1 :
       (\A k \in 0 .. Ring!Length - 1 : Ring!Wrap(rHead + k) # s) => rItems[s] = Nil

RingInv == Ring!TypeOK /\ (rFull => rHead = rTail) /\ ByPlace

\* Where the indices are.
LEMMA WrapsInto ==
  ASSUME RingSize \in Nat \ {0}, NEW h \in 0 .. RingSize - 1, NEW k \in 0 .. RingSize
  PROVE Ring!Wrap(h + k) \in 0 .. RingSize - 1
BY DEF Ring!Wrap

\* Two places less than a round apart are different slots.
LEMMA WrapsApart ==
  ASSUME RingSize \in Nat \ {0}, NEW h \in 0 .. RingSize - 1,
         NEW j \in 0 .. RingSize - 1, NEW k \in 0 .. RingSize - 1,
         Ring!Wrap(h + j) = Ring!Wrap(h + k)
  PROVE j = k
BY DEF Ring!Wrap

\* Moving on twice is moving on by the sum.
LEMMA WrapsAdd ==
  ASSUME RingSize \in Nat \ {0}, NEW h \in 0 .. RingSize - 1, NEW n \in 0 .. RingSize,
         NEW k \in 0 .. RingSize - n
  PROVE Ring!Wrap(Ring!Wrap(h + n) + k) = Ring!Wrap(h + (n + k))
BY DEF Ring!Wrap

\* len, and where it ends.
LEMMA RingLength ==
  ASSUME Ring!QueueAssumption, Ring!TypeOK, rFull => rHead = rTail
  PROVE /\ Ring!Length \in 0 .. RingSize
        /\ Ring!Wrap(rHead + Ring!Length) = rTail
        /\ rFull <=> Ring!Length = RingSize
        /\ Ring!IsEmpty <=> Ring!Length = 0
BY DEF Ring!QueueAssumption, Ring!TypeOK, Ring!Length, Ring!Wrap, Ring!IsEmpty

\* insert puts the worker behind the last.
LEMMA InsertPlaces ==
  ASSUME Ring!QueueAssumption, RingInv, NEW w \in Worker, Ring!Insert(w), ~rFull
  PROVE /\ Ring!Length < RingSize /\ Ring!Length' = Ring!Length + 1
        /\ \A k \in 0 .. Ring!Length - 1 : Ring!At(k)' = Ring!At(k)
        /\ \A k \in 0 .. Ring!Length : k = Ring!Length => Ring!At(k)' = w
        /\ rFull' => rHead' = rTail'
        /\ rHead' = rHead /\ rTail' \in 0 .. RingSize - 1 /\ rFull' \in BOOLEAN
        /\ rItems' = [rItems EXCEPT ![Ring!Wrap(rHead + Ring!Length)] = w]
<1> DEFINE L == Ring!Length
<1>1. /\ RingSize \in Nat \ {0} /\ rHead \in 0 .. RingSize - 1 /\ rTail \in 0 .. RingSize - 1
      /\ rItems \in [0 .. RingSize - 1 -> Worker \cup {Nil}]
  BY Zenon DEF Ring!QueueAssumption, RingInv, Ring!TypeOK
<1>2. /\ rItems' = [rItems EXCEPT ![rTail] = w] /\ rTail' = Ring!Wrap(rTail + 1)
      /\ rFull' = (rTail' = rHead) /\ rHead' = rHead
  BY Zenon DEF Ring!Insert
<1>3. L \in 0 .. RingSize /\ Ring!Wrap(rHead + L) = rTail /\ L # RingSize
  BY RingLength, Zenon DEF RingInv
<1>4. L' = L + 1
  <2>1. /\ rTail' = rHead => rFull' /\ L' = RingSize
        /\ rTail' # rHead => L' = IF rTail' > rHead THEN rTail' - rHead ELSE RingSize - rHead + rTail'
    BY <1>2, Zenon DEF Ring!Length
  <2> QED BY <1>1, <1>2, <2>1 DEF Ring!Length, Ring!Wrap
<1>5. ASSUME NEW k \in 0 .. L PROVE Ring!At(k)' = rItems'[Ring!Wrap(rHead + k)]
  BY <1>2, Zenon DEF Ring!At, Ring!Wrap
<1> HIDE DEF L
<1>6. ASSUME NEW k \in 0 .. L - 1 PROVE Ring!At(k)' = Ring!At(k)
  <2>1. /\ k \in 0 .. RingSize - 1 /\ L \in 0 .. RingSize - 1 /\ k # L /\ k \in 0 .. L
        /\ k \in 0 .. RingSize
    BY <1>1, <1>3
  <2>2. Ring!Wrap(rHead + k) # rTail /\ Ring!Wrap(rHead + k) \in 0 .. RingSize - 1
    BY <1>1, <1>3, <2>1, WrapsApart, WrapsInto, Zenon
  <2> QED BY <1>1, <1>2, <1>5, <2>1, <2>2, Zenon DEF Ring!At
<1>7. ASSUME NEW k \in 0 .. L, k = L PROVE Ring!At(k)' = w
  BY <1>1, <1>2, <1>3, <1>5, <1>7, Zenon
<1>8. rTail' \in 0 .. RingSize - 1
  BY <1>1, <1>2 DEF Ring!Wrap
<1>9. L < RingSize
  BY <1>1, <1>3
<1> QED BY <1>2, <1>3, <1>4, <1>6, <1>7, <1>8, <1>9, Zenon DEF L

\* The first n leave, and the others move up.
LEMMA AdvancePlaces ==
  ASSUME Ring!QueueAssumption, RingInv, NEW n \in 1 .. Ring!Length, Ring!Advance(n)
  PROVE /\ Ring!Length' = Ring!Length - n
        /\ \A k \in 0 .. Ring!Length - n - 1 : Ring!At(k)' = Ring!At(n + k)
        /\ rFull' => rHead' = rTail'
        /\ rHead' \in 0 .. RingSize - 1 /\ rTail' = rTail /\ rFull' = FALSE
        /\ rItems' \in [0 .. RingSize - 1 -> Worker \cup {Nil}]
        /\ \A s \in 0 .. RingSize - 1 :
             (\A k \in 0 .. Ring!Length' - 1 : Ring!Wrap(rHead' + k) # s) => rItems'[s] = Nil
<1> DEFINE L == Ring!Length
<1>1. /\ RingSize \in Nat \ {0} /\ rHead \in 0 .. RingSize - 1 /\ rTail \in 0 .. RingSize - 1
      /\ rItems \in [0 .. RingSize - 1 -> Worker \cup {Nil}]
  BY Zenon DEF Ring!QueueAssumption, RingInv, Ring!TypeOK
<1>2. /\ rItems' = [i \in 0 .. RingSize - 1 |->
                      IF \E k \in 0 .. n - 1 : Ring!Wrap(rHead + k) = i THEN Nil ELSE rItems[i]]
      /\ rHead' = Ring!Wrap(rHead + n) /\ rFull' = FALSE /\ rTail' = rTail
  BY Zenon DEF Ring!Advance
<1>3. L \in 0 .. RingSize /\ Ring!Wrap(rHead + L) = rTail /\ n \in 1 .. L
  BY RingLength, Zenon DEF RingInv
<1>4. L' = L - n
  BY <1>1, <1>2, <1>3 DEF Ring!Length, Ring!Wrap
<1>5. ASSUME NEW k PROVE Ring!At(k)' = rItems'[Ring!Wrap(rHead' + k)]
  BY Zenon DEF Ring!At, Ring!Wrap
<1> HIDE DEF L
<1>6. ASSUME NEW k \in 0 .. L - n - 1
      PROVE /\ Ring!Wrap(rHead' + k) = Ring!Wrap(rHead + (n + k))
            /\ n + k \in n .. RingSize - 1 /\ n + k \in 0 .. L - 1
  <2>1. n \in 0 .. RingSize /\ k \in 0 .. RingSize - n
        /\ n + k \in n .. RingSize - 1 /\ n + k \in 0 .. L - 1
    BY <1>1, <1>3
  <2> QED BY <1>1, <1>2, <2>1, WrapsAdd, Zenon
<1>7. ASSUME NEW k \in 0 .. L - n - 1 PROVE Ring!At(k)' = Ring!At(n + k)
  <2>1. /\ n + k \in 0 .. RingSize - 1 /\ n + k \in 0 .. RingSize
        /\ \A m \in 0 .. n - 1 : m \in 0 .. RingSize - 1 /\ m # n + k
    BY <1>1, <1>3, <1>6
  <2>2. \A m \in 0 .. n - 1 : Ring!Wrap(rHead + m) # Ring!Wrap(rHead + (n + k))
    BY <1>1, <2>1, WrapsApart, Zenon
  <2>3. Ring!Wrap(rHead + (n + k)) \in 0 .. RingSize - 1
    BY <1>1, <2>1, WrapsInto, Zenon
  <2> QED BY <1>2, <1>5, <1>6, <2>2, <2>3, Zenon DEF Ring!At
<1>8. rHead' \in 0 .. RingSize - 1
  BY <1>1, <1>2, <1>3 DEF Ring!Wrap
<1>9. rItems' \in [0 .. RingSize - 1 -> Worker \cup {Nil}]
  BY <1>1, <1>2, Zenon
<1>10. ASSUME NEW s \in 0 .. RingSize - 1, \A k \in 0 .. L - n - 1 : Ring!Wrap(rHead' + k) # s
       PROVE rItems'[s] = Nil
  <2>1. CASE \E k \in 0 .. n - 1 : Ring!Wrap(rHead + k) = s
    BY <1>2, <2>1, Zenon
  <2>2. CASE \A k \in 0 .. n - 1 : Ring!Wrap(rHead + k) # s
    <3>1. ASSUME NEW k \in 0 .. L - 1 PROVE Ring!Wrap(rHead + k) # s
      <4>1. CASE k \in 0 .. n - 1
        BY <2>2, <4>1, Zenon
      <4>2. CASE k \notin 0 .. n - 1
        <5>1. k - n \in 0 .. L - n - 1 /\ n + (k - n) = k
          BY <1>1, <1>3, <4>2
        <5> QED BY <1>6, <1>10, <5>1, Zenon
      <4> QED BY <4>1, <4>2
    <3>2. rItems[s] = Nil
      BY <3>1, Zenon DEF RingInv, ByPlace, L
    <3> QED BY <1>2, <3>2, Zenon
  <2> QED BY <2>1, <2>2, Zenon
<1> QED BY <1>2, <1>4, <1>7, <1>8, <1>9, <1>10, Zenon DEF L

\* After the first n have left: what the others and the idle workers must satisfy.
LEMMA AdvanceKeeps ==
  ASSUME Ring!QueueAssumption, RingInv, NEW n \in 1 .. Ring!Length, Ring!Advance(n),
         \A k \in n .. Ring!Length - 1 :
           rWhere'[Ring!At(k)] = "idle" /\ Ring!At(k) # rVictim',
         \A w \in Worker : rWhere'[w] = "idle" /\ w # rVictim' =>
           \E k \in n .. Ring!Length - 1 : Ring!At(k) = w
  PROVE ByPlace'
<1> DEFINE L == Ring!Length
<1>1. L \in Nat /\ n \in 1 .. L
  <2>1. L \in 0 .. RingSize /\ RingSize \in Nat
    BY RingLength, Zenon DEF RingInv, Ring!QueueAssumption
  <2> HIDE DEF L
  <2>2. L \in Nat
    BY <2>1
  <2> QED BY <2>2, Zenon DEF L
<1>2. /\ L' = L - n
      /\ \A k \in 0 .. L - n - 1 : Ring!At(k)' = Ring!At(n + k)
      /\ \A s \in 0 .. RingSize - 1 :
             (\A k \in 0 .. L' - 1 : Ring!Wrap(rHead' + k) # s) => rItems'[s] = Nil
  BY AdvancePlaces, Zenon
<1>3. /\ \A j, k \in 0 .. L - 1 : Ring!At(j) = Ring!At(k) => j = k
      /\ \A k \in 0 .. L - 1 : Ring!At(k) \in Worker
  BY Zenon DEF RingInv, ByPlace
<1>4. /\ \A k \in n .. L - 1 : rWhere'[Ring!At(k)] = "idle" /\ Ring!At(k) # rVictim'
      /\ \A w \in Worker : rWhere'[w] = "idle" /\ w # rVictim' =>
           \E k \in n .. L - 1 : Ring!At(k) = w
  OBVIOUS
<1> HIDE DEF L
<1>5. \A k \in 0 .. L - n - 1 : n + k \in 0 .. L - 1 /\ n + k \in n .. L - 1
  BY <1>1
<1>6. ASSUME NEW j \in 0 .. L' - 1, NEW k \in 0 .. L' - 1, Ring!At(j)' = Ring!At(k)'
      PROVE j = k
  <2>1. j \in 0 .. L - n - 1 /\ k \in 0 .. L - n - 1
    BY <1>2, Zenon
  <2>2. n + j = n + k
    BY <1>2, <1>3, <1>5, <1>6, <2>1, Zenon
  <2> QED BY <1>1, <2>1, <2>2
<1>7. ASSUME NEW k \in 0 .. L' - 1
      PROVE Ring!At(k)' \in Worker /\ rWhere'[Ring!At(k)'] = "idle" /\ Ring!At(k)' # rVictim'
  <2>1. k \in 0 .. L - n - 1
    BY <1>2, Zenon
  <2>2. Ring!At(k)' = Ring!At(n + k) /\ n + k \in 0 .. L - 1 /\ n + k \in n .. L - 1
    BY <1>2, <1>5, <2>1, Zenon
  <2> QED BY <1>3, <1>4, <2>2, Zenon
<1>8. ASSUME NEW w \in Worker, rWhere'[w] = "idle" /\ w # rVictim'
      PROVE \E k \in 0 .. L' - 1 : Ring!At(k)' = w
  <2>1. PICK m \in n .. L - 1 : Ring!At(m) = w
    BY <1>4, <1>8, Zenon
  <2>2. m - n \in 0 .. L - n - 1 /\ n + (m - n) = m
    BY <1>1
  <2>3. m - n \in 0 .. L' - 1 /\ Ring!At(m - n)' = w
    BY <1>2, <2>1, <2>2, Zenon
  <2> QED BY <2>3, Zenon
<1> QED BY <1>2, <1>6, <1>7, <1>8, Zenon DEF ByPlace, L

\* The queue of IdleQueue.
LEMMA ContentsIs ==
  ASSUME Ring!QueueAssumption, RingInv
  PROVE /\ Ring!Contents \in Seq(Worker) /\ Len(Ring!Contents) = Ring!Length
        /\ Ring!Length \in 0 .. RingSize /\ RingSize \in Nat
        /\ \A k \in 0 .. Ring!Length - 1 : Ring!Contents[k + 1] = Ring!At(k)
<1>1. Ring!Length \in 0 .. RingSize /\ RingSize \in Nat
  BY RingLength DEF RingInv, Ring!QueueAssumption
<1>2. \A k \in 0 .. Ring!Length - 1 : Ring!At(k) \in Worker
  BY Zenon DEF RingInv, ByPlace
<1>3. \A i \in 1 .. Ring!Length : i - 1 \in 0 .. Ring!Length - 1
  BY <1>1
<1>4. Ring!Contents \in [1 .. Ring!Length -> Worker]
  BY <1>2, <1>3, Zenon DEF Ring!Contents
<1>5. \A k \in 0 .. Ring!Length - 1 : k + 1 \in 1 .. Ring!Length /\ (k + 1) - 1 = k
  BY <1>1
<1>6. \A k \in 0 .. Ring!Length - 1 : Ring!Contents[k + 1] = Ring!At(k)
  BY <1>5, Zenon DEF Ring!Contents
<1>7. Ring!Contents \in Seq(Worker) /\ Len(Ring!Contents) = Ring!Length
  BY <1>1, <1>4
<1> QED BY <1>1, <1>6, <1>7, Zenon

\* Moving the head on by n drops the first n of the queue.
LEMMA AdvanceIsSubSeq ==
  ASSUME Ring!QueueAssumption, RingInv, NEW n \in 1 .. Ring!Length, Ring!Advance(n)
  PROVE Ring!Contents' = SubSeq(Ring!Contents, n + 1, Len(Ring!Contents))
<1> DEFINE L == Ring!Length
           C == Ring!Contents
<1>1. /\ C \in Seq(Worker) /\ Len(C) = L /\ L \in Nat /\ n \in 1 .. L
      /\ \A k \in 0 .. L - 1 : C[k + 1] = Ring!At(k)
  BY ContentsIs
<1>2. L' = L - n /\ \A k \in 0 .. L - n - 1 : Ring!At(k)' = Ring!At(n + k)
  BY AdvancePlaces, Zenon
<1>3. C' = [i \in 1 .. L' |-> Ring!At(i - 1)']
  BY Zenon DEF Ring!Contents
<1> HIDE DEF L, C
<1>4. ASSUME NEW i \in 1 .. L - n PROVE Ring!At(i - 1)' = C[i + n]
  <2>1. i - 1 \in 0 .. L - n - 1 /\ n + (i - 1) \in 0 .. L - 1 /\ (n + (i - 1)) + 1 = i + n
    BY <1>1
  <2> QED BY <1>1, <1>2, <2>1, Zenon
<1>5. C' = [i \in 1 .. L - n |-> C[i + n]]
  BY <1>2, <1>3, <1>4, Zenon
<1>6. SubSeq(C, n + 1, L) = [i \in 1 .. L - n |-> C[i + n]]
  BY <1>1
<1> QED BY <1>1, <1>5, <1>6 DEF C

\* An insert into a ring that is not full appends to the queue.
LEMMA InsertIsAppend ==
  ASSUME Ring!QueueAssumption, RingInv, NEW w \in Worker, Ring!Insert(w), ~rFull
  PROVE Len(Ring!Contents) < RingSize /\ Ring!Contents' = Append(Ring!Contents, w)
<1> DEFINE L == Ring!Length
           C == Ring!Contents
<1>1. /\ C \in Seq(Worker) /\ Len(C) = L /\ L \in Nat
      /\ \A k \in 0 .. L - 1 : C[k + 1] = Ring!At(k)
  BY ContentsIs
<1>2. /\ L < RingSize /\ L' = L + 1 /\ \A k \in 0 .. L - 1 : Ring!At(k)' = Ring!At(k)
      /\ \A k \in 0 .. L : k = L => Ring!At(k)' = w
  BY InsertPlaces, Zenon
<1>3. C' = [i \in 1 .. L' |-> Ring!At(i - 1)']
  BY Zenon DEF Ring!Contents
<1> HIDE DEF L, C
<1>4. ASSUME NEW i \in 1 .. L + 1
      PROVE Ring!At(i - 1)' = IF i = L + 1 THEN w ELSE C[i]
  <2>1. CASE i = L + 1
    <3>1. i - 1 = L /\ i - 1 \in 0 .. L
      BY <1>1, <2>1
    <3> QED BY <1>2, <2>1, <3>1, Zenon
  <2>2. CASE i # L + 1
    <3>1. i - 1 \in 0 .. L - 1 /\ (i - 1) + 1 = i
      BY <1>1, <2>2
    <3> QED BY <1>1, <1>2, <2>2, <3>1, Zenon
  <2> QED BY <2>1, <2>2
<1>5. C' = [i \in 1 .. L + 1 |-> IF i = L + 1 THEN w ELSE C[i]]
  BY <1>2, <1>3, <1>4, Zenon
<1>6. Append(C, w) = [i \in 1 .. L + 1 |-> IF i = L + 1 THEN w ELSE C[i]]
  <2>1. C \in Seq(Worker) /\ Len(C) = L /\ L \in Nat
    BY <1>1, Zenon
  <2>2. /\ Append(C, w) \in Seq(Worker) /\ Len(Append(C, w)) = L + 1
        /\ \A i \in 1 .. L + 1 : Append(C, w)[i] = IF i = L + 1 THEN w ELSE C[i]
    BY <2>1
  <2>3. Append(C, w) \in [1 .. L + 1 -> Worker]
    BY <2>2, LenProperties, Zenon
  <2> QED BY <2>2, <2>3, Zenon
<1> QED BY <1>1, <1>2, <1>5, <1>6 DEF C

\* An insert keeps the invariant: the worker was not in the ring.
LEMMA InsertKeeps ==
  ASSUME Ring!QueueAssumption, RingInv, NEW w \in Worker, Ring!Insert(w), ~rFull
  PROVE RingInv'
<1> DEFINE L == Ring!Length
<1>1. L \in Nat /\ RingSize \in Nat /\ L \in 0 .. RingSize - 1 /\ rHead \in 0 .. RingSize - 1
      /\ RingSize \in Nat \ {0}
  <2>1. L \in 0 .. RingSize /\ L < RingSize /\ RingSize \in Nat
    BY RingLength, InsertPlaces, Zenon DEF RingInv, Ring!QueueAssumption
  <2>2. rHead \in 0 .. RingSize - 1 /\ RingSize \in Nat \ {0}
    BY Zenon DEF RingInv, Ring!TypeOK, Ring!QueueAssumption
  <2> HIDE DEF L
  <2> QED BY <2>1, <2>2
<1>2. /\ L' = L + 1 /\ \A k \in 0 .. L - 1 : Ring!At(k)' = Ring!At(k)
      /\ \A k \in 0 .. L : k = L => Ring!At(k)' = w
      /\ rHead' = rHead /\ rTail' \in 0 .. RingSize - 1 /\ rFull' \in BOOLEAN
      /\ rFull' => rHead' = rTail'
      /\ rItems' = [rItems EXCEPT ![Ring!Wrap(rHead + L)] = w]
  BY InsertPlaces, Zenon
<1>3. /\ rWhere[w] = "stamped" /\ rVictim = Nil /\ rVictim' = Nil
      /\ rWhere' = [rWhere EXCEPT ![w] = "idle"]
      /\ UNCHANGED <<rNow, rTime, rArgs>>
  BY Zenon DEF Ring!Insert, Ring!LockFree
<1>4. /\ \A j, k \in 0 .. L - 1 : Ring!At(j) = Ring!At(k) => j = k
      /\ \A k \in 0 .. L - 1 : Ring!At(k) \in Worker /\ rWhere[Ring!At(k)] = "idle"
      /\ \A x \in Worker : rWhere[x] = "idle" /\ x # rVictim => \E k \in 0 .. L - 1 : Ring!At(k) = x
      /\ \A s \in 0 .. RingSize - 1 :
           (\A k \in 0 .. L - 1 : Ring!Wrap(rHead + k) # s) => rItems[s] = Nil
  BY Zenon DEF RingInv, ByPlace
<1>5. /\ rItems \in [0 .. RingSize - 1 -> Worker \cup {Nil}]
      /\ rWhere \in [Worker -> {"busy", "stamped", "idle", "exited"}]
      /\ Nil \notin Worker
  BY Zenon DEF RingInv, Ring!TypeOK, Ring!QueueAssumption
<1> HIDE DEF L
<1>13. L' = L + 1
  BY <1>2, Zenon
<1>6. \A k \in 0 .. L' - 1 : k \in 0 .. L /\ (k = L \/ k \in 0 .. L - 1)
  BY <1>1, <1>13
<1>14. L \in 0 .. L' - 1 /\ \A k \in 0 .. L - 1 : k \in 0 .. L' - 1
  BY <1>1, <1>13
<1>7. \A k \in 0 .. L - 1 : k \in 0 .. L' - 1 /\ Ring!At(k) # w
  BY <1>3, <1>4, <1>14, Zenon
<1>15. ASSUME NEW k \in 0 .. L' - 1
       PROVE \/ k = L /\ Ring!At(k)' = w
             \/ k # L /\ k \in 0 .. L - 1 /\ Ring!At(k)' = Ring!At(k) /\ Ring!At(k) # w
  <2>1. CASE k = L
    BY <1>2, <1>6, <2>1, Zenon
  <2>2. CASE k # L
    BY <1>2, <1>6, <1>7, <2>2, Zenon
  <2> QED BY <2>1, <2>2, Zenon
<1>8. Ring!TypeOK'
  <2>1. rItems' \in [0 .. RingSize - 1 -> Worker \cup {Nil}]
    BY <1>2, <1>5, Zenon
  <2>2. rWhere' \in [Worker -> {"busy", "stamped", "idle", "exited"}]
    BY <1>3, <1>5, Zenon
  <2> QED BY <1>2, <1>3, <2>1, <2>2, Zenon DEF RingInv, Ring!TypeOK
<1>9. ASSUME NEW j \in 0 .. L' - 1, NEW k \in 0 .. L' - 1, Ring!At(j)' = Ring!At(k)'
      PROVE j = k
  <2>1. CASE j = L \/ k = L
    BY <1>9, <1>15, <2>1, Zenon
  <2>2. CASE j # L /\ k # L
    <3>1. /\ j \in 0 .. L - 1 /\ Ring!At(j)' = Ring!At(j)
          /\ k \in 0 .. L - 1 /\ Ring!At(k)' = Ring!At(k)
      BY <1>15, <2>2, Zenon
    <3> QED BY <1>4, <1>9, <3>1, Zenon
  <2> QED BY <2>1, <2>2, Zenon
<1>10. ASSUME NEW k \in 0 .. L' - 1
       PROVE Ring!At(k)' \in Worker /\ rWhere'[Ring!At(k)'] = "idle" /\ Ring!At(k)' # rVictim'
  <2>1. CASE k = L
    BY <1>3, <1>5, <1>15, <2>1, Zenon
  <2>2. CASE k # L
    <3>1. k \in 0 .. L - 1 /\ Ring!At(k)' = Ring!At(k) /\ Ring!At(k) # w
      BY <1>15, <2>2, Zenon
    <3>2. Ring!At(k) \in Worker /\ rWhere[Ring!At(k)] = "idle"
      BY <1>4, <3>1, Zenon
    <3> QED BY <1>3, <1>5, <3>1, <3>2, Zenon
  <2> QED BY <2>1, <2>2
<1>11. ASSUME NEW x \in Worker, rWhere'[x] = "idle" /\ x # rVictim'
       PROVE \E k \in 0 .. L' - 1 : Ring!At(k)' = x
  <2>1. CASE x = w
    <3>1. L \in 0 .. L
      BY <1>1
    <3>2. \E k \in 0 .. L' - 1 : k = L /\ k \in 0 .. L
      BY <1>14, <3>1, Zenon
    <3> QED BY <1>2, <2>1, <3>2, Zenon
  <2>2. CASE x # w
    <3>1. rWhere[x] = "idle" /\ x # rVictim
      BY <1>3, <1>5, <1>11, <2>2, Zenon
    <3>2. PICK k \in 0 .. L - 1 : Ring!At(k) = x
      BY <1>4, <3>1, Zenon
    <3>3. k \in 0 .. L' - 1 /\ Ring!At(k)' = x
      BY <1>2, <1>7, <3>2, Zenon
    <3> QED BY <3>3, Zenon
  <2> QED BY <2>1, <2>2
<1>12. ASSUME NEW s \in 0 .. RingSize - 1, \A k \in 0 .. L' - 1 : Ring!Wrap(rHead' + k) # s
       PROVE rItems'[s] = Nil
  <2>1. \A k \in 0 .. L' - 1 : Ring!Wrap(rHead + k) # s
    BY <1>2, <1>12, Zenon
  <2>2. Ring!Wrap(rHead + L) # s /\ rItems[s] = Nil
    BY <1>4, <1>14, <2>1, Zenon
  <2> QED BY <1>2, <1>5, <2>2, Zenon
<1> QED BY <1>2, <1>8, <1>9, <1>10, <1>11, <1>12, Zenon DEF RingInv, ByPlace, L

\* The steps that take the first n, whatever becomes of them.
LEMMA LeavingKeeps ==
  ASSUME Ring!QueueAssumption, RingInv, NEW n \in 1 .. Ring!Length, Ring!Advance(n),
         rWhere' \in [Worker -> {"busy", "stamped", "idle", "exited"}],
         rVictim' \in Worker \cup {Nil}, UNCHANGED <<rNow, rTime, rArgs>>,
         \A k \in n .. Ring!Length - 1 :
           rWhere'[Ring!At(k)] = "idle" /\ Ring!At(k) # rVictim',
         \A w \in Worker : rWhere'[w] = "idle" /\ w # rVictim' =>
           \E k \in n .. Ring!Length - 1 : Ring!At(k) = w
  PROVE RingInv'
<1>1. ByPlace'
  BY AdvanceKeeps, Zenon
<1>2. /\ rHead' \in 0 .. RingSize - 1 /\ rTail' = rTail /\ rFull' = FALSE
      /\ rItems' \in [0 .. RingSize - 1 -> Worker \cup {Nil}]
  BY AdvancePlaces, Zenon
<1>3. rFull' \in BOOLEAN /\ ~rFull'
  BY <1>2, Zenon
<1>4. Ring!TypeOK'
  BY <1>2, <1>3, Zenon DEF RingInv, Ring!TypeOK
<1> QED BY <1>1, <1>3, <1>4, Zenon DEF RingInv

\* What is known of a ring with a worker to take.
LEMMA RingHasFirst ==
  ASSUME Ring!QueueAssumption, RingInv, ~Ring!IsEmpty
  PROVE 1 \in 1 .. Ring!Length /\ 0 \in 0 .. Ring!Length - 1 /\ rItems[rHead] = Ring!At(0)
        /\ Ring!Length \in Nat /\ 0 \in 0 .. 1 - 1
<1>1. Ring!Length \in 0 .. RingSize /\ Ring!Length # 0 /\ RingSize \in Nat
      /\ rHead \in 0 .. RingSize - 1
  BY RingLength, Zenon DEF RingInv, Ring!TypeOK, Ring!QueueAssumption
<1>2. Ring!Wrap(rHead + 0) = rHead
  BY <1>1 DEF Ring!Wrap
<1>3. rItems[rHead] = Ring!At(0)
  BY <1>2, Zenon DEF Ring!At
<1>4. 1 \in 1 .. Ring!Length /\ 0 \in 0 .. Ring!Length - 1 /\ Ring!Length \in Nat /\ 0 \in 0 .. 1 - 1
  BY <1>1
<1> QED BY <1>3, <1>4, Zenon

\* Idle workers are at a place; the places of the first n and of the others.
LEMMA IdlePlaces ==
  ASSUME Ring!QueueAssumption, RingInv, NEW n \in 1 .. Ring!Length
  PROVE /\ \A k \in 0 .. n - 1 : Ring!At(k) \in Worker /\ Ring!At(k) # Nil
        /\ \A k \in n .. Ring!Length - 1 :
             /\ Ring!At(k) \in Worker /\ rWhere[Ring!At(k)] = "idle" /\ Ring!At(k) # rVictim
             /\ \A j \in 0 .. n - 1 : Ring!At(j) # Ring!At(k)
        /\ \A w \in Worker : rWhere[w] = "idle" /\ w # rVictim =>
             \/ \E k \in 0 .. n - 1 : Ring!At(k) = w
             \/ \E k \in n .. Ring!Length - 1 : Ring!At(k) = w
<1> DEFINE L == Ring!Length
<1>1. L \in 0 .. RingSize /\ RingSize \in Nat /\ n \in 1 .. L /\ Nil \notin Worker
  BY RingLength, Zenon DEF RingInv, Ring!QueueAssumption
<1>2. /\ \A j, k \in 0 .. L - 1 : Ring!At(j) = Ring!At(k) => j = k
      /\ \A k \in 0 .. L - 1 :
           Ring!At(k) \in Worker /\ rWhere[Ring!At(k)] = "idle" /\ Ring!At(k) # rVictim
      /\ \A w \in Worker : rWhere[w] = "idle" /\ w # rVictim => \E k \in 0 .. L - 1 : Ring!At(k) = w
  BY Zenon DEF RingInv, ByPlace
<1> HIDE DEF L
<1>3. /\ \A k \in 0 .. n - 1 : k \in 0 .. L - 1
      /\ \A k \in n .. L - 1 : k \in 0 .. L - 1 /\ \A j \in 0 .. n - 1 : j # k
      /\ \A k \in 0 .. L - 1 : k \in 0 .. n - 1 \/ k \in n .. L - 1
  BY <1>1
<1>4. \A k \in 0 .. n - 1 : Ring!At(k) \in Worker /\ Ring!At(k) # Nil
  BY <1>1, <1>2, <1>3, Zenon
<1>5. ASSUME NEW k \in n .. L - 1
      PROVE /\ Ring!At(k) \in Worker /\ rWhere[Ring!At(k)] = "idle" /\ Ring!At(k) # rVictim
            /\ \A j \in 0 .. n - 1 : Ring!At(j) # Ring!At(k)
  BY <1>2, <1>3, Zenon
<1>6. ASSUME NEW w \in Worker, rWhere[w] = "idle" /\ w # rVictim
      PROVE \/ \E k \in 0 .. n - 1 : Ring!At(k) = w
            \/ \E k \in n .. L - 1 : Ring!At(k) = w
  BY <1>2, <1>3, <1>6, Zenon
<1> QED BY <1>4, <1>5, <1>6, Zenon DEF L

\* The same for the first place alone.
LEMMA FirstPlaces ==
  ASSUME Ring!QueueAssumption, RingInv, ~Ring!IsEmpty
  PROVE /\ 1 \in 1 .. Ring!Length /\ rItems[rHead] = Ring!At(0) /\ Ring!At(0) \in Worker
        /\ \A k \in 1 .. Ring!Length - 1 :
             /\ Ring!At(k) \in Worker /\ rWhere[Ring!At(k)] = "idle" /\ Ring!At(k) # rVictim
             /\ Ring!At(k) # Ring!At(0)
        /\ \A w \in Worker : rWhere[w] = "idle" /\ w # rVictim =>
             w = Ring!At(0) \/ \E k \in 1 .. Ring!Length - 1 : Ring!At(k) = w
<1>1. 1 \in 1 .. Ring!Length /\ rItems[rHead] = Ring!At(0)
  BY RingHasFirst, Zenon
<1>2. 0 \in 0 .. 1 - 1 /\ \A k \in 0 .. 1 - 1 : k = 0
  OBVIOUS
<1>3. /\ \A k \in 0 .. 1 - 1 : Ring!At(k) \in Worker /\ Ring!At(k) # Nil
      /\ \A k \in 1 .. Ring!Length - 1 :
           /\ Ring!At(k) \in Worker /\ rWhere[Ring!At(k)] = "idle" /\ Ring!At(k) # rVictim
           /\ \A j \in 0 .. 1 - 1 : Ring!At(j) # Ring!At(k)
      /\ \A w \in Worker : rWhere[w] = "idle" /\ w # rVictim =>
           \/ \E k \in 0 .. 1 - 1 : Ring!At(k) = w
           \/ \E k \in 1 .. Ring!Length - 1 : Ring!At(k) = w
  BY <1>1, IdlePlaces, Zenon
<1>4. Ring!At(0) \in Worker
  BY <1>2, <1>3, Zenon
<1>5. \A k \in 1 .. Ring!Length - 1 :
        /\ Ring!At(k) \in Worker /\ rWhere[Ring!At(k)] = "idle" /\ Ring!At(k) # rVictim
        /\ Ring!At(k) # Ring!At(0)
  BY <1>2, <1>3, Zenon
<1>6. ASSUME NEW w \in Worker, rWhere[w] = "idle" /\ w # rVictim
      PROVE w = Ring!At(0) \/ \E k \in 1 .. Ring!Length - 1 : Ring!At(k) = w
  <2>1. CASE \E k \in 0 .. 1 - 1 : Ring!At(k) = w
    BY <1>2, <2>1, Zenon
  <2>2. CASE \E k \in 1 .. Ring!Length - 1 : Ring!At(k) = w
    BY <2>2, Zenon
  <2> QED BY <1>3, <1>6, <2>1, <2>2, Zenon
<1> QED BY <1>1, <1>4, <1>5, <1>6, Zenon

\* detach takes the first.
LEMMA DetachKeeps ==
  ASSUME Ring!QueueAssumption, RingInv, Ring!Detach PROVE RingInv'
<1>1. /\ rVictim = Nil /\ ~Ring!IsEmpty /\ rWhere' = [rWhere EXCEPT ![rItems[rHead]] = "busy"]
      /\ Ring!Advance(1) /\ UNCHANGED <<rNow, rTime, rArgs, rVictim>>
  BY Zenon DEF Ring!Detach, Ring!LockFree
<1>2. rWhere \in [Worker -> {"busy", "stamped", "idle", "exited"}]
  BY Zenon DEF RingInv, Ring!TypeOK
<1>3. /\ 1 \in 1 .. Ring!Length /\ rItems[rHead] = Ring!At(0) /\ Ring!At(0) \in Worker
      /\ \A k \in 1 .. Ring!Length - 1 :
           /\ Ring!At(k) \in Worker /\ rWhere[Ring!At(k)] = "idle" /\ Ring!At(k) # rVictim
           /\ Ring!At(k) # Ring!At(0)
      /\ \A w \in Worker : rWhere[w] = "idle" /\ w # rVictim =>
           w = Ring!At(0) \/ \E k \in 1 .. Ring!Length - 1 : Ring!At(k) = w
  BY <1>1, FirstPlaces, Zenon
<1>4. /\ rWhere' \in [Worker -> {"busy", "stamped", "idle", "exited"}]
      /\ rWhere'[Ring!At(0)] = "busy" /\ \A w \in Worker \ {Ring!At(0)} : rWhere'[w] = rWhere[w]
  BY <1>1, <1>2, <1>3, Zenon
<1>5. \A k \in 1 .. Ring!Length - 1 : rWhere'[Ring!At(k)] = "idle" /\ Ring!At(k) # rVictim'
  BY <1>1, <1>3, <1>4, Zenon
<1>6. ASSUME NEW w \in Worker, rWhere'[w] = "idle" /\ w # rVictim'
      PROVE \E k \in 1 .. Ring!Length - 1 : Ring!At(k) = w
  <2>1. w # Ring!At(0) /\ rWhere[w] = "idle" /\ w # rVictim
    BY <1>1, <1>4, <1>6, Zenon
  <2> QED BY <1>3, <2>1, Zenon
<1>7. rVictim' \in Worker \cup {Nil}
  BY <1>1, Zenon
<1> QED BY <1>1, <1>3, <1>4, <1>5, <1>6, <1>7, LeavingKeeps, Zenon

\* reset takes the first, which it will not give back.
LEMMA ResetKeeps ==
  ASSUME Ring!QueueAssumption, RingInv, Ring!Reset PROVE RingInv'
<1>1. /\ rVictim = Nil /\ ~Ring!IsEmpty /\ rVictim' = rItems[rHead] /\ Ring!Advance(1)
      /\ UNCHANGED <<rNow, rTime, rWhere, rArgs>>
  BY Zenon DEF Ring!Reset, Ring!LockFree
<1>2. rWhere' \in [Worker -> {"busy", "stamped", "idle", "exited"}] /\ Nil \notin Worker
  BY <1>1, Zenon DEF RingInv, Ring!TypeOK, Ring!QueueAssumption
<1>3. /\ 1 \in 1 .. Ring!Length /\ rItems[rHead] = Ring!At(0) /\ Ring!At(0) \in Worker
      /\ \A k \in 1 .. Ring!Length - 1 :
           /\ Ring!At(k) \in Worker /\ rWhere[Ring!At(k)] = "idle" /\ Ring!At(k) # rVictim
           /\ Ring!At(k) # Ring!At(0)
      /\ \A w \in Worker : rWhere[w] = "idle" /\ w # rVictim =>
           w = Ring!At(0) \/ \E k \in 1 .. Ring!Length - 1 : Ring!At(k) = w
  BY <1>1, FirstPlaces, Zenon
<1>4. \A k \in 1 .. Ring!Length - 1 : rWhere'[Ring!At(k)] = "idle" /\ Ring!At(k) # rVictim'
  BY <1>1, <1>3, Zenon
<1>5. ASSUME NEW w \in Worker, rWhere'[w] = "idle" /\ w # rVictim'
      PROVE \E k \in 1 .. Ring!Length - 1 : Ring!At(k) = w
  <2>1. w # Ring!At(0) /\ rWhere[w] = "idle" /\ w # rVictim
    BY <1>1, <1>2, <1>3, <1>5, Zenon
  <2> QED BY <1>3, <2>1, Zenon
<1>6. rVictim' \in Worker \cup {Nil}
  BY <1>1, <1>3, Zenon
<1> QED BY <1>1, <1>2, <1>3, <1>4, <1>5, <1>6, LeavingKeeps, Zenon

\* retrieveExpiry takes the first n at once.
LEMMA RetrieveKeeps ==
  ASSUME Ring!QueueAssumption, RingInv, Ring!RetrieveExpiry PROVE RingInv'
<1>1. PICK n \in 1 .. Ring!Length :
        /\ rWhere' = [w \in Worker |->
                        IF \E k \in 0 .. n - 1 : Ring!At(k) = w THEN "busy" ELSE rWhere[w]]
        /\ Ring!Advance(n)
  BY Zenon DEF Ring!RetrieveExpiry
<1>2. UNCHANGED <<rNow, rTime, rArgs, rVictim>>
  BY Zenon DEF Ring!RetrieveExpiry
<1>3. /\ rWhere \in [Worker -> {"busy", "stamped", "idle", "exited"}]
      /\ rVictim' \in Worker \cup {Nil}
  BY <1>2, Zenon DEF RingInv, Ring!TypeOK
<1>4. rWhere' \in [Worker -> {"busy", "stamped", "idle", "exited"}]
  BY <1>1, <1>3, Zenon
<1>5. ASSUME NEW k \in n .. Ring!Length - 1
      PROVE rWhere'[Ring!At(k)] = "idle" /\ Ring!At(k) # rVictim'
  <2>1. /\ Ring!At(k) \in Worker /\ rWhere[Ring!At(k)] = "idle" /\ Ring!At(k) # rVictim
        /\ \A j \in 0 .. n - 1 : Ring!At(j) # Ring!At(k)
    BY IdlePlaces, Zenon
  <2> QED BY <1>1, <1>2, <2>1, Zenon
<1>6. ASSUME NEW w \in Worker, rWhere'[w] = "idle" /\ w # rVictim'
      PROVE \E k \in n .. Ring!Length - 1 : Ring!At(k) = w
  <2>1. rWhere[w] = "idle" /\ w # rVictim /\ ~ \E k \in 0 .. n - 1 : Ring!At(k) = w
    BY <1>1, <1>2, <1>6, Zenon
  <2> QED BY <2>1, IdlePlaces, Zenon
<1> QED BY <1>1, <1>2, <1>3, <1>4, <1>5, <1>6, LeavingKeeps, Zenon

\* Steps that leave the ring alone.
LEMMA SameRing ==
  ASSUME UNCHANGED <<rItems, rHead, rTail, rFull>>
  PROVE /\ Ring!Length' = Ring!Length /\ Ring!Contents' = Ring!Contents
        /\ \A k : Ring!At(k)' = Ring!At(k)
<1>1. Ring!Length' = Ring!Length /\ \A k : Ring!At(k)' = Ring!At(k)
  BY Zenon DEF Ring!Length, Ring!At, Ring!Wrap
<1> QED BY <1>1, Zenon DEF Ring!Contents

\* The places stay those of the idle workers.
LEMMA SameIdle ==
  ASSUME RingInv, UNCHANGED <<rItems, rHead, rTail, rFull, rVictim>>,
         \A w \in Worker : w # rVictim => (rWhere'[w] = "idle" <=> rWhere[w] = "idle")
  PROVE ByPlace' /\ (rFull' => rHead' = rTail')
<1>1. Ring!Length' = Ring!Length /\ \A k : Ring!At(k)' = Ring!At(k)
  BY SameRing, Zenon
<1>2. /\ \A j, k \in 0 .. Ring!Length' - 1 : Ring!At(j)' = Ring!At(k)' => j = k
      /\ \A s \in 0 .. RingSize - 1 :
           (\A k \in 0 .. Ring!Length' - 1 : Ring!Wrap(rHead' + k) # s) => rItems'[s] = Nil
  BY <1>1, Zenon DEF RingInv, ByPlace
<1>3. \A k \in 0 .. Ring!Length' - 1 :
        Ring!At(k)' \in Worker /\ rWhere'[Ring!At(k)'] = "idle" /\ Ring!At(k)' # rVictim'
  BY <1>1, Zenon DEF RingInv, ByPlace
<1>4. \A w \in Worker : rWhere'[w] = "idle" /\ w # rVictim' =>
        \E k \in 0 .. Ring!Length' - 1 : Ring!At(k)' = w
  BY <1>1, Zenon DEF RingInv, ByPlace
<1> QED BY <1>2, <1>3, <1>4, Zenon DEF RingInv, ByPlace

\* Tick, revertWorker's stamp, a refused insert, a send of reset, and no step.
LEMMA QuietKeeps ==
  ASSUME Ring!QueueAssumption, RingInv,
         \/ Ring!Tick \/ Ring!ResetSend \/ UNCHANGED Ring!vars
         \/ \E w \in Worker : Ring!Stamp(w) \/ (Ring!Insert(w) /\ rFull)
  PROVE RingInv' /\ Ring!Contents' = Ring!Contents
<1>1. UNCHANGED <<rItems, rHead, rTail, rFull, rVictim>>
  BY Zenon DEF Ring!Tick, Ring!ResetSend, Ring!vars, Ring!Stamp, Ring!Insert, Ring!ring
<1>2. /\ rWhere \in [Worker -> {"busy", "stamped", "idle", "exited"}]
      /\ rTime \in [Worker -> 0 .. RingTime] /\ rNow \in 0 .. RingTime
      /\ rArgs \in [Worker -> 0 .. RingChanCap]
  BY Zenon DEF RingInv, Ring!TypeOK
<1>3. /\ rWhere' \in [Worker -> {"busy", "stamped", "idle", "exited"}]
      /\ \A w \in Worker : w # rVictim => (rWhere'[w] = "idle" <=> rWhere[w] = "idle")
  BY <1>2, Zenon DEF Ring!Tick, Ring!ResetSend, Ring!vars, Ring!Stamp, Ring!Insert
<1>4. rTime' \in [Worker -> 0 .. RingTime]
  BY <1>2, Zenon DEF Ring!Tick, Ring!ResetSend, Ring!vars, Ring!Stamp, Ring!Insert
<1>5. rNow' \in 0 .. RingTime
  <2>1. rNow' = rNow \/ (rNow < RingTime /\ rNow' = rNow + 1)
    BY Zenon DEF Ring!Tick, Ring!ResetSend, Ring!vars, Ring!Stamp, Ring!Insert
  <2> QED BY <1>2, <2>1 DEF Ring!QueueAssumption
<1>6. rArgs' \in [Worker -> 0 .. RingChanCap]
  <2>1. \/ rArgs' = rArgs
        \/ rArgs[rVictim] < RingChanCap /\ rArgs' = [rArgs EXCEPT ![rVictim] = rArgs[rVictim] + 1]
           /\ rVictim # Nil
    BY Zenon DEF Ring!Tick, Ring!ResetSend, Ring!vars, Ring!Stamp, Ring!Insert, Ring!LockFree
  <2>2. rVictim \in Worker \cup {Nil} /\ RingChanCap \in {0, 1}
    BY Zenon DEF RingInv, Ring!TypeOK, Ring!QueueAssumption
  <2>3. rVictim # Nil /\ rArgs[rVictim] < RingChanCap => rArgs[rVictim] + 1 \in 0 .. RingChanCap
    BY <1>2, <2>2
  <2> QED BY <1>2, <2>1, <2>3, Zenon
<1>7. Ring!TypeOK'
  BY <1>1, <1>3, <1>4, <1>5, <1>6, Zenon DEF RingInv, Ring!TypeOK
<1> QED BY <1>1, <1>3, <1>7, SameIdle, SameRing, Zenon DEF RingInv

\* Every step keeps the invariant.
LEMMA RingStep ==
  ASSUME Ring!QueueAssumption, RingInv, [Ring!Next]_(Ring!vars) PROVE RingInv'
BY QuietKeeps, InsertKeeps, DetachKeeps, RetrieveKeeps, ResetKeeps, Zenon DEF Ring!Next

\* detach, and what reset detaches, is Detach of the queue.
LEMMA AdvanceOneIsDetach ==
  ASSUME Ring!QueueAssumption, RingInv, ~Ring!IsEmpty, Ring!Advance(1)
  PROVE Ring!Queue!Detach
<1>1. 1 \in 1 .. Ring!Length
  BY RingHasFirst, Zenon
<1>2. Ring!Contents' = SubSeq(Ring!Contents, 1 + 1, Len(Ring!Contents))
  BY <1>1, AdvanceIsSubSeq, Zenon
<1>3. Ring!Contents \in Seq(Worker) /\ Len(Ring!Contents) = Ring!Length
  BY ContentsIs, Zenon
<1>4. Ring!Contents # <<>> /\ Tail(Ring!Contents) = SubSeq(Ring!Contents, 1 + 1, Len(Ring!Contents))
  BY <1>1, <1>3
<1> QED BY <1>2, <1>4, Zenon DEF Ring!Queue!Detach

\* retrieveExpiry is Purge of the queue.
LEMMA RetrieveIsPurge ==
  ASSUME Ring!QueueAssumption, RingInv, Ring!RetrieveExpiry
  PROVE Ring!Queue!Purge
<1> DEFINE L == Ring!Length
           C == Ring!Contents
<1>1. PICK n \in 1 .. L :
        /\ \A k \in 0 .. n - 1 : Ring!Expired(Ring!At(k))
        /\ n < L => ~Ring!Expired(Ring!At(n))
        /\ Ring!Advance(n)
  BY Zenon DEF Ring!RetrieveExpiry
<1>2. C' = SubSeq(C, n + 1, Len(C))
  BY <1>1, AdvanceIsSubSeq, Zenon
<1>3. /\ Len(C) = L /\ L \in 0 .. RingSize /\ RingSize \in Nat
      /\ \A k \in 0 .. L - 1 : C[k + 1] = Ring!At(k)
  BY ContentsIs, Zenon
<1>4. \A w : Ring!Queue!Expired(w) <=> Ring!Expired(w)
  BY Zenon DEF Ring!Queue!Expired, Ring!Expired
<1> HIDE DEF L, C
<1>5. ASSUME NEW i \in 1 .. n PROVE Ring!Queue!Expired(C[i])
  <2>1. i - 1 \in 0 .. n - 1 /\ i - 1 \in 0 .. L - 1 /\ (i - 1) + 1 = i
    BY <1>1, <1>3
  <2>2. C[i] = Ring!At(i - 1)
    BY <1>3, <2>1, Zenon
  <2> QED BY <1>1, <1>4, <2>1, <2>2, Zenon
<1>6. ASSUME n < L PROVE ~Ring!Queue!Expired(C[n + 1])
  <2>1. n \in 0 .. L - 1
    BY <1>1, <1>3, <1>6
  <2> QED BY <1>1, <1>3, <1>4, <1>6, <2>1, Zenon
<1> QED BY <1>1, <1>2, <1>3, <1>5, <1>6, Zenon DEF Ring!Queue!Purge, C

\* Every step of the ring is one of the queue, or leaves the queue alone.
LEMMA RingImplements ==
  ASSUME Ring!QueueAssumption, RingInv, [Ring!Next]_(Ring!vars)
  PROVE [Ring!Queue!Insert \/ Ring!Queue!Detach \/ Ring!Queue!Purge]_(Ring!Contents)
<1>1. ASSUME NEW w \in Worker, Ring!Insert(w), ~rFull PROVE Ring!Queue!Insert
  BY <1>1, InsertIsAppend, Zenon DEF Ring!Queue!Insert
<1>2. CASE Ring!Detach \/ Ring!Reset
  BY <1>2, AdvanceOneIsDetach, Zenon DEF Ring!Detach, Ring!Reset
<1>3. CASE Ring!RetrieveExpiry
  BY <1>3, RetrieveIsPurge, Zenon
<1> QED BY <1>1, <1>2, <1>3, QuietKeeps, Zenon DEF Ring!Next

\* The invariant implies what the run checks.
LEMMA PlacesHold ==
  ASSUME Ring!QueueAssumption, RingInv PROVE Ring!RingHoldsIdleOnce
<1> DEFINE L == Ring!Length
           C == Ring!Contents
<1>1. /\ L \in 0 .. RingSize /\ RingSize \in Nat
      /\ \A k \in 0 .. L - 1 : C[k + 1] = Ring!At(k)
  BY ContentsIs, Zenon
<1>2. /\ \A j, k \in 0 .. L - 1 : Ring!At(j) = Ring!At(k) => j = k
      /\ \A k \in 0 .. L - 1 :
           Ring!At(k) \in Worker /\ rWhere[Ring!At(k)] = "idle" /\ Ring!At(k) # rVictim
      /\ \A w \in Worker : rWhere[w] = "idle" /\ w # rVictim => \E k \in 0 .. L - 1 : Ring!At(k) = w
      /\ \A s \in 0 .. RingSize - 1 :
           (\A k \in 0 .. L - 1 : Ring!Wrap(rHead + k) # s) => rItems[s] = Nil
  BY Zenon DEF RingInv, ByPlace
<1>3. Nil \notin Worker /\ \A k : Ring!At(k) = rItems[Ring!Wrap(rHead + k)]
  BY Zenon DEF Ring!QueueAssumption, Ring!At
<1> HIDE DEF L, C
<1>4. /\ \A i \in 1 .. L : i - 1 \in 0 .. L - 1 /\ C[i] = Ring!At(i - 1)
      /\ \A k \in 0 .. L - 1 : k + 1 \in 1 .. L
  <2>1. /\ \A i \in 1 .. L : i - 1 \in 0 .. L - 1 /\ (i - 1) + 1 = i
        /\ \A k \in 0 .. L - 1 : k + 1 \in 1 .. L
    BY <1>1
  <2> QED BY <1>1, <2>1, Zenon
<1>5. ASSUME NEW i \in 1 .. L, NEW j \in 1 .. L, C[i] = C[j] PROVE i = j
  <2>1. /\ i - 1 \in 0 .. L - 1 /\ C[i] = Ring!At(i - 1)
        /\ j - 1 \in 0 .. L - 1 /\ C[j] = Ring!At(j - 1)
    BY <1>4, Zenon
  <2>2. Ring!At(i - 1) = Ring!At(j - 1)
    BY <1>5, <2>1, Zenon
  <2>3. i - 1 = j - 1
    BY <1>2, <2>1, <2>2, Zenon
  <2> QED BY <1>1, <2>3
<1>6. {C[i] : i \in 1 .. L} = {w \in Worker : rWhere[w] = "idle" /\ w # rVictim}
  <2>1. ASSUME NEW i \in 1 .. L
        PROVE C[i] \in {w \in Worker : rWhere[w] = "idle" /\ w # rVictim}
    <3>1. i - 1 \in 0 .. L - 1 /\ C[i] = Ring!At(i - 1)
      BY <1>4, Zenon
    <3>2. /\ Ring!At(i - 1) \in Worker /\ rWhere[Ring!At(i - 1)] = "idle"
          /\ Ring!At(i - 1) # rVictim
      BY <1>2, <3>1, Zenon
    <3> QED BY <3>1, <3>2, Zenon
  <2>2. ASSUME NEW w \in Worker, rWhere[w] = "idle" /\ w # rVictim
        PROVE w \in {C[i] : i \in 1 .. L}
    <3>1. PICK k \in 0 .. L - 1 : Ring!At(k) = w
      BY <1>2, <2>2, Zenon
    <3>2. k + 1 \in 1 .. L /\ C[k + 1] = w
      BY <1>1, <1>4, <3>1, Zenon
    <3> QED BY <3>2, Zenon
  <2> QED BY <2>1, <2>2, Zenon
<1>7. ASSUME NEW k \in 0 .. RingSize - 1
      PROVE rItems[k] # Nil <=> \E i \in 0 .. L - 1 : Ring!Wrap(rHead + i) = k
  <2>1. ASSUME NEW i \in 0 .. L - 1, Ring!Wrap(rHead + i) = k PROVE rItems[k] # Nil
    <3>1. Ring!At(i) \in Worker /\ Ring!At(i) = rItems[k]
      BY <1>2, <1>3, <2>1, Zenon
    <3> QED BY <1>3, <3>1, Zenon
  <2> QED BY <1>2, <2>1, Zenon
<1> QED BY <1>5, <1>6, <1>7, Zenon DEF Ring!RingHoldsIdleOnce, L, C

(***************************************************************************)
(* worker_loop_queue.go implements IdleQueue, a bounded FIFO queue, for    *)
(* every size and number of workers: the ring holds each idle worker once  *)
(* and nil elsewhere, insert appends, detach takes the first,              *)
(* retrieveExpiry takes the longest expired prefix and no other worker,    *)
(* and reset detaches the worker it then never stops sending to.           *)
(***************************************************************************)
THEOREM RingImplementsQueue ==
  ASSUME Ring!QueueAssumption PROVE Ring!Spec => RingIsQueue
<1>1. Ring!Init => RingInv /\ Ring!Queue!Init
  <2>1. ASSUME Ring!Init PROVE RingInv /\ Ring!Queue!Init
    <3>1. /\ rNow = 0 /\ rTime = [w \in Worker |-> 0] /\ rWhere = [w \in Worker |-> "busy"]
          /\ rArgs = [w \in Worker |-> 0] /\ rItems = [i \in 0 .. RingSize - 1 |-> Nil]
          /\ rHead = 0 /\ rTail = 0 /\ rFull = FALSE /\ rVictim = Nil
      BY <2>1, Zenon DEF Ring!Init
    <3>2. 0 \in 0 .. RingTime /\ 0 \in 0 .. RingChanCap /\ 0 \in 0 .. RingSize - 1
      BY DEF Ring!QueueAssumption
    <3>3. Ring!TypeOK
      BY <3>1, <3>2, Zenon DEF Ring!TypeOK
    <3>4. Ring!Length = 0 /\ ~rFull
      BY <3>1, Zenon DEF Ring!Length
    <3>5. \A k \in 0 .. Ring!Length - 1 : FALSE
      BY <3>4
    <3>6. ByPlace
      BY <3>1, <3>5, Zenon DEF ByPlace
    <3>7. Ring!Queue!Init
      BY <3>4 DEF Ring!Queue!Init, Ring!Contents
    <3> QED BY <3>3, <3>4, <3>6, <3>7, Zenon DEF RingInv
  <2> QED BY <2>1
<1>2. RingInv /\ [Ring!Next]_(Ring!vars) => RingInv'
  BY RingStep, Zenon
<1>3. RingInv => Ring!TypeOK /\ Ring!RingHoldsIdleOnce
  BY PlacesHold, Zenon DEF RingInv
<1>4. RingInv /\ [Ring!Next]_(Ring!vars) =>
        [Ring!Queue!Insert \/ Ring!Queue!Detach \/ Ring!Queue!Purge]_(Ring!Contents)
  BY RingImplements, Zenon
<1>5. [Ring!Next]_(Ring!vars) =>
        [Ring!RetrieveExpiry => \A w \in Worker :
           rWhere[w] = "idle" /\ rWhere'[w] = "busy" => Ring!Expired(w)]_(Ring!vars)
  <2>1. ASSUME Ring!RetrieveExpiry, NEW w \in Worker, rWhere[w] = "idle" /\ rWhere'[w] = "busy"
        PROVE Ring!Expired(w)
    <3>1. PICK n \in 1 .. Ring!Length :
            /\ \A k \in 0 .. n - 1 : Ring!Expired(Ring!At(k))
            /\ rWhere' = [x \in Worker |->
                            IF \E k \in 0 .. n - 1 : Ring!At(k) = x THEN "busy" ELSE rWhere[x]]
      BY <2>1, Zenon DEF Ring!RetrieveExpiry
    <3>2. \E k \in 0 .. n - 1 : Ring!At(k) = w
      BY <2>1, <3>1, Zenon
    <3> QED BY <3>1, <3>2, Zenon
  <2> QED BY <2>1, Zenon
<1> QED BY <1>1, <1>2, <1>3, <1>4, <1>5, PTL
    DEF Ring!Spec, RingIsQueue, Ring!IsFifo, Ring!Queue!Spec, Ring!OnlyExpiredLeave
=============================================================================
