--------------------------- MODULE ChannelProofs ----------------------------
(***************************************************************************)
(* Proofs about the memory transport (MemTransport), the server's side of  *)
(* the HTTP transport (HttpSocket) and the websocket (WSocket), for every  *)
(* number of users, requests, answers, senders, readers and frames.        *)
(***************************************************************************)
EXTENDS Channels, TLAPS

-----------------------------------------------------------------------------
(***************************************************************************)
(* MemTransport.                                                           *)
(***************************************************************************)

(***************************************************************************)
(* The inductive invariant.  Nobody uses the ends before they are crossed, *)
(* and nobody is parked once exit or lexit is closed: so a message passes  *)
(* only to the other end, and only before a Close.                         *)
(***************************************************************************)
MemIInv ==
       /\ Memory!TypeOK /\ mReaders \in [Memory!Ends -> SUBSET MemUsers]
       /\ mExit \in BOOLEAN /\ mLate = FALSE
       /\ mSent \in [Memory!Ends -> Seq(Memory!Ends \X Nat)] /\ mGot \in [Memory!Ends -> Seq(Memory!Ends \X Nat)]
       /\ mDial = "done" => /\ mSendOf = [client |-> 1, server |-> 2]
                            /\ mRecvOf = [client |-> 2, server |-> 1]
       /\ mDial # "done" => \A u \in MemUsers : mSt[u] = "idle"
       /\ mExit \/ Memory!lexit => \A u \in MemUsers : ~Memory!Parked(u)
       /\ Memory!InOrderOnce

\* A message that passes from an end to the other keeps the two in step.
LEMMA MemPassInOrder ==
  ASSUME MemIInv, NEW e \in Memory!Ends, Memory!Pass(e, Memory!Peer(e), Memory!NextMsg(e)), ~mExit, ~Memory!lexit
  PROVE  /\ mSent' \in [Memory!Ends -> Seq(Memory!Ends \X Nat)] /\ mGot' \in [Memory!Ends -> Seq(Memory!Ends \X Nat)]
         /\ Memory!InOrderOnce' /\ mLate' = FALSE
<1>1. Memory!NextMsg(e) \in Memory!Ends \X Nat /\ Memory!Peer(e) \in Memory!Ends
  BY DEF MemIInv, Memory!NextMsg, Memory!Peer, Memory!Ends
<1>2. Append(mSent[e], Memory!NextMsg(e)) \in Seq(Memory!Ends \X Nat)
  BY <1>1 DEF MemIInv
<1>3. Append(mGot[Memory!Peer(e)], Memory!NextMsg(e)) \in Seq(Memory!Ends \X Nat)
  BY <1>1 DEF MemIInv
<1>4. Memory!Peer(Memory!Peer(e)) = e /\ \A d \in Memory!Ends : d # Memory!Peer(e) => Memory!Peer(d) # e
  BY Zenon DEF Memory!Peer, Memory!Ends
<1>5. mSent' = [mSent EXCEPT ![e] = Append(mSent[e], Memory!NextMsg(e))]
        /\ mGot' = [mGot EXCEPT ![Memory!Peer(e)] = Append(mGot[Memory!Peer(e)], Memory!NextMsg(e))]
        /\ mLate' = (mLate \/ mExit \/ Memory!lexit)
  BY Zenon DEF Memory!Pass
<1>6. mGot[Memory!Peer(e)] = mSent[e]
  BY Zenon, <1>1, <1>4 DEF MemIInv, Memory!InOrderOnce
<1>7. ASSUME NEW d \in Memory!Ends PROVE mGot'[d] = mSent'[Memory!Peer(d)]
  <2>1. CASE d = Memory!Peer(e)
    BY Zenon, <2>1, <1>1, <1>4, <1>5, <1>6 DEF MemIInv
  <2>2. CASE d # Memory!Peer(e)
    BY Zenon, <2>2, <1>1, <1>4, <1>5 DEF MemIInv, Memory!InOrderOnce, Memory!Peer, Memory!Ends
  <2> QED
    BY Zenon, <2>1, <2>2
<1> QED
  BY Zenon, <1>1, <1>2, <1>3, <1>5, <1>7 DEF MemIInv, Memory!InOrderOnce

\* The users of two ends that share a channel hold the two ends of the connection.
LEMMA MemCrossed ==
  ASSUME Memory!EndsAssumption, MemIInv, mDial = "done", NEW u \in MemUsers, NEW v \in MemUsers
  PROVE  /\ mSendOf[EndOf[u]] = mRecvOf[EndOf[v]] => EndOf[v] = Memory!Peer(EndOf[u])
         /\ Memory!Peer(Memory!Peer(EndOf[u])) = EndOf[u]
  BY DEF Memory!EndsAssumption, MemIInv, Memory!Ends, Memory!Peer

\* Who holds the read lock of an end is parked at it.
MemHeld(e) == {u \in MemUsers : EndOf[u] = e /\ Memory!Parked(u)}

\* A goroutine that wakes up leaves the lock.
LEMMA MemLeaves ==
  ASSUME Memory!EndsAssumption, Memory!TypeOK, mReaders \in [Memory!Ends -> SUBSET MemUsers], NEW u \in MemUsers, NEW v \in MemUsers,
         ~Memory!Parked(u), mSt' = [mSt EXCEPT ![u] = "idle", ![v] = "idle"],
         mReaders' = [mReaders EXCEPT ![EndOf[v]] = @ \ {v}]
  PROVE  mReaders' \in [Memory!Ends -> SUBSET MemUsers] /\ \A e \in Memory!Ends : mReaders'[e] \subseteq MemHeld(e)'
<1>1. EndOf[v] \in Memory!Ends
  BY Zenon DEF Memory!EndsAssumption
<1>2. mReaders' \in [Memory!Ends -> SUBSET MemUsers]
  BY Zenon, <1>1
<1>3. ASSUME NEW e \in Memory!Ends, NEW w \in mReaders'[e] PROVE w \in MemHeld(e)'
  <2>1. w \in mReaders[e] /\ w # v
    BY Zenon, <1>1 DEF Memory!TypeOK
  <2>2. w \in MemUsers /\ EndOf[w] = e /\ Memory!Parked(w) /\ w # u
    BY Zenon, <2>1 DEF Memory!TypeOK
  <2>3. mSt'[w] = mSt[w]
    BY Zenon, <2>1, <2>2 DEF Memory!TypeOK
  <2> QED
    BY Zenon, <2>2, <2>3 DEF MemHeld, Memory!Parked
<1> QED
  BY Zenon, <1>2, <1>3

\* A goroutine that parks enters it.
LEMMA MemEnters ==
  ASSUME Memory!EndsAssumption, Memory!TypeOK, mReaders \in [Memory!Ends -> SUBSET MemUsers], NEW u \in MemUsers, ~Memory!Parked(u),
         NEW s \in {"send", "recv"}, mSt' = [mSt EXCEPT ![u] = s],
         mReaders' = [mReaders EXCEPT ![EndOf[u]] = @ \cup {u}]
  PROVE  mReaders' \in [Memory!Ends -> SUBSET MemUsers] /\ \A e \in Memory!Ends : mReaders'[e] \subseteq MemHeld(e)'
<1>1. EndOf[u] \in Memory!Ends
  BY Zenon DEF Memory!EndsAssumption
<1>2. mReaders' \in [Memory!Ends -> SUBSET MemUsers]
  BY Zenon, <1>1
<1>3. ASSUME NEW e \in Memory!Ends, NEW w \in mReaders'[e] PROVE w \in MemHeld(e)'
  <2>1. CASE w = u
    <3>1. e = EndOf[u]
      BY Zenon, <1>1, <2>1 DEF Memory!TypeOK
    <3> QED
      BY <2>1, <3>1 DEF MemHeld, Memory!Parked, Memory!TypeOK
  <2>2. CASE w # u
    <3>1. w \in mReaders[e]
      BY Zenon, <1>1, <2>2
    <3>2. w \in MemUsers /\ EndOf[w] = e /\ Memory!Parked(w) /\ mSt'[w] = mSt[w]
      BY Zenon, <2>2, <3>1 DEF Memory!TypeOK
    <3> QED
      BY Zenon, <3>2 DEF MemHeld, Memory!Parked
  <2> QED
    BY Zenon, <2>1, <2>2
<1> QED
  BY Zenon, <1>2, <1>3

\* Every step of the listener, of Dial and of a user keeps the invariant.
LEMMA MemIInvStep == ASSUME Memory!EndsAssumption PROVE MemIInv /\ [Memory!Next]_(Memory!vars) => MemIInv'
<1> SUFFICES ASSUME MemIInv, [Memory!Next]_(Memory!vars) PROVE MemIInv'
  BY Zenon
<1>0. EndOf \in [MemUsers -> Memory!Ends]
  BY Zenon DEF Memory!EndsAssumption
<1>1. CASE Memory!Listen
  BY Zenon, <1>1 DEF MemIInv, Memory!Listen, Memory!sockVars, Memory!TypeOK, Memory!lexit,
     Memory!Parked, Memory!InOrderOnce
<1>2. CASE Memory!Accept
  BY Zenon, <1>2 DEF MemIInv, Memory!Accept, Memory!Established, Memory!sockVars, Memory!TypeOK,
     Memory!lexit, Memory!Parked, Memory!InOrderOnce
<1>3. CASE Memory!Dial
  BY Zenon, <1>3 DEF MemIInv, Memory!Dial, Memory!Established, Memory!sockVars, Memory!TypeOK,
     Memory!lexit, Memory!Parked, Memory!InOrderOnce
<1>4. CASE Memory!ListenerClose
  BY Zenon, <1>4 DEF MemIInv, Memory!ListenerClose, Memory!WakeAll, Memory!TypeOK, Memory!lexit,
     Memory!Parked, Memory!InOrderOnce
<1>5. ASSUME NEW u \in MemUsers, Memory!Call(u) PROVE MemIInv'
  <2>1. /\ mDial = "done" /\ UNCHANGED <<Memory!connVars, mExit, mReaders, mSent, mGot, mLate>>
        /\ mSt \in [MemUsers -> {"idle", "lock", "send", "recv", "close"}] /\ ~Memory!Parked(u)
    BY Zenon, <1>5 DEF MemIInv, Memory!Call, Memory!TypeOK, Memory!Parked
  <2>2. PICK p \in {"lock", "close"} : mSt' = [mSt EXCEPT ![u] = p]
    BY Zenon, <1>5 DEF Memory!Call
  <2>3. /\ mSt' \in [MemUsers -> {"idle", "lock", "send", "recv", "close"}]
        /\ \A v \in MemUsers : Memory!Parked(v)' <=> Memory!Parked(v)
    BY Zenon, <2>1, <2>2 DEF Memory!Parked
  <2>4. Memory!TypeOK'
    BY Zenon, <2>1, <2>3 DEF MemIInv, Memory!TypeOK, Memory!connVars
  <2> QED
    BY Zenon, <2>1, <2>3, <2>4 DEF MemIInv, Memory!connVars, Memory!lexit, Memory!InOrderOnce
<1>6. ASSUME NEW u \in MemUsers, Memory!Send(u) PROVE MemIInv'
  <2>0. mDial = "done" /\ UNCHANGED <<Memory!connVars, mExit>> /\ mSt[u] = "lock" /\ ~Memory!Parked(u)
    BY Zenon, <1>6 DEF MemIInv, Memory!TypeOK, Memory!Send, Memory!Parked
  <2>1. ASSUME NEW v \in MemUsers, Memory!Waits(v, "recv", mSendOf[EndOf[u]]),
               Memory!Pass(EndOf[u], EndOf[v], Memory!NextMsg(EndOf[u])),
               mSt' = [mSt EXCEPT ![u] = "idle", ![v] = "idle"],
               mReaders' = [mReaders EXCEPT ![EndOf[v]] = @ \ {v}]
        PROVE  MemIInv'
    <3>1. EndOf[v] = Memory!Peer(EndOf[u]) /\ ~mExit /\ ~Memory!lexit
      BY Zenon, <2>0, <2>1, MemCrossed DEF Memory!Waits, MemIInv, Memory!TypeOK, Memory!Parked
    <3>2. /\ mSent' \in [Memory!Ends -> Seq(Memory!Ends \X Nat)] /\ mGot' \in [Memory!Ends -> Seq(Memory!Ends \X Nat)]
          /\ Memory!InOrderOnce' /\ mLate' = FALSE
      BY Zenon, <1>0, <2>1, <3>1, MemPassInOrder
    <3>3. mReaders' \in [Memory!Ends -> SUBSET MemUsers] /\ \A e \in Memory!Ends : mReaders'[e] \subseteq MemHeld(e)'
      BY Zenon, <2>0, <2>1, MemLeaves DEF MemIInv
    <3> QED
      BY Zenon, <2>0, <2>1, <3>1, <3>2, <3>3 DEF MemIInv, Memory!connVars, Memory!TypeOK,
         Memory!lexit, Memory!Parked, MemHeld
  <2>2. CASE mSt' = [mSt EXCEPT ![u] = "idle"] /\ UNCHANGED <<mReaders, mSent, mGot, mLate>>
    <3>1. \A e \in Memory!Ends : mReaders'[e] \subseteq MemHeld(e)'
      BY Zenon, <2>0, <2>2 DEF MemIInv, Memory!TypeOK, MemHeld, Memory!Parked
    <3> QED
      BY <2>0, <2>2, <3>1 DEF MemIInv, Memory!connVars, Memory!TypeOK, Memory!lexit, Memory!Parked,
         Memory!InOrderOnce, MemHeld
  <2>3. CASE /\ ~mExit /\ ~Memory!lexit /\ mSt' = [mSt EXCEPT ![u] = "send"] /\ UNCHANGED <<mSent, mGot, mLate>>
             /\ mReaders' = [mReaders EXCEPT ![EndOf[u]] = @ \cup {u}]
    <3>1. mReaders' \in [Memory!Ends -> SUBSET MemUsers] /\ \A e \in Memory!Ends : mReaders'[e] \subseteq MemHeld(e)'
      BY Zenon, <2>0, <2>3, MemEnters DEF MemIInv
    <3> QED
      BY Zenon, <2>0, <2>3, <3>1 DEF MemIInv, Memory!connVars, Memory!TypeOK, Memory!lexit,
         Memory!Parked, Memory!InOrderOnce, MemHeld
  <2> QED
    BY Zenon, <1>6, <2>1, <2>2, <2>3 DEF Memory!Send
<1>7. ASSUME NEW u \in MemUsers, Memory!Recv(u) PROVE MemIInv'
  <2>0. mDial = "done" /\ UNCHANGED <<Memory!connVars, mExit>> /\ mSt[u] = "lock" /\ ~Memory!Parked(u)
    BY Zenon, <1>7 DEF MemIInv, Memory!TypeOK, Memory!Recv, Memory!Parked
  <2>1. ASSUME NEW v \in MemUsers, Memory!Waits(v, "send", mRecvOf[EndOf[u]]),
               Memory!Pass(EndOf[v], EndOf[u], Memory!NextMsg(EndOf[v])),
               mSt' = [mSt EXCEPT ![u] = "idle", ![v] = "idle"],
               mReaders' = [mReaders EXCEPT ![EndOf[v]] = @ \ {v}]
        PROVE  MemIInv'
    <3>1. EndOf[u] = Memory!Peer(EndOf[v]) /\ ~mExit /\ ~Memory!lexit
      BY Zenon, <2>0, <2>1, MemCrossed DEF Memory!Waits, MemIInv, Memory!TypeOK, Memory!Parked
    <3>2. /\ mSent' \in [Memory!Ends -> Seq(Memory!Ends \X Nat)] /\ mGot' \in [Memory!Ends -> Seq(Memory!Ends \X Nat)]
          /\ Memory!InOrderOnce' /\ mLate' = FALSE
      BY Zenon, <1>0, <2>1, <3>1, MemPassInOrder
    <3>3. mReaders' \in [Memory!Ends -> SUBSET MemUsers] /\ \A e \in Memory!Ends : mReaders'[e] \subseteq MemHeld(e)'
      BY Zenon, <2>0, <2>1, MemLeaves DEF MemIInv
    <3> QED
      BY Zenon, <2>0, <2>1, <3>1, <3>2, <3>3 DEF MemIInv, Memory!connVars, Memory!TypeOK,
         Memory!lexit, Memory!Parked, MemHeld
  <2>2. CASE mSt' = [mSt EXCEPT ![u] = "idle"] /\ UNCHANGED <<mReaders, mSent, mGot, mLate>>
    <3>1. \A e \in Memory!Ends : mReaders'[e] \subseteq MemHeld(e)'
      BY Zenon, <2>0, <2>2 DEF MemIInv, Memory!TypeOK, MemHeld, Memory!Parked
    <3> QED
      BY <2>0, <2>2, <3>1 DEF MemIInv, Memory!connVars, Memory!TypeOK, Memory!lexit, Memory!Parked,
         Memory!InOrderOnce, MemHeld
  <2>3. CASE /\ ~mExit /\ ~Memory!lexit /\ mSt' = [mSt EXCEPT ![u] = "recv"] /\ UNCHANGED <<mSent, mGot, mLate>>
             /\ mReaders' = [mReaders EXCEPT ![EndOf[u]] = @ \cup {u}]
    <3>1. mReaders' \in [Memory!Ends -> SUBSET MemUsers] /\ \A e \in Memory!Ends : mReaders'[e] \subseteq MemHeld(e)'
      BY Zenon, <2>0, <2>3, MemEnters DEF MemIInv
    <3> QED
      BY Zenon, <2>0, <2>3, <3>1 DEF MemIInv, Memory!connVars, Memory!TypeOK, Memory!lexit,
         Memory!Parked, Memory!InOrderOnce, MemHeld
  <2> QED
    BY Zenon, <1>7, <2>1, <2>2, <2>3 DEF Memory!Recv
<1>8. ASSUME NEW u \in MemUsers, Memory!TimeOut(u) PROVE MemIInv'
  <2>1. mReaders' \in [Memory!Ends -> SUBSET MemUsers]
    BY Zenon, <1>0, <1>8 DEF Memory!TimeOut, MemIInv
  <2>2. ASSUME NEW e \in Memory!Ends, NEW w \in mReaders'[e] PROVE w \in MemHeld(e)'
    <3>1. w \in mReaders[e] /\ w # u
      BY <1>0, <1>8, <2>2 DEF Memory!TimeOut, MemIInv, Memory!TypeOK
    <3>2. w \in MemUsers /\ EndOf[w] = e /\ Memory!Parked(w) /\ mSt'[w] = mSt[w]
      BY Zenon, <1>8, <3>1 DEF Memory!TimeOut, MemIInv, Memory!TypeOK
    <3> QED
      BY Zenon, <3>2 DEF MemHeld, Memory!Parked
  <2> QED
    BY Zenon, <1>8, <2>1, <2>2 DEF MemIInv, Memory!TimeOut, Memory!connVars, Memory!TypeOK,
       Memory!lexit, Memory!Parked, Memory!InOrderOnce, MemHeld
<1>9. ASSUME NEW u \in MemUsers, Memory!CloseLock(u) PROVE MemIInv'
  BY Zenon, <1>9 DEF MemIInv, Memory!CloseLock, Memory!connVars, Memory!TypeOK, Memory!lexit,
     Memory!Parked, Memory!InOrderOnce
<1>10. ASSUME NEW u \in MemUsers, Memory!Close(u) PROVE MemIInv'
  BY Zenon, <1>10 DEF MemIInv, Memory!Close, Memory!connVars, Memory!TypeOK, Memory!lexit,
     Memory!Parked, Memory!InOrderOnce
<1>11. CASE UNCHANGED Memory!vars
  BY Zenon, <1>11 DEF MemIInv, Memory!vars, Memory!connVars, Memory!TypeOK, Memory!lexit,
     Memory!Parked, Memory!InOrderOnce
<1> QED
  BY Zenon, <1>1, <1>2, <1>3, <1>4, <1>5, <1>6, <1>7, <1>8, <1>9, <1>10, <1>11 DEF Memory!Next,
     Memory!UserStep

\* The invariant holds in every state.
LEMMA MemIInvHolds == ASSUME Memory!EndsAssumption PROVE Memory!Init /\ [][Memory!Next]_(Memory!vars) => []MemIInv
<1>1. Memory!Init => MemIInv
  <2>1. <<>> \in Seq(Memory!Ends \X Nat)
    OBVIOUS
  <2>2. \A e \in Memory!Ends : Memory!Peer(e) \in Memory!Ends
    BY Zenon DEF Memory!Ends, Memory!Peer
  <2> QED
    BY Zenon, <2>1, <2>2 DEF Memory!Init, MemIInv, Memory!InOrderOnce, Memory!TypeOK, Memory!Parked,
       Memory!lexit
<1>2. MemIInv /\ [Memory!Next]_(Memory!vars) => MemIInv'
  BY Zenon, MemIInvStep
<1> QED
  BY <1>1, <1>2, PTL

(***************************************************************************)
(* What an end of a memory connection receives is what the other sent, in  *)
(* order and once, however many goroutines share the ends, and no message  *)
(* passes once the connection or its listener is closed.                   *)
(***************************************************************************)
THEOREM InOrder == ASSUME Memory!EndsAssumption PROVE Memory!Init /\ [][Memory!Next]_(Memory!vars) => []MemoryDelivers
<1>1. MemIInv => MemoryDelivers
  BY Zenon DEF MemoryDelivers, MemIInv, Memory!NothingAfterClose
<1> QED
  BY <1>1, MemIInvHolds, PTL

-----------------------------------------------------------------------------
(***************************************************************************)
(* HttpSocket.                                                             *)
(***************************************************************************)

(***************************************************************************)
(* What Recv has given, with HTTP/1 the request in ch, and what is unread  *)
(* are the requests of the peer in their order: the unread ones begin      *)
(* after At others.                                                        *)
(***************************************************************************)
HttpAt == Len(hGot) + (IF hProto = 1 THEN Len(hFirst) ELSE 0)

HttpShape ==
    /\ hProto \in {1, 2} /\ hHandler \in {"no", "running", "returned"} /\ hSent \in Nat /\ hOpen \in BOOLEAN
    /\ hGot \in Seq(Nat) /\ hFirst \in Seq(Nat) /\ hInput \in Seq(Nat)
    /\ hHandler = "no" => hGot = <<>> /\ hFirst = <<>> /\ hRpc = "idle"
    /\ hProto = 1 /\ hFirst # <<>> => hGot = <<>> /\ hFirst = <<1>>
HttpGivenInOrder == \A i \in 1 .. Len(hGot) : hGot[i] = i
HttpUnreadInOrder == \A i \in 1 .. Len(hInput) : hInput[i] = HttpAt + i
HttpAllThere == hOpen => hSent = HttpAt + Len(hInput)
HttpOrderInv == HttpShape /\ HttpGivenInOrder /\ HttpUnreadInOrder /\ HttpAllThere

\* Another element at the end of a sequence.
LEMMA HttpAppended ==
  ASSUME NEW s \in Seq(Nat), NEW e \in Nat
  PROVE  /\ Append(s, e) \in Seq(Nat) /\ Len(Append(s, e)) = Len(s) + 1 /\ Len(s) \in Nat
         /\ Append(s, e)[Len(s) + 1] = e
         /\ \A i \in 1 .. Len(s) : Append(s, e)[i] = s[i]
  OBVIOUS

\* The first element of a sequence, and the others.
LEMMA HttpHeadAndTail ==
  ASSUME NEW s \in Seq(Nat), s # <<>>
  PROVE  /\ Tail(s) \in Seq(Nat) /\ Len(Tail(s)) = Len(s) - 1 /\ Len(s) \in Nat \ {0}
         /\ Head(s) = s[1] /\ s[1] \in Nat
         /\ \A i \in 1 .. Len(s) - 1 : Tail(s)[i] = s[i + 1]
  OBVIOUS

\* What is left of a sequence without its first elements.
LEMMA HttpDropped ==
  ASSUME NEW u \in Seq(Nat), NEW k \in 1 .. Len(u)
  PROVE  /\ SubSeq(u, k + 1, Len(u)) \in Seq(Nat) /\ Len(SubSeq(u, k + 1, Len(u))) = Len(u) - k
         /\ \A i \in 1 .. Len(u) - k : SubSeq(u, k + 1, Len(u))[i] = u[k + i]
<1>1. Len(u) \in Nat
  OBVIOUS
<1>2. PICK m, l, w : m = k + 1 /\ l = Len(u) /\ w = SubSeq(u, m, l)
  BY Zenon
<1>3. m \in Nat /\ l \in Nat /\ m >= 1 /\ m <= l + 1
  BY <1>1, <1>2
<1>4. w \in Seq(Nat)
  BY <1>2, <1>3
<1>5. Len(w) = l + 1 - m
  BY <1>2, <1>3
<1>6. \A i \in 1 .. l + 1 - m : w[i] = u[m + i - 1]
  BY <1>2, <1>3
<1>7. l + 1 - m = Len(u) - k /\ \A i \in 1 .. Len(u) - k : m + i - 1 = k + i
  BY <1>1, <1>2
<1> QED
  BY Zenon, <1>2, <1>4, <1>5, <1>6, <1>7

\* One sequence after another.
LEMMA HttpJoined ==
  ASSUME NEW s \in Seq(Nat), NEW w \in Seq(Nat)
  PROVE  /\ s \o w \in Seq(Nat) /\ Len(s \o w) = Len(s) + Len(w)
         /\ \A i \in 1 .. Len(s) : (s \o w)[i] = s[i]
         /\ \A i \in 1 .. Len(w) : (s \o w)[Len(s) + i] = w[i]
<1>1. s \o w \in Seq(Nat)
  OBVIOUS
<1>2. Len(s \o w) = Len(s) + Len(w)
  OBVIOUS
<1>3. ASSUME NEW i \in 1 .. Len(s) PROVE (s \o w)[i] = s[i]
  OBVIOUS
<1>4. ASSUME NEW i \in 1 .. Len(w) PROVE (s \o w)[Len(s) + i] = w[i]
  OBVIOUS
<1> QED
  BY Zenon, <1>1, <1>2, <1>3, <1>4

\* A piece of u goes to the end of s.
LEMMA HttpPassed ==
  ASSUME NEW s \in Seq(Nat), NEW u \in Seq(Nat), NEW k \in 1 .. Len(u)
  PROVE  /\ s \o SubSeq(u, 1, k) \in Seq(Nat) /\ Len(s \o SubSeq(u, 1, k)) = Len(s) + k
         /\ \A i \in 1 .. Len(s) : (s \o SubSeq(u, 1, k))[i] = s[i]
         /\ \A i \in 1 .. k : (s \o SubSeq(u, 1, k))[Len(s) + i] = u[i]
<1>1. PICK w : w = SubSeq(u, 1, k)
  BY Zenon
<1>2. w \in Seq(Nat) /\ Len(w) = k /\ \A i \in 1 .. k : w[i] = u[i]
  BY <1>1
<1>3. /\ s \o w \in Seq(Nat) /\ Len(s \o w) = Len(s) + Len(w)
      /\ \A i \in 1 .. Len(s) : (s \o w)[i] = s[i]
      /\ \A i \in 1 .. Len(w) : (s \o w)[Len(s) + i] = w[i]
  BY Zenon, <1>2, HttpJoined
<1> QED
  BY Zenon, <1>1, <1>2, <1>3

\* Steps that leave the requests alone.
LEMMA HttpOrderKept ==
  ASSUME HttpOrderInv, UNCHANGED <<hProto, hSent, hFirst, hInput, hGot>>, hOpen' \in BOOLEAN, hOpen' => hOpen,
         hHandler' \in {"no", "running", "returned"}, hHandler' = "no" => hHandler = "no" /\ hRpc' = "idle"
  PROVE  HttpOrderInv'
<1>1. HttpAt' = HttpAt
  BY Zenon DEF HttpAt
<1>2. HttpShape'
  BY Zenon DEF HttpOrderInv, HttpShape
<1>3. HttpGivenInOrder' /\ HttpUnreadInOrder'
  BY Zenon, <1>1 DEF HttpOrderInv, HttpGivenInOrder, HttpUnreadInOrder
<1>4. HttpAllThere'
  BY Zenon, <1>1 DEF HttpOrderInv, HttpAllThere
<1> QED
  BY Zenon, <1>2, <1>3, <1>4 DEF HttpOrderInv

\* The peer sends another one.
LEMMA HttpSendsStep == ASSUME HttpOrderInv, Http!Sends PROVE HttpOrderInv'
<1>0. /\ Len(hGot) \in Nat /\ Len(hFirst) \in Nat /\ Len(hInput) \in Nat /\ HttpAt \in Nat
      /\ hInput \in Seq(Nat) /\ hSent \in Nat
  BY DEF HttpOrderInv, HttpShape, HttpAt
<1>1. hSent' = hSent + 1 /\ UNCHANGED <<hProto, hHandler, hFirst, hOpen, hGot, hRpc>>
  BY Zenon DEF Http!Sends
<1>2. HttpAt' = HttpAt
  BY Zenon, <1>1 DEF HttpAt
<1>3. HttpGivenInOrder'
  BY Zenon, <1>1 DEF HttpOrderInv, HttpGivenInOrder
<1>4. CASE hOpen
  <2>1. hInput' = Append(hInput, hSent + 1) /\ hSent + 1 \in Nat
    BY <1>0, <1>1, <1>4 DEF Http!Sends
  <2>2. /\ hInput' \in Seq(Nat) /\ Len(hInput') = Len(hInput) + 1
        /\ hInput'[Len(hInput) + 1] = hSent + 1 /\ \A i \in 1 .. Len(hInput) : hInput'[i] = hInput[i]
    BY Zenon, <1>0, <2>1, HttpAppended
  <2>3. hSent = HttpAt + Len(hInput)
    BY Zenon, <1>4 DEF HttpOrderInv, HttpAllThere
  <2>4. ASSUME NEW i \in 1 .. Len(hInput') PROVE hInput'[i] = HttpAt + i
    <3>1. CASE i \in 1 .. Len(hInput)
      BY Zenon, <2>2, <3>1 DEF HttpOrderInv, HttpUnreadInOrder
    <3>2. CASE i = Len(hInput) + 1
      BY <1>0, <2>2, <2>3, <3>2
    <3> QED
      BY <1>0, <2>2, <3>1, <3>2
  <2>5. HttpUnreadInOrder'
    BY Zenon, <1>2, <2>4 DEF HttpUnreadInOrder
  <2>6. HttpAllThere'
    BY <1>0, <1>1, <1>2, <2>2, <2>3 DEF HttpAllThere
  <2>7. HttpShape'
    BY <1>0, <1>1, <2>2 DEF HttpOrderInv, HttpShape
  <2> QED
    BY Zenon, <1>3, <2>5, <2>6, <2>7 DEF HttpOrderInv
<1>5. CASE ~hOpen
  <2>1. hInput' = hInput
    BY Zenon, <1>5 DEF Http!Sends
  <2>2. HttpUnreadInOrder' /\ HttpAllThere'
    BY Zenon, <1>1, <1>2, <1>5, <2>1 DEF HttpOrderInv, HttpUnreadInOrder, HttpAllThere
  <2>3. HttpShape'
    BY <1>0, <1>1, <2>1 DEF HttpOrderInv, HttpShape
  <2> QED
    BY Zenon, <1>3, <2>2, <2>3 DEF HttpOrderInv
<1> QED
  BY Zenon, <1>4, <1>5

\* The first request: by the channel with HTTP/1, still in the body with HTTP/2.
LEMMA HttpAcceptStep == ASSUME HttpOrderInv, Http!Accept PROVE HttpOrderInv'
<1>1. /\ hHandler = "no" /\ hInput # <<>> /\ hGot = <<>> /\ hFirst = <<>> /\ hRpc = "idle"
      /\ UNCHANGED <<hProto, hSent, hGot, hRpc>> /\ hInput \in Seq(Nat) /\ hSent \in Nat
      /\ hProto \in {1, 2} /\ hOpen \in BOOLEAN
  BY Zenon DEF Http!Accept, HttpOrderInv, HttpShape, Http!peerVars
<1>2. HttpAt = 0
  BY <1>1 DEF HttpAt
<1>3. /\ Tail(hInput) \in Seq(Nat) /\ Len(Tail(hInput)) = Len(hInput) - 1 /\ Len(hInput) \in Nat \ {0}
      /\ Head(hInput) = hInput[1] /\ \A i \in 1 .. Len(hInput) - 1 : Tail(hInput)[i] = hInput[i + 1]
  BY Zenon, <1>1, HttpHeadAndTail
<1>4. \A i \in 1 .. Len(hInput) : hInput[i] = i
  <2>1. \A i \in 1 .. Len(hInput) : hInput[i] = 0 + i
    BY Zenon, <1>2 DEF HttpOrderInv, HttpUnreadInOrder
  <2> QED
    BY <1>3, <2>1
<1>5. HttpGivenInOrder'
  BY Zenon, <1>1 DEF HttpOrderInv, HttpGivenInOrder
<1>6. hOpen => hSent = Len(hInput)
  BY <1>2, <1>3 DEF HttpOrderInv, HttpAllThere
<1>7. CASE hHandler' = "running" /\ hProto = 1
  <2>1. hFirst' = <<1>> /\ hInput' = Tail(hInput) /\ UNCHANGED hOpen
    BY <1>3, <1>4, <1>7 DEF Http!Accept
  <2>2. HttpAt' = 1
    BY <1>1, <1>7, <2>1 DEF HttpAt
  <2>3. ASSUME NEW i \in 1 .. Len(hInput') PROVE hInput'[i] = 1 + i
    <3>1. i \in 1 .. Len(hInput) - 1 /\ i + 1 \in 1 .. Len(hInput) /\ i + 1 = 1 + i
      BY <1>3, <2>1
    <3> QED
      BY Zenon, <1>3, <1>4, <2>1, <3>1
  <2>4. HttpUnreadInOrder'
    BY Zenon, <2>2, <2>3 DEF HttpUnreadInOrder
  <2>5. HttpAllThere'
    <3>1. Len(hInput') = Len(hInput) - 1 /\ 1 + (Len(hInput) - 1) = Len(hInput)
      BY <1>3, <2>1
    <3>2. hOpen' => hSent' = Len(hInput)
      BY Zenon, <1>1, <1>6, <2>1
    <3> QED
      BY Zenon, <2>2, <3>1, <3>2 DEF HttpAllThere
  <2>6. hFirst' \in Seq(Nat)
    BY <2>1
  <2>7. HttpShape'
    BY <1>1, <1>3, <1>7, <2>1, <2>6 DEF HttpShape
  <2> QED
    BY Zenon, <1>5, <2>4, <2>5, <2>7 DEF HttpOrderInv
<1>8. CASE hHandler' = "running" /\ hProto # 1
  <2>1. hFirst' = <<1>> /\ hInput' = hInput /\ UNCHANGED hOpen
    BY <1>3, <1>4, <1>8 DEF Http!Accept
  <2>2. HttpAt' = 0
    BY <1>1, <1>8, <2>1 DEF HttpAt
  <2>3. HttpUnreadInOrder' /\ HttpAllThere'
    BY Zenon, <1>1, <1>2, <2>1, <2>2 DEF HttpOrderInv, HttpUnreadInOrder, HttpAllThere
  <2>4. hFirst' \in Seq(Nat)
    BY <2>1
  <2>5. HttpShape'
    BY <1>1, <1>8, <2>1, <2>4 DEF HttpShape
  <2> QED
    BY Zenon, <1>5, <2>3, <2>5 DEF HttpOrderInv
<1>9. CASE hHandler' = "returned" /\ hOpen' = FALSE /\ UNCHANGED <<hFirst, hInput>>
  BY Zenon, <1>1, <1>9, HttpOrderKept
<1> QED
  BY Zenon, <1>7, <1>8, <1>9 DEF Http!Accept

\* Recv takes the first request.
LEMMA HttpRecvFirstStep == ASSUME HttpOrderInv, Http!RecvFirst PROVE HttpOrderInv'
<1>1. /\ hProto = 1 /\ hGot = <<>> /\ hFirst = <<1>> /\ hFirst' = <<>> /\ hGot' = hGot \o hFirst /\ hRpc' = "idle"
      /\ UNCHANGED <<hProto, hSent, hHandler, hInput, hOpen>> /\ hHandler # "no"
  BY Zenon DEF Http!RecvFirst, HttpOrderInv, HttpShape, Http!peerVars
<1>2. hGot' = <<1>>
  BY <1>1
<1>3. HttpAt' = HttpAt
  BY <1>1, <1>2 DEF HttpAt
<1>4. HttpUnreadInOrder' /\ HttpAllThere'
  BY Zenon, <1>1, <1>3 DEF HttpOrderInv, HttpUnreadInOrder, HttpAllThere
<1>5. HttpGivenInOrder'
  BY <1>2 DEF HttpGivenInOrder
<1>6. HttpShape'
  BY Zenon, <1>1, <1>2 DEF HttpOrderInv, HttpShape
<1> QED
  BY Zenon, <1>4, <1>5, <1>6 DEF HttpOrderInv

\* Recv takes what the connection has, one request with HTTP/1.
LEMMA HttpRecvNextStep == ASSUME HttpOrderInv, Http!RecvNext PROVE HttpOrderInv'
<1>0. /\ Len(hGot) \in Nat /\ Len(hInput) \in Nat /\ HttpAt \in Nat
      /\ hGot \in Seq(Nat) /\ hInput \in Seq(Nat) /\ hSent \in Nat
  BY DEF HttpOrderInv, HttpShape, HttpAt
<1>1. PICK k \in 1 .. Len(hInput) : /\ hGot' = hGot \o SubSeq(hInput, 1, k)
                                    /\ hInput' = SubSeq(hInput, k + 1, Len(hInput))
  <2>1. hInput # <<>> => Len(hInput) # 0
    BY <1>0
  <2>2. hInput # <<>> /\ \E k \in (IF hProto = 1 THEN {1} ELSE 1 .. Len(hInput)) :
           hGot' = hGot \o SubSeq(hInput, 1, k) /\ hInput' = SubSeq(hInput, k + 1, Len(hInput))
    BY Zenon DEF Http!RecvNext
  <2>3. (IF hProto = 1 THEN {1} ELSE 1 .. Len(hInput)) \subseteq 1 .. Len(hInput)
    BY <1>0, <2>1, <2>2
  <2> QED
    BY Zenon, <2>2, <2>3
<1>2. /\ UNCHANGED <<hProto, hSent, hHandler, hFirst, hOpen>> /\ (hProto = 1 => hFirst = <<>>)
      /\ hRpc' = "idle" /\ hHandler # "no" /\ hOpen
  BY Zenon DEF Http!RecvNext, Http!peerVars, HttpOrderInv, HttpShape
<1>3. hGot' \in Seq(Nat) /\ hInput' \in Seq(Nat) /\ Len(hGot') = Len(hGot) + k /\ Len(hInput') = Len(hInput) - k
  <2>1. hGot' \in Seq(Nat) /\ Len(hGot') = Len(hGot) + k
    BY Zenon, <1>0, <1>1, HttpPassed
  <2>2. hInput' \in Seq(Nat) /\ Len(hInput') = Len(hInput) - k
    BY Zenon, <1>0, <1>1, HttpDropped
  <2> QED
    BY Zenon, <2>1, <2>2
<1>4. \A i \in 1 .. Len(hGot) : hGot'[i] = hGot[i]
  BY Zenon, <1>0, <1>1, HttpPassed
<1>5. \A i \in 1 .. k : hGot'[Len(hGot) + i] = hInput[i]
  BY Zenon, <1>0, <1>1, HttpPassed
<1>6. \A i \in 1 .. Len(hInput) - k : hInput'[i] = hInput[k + i]
  BY Zenon, <1>0, <1>1, HttpDropped
<1>7. HttpAt = Len(hGot) /\ HttpAt' = Len(hGot) + k
  <2>1. hProto = 1 => Len(hFirst) = 0
    BY <1>2
  <2>2. CASE hProto = 1
    BY <1>0, <1>2, <1>3, <2>1, <2>2 DEF HttpAt
  <2>3. CASE hProto # 1
    BY <1>0, <1>2, <1>3, <2>3 DEF HttpAt
  <2> QED
    BY Zenon, <2>2, <2>3
<1>8. ASSUME NEW i \in 1 .. Len(hGot') PROVE hGot'[i] = i
  <2>1. CASE i \in 1 .. Len(hGot)
    BY Zenon, <1>4, <2>1 DEF HttpOrderInv, HttpGivenInOrder
  <2>2. CASE i \notin 1 .. Len(hGot)
    <3>1. PICK j \in 1 .. k : i = Len(hGot) + j
      <4>1. i - Len(hGot) \in 1 .. k /\ i = Len(hGot) + (i - Len(hGot))
        BY <1>0, <1>3, <2>2
      <4> QED
        BY Zenon, <4>1
    <3>2. j \in 1 .. Len(hInput)
      BY <1>0
    <3>3. hInput[j] = HttpAt + j
      BY Zenon, <3>2 DEF HttpOrderInv, HttpUnreadInOrder
    <3> QED
      BY Zenon, <1>5, <1>7, <3>1, <3>3
  <2> QED
    BY Zenon, <2>1, <2>2
<1>9. ASSUME NEW i \in 1 .. Len(hInput') PROVE hInput'[i] = Len(hGot) + k + i
  <2>1. i \in 1 .. Len(hInput) - k /\ k + i \in 1 .. Len(hInput)
    BY <1>0, <1>3
  <2>2. hInput[k + i] = HttpAt + (k + i)
    BY Zenon, <2>1 DEF HttpOrderInv, HttpUnreadInOrder
  <2>3. hInput'[i] = hInput[k + i]
    BY Zenon, <1>6, <2>1
  <2> QED
    BY <1>0, <1>7, <2>1, <2>2, <2>3
<1>10. HttpGivenInOrder' /\ HttpUnreadInOrder'
  BY Zenon, <1>7, <1>8, <1>9 DEF HttpGivenInOrder, HttpUnreadInOrder
<1>11. hSent = HttpAt + Len(hInput)
  BY Zenon, <1>2 DEF HttpOrderInv, HttpAllThere
<1>12. HttpAllThere'
  BY <1>0, <1>2, <1>3, <1>7, <1>11 DEF HttpAllThere
<1>13. HttpShape'
  BY Zenon, <1>2, <1>3 DEF HttpOrderInv, HttpShape
<1> QED
  BY Zenon, <1>10, <1>12, <1>13 DEF HttpOrderInv

\* Every step keeps what has been received and what is unread in order.
LEMMA HttpOrderStep ==
  ASSUME HttpOrderInv, [Http!Next]_(Http!vars)
  PROVE  HttpOrderInv'
<1>0. hOpen \in BOOLEAN /\ hHandler \in {"no", "running", "returned"} /\ (hHandler = "no" => hRpc = "idle")
  BY Zenon DEF HttpOrderInv, HttpShape
<1>1. CASE UNCHANGED <<hProto, hSent, hHandler, hFirst, hInput, hOpen, hGot, hRpc>>
  BY Zenon, <1>0, <1>1, HttpOrderKept
<1>2. CASE UNCHANGED Http!vars \/ Http!Ends \/ Http!SendCall \/ Http!Send \/ Http!CloseCall
  BY Zenon, <1>1, <1>2 DEF Http!vars, Http!peerVars, Http!Ends, Http!SendCall, Http!Send,
     Http!SendLock, Http!SendWrite, Http!CloseCall
<1>3. CASE Http!Returns \/ Http!Close
  BY Zenon, <1>0, <1>3, HttpOrderKept DEF Http!Returns, Http!Close, Http!peerVars
<1>4. CASE Http!RecvCall \/ Http!RecvFails
  <2>1. UNCHANGED <<hProto, hSent, hFirst, hInput, hGot, hOpen, hHandler>>
    BY Zenon, <1>4 DEF Http!RecvCall, Http!RecvFails, Http!peerVars
  <2>2. hHandler = "no" => hRpc' = "idle"
    BY Zenon, <1>4 DEF Http!RecvCall, Http!RecvFails
  <2> QED
    BY Zenon, <1>0, <2>1, <2>2, HttpOrderKept
<1> QED
  BY Zenon, <1>2, <1>3, <1>4, HttpSendsStep, HttpAcceptStep, HttpRecvFirstStep, HttpRecvNextStep DEF
     Http!Next, Http!Recv

----------------------------------------------------------------------------
(***************************************************************************)
(* Once Close has returned the connection is closed; with HTTP/2, where    *)
(* this is not what stops a Send, a Send that was called later does not    *)
(* come to write.                                                          *)
(***************************************************************************)
HttpCloseInv ==
    /\ hProto \in {1, 2} /\ hOvertaken = FALSE
    /\ hCpc = "done" => hClosed /\ ~hOpen
    /\ hLate => hCpc = "done"
    /\ hProto = 2 /\ hSpc # "idle" => ~hLate

\* What Close leaves behind stays so in every step.
LEMMA HttpCloseStep == ASSUME HttpCloseInv, [Http!Next]_(Http!vars) PROVE HttpCloseInv'
<1> USE DEF HttpCloseInv, Http!peerVars
<1>1. CASE UNCHANGED Http!vars \/ Http!Sends \/ Http!Ends \/ Http!RecvCall \/ Http!Recv
  <2>1. UNCHANGED <<hProto, hOvertaken, hCpc, hClosed, hOpen, hLate, hSpc>>
    <3>1. CASE UNCHANGED Http!vars \/ Http!Sends \/ Http!Ends \/ Http!RecvCall
      BY Zenon, <3>1 DEF Http!vars, Http!Sends, Http!Ends, Http!RecvCall
    <3>2. CASE Http!Recv
      BY Zenon, <3>2 DEF Http!Recv, Http!RecvFirst, Http!RecvNext, Http!RecvFails
    <3> QED
      BY Zenon, <1>1, <3>1, <3>2
  <2> QED
    BY Zenon, <2>1
<1>2. CASE Http!Accept \/ Http!Returns
  BY <1>2 DEF Http!Accept, Http!Returns
<1>3. CASE Http!SendCall
  <2>1. hLate' => hCpc = "done"
    BY Zenon, <1>3 DEF Http!SendCall
  <2>2. hProto = 2 /\ hSpc' # "idle" => ~hClosed
    BY <1>3 DEF Http!SendCall
  <2> QED
    BY Zenon, <1>3, <2>1, <2>2 DEF Http!SendCall
<1>4. CASE Http!SendLock
  BY Zenon, <1>4 DEF Http!SendLock
<1>5. CASE Http!SendWrite
  BY Zenon, <1>5 DEF Http!SendWrite
<1>6. CASE Http!CloseCall \/ Http!Close
  BY <1>6 DEF Http!CloseCall, Http!Close
<1> QED
  BY Zenon, <1>1, <1>2, <1>3, <1>4, <1>5, <1>6 DEF Http!Next, Http!Send

\* The places of the goroutines, the bound on what the peer sends, and the room of ch.
LEMMA HttpTypeStep == ASSUME Http!DataAssumption, Http!TypeOK, [Http!Next]_(Http!vars) PROVE Http!TypeOK'
<1> USE DEF Http!TypeOK, Http!peerVars
<1>1. CASE UNCHANGED Http!vars \/ Http!Ends \/ Http!RecvCall \/ Http!RecvNext \/ Http!RecvFails
  BY Zenon, <1>1 DEF Http!vars, Http!Ends, Http!RecvCall, Http!RecvNext, Http!RecvFails
<1>2. CASE Http!Sends
  BY <1>2 DEF Http!Sends, Http!DataAssumption
<1>3. CASE Http!Accept
  <2>1. hFirst' = <<Head(hInput)>> \/ hFirst' = hFirst
    BY Zenon, <1>3 DEF Http!Accept
  <2>2. Len(<<Head(hInput)>>) = 1
    BY Zenon
  <2>3. Len(hFirst') <= 1
    <3>1. CASE hFirst' = <<Head(hInput)>>
      BY <2>2, <3>1
    <3>2. CASE hFirst' = hFirst
      BY Zenon, <3>2
    <3> QED
      BY Zenon, <2>1, <3>1, <3>2
  <2> QED
    BY Zenon, <1>3, <2>3 DEF Http!Accept
<1>4. CASE Http!Returns \/ Http!SendCall \/ Http!CloseCall \/ Http!Close
  BY Zenon, <1>4 DEF Http!Returns, Http!SendCall, Http!CloseCall, Http!Close
<1>5. CASE Http!SendLock \/ Http!SendWrite
  BY Zenon, <1>5 DEF Http!SendLock, Http!SendWrite
<1>6. CASE Http!RecvFirst
  <2>1. Len(hFirst') <= 1
    BY <1>6 DEF Http!RecvFirst
  <2> QED
    BY Zenon, <1>6, <2>1 DEF Http!RecvFirst
<1> QED
  BY Zenon, <1>1, <1>2, <1>3, <1>4, <1>5, <1>6 DEF Http!Next, Http!Recv, Http!Send

(***************************************************************************)
(* Recv gives the requests of the peer in order, the first by the channel  *)
(* and the others by the connection, without a gap and none twice; and a   *)
(* Send that is called after Close has returned writes nothing.            *)
(***************************************************************************)
THEOREM Requests ==
  ASSUME Http!DataAssumption
  PROVE  Http!Init /\ [][Http!Next]_(Http!vars) => []HttpSocketOrders
<1>1. Http!Init => HttpOrderInv /\ HttpCloseInv /\ Http!TypeOK
  <2>1. Http!Init => HttpShape /\ HttpGivenInOrder /\ HttpUnreadInOrder /\ HttpAllThere
    BY DEF Http!Init, HttpShape, HttpGivenInOrder, HttpUnreadInOrder, HttpAllThere, HttpAt
  <2>2. Http!Init => HttpCloseInv /\ Http!TypeOK
    BY DEF Http!Init, HttpCloseInv, Http!TypeOK, Http!DataAssumption
  <2> QED
    BY Zenon, <2>1, <2>2 DEF HttpOrderInv
<1>2. HttpOrderInv /\ HttpCloseInv /\ Http!TypeOK /\ [Http!Next]_(Http!vars) => (HttpOrderInv /\ HttpCloseInv /\ Http!TypeOK)'
  BY Zenon, HttpOrderStep, HttpCloseStep, HttpTypeStep
<1>3. HttpOrderInv => Http!RequestsInOrder
  BY DEF HttpOrderInv, HttpShape, HttpGivenInOrder, Http!RequestsInOrder
<1>4. HttpCloseInv => Http!ClosedMeansClosed
  BY Zenon DEF HttpCloseInv, Http!ClosedMeansClosed
<1> QED
  BY <1>1, <1>2, <1>3, <1>4, PTL DEF HttpSocketOrders

-----------------------------------------------------------------------------
(***************************************************************************)
(* WSocket.                                                                *)
(***************************************************************************)

----------------------------------------------------------------------------
(***************************************************************************)
(* The writer.  Whoever writes holds sendMu.                               *)
(***************************************************************************)
WebWriterInv ==
    /\ wSpc \in [Web!Writers -> {"idle", "lock", "write"}]
    /\ \A u \in Web!Writers : wSpc[u] = "write" => wSendMu = u

\* The lock protects WriteMessage in send, whose callers are the senders and Close.
LEMMA WebWriterStep == ASSUME Web!SocketAssumption PROVE WebWriterInv /\ [Web!Next]_(Web!vars) => WebWriterInv'
<1> SUFFICES ASSUME WebWriterInv, [Web!Next]_(Web!vars) PROVE WebWriterInv'
  BY Zenon
<1> USE DEF WebWriterInv, Web!SocketAssumption
<1>1. ASSUME NEW u \in Senders, Web!SendCall(u) PROVE WebWriterInv'
  BY Zenon, <1>1 DEF Web!SendCall, Web!Writers
<1>2. ASSUME NEW u \in Web!Writers, Web!send(u) PROVE WebWriterInv'
  BY Zenon, <1>2 DEF Web!send
<1>3. ASSUME NEW u \in Web!Writers, Web!Written(u) PROVE WebWriterInv'
  BY Zenon, <1>3 DEF Web!Written
<1>4. CASE Web!CloseCall
  BY Zenon, <1>4 DEF Web!CloseCall, Web!Writers
<1>5. CASE UNCHANGED Web!sendVars
  BY Zenon, <1>5 DEF Web!sendVars
<1>6. Web!Connect \/ Web!ConnectError \/ Web!Lost \/ Web!Close \/ (\E f \in {1, Web!Ping, Web!CloseFrame} : Web!PeerSends(f))
        \/ (\E i \in Readers : Web!Read(i)) \/ UNCHANGED Web!vars => UNCHANGED Web!sendVars
  BY Zenon DEF Web!Connect, Web!ConnectError, Web!Lost, Web!Close, Web!PeerSends, Web!Read,
     Web!ReadLock, Web!ReadText, Web!ReadPing, Web!ReadClose, Web!ReadError, Web!OnTextMessage,
     Web!vars, Web!sendVars
<1> QED
  BY Zenon, <1>1, <1>2, <1>3, <1>4, <1>5, <1>6 DEF Web!Next, Web!Write

----------------------------------------------------------------------------
\* A sequence with one element more.
LEMMA WebAppended ==
  ASSUME NEW s \in Seq(Nat), NEW e \in Nat
  PROVE  /\ Append(s, e) \in Seq(Nat) /\ Len(s) \in Nat /\ DOMAIN s = 1 .. Len(s)
         /\ DOMAIN Append(s, e) = 1 .. Len(s) + 1 /\ Append(s, e)[Len(s) + 1] = e
         /\ \A i \in 1 .. Len(s) : Append(s, e)[i] = s[i]
  OBVIOUS

\* What is left of a sequence whose first element is taken.
LEMMA WebTaken ==
  ASSUME NEW s \in Seq(Nat), s # <<>>
  PROVE  /\ Tail(s) \in Seq(Nat) /\ Len(s) \in Nat \ {0} /\ DOMAIN s = 1 .. Len(s)
         /\ Head(s) = s[1] /\ DOMAIN Tail(s) = 1 .. Len(s) - 1
         /\ \A i \in 1 .. Len(s) - 1 : Tail(s)[i] = s[i + 1]
  OBVIOUS

(***************************************************************************)
(* The order of the texts.  Only one reader exists; what it has delivered, *)
(* what it holds and what is on its way are in the order of sending.       *)
(***************************************************************************)
WebSorts ==
    /\ wFrames \in 0 .. MaxFrames /\ wRpc \in [Readers -> {"none", "lock", "read", "call", "ended"}]
    /\ wInbox \in Seq(Nat) /\ wDelivered \in Seq(Nat) /\ wHand \in [Readers -> Nat]
WebOneReader == \A i \in Readers : wRpc[i] = "none" \/ i = Web!FirstReader
WebKnown == \A i \in DOMAIN wInbox : wInbox[i] \in Web!Texts => wInbox[i] <= wFrames
WebComing ==
    \A i, j \in DOMAIN wInbox :
        wInbox[i] \in Web!Texts /\ wInbox[j] \in Web!Texts /\ i < j => wInbox[i] < wInbox[j]
WebGiven ==
    \A d \in DOMAIN wDelivered :
        /\ wDelivered[d] <= wFrames
        /\ \A i \in DOMAIN wInbox : wInbox[i] \in Web!Texts => wDelivered[d] < wInbox[i]
\* A message that is delivered next.
WebFollowing(h) ==
    /\ h <= wFrames /\ \A d \in DOMAIN wDelivered : wDelivered[d] < h
    /\ \A i \in DOMAIN wInbox : wInbox[i] \in Web!Texts => h < wInbox[i]
WebInHand == wRpc[Web!FirstReader] = "call" => WebFollowing(wHand[Web!FirstReader])
WebOrderInv == WebSorts /\ WebOneReader /\ WebKnown /\ WebComing /\ WebGiven /\ WebInHand /\ Web!TextsInOrder

\* There is a first reader, and it stays the first.
LEMMA WebTheReader == ASSUME Web!SocketAssumption PROVE Web!FirstReader \in Readers /\ Web!FirstReader' = Web!FirstReader
  BY Zenon DEF Web!SocketAssumption, Web!FirstReader

\* Steps of the reader that take no message.
LEMMA WebOrderKept ==
  ASSUME Web!SocketAssumption, WebOrderInv, UNCHANGED <<wFrames, wInbox, wHand, wDelivered>>,
         wRpc' \in [Readers -> {"none", "lock", "read", "call", "ended"}],
         \A i \in Readers : wRpc'[i] = wRpc[i] \/ (i = Web!FirstReader /\ wRpc'[i] # "call")
  PROVE  WebOrderInv'
<1>1. Web!FirstReader \in Readers /\ Web!FirstReader' = Web!FirstReader
  BY Zenon, WebTheReader
<1> HIDE DEF Web!FirstReader
<1>2. WebSorts' /\ WebOneReader'
  BY Zenon, <1>1 DEF WebOrderInv, WebSorts, WebOneReader
<1>3. WebKnown' /\ WebComing' /\ WebGiven'
  BY Zenon DEF WebOrderInv, WebKnown, WebComing, WebGiven, Web!Texts
<1>4. Web!TextsInOrder'
  BY Zenon DEF WebOrderInv, Web!TextsInOrder
<1>5. WebInHand'
  BY Zenon, <1>1 DEF WebOrderInv, WebInHand, WebFollowing, Web!Texts
<1> QED
  BY Zenon, <1>2, <1>3, <1>4, <1>5 DEF WebOrderInv

\* The connection is gone with what was on its way.
LEMMA WebEmptyStep ==
  ASSUME Web!SocketAssumption, WebOrderInv, UNCHANGED <<wFrames, wHand, wDelivered, wRpc>>, wInbox' = <<>>
  PROVE  WebOrderInv'
<1>1. Web!FirstReader' = Web!FirstReader
  BY Zenon, WebTheReader
<1> HIDE DEF Web!FirstReader
<1>2. DOMAIN wInbox' = {} /\ wInbox' \in Seq(Nat)
  OBVIOUS
<1>3. WebSorts' /\ WebOneReader'
  BY Zenon, <1>1, <1>2 DEF WebOrderInv, WebSorts, WebOneReader
<1>4. WebKnown' /\ WebComing' /\ WebGiven'
  BY Zenon, <1>2 DEF WebOrderInv, WebKnown, WebComing, WebGiven
<1>5. Web!TextsInOrder'
  BY Zenon DEF WebOrderInv, Web!TextsInOrder
<1>6. WebInHand'
  BY Zenon, <1>1, <1>2 DEF WebOrderInv, WebInHand, WebFollowing
<1> QED
  BY Zenon, <1>3, <1>4, <1>5, <1>6 DEF WebOrderInv

\* The first of what is on its way is taken: it follows what was delivered and the others
\* follow it.
LEMMA WebTaking ==
  ASSUME WebOrderInv, wInbox # <<>>, wInbox' = Tail(wInbox), UNCHANGED <<wFrames, wDelivered>>
  PROVE  /\ wInbox' \in Seq(Nat) /\ WebKnown' /\ WebComing' /\ WebGiven' /\ Web!TextsInOrder'
         /\ \A h \in Nat : h = Head(wInbox) /\ h \in Web!Texts => WebFollowing(h)'
         /\ \A h \in Nat : WebFollowing(h) => WebFollowing(h)'
<1>1. /\ wInbox' \in Seq(Nat) /\ Len(wInbox) \in Nat \ {0} /\ DOMAIN wInbox = 1 .. Len(wInbox)
      /\ DOMAIN wInbox' = 1 .. Len(wInbox) - 1 /\ Head(wInbox) = wInbox[1]
      /\ \A k \in 1 .. Len(wInbox) - 1 : wInbox'[k] = wInbox[k + 1]
  BY Zenon, WebTaken DEF WebOrderInv, WebSorts
<1>2. 1 \in DOMAIN wInbox
  BY <1>1
<1>3. ASSUME NEW k \in DOMAIN wInbox'
      PROVE  k \in Nat /\ k + 1 \in DOMAIN wInbox /\ wInbox'[k] = wInbox[k + 1] /\ 1 < k + 1
  BY <1>1
<1>4. WebKnown'
  BY Zenon, <1>3 DEF WebOrderInv, WebKnown, Web!Texts
<1>5. WebComing'
  <2>1. \A k, l \in DOMAIN wInbox' : k < l => k + 1 < l + 1
    BY <1>3
  <2> QED
    BY Zenon, <1>3, <2>1 DEF WebOrderInv, WebComing
<1>6. WebGiven'
  BY Zenon, <1>3 DEF WebOrderInv, WebGiven, Web!Texts
<1>7. Web!TextsInOrder'
  BY Zenon DEF WebOrderInv, Web!TextsInOrder
<1>8. ASSUME NEW h \in Nat, h = Head(wInbox), h \in Web!Texts PROVE WebFollowing(h)'
  <2>1. h <= wFrames /\ \A d \in DOMAIN wDelivered : wDelivered[d] < h
    BY Zenon, <1>1, <1>2, <1>8 DEF WebOrderInv, WebKnown, WebGiven
  <2>2. \A k \in DOMAIN wInbox' : wInbox'[k] \in Web!Texts => h < wInbox'[k]
    BY Zenon, <1>1, <1>2, <1>3, <1>8 DEF WebOrderInv, WebComing
  <2> QED
    BY Zenon, <2>1, <2>2 DEF WebFollowing, Web!Texts
<1>9. ASSUME NEW h \in Nat, WebFollowing(h) PROVE WebFollowing(h)'
  BY Zenon, <1>3, <1>9 DEF WebFollowing, Web!Texts
<1> QED
  BY Zenon, <1>1, <1>4, <1>5, <1>6, <1>7, <1>8, <1>9

\* The reader gets a text, or skips a ping.
LEMMA WebReadStep ==
  ASSUME Web!SocketAssumption, WebOrderInv, NEW i \in Readers, Web!ReadText(i) \/ Web!ReadPing(i)
  PROVE  WebOrderInv'
<1>1. Web!FirstReader \in Readers /\ Web!FirstReader' = Web!FirstReader
  BY Zenon, WebTheReader
<1> HIDE DEF Web!FirstReader
<1>2. /\ wInbox # <<>> /\ wInbox' = Tail(wInbox) /\ UNCHANGED <<wFrames, wDelivered>>
      /\ wRpc[i] = "read" /\ i = Web!FirstReader
  BY Zenon DEF Web!ReadText, Web!ReadPing, Web!readVars, WebOrderInv, WebOneReader
<1>3. /\ wInbox' \in Seq(Nat) /\ WebKnown' /\ WebComing' /\ WebGiven' /\ Web!TextsInOrder'
      /\ \A h \in Nat : h = Head(wInbox) /\ h \in Web!Texts => WebFollowing(h)'
      /\ \A h \in Nat : WebFollowing(h) => WebFollowing(h)'
  BY Zenon, <1>2, WebTaking
<1>4. CASE Web!ReadText(i)
  <2>1. PICK h \in Nat : h = Head(wInbox) /\ h \in Web!Texts
    BY <1>4 DEF Web!ReadText, Web!Texts, Web!SocketAssumption
  <2>2. /\ wRpc' = [wRpc EXCEPT ![Web!FirstReader] = "call"] /\ wHand' = [wHand EXCEPT ![Web!FirstReader] = h]
    BY Zenon, <1>2, <1>4, <2>1 DEF Web!ReadText
  <2>3. WebSorts' /\ WebOneReader' /\ wHand'[Web!FirstReader] = h
    BY Zenon, <1>1, <1>2, <1>3, <2>1, <2>2 DEF WebOrderInv, WebSorts, WebOneReader
  <2>4. WebFollowing(h)'
    BY Zenon, <1>3, <2>1
  <2>5. WebFollowing(wHand[Web!FirstReader])'
    BY Zenon, <1>1, <2>3, <2>4 DEF WebFollowing
  <2> QED
    BY Zenon, <1>3, <2>3, <2>5 DEF WebOrderInv, WebInHand
<1>5. CASE Web!ReadPing(i)
  <2>1. UNCHANGED <<wRpc, wHand>>
    BY Zenon, <1>5 DEF Web!ReadPing, Web!readVars
  <2>2. WebSorts' /\ WebOneReader'
    BY Zenon, <1>1, <1>2, <1>3, <2>1 DEF WebOrderInv, WebSorts, WebOneReader
  <2>3. wRpc'[Web!FirstReader] # "call"
    BY Zenon, <1>2, <2>1
  <2>4. WebInHand'
    BY Zenon, <1>1, <2>3 DEF WebInHand
  <2> QED
    BY Zenon, <1>3, <2>2, <2>4 DEF WebOrderInv
<1> QED
  BY Zenon, <1>4, <1>5

\* The callback gets the message in hand.
LEMMA WebDeliverStep ==
  ASSUME Web!SocketAssumption, WebOrderInv, NEW i \in Readers, Web!OnTextMessage(i)
  PROVE  WebOrderInv'
<1>1. Web!FirstReader \in Readers /\ Web!FirstReader' = Web!FirstReader
  BY Zenon, WebTheReader
<1> HIDE DEF Web!FirstReader
<1>2. i = Web!FirstReader /\ wRpc[i] = "call"
  BY Zenon DEF Web!OnTextMessage, WebOrderInv, WebOneReader
<1>3. PICK h \in Nat : h = wHand[Web!FirstReader]
  BY Zenon, <1>1 DEF WebOrderInv, WebSorts
<1>4. /\ wDelivered' = Append(wDelivered, h) /\ wHand' = [wHand EXCEPT ![Web!FirstReader] = 0]
      /\ wRpc' = [wRpc EXCEPT ![Web!FirstReader] = "lock"] /\ UNCHANGED <<wInbox, wFrames>>
  BY Zenon, <1>2, <1>3 DEF Web!OnTextMessage, Web!peerVars
<1>5. WebFollowing(h)
  BY Zenon, <1>2, <1>3 DEF WebOrderInv, WebInHand
<1>6. /\ wDelivered' \in Seq(Nat) /\ Len(wDelivered) \in Nat
      /\ DOMAIN wDelivered = 1 .. Len(wDelivered) /\ DOMAIN wDelivered' = 1 .. Len(wDelivered) + 1
      /\ wDelivered'[Len(wDelivered) + 1] = h
      /\ \A k \in 1 .. Len(wDelivered) : wDelivered'[k] = wDelivered[k]
  BY Zenon, <1>4, WebAppended DEF WebOrderInv, WebSorts
<1>7. \A d \in DOMAIN wDelivered' :
        \/ d = Len(wDelivered) + 1 /\ wDelivered'[d] = h
        \/ d \in DOMAIN wDelivered /\ wDelivered'[d] = wDelivered[d]
  BY <1>6
<1>8. WebSorts' /\ WebOneReader'
  BY Zenon, <1>1, <1>4, <1>6 DEF WebOrderInv, WebSorts, WebOneReader
<1>9. WebKnown' /\ WebComing'
  BY Zenon, <1>4 DEF WebOrderInv, WebKnown, WebComing, Web!Texts
<1>10. WebGiven'
  BY Zenon, <1>4, <1>5, <1>7 DEF WebOrderInv, WebGiven, WebFollowing, Web!Texts
<1>11. Web!TextsInOrder'
  <2> SUFFICES ASSUME NEW d \in DOMAIN wDelivered', NEW e \in DOMAIN wDelivered', d < e
               PROVE  wDelivered'[d] < wDelivered'[e]
    BY Zenon DEF Web!TextsInOrder
  <2>1. d \in DOMAIN wDelivered /\ wDelivered'[d] = wDelivered[d]
    BY <1>6, <1>7
  <2>2. CASE e = Len(wDelivered) + 1
    BY Zenon, <1>5, <1>6, <2>1, <2>2 DEF WebFollowing
  <2>3. CASE e \in DOMAIN wDelivered /\ wDelivered'[e] = wDelivered[e]
    BY Zenon, <2>1, <2>3 DEF WebOrderInv, Web!TextsInOrder
  <2> QED
    BY Zenon, <1>7, <2>2, <2>3
<1>12. WebInHand'
  BY Zenon, <1>1, <1>4 DEF WebInHand, WebOrderInv, WebSorts
<1> QED
  BY Zenon, <1>8, <1>9, <1>10, <1>11, <1>12 DEF WebOrderInv

\* The peer sends a text, which gets the next number, a ping or a close frame.
LEMMA WebPeerStep ==
  ASSUME Web!SocketAssumption, WebOrderInv, NEW f \in {1, Web!Ping, Web!CloseFrame}, Web!PeerSends(f)
  PROVE  WebOrderInv'
<1>1. Web!FirstReader \in Readers /\ Web!FirstReader' = Web!FirstReader
  BY Zenon, WebTheReader
<1> HIDE DEF Web!FirstReader
<1>2. wFrames \in Nat /\ MaxFrames \in Nat /\ wFrames' = wFrames + 1 /\ wFrames' \in 0 .. MaxFrames
      /\ UNCHANGED <<wRpc, wHand, wDelivered>>
  BY DEF Web!PeerSends, Web!readVars, WebOrderInv, WebSorts, Web!SocketAssumption
<1>3. PICK e \in Nat : (e \in Web!Texts => e = wFrames + 1) /\ wInbox' = Append(wInbox, e)
  BY <1>2 DEF Web!PeerSends, Web!Ping, Web!CloseFrame, Web!Texts
<1>4. /\ wInbox' \in Seq(Nat) /\ Len(wInbox) \in Nat /\ DOMAIN wInbox = 1 .. Len(wInbox)
      /\ DOMAIN wInbox' = 1 .. Len(wInbox) + 1 /\ wInbox'[Len(wInbox) + 1] = e
      /\ \A i \in 1 .. Len(wInbox) : wInbox'[i] = wInbox[i]
  BY Zenon, <1>3, WebAppended DEF WebOrderInv, WebSorts
<1>5. /\ \A d \in DOMAIN wDelivered : wDelivered[d] \in Nat
      /\ \A i \in DOMAIN wInbox : wInbox[i] \in Nat
      /\ wHand[Web!FirstReader] \in Nat
  BY <1>1 DEF WebOrderInv, WebSorts
<1>6. \A i \in DOMAIN wInbox' : wInbox'[i] \in Web!Texts =>
        \/ i = Len(wInbox) + 1 /\ wInbox'[i] = wFrames + 1
        \/ i \in DOMAIN wInbox /\ wInbox'[i] = wInbox[i]
  BY <1>3, <1>4
<1>7. WebSorts' /\ WebOneReader'
  BY Zenon, <1>1, <1>2, <1>4 DEF WebOrderInv, WebSorts, WebOneReader
<1>8. WebKnown'
  BY <1>2, <1>5, <1>6 DEF WebOrderInv, WebKnown, Web!Texts
<1>9. WebComing'
  <2> SUFFICES ASSUME NEW i \in DOMAIN wInbox', NEW j \in DOMAIN wInbox',
                      wInbox'[i] \in Web!Texts, wInbox'[j] \in Web!Texts, i < j
               PROVE  wInbox'[i] < wInbox'[j]
    BY Zenon DEF WebComing, Web!Texts
  <2>1. i \in DOMAIN wInbox /\ wInbox'[i] = wInbox[i]
    BY <1>4, <1>6
  <2>2. CASE j = Len(wInbox) + 1 /\ wInbox'[j] = wFrames + 1
    BY <1>2, <1>5, <2>1, <2>2 DEF WebOrderInv, WebKnown
  <2>3. CASE j \in DOMAIN wInbox /\ wInbox'[j] = wInbox[j]
    BY Zenon, <2>1, <2>3 DEF WebOrderInv, WebComing
  <2> QED
    BY Zenon, <1>6, <2>2, <2>3
<1>10. WebGiven'
  <2> SUFFICES ASSUME NEW d \in DOMAIN wDelivered
               PROVE  /\ wDelivered[d] <= wFrames + 1
                      /\ \A i \in DOMAIN wInbox' : wInbox'[i] \in Web!Texts => wDelivered[d] < wInbox'[i]
    BY Zenon, <1>2 DEF WebGiven, Web!Texts
  <2>1. wDelivered[d] <= wFrames /\ \A i \in DOMAIN wInbox : wInbox[i] \in Web!Texts => wDelivered[d] < wInbox[i]
    BY Zenon DEF WebOrderInv, WebGiven
  <2> QED
    BY <1>2, <1>5, <1>6, <2>1
<1>11. Web!TextsInOrder'
  BY Zenon, <1>2 DEF WebOrderInv, Web!TextsInOrder
<1>12. WebInHand'
  <2> SUFFICES ASSUME wRpc[Web!FirstReader] = "call" PROVE WebFollowing(wHand[Web!FirstReader])'
    BY Zenon, <1>1, <1>2 DEF WebInHand
  <2>1. PICK h \in Nat : h = wHand[Web!FirstReader] /\ WebFollowing(h)
    BY Zenon, <1>5 DEF WebOrderInv, WebInHand
  <2>2. h <= wFrames + 1 /\ \A i \in DOMAIN wInbox' : wInbox'[i] \in Web!Texts => h < wInbox'[i]
    BY <1>2, <1>6, <2>1 DEF WebFollowing
  <2> QED
    BY Zenon, <1>1, <1>2, <2>1, <2>2 DEF WebFollowing, Web!Texts
<1> QED
  BY Zenon, <1>7, <1>8, <1>9, <1>10, <1>11, <1>12 DEF WebOrderInv

\* The reader gives a message to the callback before it reads the next.
LEMMA WebOrderStep == ASSUME Web!SocketAssumption PROVE WebOrderInv /\ [Web!Next]_(Web!vars) => WebOrderInv'
<1> SUFFICES ASSUME WebOrderInv, [Web!Next]_(Web!vars) PROVE WebOrderInv'
  BY Zenon
<1>0. Web!FirstReader \in Readers /\ wRpc \in [Readers -> {"none", "lock", "read", "call", "ended"}]
  BY Zenon, WebTheReader DEF WebOrderInv, WebSorts
<1> HIDE DEF Web!FirstReader
<1>1. CASE Web!Connect
  BY Zenon, <1>0, <1>1, WebOrderKept DEF Web!Connect, Web!Start, Web!peerVars
<1>2. CASE Web!Lost \/ Web!Close
  BY Zenon, <1>2, WebEmptyStep DEF Web!Lost, Web!Close, Web!readVars
<1>3. ASSUME NEW i \in Readers, Web!ReadLock(i) \/ Web!ReadClose(i) \/ Web!ReadError(i) PROVE WebOrderInv'
  <2>1. i = Web!FirstReader
    BY Zenon, <1>3 DEF Web!ReadLock, Web!ReadClose, Web!ReadError, WebOrderInv, WebOneReader
  <2>2. UNCHANGED <<wFrames, wInbox, wHand, wDelivered>>
    BY Zenon, <1>3 DEF Web!ReadLock, Web!ReadClose, Web!ReadError, Web!peerVars
  <2>3. PICK l \in {"read", "ended"} : wRpc' = [wRpc EXCEPT ![i] = l]
    BY Zenon, <1>3 DEF Web!ReadLock, Web!ReadClose, Web!ReadError, Web!ReadEnds
  <2> QED
    BY Zenon, <1>0, <2>1, <2>2, <2>3, WebOrderKept
<1>4. CASE UNCHANGED <<Web!peerVars, Web!readVars>>
  BY Zenon, <1>0, <1>4, WebOrderKept DEF Web!peerVars, Web!readVars
<1>5. Web!ConnectError \/ Web!CloseCall \/ (\E u \in Senders : Web!SendCall(u))
         \/ (\E u \in Web!Writers : Web!Write(u)) \/ UNCHANGED Web!vars => UNCHANGED <<Web!peerVars, Web!readVars>>
  BY Zenon DEF Web!ConnectError, Web!CloseCall, Web!SendCall, Web!Write, Web!send, Web!Written,
     Web!vars
<1> QED
  BY Zenon, <1>1, <1>2, <1>3, <1>4, <1>5, WebPeerStep, WebReadStep, WebDeliverStep DEF Web!Next,
     Web!Read

----------------------------------------------------------------------------
\* The places of the goroutines.
LEMMA WebTypeStep == ASSUME Web!SocketAssumption, Web!TypeOK, [Web!Next]_(Web!vars) PROVE Web!TypeOK'
<1>1. wIsConnected' \in BOOLEAN
  BY Zenon DEF Web!TypeOK, Web!Next, Web!Connect, Web!ConnectError, Web!Lost, Web!CloseCall,
     Web!Close, Web!PeerSends, Web!Read, Web!ReadLock, Web!ReadText, Web!ReadPing, Web!ReadClose,
     Web!ReadError, Web!OnTextMessage, Web!SendCall, Web!Write, Web!send, Web!Written,
     Web!Disconnected, Web!vars
<1>2. wTold' \in 0 .. 2
  <2>1. Web!Disconnected \/ UNCHANGED wTold
    BY Zenon DEF Web!Next, Web!Connect, Web!ConnectError, Web!Lost, Web!CloseCall, Web!Close,
       Web!PeerSends, Web!Read, Web!ReadLock, Web!ReadText, Web!ReadPing, Web!ReadClose,
       Web!ReadError, Web!OnTextMessage, Web!SendCall, Web!Write, Web!send, Web!Written, Web!vars
  <2>2. (wTold' = wTold + 1 /\ wTold < 2) \/ wTold' = wTold
    BY Zenon, <2>1 DEF Web!Disconnected
  <2>3. wTold \in 0 .. 2
    BY Zenon DEF Web!TypeOK
  <2> QED
    BY <2>2, <2>3
<1>3. wConn' \in {"none", "open", "closed", "lost"} /\ wCloser' \in {"no", "send", "close", "done"}
  <2>1. wConn' \in {wConn, "open", "closed", "lost"} /\ wCloser' \in {wCloser, "send", "close", "done"}
    BY Zenon DEF Web!Next, Web!Connect, Web!ConnectError, Web!Lost, Web!CloseCall, Web!Close,
       Web!PeerSends, Web!Read, Web!ReadLock, Web!ReadText, Web!ReadPing, Web!ReadClose,
       Web!ReadError, Web!OnTextMessage, Web!SendCall, Web!Write, Web!send, Web!Written, Web!vars
  <2> QED
    BY Zenon, <2>1 DEF Web!TypeOK
<1>4. wSpc' \in [Web!Writers -> {"idle", "lock", "write"}]
  BY Zenon DEF Web!TypeOK, Web!Next, Web!Connect, Web!ConnectError, Web!Lost, Web!CloseCall,
     Web!Close, Web!PeerSends, Web!Read, Web!ReadLock, Web!ReadText, Web!ReadPing, Web!ReadClose,
     Web!ReadError, Web!OnTextMessage, Web!SendCall, Web!Write, Web!send, Web!Written, Web!vars,
     Web!sendVars
<1>5. wRpc' \in [Readers -> {"none", "lock", "read", "call", "ended"}]
  <2>1. \/ UNCHANGED wRpc
        \/ \E i, p : i \in Readers \cup {Web!FirstReader} /\ p \in {"lock", "read", "call", "ended"}
                       /\ wRpc' = [wRpc EXCEPT ![i] = p]
    <3>1. CASE Web!Connect
      BY Zenon, <3>1 DEF Web!Connect, Web!Start
    <3>2. ASSUME NEW i \in Readers, Web!Read(i)
          PROVE  \/ UNCHANGED wRpc
                 \/ \E p \in {"lock", "read", "call", "ended"} : wRpc' = [wRpc EXCEPT ![i] = p]
      BY Zenon, <3>2 DEF Web!Read, Web!ReadLock, Web!ReadText, Web!ReadPing, Web!ReadClose,
         Web!ReadError, Web!ReadEnds, Web!OnTextMessage, Web!readVars
    <3>3. CASE UNCHANGED Web!readVars
      BY Zenon, <3>3 DEF Web!readVars
    <3> QED
      BY Zenon, <3>1, <3>2, <3>3 DEF Web!Next, Web!ConnectError, Web!Lost, Web!CloseCall, Web!Close,
         Web!PeerSends, Web!SendCall, Web!Write, Web!send, Web!Written, Web!vars
  <2>2. wRpc \in [Readers -> {"none", "lock", "read", "call", "ended"}]
    BY Zenon DEF Web!TypeOK
  <2> QED
    BY Zenon, <2>1, <2>2
<1> QED
  BY Zenon, <1>1, <1>2, <1>3, <1>4, <1>5 DEF Web!TypeOK

\* Whoever writes holds sendMu, so there is one writer.
LEMMA WebWriterIsAlone == ASSUME WebWriterInv PROVE Web!OneWriter
  BY Zenon DEF WebWriterInv, Web!OneWriter

(***************************************************************************)
(* send never lets two messages be written at a time, however many         *)
(* goroutines send and whenever Close is called; and OnTextMessage gets    *)
(* the texts in the order the peer sent them, although the callback runs   *)
(* outside receiveMu.                                                      *)
(***************************************************************************)
THEOREM Messages ==
  ASSUME Web!SocketAssumption PROVE Web!Init /\ [][Web!Next]_(Web!vars) => []WebSocketOrders
<1>1. Web!Init => Web!TypeOK /\ WebWriterInv
  <2>1. Web!Init => /\ wConn \in {"none", "open", "closed", "lost"} /\ wIsConnected \in BOOLEAN
                    /\ wCloser \in {"no", "send", "close", "done"} /\ wTold = 0
    BY Zenon DEF Web!Init
  <2>2. Web!Init => /\ wRpc \in [Readers -> {"none", "lock", "read", "call", "ended"}]
                    /\ wSpc \in [Web!Writers -> {"idle", "lock", "write"}]
    BY Zenon DEF Web!Init
  <2>3. Web!Init => WebWriterInv
    BY Zenon DEF Web!Init, WebWriterInv
  <2>4. 0 \in 0 .. 2
    OBVIOUS
  <2> QED
    BY Zenon, <2>1, <2>2, <2>3, <2>4 DEF Web!TypeOK
<1>2. Web!Init => WebOrderInv
  <2> SUFFICES ASSUME Web!Init PROVE WebOrderInv
    BY Zenon
  <2>1. /\ wInbox = <<>> /\ wDelivered = <<>> /\ wFrames = 0
        /\ wRpc = [i \in Readers |-> "none"] /\ wHand = [i \in Readers |-> 0]
    BY Zenon DEF Web!Init
  <2>2. 0 \in 0 .. MaxFrames /\ 0 \in Nat /\ <<>> \in Seq(Nat) /\ DOMAIN <<>> = {}
    BY DEF Web!SocketAssumption
  <2>3. WebSorts
    BY Zenon, <2>1, <2>2 DEF WebSorts
  <2>4. WebOneReader /\ WebInHand
    BY Zenon, <2>1, WebTheReader DEF WebOneReader, WebInHand
  <2>5. WebKnown /\ WebComing /\ WebGiven /\ Web!TextsInOrder
    BY Zenon, <2>1, <2>2 DEF WebKnown, WebComing, WebGiven, Web!TextsInOrder
  <2> QED
    BY Zenon, <2>3, <2>4, <2>5 DEF WebOrderInv
<1>3. Web!TypeOK /\ WebWriterInv /\ WebOrderInv /\ [Web!Next]_(Web!vars) => (Web!TypeOK /\ WebWriterInv /\ WebOrderInv)'
  BY Zenon, WebTypeStep, WebWriterStep, WebOrderStep
<1>4. WebWriterInv => Web!OneWriter
  BY Zenon, WebWriterIsAlone
<1>5. WebOrderInv => Web!TextsInOrder
  BY Zenon DEF WebOrderInv
<1> QED
  BY <1>1, <1>2, <1>3, <1>4, <1>5, PTL DEF WebSocketOrders
=============================================================================
