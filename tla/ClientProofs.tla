---------------------------- MODULE ClientProofs ----------------------------
(***************************************************************************)
(* Proofs about the calls of the RPC client (ClientCall), for every number *)
(* of calls, retries and connections and every size of the pool: an        *)
(* attempt reads only the answer to its own request, the pool holds only   *)
(* connections that are fit for use, and no connection is leaked.          *)
(***************************************************************************)
EXTENDS Channels, TLAPS

-----------------------------------------------------------------------------
(* The inductive invariant *)

\* Nothing is under way on k.
CallQuiet(k) == cWire[k] = <<>> /\ cRsp[k] = <<>>

\* The call has not come to attempt a yet.
CallUnborn(a) ==
  \/ cCpc[a[1]] = "idle"
  \/ cCpc[a[1]] \in {"try", "wait"} /\ a[2] > cTries[a[1]]
  \/ cCpc[a[1]] = "try" /\ a[2] = cTries[a[1]]

\* call has a connection it will release.
CallHolding == {"select", "release", "kill"}

(***************************************************************************)
(* What an attempt knows of its connection.  It has one from the pool's    *)
(* Get until both its goroutines are done with it.  Until it releases the  *)
(* connection, this is open; after that a goroutine left behind has a      *)
(* closed one and does not read.  An attempt that goes on without an error *)
(* has read its answer, and nothing is under way any more.                 *)
(***************************************************************************)
CallAttemptInv(a) ==
  /\ CallUnborn(a) => cApc[a] = "none" /\ cIpc[a] = "none"
  /\ cConn[a] # NoConn <=> (cApc[a] \in CallHolding \/ cIpc[a] # "none")
  /\ cApc[a] = "get" => cIpc[a] = "none"
  /\ cApc[a] \in {"none", "get"} => cAch[a] = "none" /\ ~cFailed[a]
  /\ cApc[a] = "none" /\ cIpc[a] # "none" => ~cOpen[cConn[a]] /\ cIpc[a] # "read"
  /\ cApc[a] \in CallHolding => cOpen[cConn[a]]
  /\ cAch[a] = "err" => cFailed[a]
  /\ cApc[a] = "release" => cFailed[a] \/ cAch[a] = "ok"
  /\ cAch[a] = "ok" => cIpc[a] = "none" /\ CallQuiet(cConn[a])
  /\ cIpc[a] = "read" => cLock[cConn[a]]
  /\ cIpc[a] = "send" => CallQuiet(cConn[a])
  /\ cIpc[a] \in {"check", "recv", "read"} =>
       \/ CallQuiet(cConn[a])
       \/ cWire[cConn[a]] = <<a>> /\ cRsp[cConn[a]] = <<>>
       \/ cWire[cConn[a]] = <<>> /\ cRsp[cConn[a]] = <<a>>

(***************************************************************************)
(* What is true of a connection: closed, nothing is under way on it; open, *)
(* its lock is held only by a reader, and it is pooled or will be          *)
(* released; pooled, it is open, unused and quiet.                         *)
(***************************************************************************)
CallConnInv(k) ==
  /\ ~cOpen[k] => CallQuiet(k)
  /\ cOpen[k] /\ cLock[k] => \E a \in Call!Attempt : cConn[a] = k /\ cIpc[a] = "read"
  /\ cOpen[k] => k \in Call!Range(cConns) \/ \E a \in Call!Attempt : cConn[a] = k /\ cApc[a] \in CallHolding
  /\ k \in Call!Range(cConns) => cOpen[k] /\ CallQuiet(k) /\ \A a \in Call!Attempt : cConn[a] # k

\* No two attempts have the same connection.
CallOneUser == \A a, b \in Call!Attempt : cConn[a] = cConn[b] /\ cConn[a] # NoConn => a = b

CallIInv ==
  /\ Call!TypeOK /\ CallOneUser /\ Call!IsInjective(cConns)
  /\ \A a \in Call!Attempt : CallAttemptInv(a)
  /\ \A k \in Conn : CallConnInv(k)

-----------------------------------------------------------------------------
(* Facts about the pool's sequence *)

\* The connection pool.Get takes, and what it leaves.
CallLastOf(s) == s[Len(s)]
CallFrontOf(s) == SubSeq(s, 1, Len(s) - 1)

\* Taking the last connection of the pool.
LEMMA CallTaken ==
  ASSUME NEW s \in Seq(Conn), s # <<>>, Call!IsInjective(s)
  PROVE  /\ CallLastOf(s) \in Conn /\ CallFrontOf(s) \in Seq(Conn) /\ Len(CallFrontOf(s)) = Len(s) - 1
         /\ Call!IsInjective(CallFrontOf(s)) /\ CallLastOf(s) \in Call!Range(s) /\ CallLastOf(s) \notin Call!Range(CallFrontOf(s))
         /\ Call!Range(CallFrontOf(s)) = Call!Range(s) \ {CallLastOf(s)}
<1>1. Len(s) \in Nat \ {0} /\ s \in [1 .. Len(s) -> Conn]
  OBVIOUS
<1>2. /\ CallFrontOf(s) \in Seq(Conn) /\ Len(CallFrontOf(s)) = Len(s) - 1
      /\ \A i \in 1 .. Len(s) - 1 : CallFrontOf(s)[i] = s[i]
  BY <1>1 DEF CallFrontOf
<1>3. DOMAIN CallFrontOf(s) = 1 .. Len(s) - 1 /\ DOMAIN s = 1 .. Len(s)
  BY <1>1, <1>2
<1>4. CallLastOf(s) \in Conn /\ CallLastOf(s) \in Call!Range(s)
  BY <1>1 DEF CallLastOf, Call!Range
<1>5. Call!IsInjective(CallFrontOf(s))
  BY <1>1, <1>2, <1>3 DEF Call!IsInjective
<1>6. CallLastOf(s) \notin Call!Range(CallFrontOf(s))
  BY <1>1, <1>2, <1>3 DEF Call!IsInjective, CallLastOf, Call!Range
<1>7. Call!Range(CallFrontOf(s)) = Call!Range(s) \ {CallLastOf(s)}
  <2>1. Call!Range(CallFrontOf(s)) \subseteq Call!Range(s)
    BY <1>1, <1>2, <1>3 DEF Call!Range
  <2>2. ASSUME NEW k \in Call!Range(s), k # CallLastOf(s) PROVE k \in Call!Range(CallFrontOf(s))
    <3>1. PICK i \in 1 .. Len(s) : k = s[i]
      BY Zenon, <1>3 DEF Call!Range
    <3>2. i \in 1 .. Len(s) - 1
      BY <1>1, <2>2, <3>1 DEF CallLastOf
    <3> QED
      BY Zenon, <1>2, <1>3, <3>1, <3>2 DEF Call!Range
  <2> QED
    BY Zenon, <1>6, <2>1, <2>2
<1> QED
  BY Zenon, <1>2, <1>4, <1>5, <1>6, <1>7

\* Putting a connection back that the pool does not have.
LEMMA CallStored ==
  ASSUME NEW s \in Seq(Conn), NEW k \in Conn, k \notin Call!Range(s), Call!IsInjective(s)
  PROVE  /\ Append(s, k) \in Seq(Conn) /\ Len(Append(s, k)) = Len(s) + 1
         /\ Call!IsInjective(Append(s, k)) /\ Call!Range(Append(s, k)) = Call!Range(s) \cup {k}
<1>1. /\ Append(s, k) \in Seq(Conn) /\ Len(Append(s, k)) = Len(s) + 1 /\ Len(s) \in Nat
      /\ \A i \in 1 .. Len(s) : Append(s, k)[i] = s[i]
      /\ Append(s, k)[Len(s) + 1] = k
  OBVIOUS
<1>2. DOMAIN Append(s, k) = 1 .. Len(s) + 1 /\ DOMAIN s = 1 .. Len(s)
  BY <1>1
<1>3. Call!IsInjective(Append(s, k))
  BY <1>1, <1>2 DEF Call!IsInjective, Call!Range
<1>4. Call!Range(Append(s, k)) = Call!Range(s) \cup {k}
  BY <1>1, <1>2 DEF Call!Range
<1> QED
  BY Zenon, <1>1, <1>3, <1>4

-----------------------------------------------------------------------------
(* What a step leaves alone *)

\* An attempt is named after its call and its number.
LEMMA CallAttempts ==
  ASSUME Call!CallAssumption
  PROVE  /\ \A a \in Call!Attempt : a = <<a[1], a[2]>> /\ a[1] \in Caller /\ a[2] \in 0 .. Retries[a[1]]
         /\ \A c \in Caller, i \in Nat : i <= Retries[c] => <<c, i>> \in Call!Attempt
  BY DEF Call!Attempt, Call!CallAssumption

\* An attempt that a step does not move, and whose connection it does not touch.
LEMMA CallAttemptFrame ==
  ASSUME Call!TypeOK, NEW a \in Call!Attempt, CallAttemptInv(a), CallUnborn(a)' => CallUnborn(a),
         cApc'[a] = cApc[a], cIpc'[a] = cIpc[a], cConn'[a] = cConn[a],
         cFailed'[a] = cFailed[a], cAch'[a] = cAch[a],
         cConn[a] # NoConn => /\ cOpen'[cConn[a]] = cOpen[cConn[a]] /\ cLock'[cConn[a]] = cLock[cConn[a]]
                              /\ cWire'[cConn[a]] = cWire[cConn[a]] /\ cRsp'[cConn[a]] = cRsp[cConn[a]]
  PROVE  CallAttemptInv(a)'
<1>1. CASE cConn[a] # NoConn
  BY Zenon, <1>1 DEF CallAttemptInv, CallQuiet
<1>2. CASE cConn[a] = NoConn
  <2>1. cApc[a] \notin CallHolding /\ cIpc[a] = "none"
    BY Zenon, <1>2 DEF CallAttemptInv
  <2>2. cAch[a] # "ok" /\ cAch[a] # "err"
    BY Zenon, <2>1 DEF CallAttemptInv, CallHolding, Call!TypeOK
  <2> QED
    BY Zenon, <1>2, <2>1, <2>2 DEF CallAttemptInv, CallHolding
<1> QED
  BY Zenon, <1>1, <1>2

\* A connection that a step does not touch, by an attempt or by the pool.
LEMMA CallConnFrame ==
  ASSUME NEW k \in Conn, CallConnInv(k),
         cOpen'[k] = cOpen[k], cLock'[k] = cLock[k], cWire'[k] = cWire[k], cRsp'[k] = cRsp[k],
         k \in Call!Range(cConns') <=> k \in Call!Range(cConns),
         \A a \in Call!Attempt : /\ cConn'[a] = k <=> cConn[a] = k
                                 /\ cConn[a] = k => /\ cApc[a] \in CallHolding <=> cApc'[a] \in CallHolding
                                                    /\ cIpc[a] = "read" <=> cIpc'[a] = "read"
  PROVE  CallConnInv(k)'
  BY Zenon DEF CallConnInv, CallQuiet

-----------------------------------------------------------------------------
(* The steps of Call *)

\* A step of Call that starts no attempt changes no attempt and no connection.
LEMMA CallCallOnly ==
  ASSUME Call!CallAssumption, CallIInv, NEW c \in Caller,
         Call!Start(c) \/ Call!Deadline(c) \/ Call!CallTimeout(c) \/ Call!CallResult(c)
  PROVE  CallIInv'
<1>1. UNCHANGED <<Call!attemptVars, cIpc, Call!connVars, cConns>>
  BY Zenon DEF Call!Start, Call!Deadline, Call!CallTimeout, Call!CallResult
<1>2. Call!TypeOK'
  <2> USE DEF CallIInv, Call!TypeOK, Call!Result, Call!attemptVars, Call!connVars
  <2>1. CASE Call!Start(c)
    BY <2>1 DEF Call!Start
  <2>2. CASE Call!Deadline(c)
    BY Zenon, <2>2 DEF Call!Deadline
  <2>3. CASE Call!CallTimeout(c)
    BY <2>3 DEF Call!CallTimeout, Call!CallAssumption
  <2>4. CASE Call!CallResult(c)
    <3>1. cCh' \in [Caller -> Call!Result] /\ UNCHANGED cDone
      BY Zenon, <2>4 DEF Call!CallResult
    <3>2. cCpc' \in [Caller -> {"idle", "try", "wait", "returned"}]
      <4>1. PICK l \in {"try", "returned"} : cCpc' = [cCpc EXCEPT ![c] = l]
        BY Zenon, <2>4 DEF Call!CallResult
      <4> QED
        BY Zenon, <4>1
    <3>3. \E i \in 0 .. Retries[c] : cTries' = [cTries EXCEPT ![c] = i]
      <4>1. cTries[c] \in Nat /\ Retries[c] \in Nat /\ cTries[c] <= Retries[c]
        BY Zenon DEF Call!CallAssumption
      <4>2. CASE cCh[c] = "err" /\ cTries[c] < Retries[c]
        <5>1. cTries' = [cTries EXCEPT ![c] = cTries[c] + 1] /\ cTries[c] + 1 \in 0 .. Retries[c]
          BY <2>4, <4>1, <4>2 DEF Call!CallResult
        <5> QED
          BY <5>1, Zenon
      <4>3. CASE ~(cCh[c] = "err" /\ cTries[c] < Retries[c])
        <5>1. cTries' = [cTries EXCEPT ![c] = 0] /\ 0 \in 0 .. Retries[c]
          BY <2>4, <4>1, <4>3 DEF Call!CallResult
        <5> QED
          BY <5>1, Zenon
      <4> QED
        BY Zenon, <4>2, <4>3
    <3>4. cTries' \in [Caller -> Nat] /\ (\A d \in Caller : cTries'[d] <= Retries[d])
      BY <3>3 DEF Call!CallAssumption
    <3> QED
      BY Zenon, <1>1, <3>1, <3>2, <3>4
  <2> QED
    BY Zenon, <2>1, <2>2, <2>3, <2>4
<1>3. ASSUME NEW a \in Call!Attempt PROVE CallUnborn(a)' => CallUnborn(a)
  <2>1. a[1] \in Caller /\ a[2] \in Nat /\ cCpc \in [Caller -> {"idle", "try", "wait", "returned"}]
          /\ cTries \in [Caller -> Nat]
    BY CallAttempts DEF CallIInv, Call!TypeOK, Call!CallAssumption
  <2>2. CASE Call!Start(c) \/ Call!Deadline(c)
    BY Zenon, <2>1, <2>2 DEF Call!Start, Call!Deadline, CallUnborn
  <2>3. CASE Call!CallTimeout(c) \/ Call!CallResult(c)
    BY <2>1, <2>3 DEF Call!CallTimeout, Call!CallResult, CallUnborn
  <2> QED
    BY Zenon, <2>2, <2>3
<1>4. \A a \in Call!Attempt : CallAttemptInv(a)'
  BY Zenon, <1>1, <1>3, CallAttemptFrame DEF CallIInv, Call!attemptVars, Call!connVars
<1>5. \A k \in Conn : CallConnInv(k)'
  BY Zenon, <1>1, CallConnFrame DEF CallIInv, Call!attemptVars, Call!connVars
<1> QED
  BY Zenon, <1>1, <1>2, <1>4, <1>5 DEF CallIInv, CallOneUser, Call!attemptVars

\* Try starts the next attempt, which has no connection yet.
LEMMA CallTryStep ==
  ASSUME Call!CallAssumption, CallIInv, NEW c \in Caller, Call!Try(c)
  PROVE  CallIInv'
<1> DEFINE b == <<c, cTries[c]>>
<1>1. b \in Call!Attempt /\ b[1] = c /\ b[2] = cTries[c] /\ cTries[c] \in Nat
  BY CallAttempts, Zenon DEF CallIInv, Call!TypeOK
<1>2. CallUnborn(b)
  BY Zenon, <1>1 DEF Call!Try, CallUnborn
<1>3. cApc[b] = "none" /\ cIpc[b] = "none" /\ cConn[b] = NoConn
  BY Zenon, <1>1, <1>2 DEF CallIInv, CallAttemptInv, CallHolding
<1>4. cApc' = [cApc EXCEPT ![b] = "get"] /\ UNCHANGED <<cTries, cConn, cFailed, cAch, cIpc, Call!connVars, cConns>>
  BY Zenon DEF Call!Try
<1>5. Call!TypeOK'
  BY Zenon, <1>1 DEF Call!Try, CallIInv, Call!TypeOK, Call!connVars
<1>6. ASSUME NEW a \in Call!Attempt PROVE CallUnborn(a)' => CallUnborn(a) /\ a # b
  BY <1>1, CallAttempts DEF Call!Try, CallUnborn, CallIInv, Call!TypeOK, Call!CallAssumption
<1> HIDE DEF b
<1>7. ASSUME NEW a \in Call!Attempt PROVE CallAttemptInv(a)'
  <2>1. CASE a = b
    BY Zenon, <1>1, <1>3, <1>4, <1>6, <2>1 DEF CallAttemptInv, CallHolding, CallIInv, Call!TypeOK
  <2>2. CASE a # b
    BY Zenon, <1>1, <1>4, <1>6, <2>2, CallAttemptFrame DEF CallIInv, Call!TypeOK, Call!connVars
  <2> QED
    BY Zenon, <2>1, <2>2
<1>8. ASSUME NEW k \in Conn PROVE CallConnInv(k)'
  <2>1. cConn[b] # k
    BY Zenon, <1>3 DEF Call!CallAssumption
  <2> QED
    BY <1>1, <1>4, <2>1, CallConnFrame, Zenon DEF CallIInv, Call!TypeOK, Call!connVars
<1> QED
  BY Zenon, <1>4, <1>5, <1>7, <1>8 DEF CallIInv, CallOneUser

-----------------------------------------------------------------------------
(* The steps of the pool's Get *)

\* An attempt gets a connection that is open, quiet and nobody's.
LEMMA CallOpened ==
  ASSUME Call!CallAssumption, CallIInv, NEW a \in Call!Attempt, NEW k \in Conn, cApc[a] = "get", Call!Open(a, k),
         \A b \in Call!Attempt : cConn[b] # k, CallQuiet(k), UNCHANGED <<cWire, cRsp>>,
         cOpen' = [cOpen EXCEPT ![k] = TRUE], cLock' = [cLock EXCEPT ![k] = FALSE],
         cConns' \in Seq(Conn), Len(cConns') <= PoolSize, Call!IsInjective(cConns'),
         Call!Range(cConns') = Call!Range(cConns) \ {k}
  PROVE  CallIInv'
<1>1. /\ cConn' = [cConn EXCEPT ![a] = k] /\ cApc' = [cApc EXCEPT ![a] = "select"]
      /\ cIpc' = [cIpc EXCEPT ![a] = "send"] /\ UNCHANGED <<cCpc, cTries, cFailed, cAch>>
  BY Zenon DEF Call!Open, Call!callVars
<1>2. cConn[a] = NoConn /\ cIpc[a] = "none" /\ cAch[a] = "none" /\ ~cFailed[a] /\ ~CallUnborn(a)
  BY Zenon DEF CallIInv, CallAttemptInv, CallHolding
<1>3. Call!TypeOK'
  BY <1>1 DEF Call!Open, Call!callVars, CallIInv, Call!TypeOK
<1>4. \A b \in Call!Attempt : CallUnborn(b)' => CallUnborn(b)
  BY Zenon, <1>1 DEF CallUnborn
<1>5. ASSUME NEW b \in Call!Attempt PROVE CallAttemptInv(b)'
  <2>1. CASE b = a
    <3>1. /\ cApc'[a] = "select" /\ cIpc'[a] = "send" /\ cConn'[a] = k /\ cAch'[a] = "none"
          /\ cOpen'[k] /\ cWire'[k] = <<>> /\ cRsp'[k] = <<>> /\ k # NoConn /\ ~CallUnborn(a)'
      BY Zenon, <1>1, <1>2, <1>4 DEF CallIInv, Call!TypeOK, CallQuiet, Call!CallAssumption
    <3> QED
      BY Zenon, <2>1, <3>1 DEF CallAttemptInv, CallQuiet, CallHolding
  <2>2. CASE b # a
    <3>1. /\ cApc'[b] = cApc[b] /\ cIpc'[b] = cIpc[b] /\ cConn'[b] = cConn[b]
          /\ cConn[b] # NoConn => cConn[b] \in Conn /\ cConn[b] # k
      BY Zenon, <1>1, <2>2 DEF CallIInv, Call!TypeOK
    <3> QED
      BY <1>1, <1>4, <3>1, CallAttemptFrame, Zenon DEF CallIInv, Call!TypeOK
  <2> QED
    BY Zenon, <2>1, <2>2
<1>6. ASSUME NEW j \in Conn PROVE CallConnInv(j)'
  <2>1. CASE j = k
    <3>1. cConn'[a] = k /\ cApc'[a] \in CallHolding /\ cOpen'[k] /\ ~cLock'[k] /\ k \notin Call!Range(cConns')
      BY Zenon, <1>1 DEF CallIInv, Call!TypeOK, CallHolding
    <3> QED
      BY Zenon, <2>1, <3>1 DEF CallConnInv
  <2>2. CASE j # k
    <3>1. \A b \in Call!Attempt : /\ cConn'[b] = j <=> cConn[b] = j
                                  /\ cConn[b] = j => b # a /\ cApc'[b] = cApc[b] /\ cIpc'[b] = cIpc[b]
      BY Zenon, <1>1, <1>2, <2>2 DEF CallIInv, Call!TypeOK, Call!CallAssumption
    <3>2. cOpen'[j] = cOpen[j] /\ cLock'[j] = cLock[j] /\ (j \in Call!Range(cConns') <=> j \in Call!Range(cConns))
      BY Zenon, <2>2 DEF CallIInv, Call!TypeOK
    <3> QED
      BY <3>1, <3>2, CallConnFrame, Zenon DEF CallIInv
  <2> QED
    BY Zenon, <2>1, <2>2
<1>7. CallOneUser'
  BY Zenon, <1>1 DEF CallIInv, Call!TypeOK, CallOneUser
<1> QED
  BY Zenon, <1>3, <1>5, <1>6, <1>7 DEF CallIInv

\* The connection comes from the pool, or it is dialled.
LEMMA CallGetStep ==
  ASSUME Call!CallAssumption, CallIInv, NEW a \in Call!Attempt, Call!GetPooled(a) \/ Call!GetDial(a)
  PROVE  CallIInv'
<1>1. CASE Call!GetPooled(a)
  <2> DEFINE k == CallLastOf(cConns)
  <2>1. /\ cConns \in Seq(Conn) /\ cConns # <<>> /\ Call!IsInjective(cConns) /\ Len(cConns) <= PoolSize
        /\ Len(cConns) \in Nat /\ PoolSize \in Nat
    BY <1>1 DEF Call!GetPooled, CallIInv, Call!TypeOK, Call!CallAssumption
  <2>2. /\ k \in Conn /\ k \in Call!Range(cConns) /\ cConns' = CallFrontOf(cConns)
        /\ CallFrontOf(cConns) \in Seq(Conn) /\ Len(CallFrontOf(cConns)) <= PoolSize /\ Call!IsInjective(CallFrontOf(cConns))
        /\ Call!Range(CallFrontOf(cConns)) = Call!Range(cConns) \ {k}
    BY <1>1, <2>1, CallTaken DEF Call!GetPooled, CallLastOf, CallFrontOf
  <2>3. cOpen[k] /\ CallQuiet(k) /\ (\A b \in Call!Attempt : cConn[b] # k) /\ ~cLock[k]
    BY Zenon, <2>2 DEF CallIInv, CallConnInv
  <2>4. cOpen[k] = TRUE /\ cLock[k] = FALSE
    BY Zenon, <2>2, <2>3 DEF CallIInv, Call!TypeOK
  <2>5. cApc[a] = "get" /\ Call!Open(a, k) /\ UNCHANGED <<cOpen, cLock, cWire, cRsp>>
    BY Zenon, <1>1 DEF Call!GetPooled, Call!connVars, CallLastOf
  <2>6. cOpen' = [cOpen EXCEPT ![k] = TRUE] /\ cLock' = [cLock EXCEPT ![k] = FALSE]
    BY Zenon, <2>2, <2>4, <2>5 DEF CallIInv, Call!TypeOK
  <2> HIDE DEF k
  <2> QED
    BY <2>2, <2>3, <2>5, <2>6, CallOpened, Zenon
<1>2. CASE Call!GetDial(a)
  <2> DEFINE k == CHOOSE k \in Conn : Call!Fresh(k)
  <2>1. k \in Conn /\ Call!Fresh(k)
    BY Zenon, <1>2 DEF Call!GetDial
  <2>2. cApc[a] = "get" /\ cConns = <<>> /\ Call!Dial(k) /\ Call!Open(a, k) /\ UNCHANGED cConns
    BY Zenon, <1>2 DEF Call!GetDial
  <2> HIDE DEF k
  <2>3. \A b \in Call!Attempt : cConn[b] # k
    BY Zenon, <2>1 DEF Call!Fresh, Call!InUse, CallIInv, CallAttemptInv, Call!CallAssumption,
       CallHolding
  <2>4. CallQuiet(k)
    BY Zenon, <2>1 DEF Call!Fresh, CallIInv, CallConnInv
  <2>5. /\ cConns' \in Seq(Conn) /\ Len(cConns') <= PoolSize /\ Call!IsInjective(cConns')
        /\ Call!Range(cConns') = Call!Range(cConns) \ {k}
    BY <2>2 DEF CallIInv, Call!TypeOK, Call!Range
  <2> QED
    BY <2>1, <2>2, <2>3, <2>4, <2>5, CallOpened, Zenon DEF Call!Dial
<1> QED
  BY Zenon, <1>1, <1>2

\* A connection of the pool, or of an attempt, is closed while nobody holds its lock.
LEMMA CallClosed ==
  ASSUME Call!CallAssumption, CallIInv, NEW k \in Conn, Call!CloseConn(k)
  PROVE  /\ cOpen' \in [Conn -> BOOLEAN] /\ cLock' \in [Conn -> BOOLEAN]
         /\ cWire' \in [Conn -> Seq(Call!Attempt)] /\ cRsp' \in [Conn -> Seq(Call!Attempt)]
         /\ ~cOpen'[k] /\ ~cLock'[k] /\ ~cLock[k] /\ cWire'[k] = <<>> /\ cRsp'[k] = <<>>
         /\ \A j \in Conn \ {k} : /\ cOpen'[j] = cOpen[j] /\ cLock'[j] = cLock[j]
                                /\ cWire'[j] = cWire[j] /\ cRsp'[j] = cRsp[j]
<1>1. <<>> \in Seq(Call!Attempt)
  OBVIOUS
<1> QED
  BY <1>1 DEF Call!CloseConn, CallIInv, Call!TypeOK

\* An old connection of the pool is closed, and Get goes on.
LEMMA CallOldStep ==
  ASSUME Call!CallAssumption, CallIInv, NEW a \in Call!Attempt, Call!GetOld(a)
  PROVE  CallIInv'
<1> DEFINE k == CallLastOf(cConns)
<1>1. /\ cConns \in Seq(Conn) /\ cConns # <<>> /\ Call!IsInjective(cConns) /\ Len(cConns) <= PoolSize
      /\ Len(cConns) \in Nat /\ PoolSize \in Nat
  BY DEF Call!GetOld, CallIInv, Call!TypeOK, Call!CallAssumption
<1>2. /\ k \in Conn /\ k \in Call!Range(cConns) /\ cConns' = CallFrontOf(cConns)
      /\ CallFrontOf(cConns) \in Seq(Conn) /\ Len(CallFrontOf(cConns)) <= PoolSize /\ Call!IsInjective(CallFrontOf(cConns))
      /\ Call!Range(CallFrontOf(cConns)) = Call!Range(cConns) \ {k}
  BY <1>1, CallTaken DEF Call!GetOld, CallLastOf, CallFrontOf
<1>3. \A b \in Call!Attempt : cConn[b] # k
  BY Zenon, <1>2 DEF CallIInv, CallConnInv
<1>4. Call!CloseConn(k) /\ UNCHANGED <<Call!callVars, Call!attemptVars, cIpc>>
  BY Zenon DEF Call!GetOld, CallLastOf
<1> HIDE DEF k
<1>5. Call!TypeOK'
  BY Zenon, <1>2, <1>4, CallClosed DEF CallIInv, Call!TypeOK, Call!callVars, Call!attemptVars
<1>6. ASSUME NEW b \in Call!Attempt PROVE CallAttemptInv(b)'
  <2>1. CallUnborn(b)' => CallUnborn(b)
    BY Zenon, <1>4 DEF CallUnborn, Call!callVars
  <2>2. cConn[b] # NoConn => cConn[b] \in Conn \ {k}
    BY Zenon, <1>3 DEF CallIInv, Call!TypeOK
  <2> QED
    BY <1>2, <1>4, <2>1, <2>2, CallClosed, CallAttemptFrame, Zenon DEF CallIInv, Call!attemptVars
<1>7. ASSUME NEW j \in Conn PROVE CallConnInv(j)'
  <2>1. CASE j = k
    BY Zenon, <1>2, <1>4, <2>1, CallClosed DEF CallConnInv, CallQuiet
  <2>2. CASE j # k
    BY <1>2, <1>4, <2>2, CallClosed, CallConnFrame, Zenon DEF CallIInv, Call!attemptVars
  <2> QED
    BY Zenon, <2>1, <2>2
<1> QED
  BY Zenon, <1>2, <1>4, <1>5, <1>6, <1>7 DEF CallIInv, CallOneUser, Call!attemptVars

\* A new configuration: every connection of the pool is closed.
LEMMA CallReconfigureStep ==
  ASSUME Call!CallAssumption, CallIInv, Call!Reconfigure
  PROVE  CallIInv'
<1>1. UNCHANGED <<Call!callVars, Call!attemptVars, cIpc, cLock>> /\ cConns' = <<>>
  BY Zenon DEF Call!Reconfigure, Call!ClosePool
<1>2. /\ cOpen' \in [Conn -> BOOLEAN] /\ cWire' \in [Conn -> Seq(Call!Attempt)] /\ cRsp' \in [Conn -> Seq(Call!Attempt)]
      /\ \A k \in Conn : k \in Call!Range(cConns) =>
            ~cOpen'[k] /\ cWire'[k] = <<>> /\ cRsp'[k] = <<>>
      /\ \A k \in Conn : k \notin Call!Range(cConns) =>
            cOpen'[k] = cOpen[k] /\ cWire'[k] = cWire[k] /\ cRsp'[k] = cRsp[k]
  <2>1. <<>> \in Seq(Call!Attempt)
    OBVIOUS
  <2> QED
    BY Zenon, <2>1 DEF Call!Reconfigure, Call!ClosePool, CallIInv, Call!TypeOK
<1>3. Call!Range(cConns') = {} /\ Call!IsInjective(cConns') /\ cConns' \in Seq(Conn) /\ Len(cConns') = 0
  BY <1>1 DEF Call!Range, Call!IsInjective
<1>4. Call!TypeOK'
  BY <1>1, <1>2, <1>3 DEF CallIInv, Call!TypeOK, Call!callVars, Call!attemptVars,
     Call!CallAssumption
<1>5. ASSUME NEW b \in Call!Attempt PROVE CallAttemptInv(b)'
  <2>1. CallUnborn(b)' => CallUnborn(b)
    BY Zenon, <1>1 DEF CallUnborn, Call!callVars
  <2>2. cConn[b] # NoConn => cConn[b] \in Conn /\ cConn[b] \notin Call!Range(cConns)
    BY DEF CallIInv, Call!TypeOK, CallConnInv
  <2> QED
    BY <1>1, <1>2, <2>1, <2>2, CallAttemptFrame, Zenon DEF CallIInv, Call!attemptVars
<1>6. ASSUME NEW k \in Conn PROVE CallConnInv(k)'
  <2>1. CASE k \in Call!Range(cConns)
    BY Zenon, <1>2, <1>3, <2>1 DEF CallConnInv, CallQuiet
  <2>2. CASE k \notin Call!Range(cConns)
    BY Zenon, <1>1, <1>2, <1>3, <2>2, CallConnFrame DEF CallIInv, Call!attemptVars
  <2> QED
    BY Zenon, <2>1, <2>2
<1> QED
  BY Zenon, <1>1, <1>3, <1>4, <1>5, <1>6 DEF CallIInv, CallOneUser, Call!attemptVars

-----------------------------------------------------------------------------
(* The steps of the goroutine that sends and receives *)

\* A step touches no connection but k, and closes or opens none.
CallOnlyConn(k) ==
  /\ cLock' \in [Conn -> BOOLEAN] /\ cWire' \in [Conn -> Seq(Call!Attempt)] /\ cRsp' \in [Conn -> Seq(Call!Attempt)]
  /\ UNCHANGED cOpen
  /\ \A j \in Conn \ {k} : cLock'[j] = cLock[j] /\ cWire'[j] = cWire[j] /\ cRsp'[j] = cRsp[j]
  /\ ~cOpen[k] => cWire'[k] = cWire[k] /\ cRsp'[k] = cRsp[k]

\* A goroutine that sends or receives has a connection, which is pooled by nobody.
LEMMA CallIoConn ==
  ASSUME Call!CallAssumption, CallIInv, NEW a \in Call!Attempt, cIpc[a] # "none"
  PROVE  /\ cConn[a] \in Conn /\ cConn[a] \notin Call!Range(cConns) /\ cApc[a] \in {"none"} \cup CallHolding
         /\ \A b \in Call!Attempt \ {a} : cConn[b] # cConn[a]
         /\ cApc[a] = "none" <=> ~cOpen[cConn[a]]
         /\ ~CallUnborn(a) /\ cAch[a] # "ok"
<1>1. cConn[a] \in Conn
  BY DEF CallIInv, Call!TypeOK, CallAttemptInv
<1>2. cApc[a] \in {"none"} \cup CallHolding
  BY Zenon DEF CallIInv, Call!TypeOK, CallAttemptInv, CallHolding
<1>3. cConn[a] \notin Call!Range(cConns)
  BY Zenon, <1>1 DEF CallIInv, CallConnInv
<1>4. \A b \in Call!Attempt \ {a} : cConn[b] # cConn[a]
  BY Zenon, <1>1 DEF CallIInv, CallOneUser, Call!CallAssumption
<1>5. cApc[a] = "none" <=> ~cOpen[cConn[a]]
  BY Zenon, <1>2 DEF CallIInv, CallAttemptInv, CallHolding
<1>6. ~CallUnborn(a) /\ cAch[a] # "ok"
  BY Zenon DEF CallIInv, CallAttemptInv
<1> QED
  BY Zenon, <1>1, <1>2, <1>3, <1>4, <1>5, <1>6

\* The goroutine goes on: it has written, has found the stream open, or reads.
LEMMA CallMoved ==
  ASSUME Call!CallAssumption, CallIInv, NEW a \in Call!Attempt, NEW l \in {"check", "recv", "read"},
         cIpc[a] \notin {"none", "read"}, Call!IoGoto(a, l), CallOnlyConn(cConn[a]),
         \/ cWire'[cConn[a]] = <<>> /\ cRsp'[cConn[a]] = <<>>
         \/ cWire'[cConn[a]] = <<a>> /\ cRsp'[cConn[a]] = <<>>
         \/ cWire'[cConn[a]] = <<>> /\ cRsp'[cConn[a]] = <<a>>,
         l = "read" => cLock'[cConn[a]] /\ cOpen[cConn[a]],
         l # "read" => cLock'[cConn[a]] = cLock[cConn[a]]
  PROVE  CallIInv'
<1> DEFINE k == cConn[a]
<1>1. /\ k \in Conn /\ k \notin Call!Range(cConns) /\ cApc[a] \in {"none"} \cup CallHolding
      /\ \A b \in Call!Attempt \ {a} : cConn[b] # k
      /\ cApc[a] = "none" <=> ~cOpen[k]
      /\ ~CallUnborn(a) /\ cAch[a] # "ok"
  BY Zenon, CallIoConn
<1>2. cIpc' = [cIpc EXCEPT ![a] = l] /\ UNCHANGED <<Call!callVars, Call!attemptVars, cConns, cOpen>>
  BY Zenon DEF Call!IoGoto, CallOnlyConn
<1>3. Call!TypeOK'
  BY Zenon, <1>2 DEF CallIInv, Call!TypeOK, CallOnlyConn, Call!callVars, Call!attemptVars
<1>4. \A b \in Call!Attempt : CallUnborn(b)' => CallUnborn(b)
  BY Zenon, <1>2 DEF CallUnborn, Call!callVars
<1>5. ASSUME NEW b \in Call!Attempt PROVE CallAttemptInv(b)'
  <2>1. CASE b = a
    <3>1. /\ cIpc'[a] = l /\ cConn'[a] = k /\ cApc'[a] = cApc[a] /\ cFailed'[a] = cFailed[a] /\ cAch'[a] = cAch[a]
          /\ cOpen'[k] = cOpen[k] /\ ~CallUnborn(a)' /\ k # NoConn
      BY <1>1, <1>2, <1>4, Zenon DEF CallIInv, Call!TypeOK, Call!attemptVars, Call!CallAssumption
    <3>2. /\ cApc[a] = "none" => cAch[a] = "none" /\ ~cFailed[a]
          /\ cAch[a] = "err" => cFailed[a]
          /\ cApc[a] = "release" => cFailed[a] \/ cAch[a] = "ok"
      BY Zenon DEF CallIInv, CallAttemptInv
    <3> QED
      BY <1>1, <2>1, <3>1, <3>2, Zenon DEF CallAttemptInv, CallQuiet, CallHolding
  <2>2. CASE b # a
    <3>1. cIpc'[b] = cIpc[b] /\ (cConn[b] # NoConn => cConn[b] \in Conn \ {k})
      BY Zenon, <1>1, <1>2, <2>2 DEF CallIInv, Call!TypeOK
    <3> QED
      BY <1>2, <1>4, <3>1, CallAttemptFrame, Zenon DEF CallIInv, CallOnlyConn, Call!attemptVars
  <2> QED
    BY Zenon, <2>1, <2>2
<1>6. ASSUME NEW j \in Conn PROVE CallConnInv(j)'
  <2>1. CASE j = k
    <3>1. ~cOpen[k] => cWire'[k] = <<>> /\ cRsp'[k] = <<>>
      BY <1>1, Zenon DEF CallIInv, CallConnInv, CallOnlyConn, CallQuiet
    <3>2. cOpen[k] /\ cLock'[k] => cIpc'[a] = "read"
      <4>1. CASE l = "read"
        BY Zenon, <1>2, <4>1 DEF CallIInv, Call!TypeOK
      <4>2. CASE l # "read"
        <5>1. ~\E b \in Call!Attempt : cConn[b] = k /\ cIpc[b] = "read"
          BY Zenon, <1>1
        <5>2. ~(cOpen[k] /\ cLock[k])
          BY Zenon, <1>1, <5>1 DEF CallIInv, CallConnInv
        <5> QED
          BY <4>2, <5>2, Zenon
      <4> QED
        BY Zenon, <4>1, <4>2
    <3>3. cOpen[k] => cApc[a] \in CallHolding
      BY <1>1, Zenon
    <3> QED
      BY <1>1, <1>2, <2>1, <3>1, <3>2, <3>3, Zenon DEF CallConnInv, CallQuiet, Call!attemptVars
  <2>2. CASE j # k
    <3>1. \A b \in Call!Attempt : cConn[b] = j => b # a /\ cIpc'[b] = cIpc[b]
      BY <1>2, <2>2, Zenon DEF CallIInv, Call!TypeOK
    <3> QED
      BY <1>2, <2>2, <3>1, CallConnFrame, Zenon DEF CallIInv, CallOnlyConn, Call!attemptVars
  <2> QED
    BY Zenon, <2>1, <2>2
<1> QED
  BY Zenon, <1>2, <1>3, <1>5, <1>6 DEF CallIInv, CallOneUser, Call!attemptVars

\* The goroutine ends; with an answer, nothing is under way any more.
LEMMA CallEnded ==
  ASSUME Call!CallAssumption, CallIInv, NEW a \in Call!Attempt, NEW r \in {"ok", "err"},
         cIpc[a] # "none", Call!IoEnds(a, r), CallOnlyConn(cConn[a]),
         r = "ok" => cOpen[cConn[a]] /\ cWire'[cConn[a]] = <<>> /\ cRsp'[cConn[a]] = <<>>,
         cOpen[cConn[a]] /\ cLock'[cConn[a]] => cLock[cConn[a]] /\ cIpc[a] # "read"
  PROVE  CallIInv'
<1> DEFINE k == cConn[a]
<1>1. /\ k \in Conn /\ k \notin Call!Range(cConns) /\ cApc[a] \in {"none"} \cup CallHolding
      /\ \A b \in Call!Attempt \ {a} : cConn[b] # k
      /\ cApc[a] = "none" <=> ~cOpen[k]
      /\ ~CallUnborn(a) /\ cAch[a] # "ok"
  BY Zenon, CallIoConn
<1>2. cIpc' = [cIpc EXCEPT ![a] = "none"] /\ UNCHANGED <<Call!callVars, cApc, cConns, cOpen>>
  BY Zenon DEF Call!IoEnds, CallOnlyConn
<1>3. CASE cApc[a] = "none"
  <2>1. /\ cConn' = [cConn EXCEPT ![a] = NoConn] /\ UNCHANGED <<cAch, cFailed>>
        /\ cClosed' = [cClosed EXCEPT ![a] = FALSE]
    BY Zenon, <1>3 DEF Call!IoEnds
  <2>2. Call!TypeOK'
    BY Zenon, <1>2, <2>1 DEF CallIInv, Call!TypeOK, CallOnlyConn, Call!callVars
  <2>3. \A b \in Call!Attempt : CallUnborn(b)' => CallUnborn(b)
    BY <1>2, Zenon DEF CallUnborn, Call!callVars
  <2>4. ASSUME NEW b \in Call!Attempt PROVE CallAttemptInv(b)'
    <3>1. CASE b = a
      <4>1. cIpc'[a] = "none" /\ cConn'[a] = NoConn /\ cApc'[a] = "none" /\ cAch'[a] = "none" /\ ~cFailed'[a]
        <5>1. /\ cIpc \in [Call!Attempt -> {"none", "send", "check", "recv", "read"}]
              /\ cConn \in [Call!Attempt -> Conn \cup {NoConn}]
          BY Zenon DEF CallIInv, Call!TypeOK
        <5>2. cAch[a] = "none" /\ ~cFailed[a]
          BY Zenon, <1>3 DEF CallIInv, CallAttemptInv
        <5>3. cIpc'[a] = "none" /\ cConn'[a] = NoConn
          BY Zenon, <1>2, <2>1, <5>1
        <5> QED
          BY Zenon, <1>2, <1>3, <2>1, <5>2, <5>3
      <4> QED
        BY Zenon, <3>1, <4>1 DEF CallAttemptInv, CallHolding
    <3>2. CASE b # a
      <4>1. cIpc'[b] = cIpc[b] /\ cConn'[b] = cConn[b] /\ (cConn[b] # NoConn => cConn[b] \in Conn \ {k})
        BY <1>1, <1>2, <2>1, <3>2, Zenon DEF CallIInv, Call!TypeOK
      <4> QED
        BY <1>2, <2>1, <2>3, <4>1, CallAttemptFrame, Zenon DEF CallIInv, CallOnlyConn
    <3> QED
      BY Zenon, <3>1, <3>2
  <2>5. ASSUME NEW j \in Conn PROVE CallConnInv(j)'
    <3>1. CASE j = k
      <4>1. ~cOpen[j] /\ j \notin Call!Range(cConns) /\ CallQuiet(j)
        BY Zenon, <1>1, <1>3, <3>1 DEF CallIInv, CallConnInv
      <4>2. ~cOpen'[j] /\ j \notin Call!Range(cConns') /\ cWire'[j] = cWire[j] /\ cRsp'[j] = cRsp[j]
        BY Zenon, <1>2, <3>1, <4>1 DEF CallOnlyConn
      <4> QED
        BY Zenon, <4>1, <4>2 DEF CallConnInv, CallQuiet
    <3>2. CASE j # k
      <4>1. \A b \in Call!Attempt : /\ cConn'[b] = j <=> cConn[b] = j
                                    /\ cConn[b] = j => b # a /\ cIpc'[b] = cIpc[b]
        BY <1>2, <2>1, <3>2, Zenon DEF CallIInv, Call!TypeOK, Call!CallAssumption
      <4> QED
        BY <1>2, <3>2, <4>1, CallConnFrame, Zenon DEF CallIInv, CallOnlyConn
    <3> QED
      BY Zenon, <3>1, <3>2
  <2>6. CallOneUser'
    BY Zenon, <2>1 DEF CallIInv, Call!TypeOK, CallOneUser
  <2> QED
    BY <1>2, <2>2, <2>4, <2>5, <2>6, Zenon DEF CallIInv
<1>4. CASE cApc[a] # "none"
  <2>1. /\ cAch' = [cAch EXCEPT ![a] = r] /\ UNCHANGED <<cConn, cClosed>>
        /\ cFailed' = [cFailed EXCEPT ![a] = cFailed[a] \/ r = "err"]
    BY Zenon, <1>4 DEF Call!IoEnds
  <2>2. Call!TypeOK'
    BY Zenon, <1>2, <2>1 DEF CallIInv, Call!TypeOK, CallOnlyConn, Call!callVars, Call!Result
  <2>3. \A b \in Call!Attempt : CallUnborn(b)' => CallUnborn(b)
    BY Zenon, <1>2 DEF CallUnborn, Call!callVars
  <2>4. ASSUME NEW b \in Call!Attempt PROVE CallAttemptInv(b)'
    <3>1. CASE b = a
      <4>1. /\ cIpc'[a] = "none" /\ cConn'[a] = k /\ cApc'[a] = cApc[a] /\ cAch'[a] = r
            /\ r = "err" => cFailed'[a]
            /\ cFailed[a] => cFailed'[a]
            /\ cOpen'[k] /\ ~CallUnborn(a)' /\ k # NoConn
        BY <1>1, <1>2, <1>4, <2>1, <2>3, Zenon DEF CallIInv, Call!TypeOK, Call!CallAssumption
      <4> QED
        BY Zenon, <1>1, <1>4, <3>1, <4>1 DEF CallAttemptInv, CallHolding, CallQuiet
    <3>2. CASE b # a
      <4>1. /\ cIpc'[b] = cIpc[b] /\ cAch'[b] = cAch[b] /\ cFailed'[b] = cFailed[b]
            /\ cConn[b] # NoConn => cConn[b] \in Conn \ {k}
        BY <1>1, <1>2, <2>1, <3>2, Zenon DEF CallIInv, Call!TypeOK
      <4> QED
        BY <1>2, <2>1, <2>3, <4>1, CallAttemptFrame, Zenon DEF CallIInv, CallOnlyConn
    <3> QED
      BY Zenon, <3>1, <3>2
  <2>5. ASSUME NEW j \in Conn PROVE CallConnInv(j)'
    <3>1. CASE j = k
      <4>1. ~cLock'[k]
        <5>1. cIpc[a] # "read" => ~\E b \in Call!Attempt : cConn[b] = k /\ cIpc[b] = "read"
          BY Zenon, <1>1
        <5>2. cIpc[a] # "read" => ~(cOpen[k] /\ cLock[k])
          BY Zenon, <1>1, <5>1 DEF CallIInv, CallConnInv
        <5> QED
          BY Zenon, <1>1, <1>4, <5>2
      <4> QED
        BY Zenon, <1>1, <1>2, <1>4, <2>1, <3>1, <4>1 DEF CallConnInv
    <3>2. CASE j # k
      <4>1. \A b \in Call!Attempt : cConn[b] = j => b # a /\ cIpc'[b] = cIpc[b]
        BY <1>2, <3>2, Zenon DEF CallIInv, Call!TypeOK
      <4> QED
        BY <1>2, <2>1, <3>2, <4>1, CallConnFrame, Zenon DEF CallIInv, CallOnlyConn
    <3> QED
      BY Zenon, <3>1, <3>2
  <2> QED
    BY <1>2, <2>1, <2>2, <2>4, <2>5, Zenon DEF CallIInv, CallOneUser
<1> QED
  BY Zenon, <1>3, <1>4

\* Every step of that goroutine keeps the invariant.
LEMMA CallIoStepKeeps ==
  ASSUME Call!CallAssumption, CallIInv, NEW a \in Call!Attempt, Call!IoStep(a)
  PROVE  CallIInv'
<1> DEFINE k == cConn[a]
<1>1. cIpc[a] # "none"
  BY Zenon DEF Call!IoStep, Call!Send, Call!Check, Call!Recv, Call!Read, Call!ReadFails
<1>2. /\ k \in Conn /\ cApc[a] \in {"none"} \cup CallHolding /\ (cApc[a] = "none" <=> ~cOpen[k])
      /\ cOpen[k] \in BOOLEAN /\ cLock[k] \in BOOLEAN
  BY Zenon, <1>1, CallIoConn DEF CallIInv, Call!TypeOK
<1>3. /\ cIpc[a] = "send" => cWire[k] = <<>> /\ cRsp[k] = <<>>
      /\ cIpc[a] \in {"check", "recv", "read"} =>
           \/ cWire[k] = <<>> /\ cRsp[k] = <<>>
           \/ cWire[k] = <<a>> /\ cRsp[k] = <<>>
           \/ cWire[k] = <<>> /\ cRsp[k] = <<a>>
      /\ cIpc[a] = "read" => cLock[k] /\ cOpen[k]
  BY Zenon, <1>1, <1>2 DEF CallIInv, CallAttemptInv, CallQuiet
<1>4. UNCHANGED Call!connVars => CallOnlyConn(k)
  BY ZenonT(30) DEF CallOnlyConn, Call!connVars, CallIInv, Call!TypeOK
<1>5. CASE Call!Send(a)
  <2>1. CASE ~cClosed[a] /\ Call!Write(a, k) /\ Call!IoGoto(a, "check")
    <3>1. Append(cWire[k], a) = <<a>> /\ <<a>> \in Seq(Call!Attempt)
      <4>1. cWire[k] = <<>>
        BY Zenon, <1>3, <1>5 DEF Call!Send
      <4> QED
        BY <4>1
    <3>2. cWire' = [cWire EXCEPT ![k] = <<a>>] /\ UNCHANGED <<cOpen, cLock, cRsp>> /\ cOpen[k]
      BY Zenon, <2>1, <3>1 DEF Call!Write
    <3>3. CallOnlyConn(k) /\ cWire'[k] = <<a>> /\ cRsp'[k] = <<>>
      BY Zenon, <1>2, <1>3, <1>5, <3>1, <3>2 DEF CallOnlyConn, CallIInv, Call!TypeOK, Call!Send
    <3> QED
      BY Zenon, <1>5, <2>1, <3>2, <3>3, CallMoved DEF Call!Send
  <2>2. CASE Call!IoEnds(a, "err") /\ UNCHANGED Call!connVars
    BY Zenon, <1>1, <1>4, <1>5, <2>2, CallEnded DEF Call!Send, Call!connVars
  <2> QED
    BY Zenon, <1>5, <2>1, <2>2 DEF Call!Send
<1>6. CASE Call!Check(a)
  <2>1. CASE cClosed[a]
    BY Zenon, <1>1, <1>4, <1>6, <2>1, CallEnded DEF Call!Check, Call!connVars
  <2>2. CASE ~cClosed[a]
    BY Zenon, <1>3, <1>4, <1>6, <2>2, CallMoved DEF Call!Check, Call!connVars
  <2> QED
    BY Zenon, <2>1, <2>2
<1>7. CASE Call!Recv(a)
  <2>1. /\ CallOnlyConn(k) /\ cLock'[k] /\ UNCHANGED <<cOpen, cWire, cRsp>> /\ cIpc[a] = "recv"
    BY Zenon, <1>2, <1>7 DEF Call!Recv, CallOnlyConn, CallIInv, Call!TypeOK
  <2>2. CASE cOpen[k]
    BY <1>3, <1>7, <2>1, <2>2, CallMoved, Zenon DEF Call!Recv
  <2>3. CASE ~cOpen[k]
    BY Zenon, <1>1, <1>7, <2>1, <2>3, CallEnded DEF Call!Recv
  <2> QED
    BY Zenon, <2>2, <2>3
<1>8. CASE Call!Read(a)
  <2>1. cRsp[k] = <<a>> /\ cWire[k] = <<>> /\ cIpc[a] = "read" /\ cOpen[k]
    BY Zenon, <1>3, <1>8 DEF Call!Read
  <2>2. Tail(cRsp[k]) = <<>> /\ <<>> \in Seq(Call!Attempt)
    BY <2>1
  <2>3. cRsp' = [cRsp EXCEPT ![k] = <<>>] /\ cLock' = [cLock EXCEPT ![k] = FALSE] /\ UNCHANGED <<cOpen, cWire>>
    BY <1>8, <2>2, Zenon DEF Call!Read
  <2>4. CallOnlyConn(k) /\ cRsp'[k] = <<>> /\ cWire'[k] = <<>> /\ ~cLock'[k]
    BY ZenonT(30), <1>2, <2>1, <2>2, <2>3 DEF CallOnlyConn, CallIInv, Call!TypeOK
  <2>5. PICK r \in {"ok", "err"} : Call!IoEnds(a, r)
    BY Zenon, <1>8 DEF Call!Read
  <2> QED
    BY Zenon, <1>1, <2>1, <2>4, <2>5, CallEnded
<1>9. CASE Call!ReadFails(a)
  <2>1. CallOnlyConn(k) /\ ~cLock'[k]
    BY Zenon, <1>2, <1>9 DEF Call!ReadFails, CallOnlyConn, CallIInv, Call!TypeOK
  <2> QED
    BY Zenon, <1>1, <1>9, <2>1, CallEnded DEF Call!ReadFails
<1> QED
  BY Zenon, <1>5, <1>6, <1>7, <1>8, <1>9 DEF Call!IoStep

\* The server answers the request that is under way.
LEMMA CallAnswerStep ==
  ASSUME Call!CallAssumption, CallIInv, NEW k \in Conn, Call!Answer(k)
  PROVE  CallIInv'
<1>1. /\ cWire[k] # <<>> /\ cRsp' = [cRsp EXCEPT ![k] = Append(cRsp[k], Head(cWire[k]))]
      /\ cWire' = [cWire EXCEPT ![k] = Tail(cWire[k])]
      /\ UNCHANGED <<Call!callVars, Call!attemptVars, cIpc, cOpen, cLock, cConns>>
  BY Zenon DEF Call!Answer
<1>2. cOpen[k] /\ k \notin Call!Range(cConns)
  BY Zenon, <1>1 DEF CallIInv, CallConnInv, CallQuiet
<1>3. cWire[k] \in Seq(Call!Attempt) /\ cRsp[k] \in Seq(Call!Attempt)
  BY Zenon DEF CallIInv, Call!TypeOK
<1>4. Append(cRsp[k], Head(cWire[k])) \in Seq(Call!Attempt) /\ Tail(cWire[k]) \in Seq(Call!Attempt)
  BY <1>1, <1>3
<1>5. Call!TypeOK'
  BY Zenon, <1>1, <1>4 DEF CallIInv, Call!TypeOK, Call!callVars, Call!attemptVars
<1>6. ASSUME NEW b \in Call!Attempt PROVE CallAttemptInv(b)'
  <2>1. CallUnborn(b)' => CallUnborn(b)
    BY Zenon, <1>1 DEF CallUnborn, Call!callVars
  <2>2. CASE cConn[b] = k
    <3>1. cIpc[b] # "send" /\ cAch[b] # "ok"
      BY <1>1, <2>2, Zenon DEF CallIInv, CallAttemptInv, CallQuiet
    <3>2. CASE cIpc[b] \in {"check", "recv", "read"}
      <4>1. cWire[k] = <<b>> /\ cRsp[k] = <<>>
        BY Zenon, <1>1, <2>2, <3>2 DEF CallIInv, CallAttemptInv, CallQuiet
      <4>2. Append(cRsp[k], Head(cWire[k])) = <<b>> /\ Tail(cWire[k]) = <<>>
        BY <4>1
      <4>3. cWire'[k] = <<>> /\ cRsp'[k] = <<b>>
        BY Zenon, <1>1, <4>2 DEF CallIInv, Call!TypeOK
      <4> QED
        BY <1>1, <2>1, <2>2, <3>1, <4>3, Zenon DEF CallIInv, CallAttemptInv, Call!attemptVars
    <3>3. CASE cIpc[b] \notin {"check", "recv", "read"}
      BY <1>1, <2>1, <2>2, <3>1, <3>3, Zenon DEF CallIInv, CallAttemptInv, Call!attemptVars
    <3> QED
      BY Zenon, <3>2, <3>3
  <2>3. CASE cConn[b] # k
    BY Zenon, <1>1, <2>1, <2>3, CallAttemptFrame DEF CallIInv, Call!TypeOK, Call!attemptVars
  <2> QED
    BY Zenon, <2>2, <2>3
<1>7. ASSUME NEW j \in Conn PROVE CallConnInv(j)'
  <2>1. CASE j = k
    BY Zenon, <1>1, <1>2, <2>1 DEF CallIInv, CallConnInv, Call!attemptVars
  <2>2. CASE j # k
    BY Zenon, <1>1, <2>2, CallConnFrame DEF CallIInv, Call!TypeOK, Call!attemptVars
  <2> QED
    BY Zenon, <2>1, <2>2
<1> QED
  BY Zenon, <1>1, <1>5, <1>6, <1>7 DEF CallIInv, CallOneUser, Call!attemptVars

-----------------------------------------------------------------------------
(* The end of an attempt *)

\* The attempt has its answer or has timed out.
LEMMA CallSelectStep ==
  ASSUME Call!CallAssumption, CallIInv, NEW a \in Call!Attempt, Call!Select(a)
  PROVE  CallIInv'
<1>1. /\ cApc[a] = "select" /\ cApc' = [cApc EXCEPT ![a] = "release"]
      /\ UNCHANGED <<Call!callVars, cConn, cAch, cIpc, Call!connVars, cConns>>
  BY Zenon DEF Call!Select
<1>2. /\ \A b \in Call!Attempt \ {a} : cFailed'[b] = cFailed[b]
      /\ cFailed'[a] \/ cAch[a] = "ok"
  <2>1. CASE cAch[a] # "none" /\ UNCHANGED cFailed
    BY Zenon, <2>1 DEF CallIInv, Call!TypeOK, Call!Result, CallAttemptInv
  <2>2. CASE cFailed' = [cFailed EXCEPT ![a] = TRUE]
    BY Zenon, <2>2 DEF CallIInv, Call!TypeOK
  <2> QED
    BY Zenon, <2>1, <2>2 DEF Call!Select
<1>3. Call!TypeOK'
  <2>1. cFailed' \in [Call!Attempt -> BOOLEAN]
    BY Zenon DEF Call!Select, CallIInv, Call!TypeOK
  <2>2. cClosed' \in [Call!Attempt -> BOOLEAN]
    BY Zenon DEF Call!Select, CallIInv, Call!TypeOK
  <2> QED
    BY <1>1, <2>1, <2>2, Zenon DEF CallIInv, Call!TypeOK, Call!callVars, Call!connVars
<1>4. \A b \in Call!Attempt : CallUnborn(b)' => CallUnborn(b)
  BY Zenon, <1>1 DEF CallUnborn, Call!callVars
<1>5. ASSUME NEW b \in Call!Attempt PROVE CallAttemptInv(b)'
  <2>1. CASE b = a
    <3>1. cApc'[a] = "release" /\ ~CallUnborn(a) /\ (cAch[a] = "err" => cFailed'[a])
      BY Zenon, <1>1, <1>2 DEF CallIInv, Call!TypeOK, CallAttemptInv
    <3> QED
      BY <1>1, <1>2, <1>4, <2>1, <3>1, Zenon DEF CallIInv, CallAttemptInv, CallQuiet, CallHolding,
         Call!connVars
  <2>2. CASE b # a
    <3>1. cApc'[b] = cApc[b]
      BY Zenon, <1>1, <2>2 DEF CallIInv, Call!TypeOK
    <3> QED
      BY <1>1, <1>2, <1>4, <2>2, <3>1, CallAttemptFrame, Zenon DEF CallIInv, Call!connVars
  <2> QED
    BY Zenon, <2>1, <2>2
<1>6. ASSUME NEW k \in Conn PROVE CallConnInv(k)'
  <2>1. \A b \in Call!Attempt : cApc[b] \in CallHolding <=> cApc'[b] \in CallHolding
    BY Zenon, <1>1 DEF CallIInv, Call!TypeOK, CallHolding
  <2> QED
    BY Zenon, <1>1, <2>1, CallConnFrame DEF CallIInv, Call!connVars
<1> QED
  BY Zenon, <1>1, <1>3, <1>5, <1>6 DEF CallIInv, CallOneUser

\* What the attempt is after call has returned, and what the others are.
LEMMA CallFinished ==
  ASSUME Call!CallAssumption, CallIInv, NEW a \in Call!Attempt, NEW r \in {"ok", "err"}, Call!Finish(a, r), UNCHANGED cIpc
  PROVE  /\ cCpc' = cCpc /\ cTries' = cTries /\ cDone' = cDone /\ cCh' \in [Caller -> Call!Result]
         /\ cApc' \in [Call!Attempt -> {"none", "get", "select", "release", "kill"}]
         /\ cConn' \in [Call!Attempt -> Conn \cup {NoConn}]
         /\ cFailed' \in [Call!Attempt -> BOOLEAN] /\ cClosed' \in [Call!Attempt -> BOOLEAN]
         /\ cAch' \in [Call!Attempt -> Call!Result]
         /\ cApc'[a] = "none" /\ ~cFailed'[a] /\ cAch'[a] = "none"
         /\ cConn'[a] = IF cIpc[a] = "none" THEN NoConn ELSE cConn[a]
         /\ \A b \in Call!Attempt \ {a} : /\ cApc'[b] = cApc[b] /\ cConn'[b] = cConn[b]
                                          /\ cFailed'[b] = cFailed[b] /\ cAch'[b] = cAch[b]
         /\ \A b \in Call!Attempt : CallUnborn(b)' => CallUnborn(b)
<1>1. cCpc' = cCpc /\ cTries' = cTries /\ cDone' = cDone
  BY Zenon DEF Call!Finish
<1>2. cCh' \in [Caller -> Call!Result]
  <2>1. PICK x \in Call!Result : cCh' = [cCh EXCEPT ![a[1]] = x]
    BY CallAttempts, Zenon DEF Call!Finish, CallIInv, Call!TypeOK, Call!Result
  <2> QED
    BY <2>1, Zenon DEF CallIInv, Call!TypeOK
<1>3. /\ cConn' \in [Call!Attempt -> Conn \cup {NoConn}]
      /\ cConn'[a] = IF cIpc[a] = "none" THEN NoConn ELSE cConn[a]
      /\ \A b \in Call!Attempt \ {a} : cConn'[b] = cConn[b]
  BY Zenon DEF Call!Finish, CallIInv, Call!TypeOK
<1>4. /\ cApc' \in [Call!Attempt -> {"none", "get", "select", "release", "kill"}]
      /\ cFailed' \in [Call!Attempt -> BOOLEAN] /\ cClosed' \in [Call!Attempt -> BOOLEAN]
      /\ cAch' \in [Call!Attempt -> Call!Result]
      /\ cApc'[a] = "none" /\ ~cFailed'[a] /\ cAch'[a] = "none"
      /\ \A b \in Call!Attempt \ {a} : cApc'[b] = cApc[b] /\ cFailed'[b] = cFailed[b] /\ cAch'[b] = cAch[b]
  <2>1. /\ cApc' \in [Call!Attempt -> {"none", "get", "select", "release", "kill"}] /\ cApc'[a] = "none"
        /\ \A b \in Call!Attempt \ {a} : cApc'[b] = cApc[b]
    BY Zenon DEF Call!Finish, CallIInv, Call!TypeOK
  <2>2. /\ cFailed' \in [Call!Attempt -> BOOLEAN] /\ ~cFailed'[a]
        /\ \A b \in Call!Attempt \ {a} : cFailed'[b] = cFailed[b]
    BY Zenon DEF Call!Finish, CallIInv, Call!TypeOK
  <2>3. cClosed' \in [Call!Attempt -> BOOLEAN]
    BY Zenon DEF Call!Finish, CallIInv, Call!TypeOK
  <2>4. /\ cAch' \in [Call!Attempt -> Call!Result] /\ cAch'[a] = "none"
        /\ \A b \in Call!Attempt \ {a} : cAch'[b] = cAch[b]
    BY Zenon DEF Call!Finish, CallIInv, Call!TypeOK, Call!Result
  <2> QED
    BY Zenon, <2>1, <2>2, <2>3, <2>4
<1>5. \A b \in Call!Attempt : CallUnborn(b)' => CallUnborn(b)
  BY Zenon, <1>1 DEF CallUnborn
<1> QED
  BY Zenon, <1>1, <1>2, <1>3, <1>4, <1>5

\* There is no connection: nothing of the pool changes.
LEMMA CallFailsStep ==
  ASSUME Call!CallAssumption, CallIInv, NEW a \in Call!Attempt, Call!GetFails(a)
  PROVE  CallIInv'
<1>1. cApc[a] = "get" /\ Call!Finish(a, "err") /\ UNCHANGED <<cIpc, cOpen, cLock, cWire, cRsp, cConns>>
  BY Zenon DEF Call!GetFails, Call!connVars
<1>2. cConn[a] = NoConn /\ cIpc[a] = "none"
  BY <1>1, Zenon DEF CallIInv, CallAttemptInv, CallHolding
<1>3. Call!TypeOK'
  BY <1>1, CallFinished, Zenon DEF CallIInv, Call!TypeOK
<1>4. cConn'[a] = NoConn /\ \A b \in Call!Attempt : cConn'[b] = cConn[b]
  BY <1>1, <1>2, CallFinished, Zenon
<1>5. ASSUME NEW b \in Call!Attempt PROVE CallAttemptInv(b)'
  <2>1. CASE b = a
    BY <1>1, <1>2, <1>4, <2>1, CallFinished, Zenon DEF CallAttemptInv, CallHolding
  <2>2. CASE b # a
    BY <1>1, <2>2, CallFinished, CallAttemptFrame, Zenon DEF CallIInv
  <2> QED
    BY Zenon, <2>1, <2>2
<1>6. ASSUME NEW k \in Conn PROVE CallConnInv(k)'
  <2>1. cConn[a] # k
    BY Zenon, <1>2 DEF Call!CallAssumption
  <2> QED
    BY <1>1, <1>4, <2>1, CallFinished, CallConnFrame, Zenon DEF CallIInv
<1> QED
  BY <1>1, <1>3, <1>4, <1>5, <1>6, Zenon DEF CallIInv, CallOneUser

\* A connection that call will release is open, nobody else's and not in the pool.
LEMMA CallHeld ==
  ASSUME CallIInv, NEW a \in Call!Attempt, cApc[a] \in CallHolding
  PROVE  /\ cConn[a] \in Conn /\ cOpen[cConn[a]] /\ cConn[a] \notin Call!Range(cConns)
         /\ \A b \in Call!Attempt \ {a} : cConn[b] # cConn[a]
<1>1. cConn[a] # NoConn /\ cOpen[cConn[a]]
  BY Zenon DEF CallIInv, CallAttemptInv
<1>2. cConn[a] \in Conn
  BY Zenon, <1>1 DEF CallIInv, Call!TypeOK
<1>3. cConn[a] \notin Call!Range(cConns)
  BY Zenon, <1>2 DEF CallIInv, CallConnInv
<1>4. \A b \in Call!Attempt \ {a} : cConn[b] # cConn[a]
  BY Zenon, <1>1 DEF CallIInv, CallOneUser
<1> QED
  BY Zenon, <1>1, <1>2, <1>3, <1>4

\* The connection goes back to the pool, or is going to be closed.
LEMMA CallReleaseStep ==
  ASSUME Call!CallAssumption, CallIInv, NEW a \in Call!Attempt, Call!Release(a)
  PROVE  CallIInv'
<1> DEFINE k == cConn[a]
<1>1. cApc[a] = "release" /\ UNCHANGED <<cIpc, cOpen, cLock, cWire, cRsp>>
  BY Zenon DEF Call!Release, Call!connVars
<1>2. k \in Conn /\ cOpen[k] /\ k \notin Call!Range(cConns) /\ \A b \in Call!Attempt \ {a} : cConn[b] # k
  BY Zenon, <1>1, CallHeld DEF CallHolding
<1>3. CASE cFailed[a] \/ Len(cConns) >= PoolSize
  <2>1. cApc' = [cApc EXCEPT ![a] = "kill"] /\ UNCHANGED <<Call!callVars, cConn, cFailed, cClosed, cAch, cConns>>
    BY Zenon, <1>3 DEF Call!Release
  <2>2. Call!TypeOK'
    BY Zenon, <1>1, <2>1 DEF CallIInv, Call!TypeOK, Call!callVars
  <2>3. ASSUME NEW b \in Call!Attempt PROVE CallAttemptInv(b)'
    <3>1. CallUnborn(b)' => CallUnborn(b)
      BY Zenon, <2>1 DEF CallUnborn, Call!callVars
    <3>2. CASE b = a
      <4>1. cApc'[a] = "kill"
        BY Zenon, <2>1 DEF CallIInv, Call!TypeOK
      <4> QED
        BY <1>1, <2>1, <3>1, <3>2, <4>1, Zenon DEF CallIInv, CallAttemptInv, CallQuiet, CallHolding
    <3>3. CASE b # a
      <4>1. cApc'[b] = cApc[b]
        BY Zenon, <2>1, <3>3 DEF CallIInv, Call!TypeOK
      <4> QED
        BY Zenon, <1>1, <2>1, <3>1, <4>1, CallAttemptFrame DEF CallIInv
    <3> QED
      BY Zenon, <3>2, <3>3
  <2>4. ASSUME NEW j \in Conn PROVE CallConnInv(j)'
    <3>1. \A b \in Call!Attempt : cApc[b] \in CallHolding <=> cApc'[b] \in CallHolding
      BY Zenon, <1>1, <2>1 DEF CallIInv, Call!TypeOK, CallHolding
    <3> QED
      BY Zenon, <1>1, <2>1, <3>1, CallConnFrame DEF CallIInv
  <2> QED
    BY Zenon, <2>1, <2>2, <2>3, <2>4 DEF CallIInv, CallOneUser
<1>4. CASE ~(cFailed[a] \/ Len(cConns) >= PoolSize)
  <2>1. Call!Finish(a, "ok") /\ cConns' = Append(cConns, k)
    BY Zenon, <1>4 DEF Call!Release
  <2>2. cIpc[a] = "none" /\ CallQuiet(k)
    BY Zenon, <1>1, <1>4 DEF CallIInv, CallAttemptInv
  <2>3. ~cLock[k]
    BY <1>2, <2>2, Zenon DEF CallIInv, CallConnInv
  <2>4. /\ cConns' \in Seq(Conn) /\ Len(cConns') <= PoolSize
        /\ Call!IsInjective(cConns') /\ Call!Range(cConns') = Call!Range(cConns) \cup {k}
    <3>1. cConns \in Seq(Conn) /\ Call!IsInjective(cConns) /\ Len(cConns) + 1 <= PoolSize
      BY <1>4 DEF CallIInv, Call!TypeOK, Call!CallAssumption
    <3> QED
      BY <1>2, <2>1, <3>1, CallStored, Zenon
  <2>5. Call!TypeOK'
    BY <1>1, <2>1, <2>4, CallFinished, Zenon DEF CallIInv, Call!TypeOK
  <2>6. cConn'[a] = NoConn /\ \A b \in Call!Attempt \ {a} : cConn'[b] = cConn[b] /\ cApc'[b] = cApc[b]
    BY <1>1, <2>1, <2>2, CallFinished, Zenon
  <2>7. ASSUME NEW b \in Call!Attempt PROVE CallAttemptInv(b)'
    <3>1. CASE b = a
      BY <1>1, <2>1, <2>2, <2>6, <3>1, CallFinished, Zenon DEF CallAttemptInv, CallHolding
    <3>2. CASE b # a
      BY <1>1, <2>1, <3>2, CallFinished, CallAttemptFrame, Zenon DEF CallIInv
    <3> QED
      BY Zenon, <3>1, <3>2
  <2>8. ASSUME NEW j \in Conn PROVE CallConnInv(j)'
    <3>1. CASE j = k
      <4>1. \A b \in Call!Attempt : cConn'[b] # k
        BY Zenon, <1>2, <2>6 DEF Call!CallAssumption
      <4> QED
        BY <1>1, <1>2, <2>2, <2>3, <2>4, <3>1, <4>1, Zenon DEF CallConnInv, CallQuiet
    <3>2. CASE j # k
      <4>1. \A b \in Call!Attempt : /\ cConn'[b] = j <=> cConn[b] = j
                                    /\ cConn[b] = j => cApc'[b] = cApc[b]
        BY Zenon, <2>6, <3>2 DEF Call!CallAssumption
      <4> QED
        BY <1>1, <2>4, <3>2, <4>1, CallConnFrame, Zenon DEF CallIInv
    <3> QED
      BY Zenon, <3>1, <3>2
  <2>9. CallOneUser'
    BY Zenon, <2>6 DEF CallIInv, CallOneUser
  <2> QED
    BY Zenon, <2>4, <2>5, <2>7, <2>8, <2>9 DEF CallIInv
<1> QED
  BY Zenon, <1>3, <1>4

\* The connection is closed, which a reader the attempt has left behind would delay.
LEMMA CallKillStep ==
  ASSUME Call!CallAssumption, CallIInv, NEW a \in Call!Attempt, Call!Kill(a)
  PROVE  CallIInv'
<1> DEFINE k == cConn[a]
<1>1. cApc[a] = "kill" /\ Call!CloseConn(k) /\ UNCHANGED <<cIpc, cConns>>
  BY Zenon DEF Call!Kill
<1>2. PICK r \in {"ok", "err"} : Call!Finish(a, r)
  BY Zenon DEF Call!Kill
<1>3. k \in Conn /\ k \notin Call!Range(cConns) /\ \A b \in Call!Attempt \ {a} : cConn[b] # k
  BY Zenon, <1>1, CallHeld DEF CallHolding
<1> HIDE DEF k
<1>4. Call!TypeOK'
  <2>1. /\ cOpen' \in [Conn -> BOOLEAN] /\ cLock' \in [Conn -> BOOLEAN]
        /\ cWire' \in [Conn -> Seq(Call!Attempt)] /\ cRsp' \in [Conn -> Seq(Call!Attempt)]
    BY <1>1, <1>3, CallClosed, Zenon
  <2>2. /\ cCpc' = cCpc /\ cTries' = cTries /\ cDone' = cDone /\ cCh' \in [Caller -> Call!Result]
        /\ cApc' \in [Call!Attempt -> {"none", "get", "select", "release", "kill"}]
        /\ cConn' \in [Call!Attempt -> Conn \cup {NoConn}]
        /\ cFailed' \in [Call!Attempt -> BOOLEAN] /\ cClosed' \in [Call!Attempt -> BOOLEAN]
        /\ cAch' \in [Call!Attempt -> Call!Result]
    BY Zenon, <1>1, <1>2, CallFinished
  <2> QED
    BY Zenon, <1>1, <2>1, <2>2 DEF CallIInv, Call!TypeOK
<1>5. cIpc[a] # "read" /\ ~CallUnborn(a)
  BY <1>1, <1>3, CallClosed, Zenon DEF CallIInv, CallAttemptInv, k
<1>6. ASSUME NEW b \in Call!Attempt PROVE CallAttemptInv(b)'
  <2>1. CASE b = a
    <3>1. /\ cApc'[a] = "none" /\ cAch'[a] = "none" /\ ~cFailed'[a] /\ cIpc'[a] = cIpc[a] /\ ~CallUnborn(a)'
          /\ cConn'[a] = IF cIpc[a] = "none" THEN NoConn ELSE cConn[a]
      BY <1>1, <1>2, <1>5, CallFinished, Zenon DEF k
    <3>2. ~cOpen'[k] /\ cWire'[k] = <<>> /\ cRsp'[k] = <<>> /\ k # NoConn
      BY Zenon, <1>1, <1>3, CallClosed DEF Call!CallAssumption
    <3> QED
      BY <1>5, <2>1, <3>1, <3>2, Zenon DEF CallAttemptInv, CallHolding, CallQuiet, k
  <2>2. CASE b # a
    <3>1. cConn[b] # NoConn => cConn[b] \in Conn \ {k}
      BY Zenon, <1>3, <2>2 DEF CallIInv, Call!TypeOK
    <3>2. /\ CallUnborn(b)' => CallUnborn(b)
          /\ cApc'[b] = cApc[b] /\ cIpc'[b] = cIpc[b] /\ cConn'[b] = cConn[b]
          /\ cFailed'[b] = cFailed[b] /\ cAch'[b] = cAch[b]
      BY Zenon, <1>1, <1>2, <2>2, CallFinished
    <3>3. \A j \in Conn \ {k} : /\ cOpen'[j] = cOpen[j] /\ cLock'[j] = cLock[j]
                               /\ cWire'[j] = cWire[j] /\ cRsp'[j] = cRsp[j]
      BY Zenon, <1>1, <1>3, CallClosed
    <3> QED
      BY Zenon, <3>1, <3>2, <3>3, CallAttemptFrame DEF CallIInv
  <2> QED
    BY Zenon, <2>1, <2>2
<1>7. ASSUME NEW j \in Conn PROVE CallConnInv(j)'
  <2>1. CASE j = k
    BY Zenon, <1>1, <1>3, <2>1, CallClosed DEF CallConnInv, CallQuiet
  <2>2. CASE j # k
    <3>1. \A b \in Call!Attempt : /\ cConn'[b] = j <=> cConn[b] = j
                                  /\ cConn[b] = j => cApc'[b] = cApc[b]
      BY <1>1, <1>2, <2>2, CallFinished, Zenon DEF Call!CallAssumption, k
    <3>2. cOpen'[j] = cOpen[j] /\ cLock'[j] = cLock[j] /\ cWire'[j] = cWire[j] /\ cRsp'[j] = cRsp[j]
      BY Zenon, <1>1, <1>3, <2>2, CallClosed
    <3> QED
      BY <1>1, <3>1, <3>2, CallConnFrame, Zenon DEF CallIInv
  <2> QED
    BY Zenon, <2>1, <2>2
<1>8. CallOneUser'
  <2>1. cConn'[a] \in {NoConn, k} /\ \A b \in Call!Attempt \ {a} : cConn'[b] = cConn[b]
    BY Zenon, <1>1, <1>2, CallFinished DEF k
  <2> QED
    BY Zenon, <1>3, <2>1 DEF CallIInv, CallOneUser
<1> QED
  BY Zenon, <1>1, <1>4, <1>6, <1>7, <1>8 DEF CallIInv

-----------------------------------------------------------------------------
(* The theorems *)

\* The invariant holds in every state.
LEMMA CallIInvHolds == ASSUME Call!CallAssumption PROVE Call!Spec => []CallIInv
<1>1. Call!Init => CallIInv
  <2> SUFFICES ASSUME Call!Init PROVE CallIInv
    BY Zenon
  <2>1. <<>> \in Seq(Call!Attempt) /\ cConns = <<>> /\ <<>> \in Seq(Conn) /\ Call!Range(<<>>) = {} /\ Call!IsInjective(<<>>)
    BY DEF Call!Init, Call!Range, Call!IsInjective
  <2>2. Call!TypeOK
    BY <2>1 DEF Call!Init, Call!TypeOK, Call!Result, Call!CallAssumption
  <2>3. \A a \in Call!Attempt : CallAttemptInv(a)
    BY Zenon DEF Call!Init, CallAttemptInv, CallHolding
  <2>4. \A k \in Conn : CallConnInv(k)
    BY Zenon, <2>1 DEF Call!Init, CallConnInv, CallQuiet
  <2> QED
    BY Zenon, <2>1, <2>2, <2>3, <2>4 DEF Call!Init, CallIInv, CallOneUser
<1>2. CallIInv /\ [Call!Next]_(Call!vars) => CallIInv'
  <2> SUFFICES ASSUME CallIInv, [Call!Next]_(Call!vars) PROVE CallIInv'
    BY Zenon
  <2>1. CASE UNCHANGED Call!vars
    <3>1. Call!TypeOK'
      BY Zenon, <2>1 DEF Call!vars, CallIInv, Call!TypeOK
    <3>2. \A a \in Call!Attempt : CallUnborn(a)' => CallUnborn(a)
      BY Zenon, <2>1 DEF Call!vars, CallUnborn
    <3>3. \A a \in Call!Attempt : CallAttemptInv(a)'
      BY Zenon, <2>1, <3>2, CallAttemptFrame DEF Call!vars, CallIInv
    <3>4. \A k \in Conn : CallConnInv(k)'
      BY Zenon, <2>1, CallConnFrame DEF Call!vars, CallIInv
    <3> QED
      BY Zenon, <2>1, <3>1, <3>3, <3>4 DEF Call!vars, CallIInv, CallOneUser
  <2>2. ASSUME NEW c \in Caller, Call!Start(c) \/ Call!Deadline(c) \/ Call!CallStep(c) PROVE CallIInv'
    BY Zenon, <2>2, CallCallOnly, CallTryStep DEF Call!CallStep
  <2>3. ASSUME NEW a \in Call!Attempt, Call!AttemptStep(a) PROVE CallIInv'
    BY Zenon, <2>3, CallGetStep, CallOldStep, CallFailsStep, CallSelectStep, CallReleaseStep,
       CallKillStep DEF Call!AttemptStep
  <2>4. ASSUME NEW a \in Call!Attempt, Call!IoStep(a) PROVE CallIInv'
    BY Zenon, <2>4, CallIoStepKeeps
  <2>5. ASSUME NEW k \in Conn, Call!Answer(k) PROVE CallIInv'
    BY Zenon, <2>5, CallAnswerStep
  <2>6. CASE Call!Reconfigure
    BY Zenon, <2>6, CallReconfigureStep
  <2> QED
    BY Zenon, <2>1, <2>2, <2>3, <2>4, <2>5, <2>6 DEF Call!Next
<1> QED
  BY <1>1, <1>2, PTL DEF Call!Spec

\* Whatever times out and whoever is left behind, what an attempt reads is the answer to
\* its own request.
LEMMA CallOwnAnswer == CallIInv => Call!AnswerIsForRequest
<1> SUFFICES ASSUME CallIInv, NEW a \in Call!Attempt, cIpc[a] = "read", cRsp[cConn[a]] # <<>>
             PROVE  Head(cRsp[cConn[a]]) = a
  BY Zenon DEF Call!AnswerIsForRequest
<1>1. cRsp[cConn[a]] = <<a>>
  BY Zenon DEF CallIInv, CallAttemptInv, CallQuiet
<1> QED
  BY <1>1

\* pool.Get never hands out a connection that is closed, in use, locked, or has an answer
\* to come.
LEMMA CallCleanPool == CallIInv => Call!PoolIsClean
<1> SUFFICES ASSUME CallIInv, NEW k \in Call!Range(cConns)
             PROVE  cOpen[k] /\ ~cLock[k] /\ cWire[k] = <<>> /\ cRsp[k] = <<>> /\ ~Call!InUse(k)
  BY Zenon DEF CallIInv, Call!PoolIsClean
<1>1. k \in Conn
  BY DEF CallIInv, Call!TypeOK, Call!Range
<1> QED
  BY Zenon, <1>1 DEF CallIInv, CallConnInv, CallQuiet, Call!InUse

\* Every open connection is in the pool, or exactly one attempt will release it.
LEMMA CallNoLeak == ASSUME Call!CallAssumption PROVE CallIInv => Call!NoConnIsLeaked
<1> SUFFICES ASSUME CallIInv, NEW k \in Conn, cOpen[k]
             PROVE  IF k \in Call!Range(cConns) THEN Call!Holders(k) = {} ELSE \E a \in Call!Attempt : Call!Holders(k) = {a}
  BY Zenon DEF Call!NoConnIsLeaked
<1>1. CASE k \in Call!Range(cConns)
  BY Zenon, <1>1 DEF CallIInv, CallConnInv, Call!Holders
<1>2. CASE k \notin Call!Range(cConns)
  <2>1. PICK a \in Call!Attempt : cConn[a] = k /\ cApc[a] \in CallHolding
    BY Zenon, <1>2 DEF CallIInv, CallConnInv
  <2>2. Call!Holders(k) = {a}
    BY Zenon, <2>1 DEF CallIInv, CallOneUser, Call!Holders, CallHolding, Call!CallAssumption
  <2> QED
    BY Zenon, <1>2, <2>2
<1> QED
  BY Zenon, <1>1, <1>2

(***************************************************************************)
(* Whatever times out and whoever is left behind, an attempt reads only    *)
(* the answer to its own request, pool.Get never hands out a connection    *)
(* that is closed, in use, locked or has an answer to come, and every open *)
(* connection is in the pool or will be released by exactly one attempt.   *)
(***************************************************************************)
THEOREM Connections == ASSUME Call!CallAssumption PROVE Call!Spec => []ConnsAreSound
<1>1. CallIInv => ConnsAreSound
  BY Zenon, CallOwnAnswer, CallCleanPool, CallNoLeak DEF CallIInv, ConnsAreSound
<1> QED
  BY <1>1, CallIInvHolds, PTL
=============================================================================
