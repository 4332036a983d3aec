--------------------------- MODULE BackendProofs ----------------------------
(***************************************************************************)
(* Proofs about the reconnecting RabbitMQ broker (RabbitMQ), for every     *)
(* number of subscribers, calls of Connect and faults, and about the       *)
(* rotating log (LogRotate), for every number and size of its files and    *)
(* whatever fails.                                                         *)
(***************************************************************************)
EXTENDS Backends, TLAPS

-----------------------------------------------------------------------------
(***************************************************************************)
(* RabbitMQ.                                                               *)
(***************************************************************************)

(***************************************************************************)
(* The inductive invariant.  As long as no two reconnect loops have been   *)
(* running at once, an open waitConnection means that the one loop is      *)
(* between losing a connection and having the next: so the channel that    *)
(* Lost replaces is closed already.                                        *)
(***************************************************************************)
RabbitIInv ==
          /\ rLoop \in [Rabbit!Loops -> {"off", "try", "mark", "notify", "wait"}]
          /\ rOverlapped \in BOOLEAN
          /\ DOMAIN rSpc = Subscribers /\ DOMAIN rSwait = Subscribers
          /\ ~rOverlapped => \A i, j \in Rabbit!Loops : rLoop[i] # "off" /\ rLoop[j] # "off" => i = j
          /\ ~rOverlapped /\ rWaitCh \in rWaitOpen => \E i \in Rabbit!Loops : rLoop[i] \in {"try", "mark"}
          /\ Rabbit!NoMissedWakeup

\* A step that neither moves a loop nor touches a channel or a waiting subscriber.
LEMMA RabbitFrame ==
  ASSUME RabbitIInv, UNCHANGED <<rLoop, rOverlapped, rWaitCh, rWaitOpen, rSpc, rSwait>>
  PROVE  RabbitIInv'
  BY Zenon DEF RabbitIInv, Rabbit!NoMissedWakeup

\* Connect and connect: a second loop is noted as an overlap.
LEMMA RabbitCallerStep ==
  ASSUME RabbitIInv, Rabbit!Connect \/ Rabbit!UserStep \/ Rabbit!Close \/ \E c \in rOpen : Rabbit!Drop(c)
  PROVE  RabbitIInv'
<1>1. CASE Rabbit!Connect \/ Rabbit!Close \/ \E c \in rOpen : Rabbit!Drop(c)
  BY Zenon, <1>1, RabbitFrame DEF Rabbit!Connect, Rabbit!Close, Rabbit!Drop, Rabbit!loopVars,
     Rabbit!subVars, Rabbit!chanVars
<1>2. CASE Rabbit!ConnectTry
  BY Zenon, <1>2, RabbitFrame DEF Rabbit!ConnectTry, Rabbit!loopVars, Rabbit!subVars,
     Rabbit!chanVars
<1>3. CASE Rabbit!connect
  <2>1. /\ rLoop' = [rLoop EXCEPT ![rCalls] = "notify"] /\ UNCHANGED <<rWaitCh, rWaitOpen, rSpc, rSwait>>
        /\ rOverlapped' = (rOverlapped \/ \E i \in Rabbit!Loops : rLoop[i] # "off")
    BY Zenon, <1>3 DEF Rabbit!connect, Rabbit!chanVars, Rabbit!subVars
  <2>2. rOverlapped' \in BOOLEAN /\ rLoop' \in [Rabbit!Loops -> {"off", "try", "mark", "notify", "wait"}]
    BY Zenon, <2>1 DEF RabbitIInv
  <2>3. CASE rOverlapped'
    BY Zenon, <2>1, <2>2, <2>3 DEF RabbitIInv, Rabbit!NoMissedWakeup
  <2>4. CASE ~rOverlapped'
    <3>1. ~rOverlapped /\ \A i \in Rabbit!Loops : rLoop[i] = "off"
      BY Zenon, <2>1, <2>4
    <3>2. rWaitCh \notin rWaitOpen
      BY Zenon, <3>1 DEF RabbitIInv
    <3>3. \A i \in Rabbit!Loops : rLoop'[i] # "off" => i = rCalls
      BY Zenon, <2>1, <3>1 DEF RabbitIInv
    <3> QED
      BY Zenon, <2>1, <2>2, <3>1, <3>2, <3>3 DEF RabbitIInv, Rabbit!NoMissedWakeup
  <2> QED
    BY Zenon, <2>3, <2>4
<1> QED
  BY Zenon, <1>1, <1>2, <1>3 DEF Rabbit!UserStep

\* A reconnect loop.
LEMMA RabbitLoopKeeps ==
  ASSUME RabbitIInv, NEW i \in Rabbit!Loops, Rabbit!LoopStep(i)
  PROVE  RabbitIInv'
<1>1. rLoop[i] # "off"
  BY Zenon DEF Rabbit!LoopStep, Rabbit!Reconnect, Rabbit!Unblock, Rabbit!NotifyClose, Rabbit!Lost,
     Rabbit!LoopEnds
<1>2. ~rOverlapped => \A j \in Rabbit!Loops : j # i => rLoop[j] = "off"
  BY Zenon, <1>1 DEF RabbitIInv
<1>3. ASSUME NEW p \in {"off", "try", "mark", "notify", "wait"}, rLoop' = [rLoop EXCEPT ![i] = p],
             UNCHANGED <<rOverlapped, rWaitCh, rWaitOpen, rSpc, rSwait>>,
             rLoop[i] \in {"try", "mark"} => p \in {"try", "mark"}
      PROVE  RabbitIInv'
  <2>1. rLoop' \in [Rabbit!Loops -> {"off", "try", "mark", "notify", "wait"}] /\ rLoop'[i] = p
          /\ \A j \in Rabbit!Loops : j # i => rLoop'[j] = rLoop[j]
    BY Zenon, <1>3 DEF RabbitIInv
  <2>2. ~rOverlapped => \A h, j \in Rabbit!Loops : rLoop'[h] # "off" /\ rLoop'[j] # "off" => h = j
    BY Zenon, <1>2, <2>1
  <2>3. ~rOverlapped /\ rWaitCh \in rWaitOpen => \E h \in Rabbit!Loops : rLoop'[h] \in {"try", "mark"}
    BY Zenon, <1>2, <1>3, <2>1 DEF RabbitIInv
  <2> QED
    BY Zenon, <1>3, <2>1, <2>2, <2>3 DEF RabbitIInv, Rabbit!NoMissedWakeup
<1>4. CASE Rabbit!Reconnect(i)
  <2>1. rLoop[i] = "try" /\ UNCHANGED <<rOverlapped, rWaitCh, rWaitOpen, rSpc, rSwait>>
    BY Zenon, <1>4 DEF Rabbit!Reconnect, Rabbit!chanVars, Rabbit!subVars
  <2>2. rLoop' = [rLoop EXCEPT ![i] = "mark"] \/ UNCHANGED rLoop
    BY Zenon, <1>4 DEF Rabbit!Reconnect, Rabbit!tryConnect
  <2> QED
    BY Zenon, <1>3, <2>1, <2>2, RabbitFrame
<1>5. CASE Rabbit!NotifyClose(i)
  BY Zenon, <1>3, <1>5 DEF Rabbit!NotifyClose, Rabbit!chanVars, Rabbit!subVars
<1>6. CASE Rabbit!LoopEnds(i)
  BY Zenon, <1>3, <1>6 DEF Rabbit!LoopEnds, Rabbit!chanVars, Rabbit!subVars
<1>7. CASE Rabbit!Unblock(i)
  <2>1. /\ rLoop' = [rLoop EXCEPT ![i] = "notify"] /\ rWaitOpen' = rWaitOpen \ {rWaitCh}
        /\ UNCHANGED <<rOverlapped, rWaitCh, rSpc, rSwait>>
    BY Zenon, <1>7 DEF Rabbit!Unblock, Rabbit!subVars
  <2>2. ~rOverlapped => \A h, j \in Rabbit!Loops : rLoop'[h] # "off" /\ rLoop'[j] # "off" => h = j
    BY Zenon, <1>2, <2>1 DEF RabbitIInv
  <2> QED
    BY Zenon, <2>1, <2>2 DEF RabbitIInv, Rabbit!NoMissedWakeup
<1>8. CASE Rabbit!Lost(i)
  <2>1. /\ rLoop[i] = "wait" /\ rLoop' = [rLoop EXCEPT ![i] = "try"]
        /\ rWaitOpen' = (rWaitOpen \cap Rabbit!Range(rSwait)) \cup {rWaitCh'}
        /\ UNCHANGED <<rOverlapped, rSpc, rSwait>>
    BY Zenon, <1>8 DEF Rabbit!Lost, Rabbit!subVars
  <2>2. ~rOverlapped => rWaitCh \notin rWaitOpen
    BY Zenon, <1>2, <2>1 DEF RabbitIInv
  <2>3. Rabbit!NoMissedWakeup'
    BY Zenon, <2>1, <2>2 DEF RabbitIInv, Rabbit!NoMissedWakeup
  <2>4. /\ rLoop' \in [Rabbit!Loops -> {"off", "try", "mark", "notify", "wait"}] /\ rLoop'[i] = "try"
        /\ \A j \in Rabbit!Loops : j # i => rLoop'[j] = rLoop[j]
    BY Zenon, <2>1 DEF RabbitIInv
  <2> QED
    BY Zenon, <1>2, <2>1, <2>3, <2>4 DEF RabbitIInv
<1> QED
  BY Zenon, <1>4, <1>5, <1>6, <1>7, <1>8 DEF Rabbit!LoopStep

\* A subscriber waits on the channel it has just read.
LEMMA RabbitSubscriberKeeps ==
  ASSUME RabbitIInv, NEW s \in Subscribers, Rabbit!Subscribe(s) \/ Rabbit!SubStep(s) \/ Rabbit!Unsubscribe(s)
  PROVE  RabbitIInv'
<1>1. ASSUME NEW p, p # "select", Rabbit!At(s, p), rSwait' = rSwait \/ Rabbit!Selected(s),
             UNCHANGED <<rLoop, rOverlapped, rWaitCh, rWaitOpen>>
      PROVE  RabbitIInv'
  <2>1. DOMAIN rSwait' = Subscribers /\ \A t \in Subscribers : t # s => rSwait'[t] = rSwait[t]
    BY Zenon, <1>1 DEF RabbitIInv, Rabbit!Selected
  <2>2. DOMAIN rSpc' = Subscribers /\ rSpc'[s] # "select" /\ \A t \in Subscribers : t # s => rSpc'[t] = rSpc[t]
    BY Zenon, <1>1 DEF RabbitIInv, Rabbit!At
  <2> QED
    BY Zenon, <1>1, <2>1, <2>2 DEF RabbitIInv, Rabbit!NoMissedWakeup
<1>2. UNCHANGED <<rLoop, rOverlapped, rWaitCh, rWaitOpen>>
  BY Zenon DEF Rabbit!Subscribe, Rabbit!SubStep, Rabbit!Unsubscribe, Rabbit!Check, Rabbit!Shutdown,
     Rabbit!Connected, Rabbit!Recheck, Rabbit!Consume, Rabbit!Store, Rabbit!RangeEnds,
     Rabbit!NotOfSubscribers, Rabbit!chanVars, Rabbit!loopVars
<1>3. CASE Rabbit!Subscribe(s)
  BY Zenon, <1>1, <1>2, <1>3 DEF Rabbit!Subscribe, Rabbit!At
<1>4. CASE Rabbit!Check(s)
  <2>1. CASE rMayRun[s]
    <3>1. rSpc' = [rSpc EXCEPT ![s] = "select"] /\ rSwait' = [rSwait EXCEPT ![s] = rWaitCh]
      BY Zenon, <1>4, <2>1 DEF Rabbit!Check, Rabbit!At
    <3> QED
      BY Zenon, <1>2, <3>1 DEF RabbitIInv, Rabbit!NoMissedWakeup
  <2>2. CASE ~rMayRun[s]
    BY Zenon, <1>1, <1>2, <1>4, <2>2 DEF Rabbit!Check
  <2> QED
    BY Zenon, <2>1, <2>2
<1>5. CASE Rabbit!Shutdown(s) \/ Rabbit!Connected(s)
  BY Zenon, <1>1, <1>2, <1>5 DEF Rabbit!Shutdown, Rabbit!Connected
<1>6. CASE Rabbit!Recheck(s)
  BY Zenon, <1>1, <1>2, <1>6 DEF Rabbit!Recheck
<1>7. CASE Rabbit!Consume(s)
  BY Zenon, <1>1, <1>2, <1>7 DEF Rabbit!Consume
<1>8. CASE Rabbit!Store(s) \/ Rabbit!RangeEnds(s)
  BY Zenon, <1>1, <1>2, <1>8 DEF Rabbit!Store, Rabbit!RangeEnds
<1>9. CASE Rabbit!Unsubscribe(s)
  BY Zenon, <1>2, <1>9, RabbitFrame DEF Rabbit!Unsubscribe
<1> QED
  BY Zenon, <1>3, <1>4, <1>5, <1>6, <1>7, <1>8, <1>9 DEF Rabbit!SubStep

----------------------------------------------------------------------------
\* A new channel or connection has a number that nobody holds.
LEMMA RabbitFreshIsNew ==
  ASSUME Rabbit!IdsAssumption,
         NEW f \in [Rabbit!Loops -> Ids \cup {0}], NEW g \in [Subscribers -> Ids \cup {0}],
         NEW n \in Ids \cup {0}, NEW H, H \subseteq Rabbit!Range(f) \cup Rabbit!Range(g) \cup {n}
  PROVE  Rabbit!Fresh(H) \in Ids /\ Rabbit!Fresh(H) \notin H
<1>1. PICK x \in Ids : x \notin Rabbit!Range(f) \cup Rabbit!Range(g) \cup {n}
  BY Zenon DEF Rabbit!IdsAssumption
<1>2. x \in Ids /\ x \notin H
  BY Zenon, <1>1
<1> QED
  BY Zenon, <1>2 DEF Rabbit!Fresh

\* The types of the connections, of the channels and of where the goroutines are.
RabbitConnTypes ==
    /\ rConnection \in Ids \cup {0} /\ rOpen \in SUBSET Ids
    /\ rWatch \in [Rabbit!Loops -> Ids \cup {0}] /\ rCh \in [Subscribers -> Ids \cup {0}]
RabbitChanTypes ==
    /\ rWaitCh \in Ids /\ rCloseCh \in Ids /\ rCloseOpen \in SUBSET Ids /\ rWaitOpen \in SUBSET Ids
    /\ rStop \in [Rabbit!Loops -> Ids \cup {0}]
    /\ rSclose \in [Subscribers -> Ids \cup {0}] /\ rSwait \in [Subscribers -> Ids \cup {0}]
RabbitPlaceTypes ==
    /\ rRmtx \in Subscribers \cup {Nobody} /\ rCaller \in {"idle", "try", "mark"}
    /\ rLoop \in [Rabbit!Loops -> {"off", "try", "mark", "notify", "wait"}]
    /\ rSpc \in [Subscribers -> {"none", "check", "select", "recheck", "consume", "store", "range", "done"}]
RabbitTypes == RabbitConnTypes /\ RabbitChanTypes /\ RabbitPlaceTypes

\* Dialling gives a connection that no loop and no subscriber holds.
LEMMA RabbitDialIsNew ==
  ASSUME Rabbit!IdsAssumption, RabbitConnTypes, Rabbit!Dial
  PROVE  rConnection' \in Ids /\ rConnection' \notin Rabbit!Held /\ rOpen' \in SUBSET Ids
<1>1. Rabbit!Held \cup {rConnection} \subseteq Rabbit!Range(rWatch) \cup Rabbit!Range(rCh) \cup {rConnection}
  BY Zenon DEF Rabbit!Held
<1>2. rConnection' \in Ids /\ rConnection' \notin Rabbit!Held \cup {rConnection}
  BY Zenon, <1>1, RabbitFreshIsNew DEF RabbitConnTypes, Rabbit!Dial
<1> QED
  BY Zenon, <1>2 DEF RabbitConnTypes, Rabbit!Dial

\* The end of a connection leaves the types as they are.
LEMMA RabbitEndsTyped ==
  ASSUME RabbitConnTypes, NEW c, Rabbit!Ends(c), UNCHANGED rConnection
  PROVE  RabbitConnTypes'
<1>1. rWatch' \in [Rabbit!Loops -> Ids \cup {0}]
  BY Zenon DEF RabbitConnTypes, Rabbit!Ends
<1>2. rCh' \in [Subscribers -> Ids \cup {0}]
  BY Zenon DEF RabbitConnTypes, Rabbit!Ends
<1> QED
  BY Zenon, <1>1, <1>2 DEF RabbitConnTypes, Rabbit!Ends

\* Every step keeps the types of the connections.
LEMMA RabbitConnTypesKept == ASSUME Rabbit!IdsAssumption, RabbitConnTypes, [Rabbit!Next]_(Rabbit!vars) PROVE RabbitConnTypes'
<1>1. CASE UNCHANGED <<Rabbit!connVars, rWatch, rCh>>
  BY Zenon, <1>1 DEF RabbitConnTypes, Rabbit!connVars
<1>2. ASSUME Rabbit!Dial \/ (rConnection' = 0 /\ UNCHANGED rOpen), UNCHANGED <<rWatch, rCh>> PROVE RabbitConnTypes'
  BY Zenon, <1>2, RabbitDialIsNew DEF RabbitConnTypes
<1>3. CASE UNCHANGED Rabbit!vars \/ Rabbit!Connect \/ Rabbit!connect
  BY Zenon, <1>1, <1>3 DEF Rabbit!vars, Rabbit!loopVars, Rabbit!subVars, Rabbit!Connect,
     Rabbit!connect
<1>4. CASE Rabbit!ConnectTry
  BY Zenon, <1>2, <1>4 DEF Rabbit!ConnectTry, Rabbit!tryConnect, Rabbit!loopVars, Rabbit!subVars
<1>5. CASE Rabbit!Close \/ \E c \in rOpen : Rabbit!Drop(c)
  BY Zenon, <1>5, RabbitEndsTyped DEF Rabbit!Close, Rabbit!Drop
<1>6. ASSUME NEW i \in Rabbit!Loops, Rabbit!LoopStep(i) PROVE RabbitConnTypes'
  <2>1. CASE Rabbit!Reconnect(i)
    BY Zenon, <1>2, <2>1 DEF Rabbit!Reconnect, Rabbit!tryConnect, Rabbit!subVars
  <2>2. CASE Rabbit!Unblock(i)
    BY Zenon, <1>1, <2>2 DEF Rabbit!Unblock, Rabbit!subVars
  <2>3. CASE Rabbit!NotifyClose(i) \/ Rabbit!Lost(i) \/ Rabbit!LoopEnds(i)
    <3>1. UNCHANGED <<Rabbit!connVars, rCh>> /\ \E c \in {0, rConnection} : rWatch' = [rWatch EXCEPT ![i] = c]
      BY Zenon, <2>3 DEF Rabbit!NotifyClose, Rabbit!Lost, Rabbit!LoopEnds, Rabbit!subVars
    <3> QED
      BY Zenon, <3>1 DEF RabbitConnTypes, Rabbit!connVars
  <2> QED
    BY Zenon, <1>6, <2>1, <2>2, <2>3 DEF Rabbit!LoopStep
<1>7. ASSUME NEW s \in Subscribers, Rabbit!Subscribe(s) \/ Rabbit!SubStep(s) \/ Rabbit!Unsubscribe(s) PROVE RabbitConnTypes'
  <2>1. UNCHANGED <<Rabbit!connVars, rWatch>>
    BY Zenon, <1>7 DEF Rabbit!Subscribe, Rabbit!SubStep, Rabbit!Unsubscribe, Rabbit!Check,
       Rabbit!Shutdown, Rabbit!Connected, Rabbit!Recheck, Rabbit!Consume, Rabbit!Store,
       Rabbit!RangeEnds, Rabbit!NotOfSubscribers, Rabbit!loopVars
  <2>2. rCh' = rCh \/ \E c \in {0, rConnection} : rCh' = [rCh EXCEPT ![s] = c]
    <3>1. CASE Rabbit!Subscribe(s) \/ Rabbit!Unsubscribe(s)
      BY Zenon, <3>1 DEF Rabbit!Subscribe, Rabbit!Unsubscribe
    <3>2. CASE Rabbit!Check(s) \/ Rabbit!Shutdown(s) \/ Rabbit!Connected(s) \/ Rabbit!Recheck(s)
      BY Zenon, <3>2 DEF Rabbit!Check, Rabbit!Shutdown, Rabbit!Connected, Rabbit!Recheck
    <3>3. CASE Rabbit!Consume(s) \/ Rabbit!Store(s) \/ Rabbit!RangeEnds(s)
      BY Zenon, <3>3 DEF Rabbit!Consume, Rabbit!Store, Rabbit!RangeEnds
    <3> QED
      BY Zenon, <1>7, <3>1, <3>2, <3>3 DEF Rabbit!SubStep
  <2> QED
    BY Zenon, <2>1, <2>2 DEF RabbitConnTypes, Rabbit!connVars
<1> QED
  BY Zenon, <1>3, <1>4, <1>5, <1>6, <1>7 DEF Rabbit!Next, Rabbit!UserStep

\* Every step keeps the types of the channels.
LEMMA RabbitChanTypesKept == ASSUME Rabbit!IdsAssumption, RabbitChanTypes, [Rabbit!Next]_(Rabbit!vars) PROVE RabbitChanTypes'
<1>1. CASE UNCHANGED <<Rabbit!chanVars, rStop, rSclose, rSwait>>
  BY Zenon, <1>1 DEF RabbitChanTypes, Rabbit!chanVars
<1>2. CASE UNCHANGED Rabbit!vars \/ Rabbit!UserStep \/ \E c \in rOpen : Rabbit!Drop(c)
  BY Zenon, <1>1, <1>2 DEF Rabbit!vars, Rabbit!loopVars, Rabbit!subVars, Rabbit!UserStep,
     Rabbit!ConnectTry, Rabbit!connect, Rabbit!Drop
<1>3. CASE Rabbit!Connect
  <2>1. UNCHANGED <<rWaitCh, rWaitOpen, rStop, rSclose, rSwait>>
    BY Zenon, <1>3 DEF Rabbit!Connect, Rabbit!loopVars, Rabbit!subVars
  <2>2. CASE rCloseCh \in rCloseOpen
    BY Zenon, <1>3, <2>1, <2>2 DEF Rabbit!Connect, RabbitChanTypes
  <2>3. CASE rCloseCh \notin rCloseOpen
    <3>1. PICK H : H = {rCloseCh} \cup Rabbit!Range(rSclose) \cup Rabbit!Range(rStop)
      BY Zenon
    <3>2. rCloseCh' = Rabbit!Fresh(H) /\ rCloseOpen' = rCloseOpen \cup {rCloseCh'}
      BY Zenon, <1>3, <2>3, <3>1 DEF Rabbit!Connect
    <3>3. H \subseteq Rabbit!Range(rStop) \cup Rabbit!Range(rSclose) \cup {rCloseCh}
      BY Zenon, <3>1
    <3>4. rCloseCh' \in Ids
      BY Zenon, <3>2, <3>3, RabbitFreshIsNew DEF RabbitChanTypes
    <3> QED
      BY Zenon, <2>1, <3>2, <3>4 DEF RabbitChanTypes
  <2> QED
    BY Zenon, <2>2, <2>3
<1>4. CASE Rabbit!Close
  BY Zenon, <1>4 DEF Rabbit!Close, RabbitChanTypes
<1>5. ASSUME NEW i \in Rabbit!Loops, Rabbit!LoopStep(i) PROVE RabbitChanTypes'
  <2>1. CASE Rabbit!Reconnect(i)
    BY Zenon, <1>1, <2>1 DEF Rabbit!Reconnect, Rabbit!subVars
  <2>2. CASE Rabbit!Unblock(i)
    BY Zenon, <2>2 DEF Rabbit!Unblock, RabbitChanTypes, Rabbit!subVars
  <2>3. CASE Rabbit!NotifyClose(i) \/ Rabbit!LoopEnds(i)
    <3>1. UNCHANGED <<Rabbit!chanVars, rSclose, rSwait>> /\ \E c \in {0, rCloseCh} : rStop' = [rStop EXCEPT ![i] = c]
      BY Zenon, <2>3 DEF Rabbit!NotifyClose, Rabbit!LoopEnds, Rabbit!subVars
    <3> QED
      BY Zenon, <3>1 DEF RabbitChanTypes, Rabbit!chanVars
  <2>4. CASE Rabbit!Lost(i)
    <3>1. {rWaitCh} \cup Rabbit!Range(rSwait) \subseteq Rabbit!Range(rStop) \cup Rabbit!Range(rSwait) \cup {rWaitCh}
      BY Zenon
    <3>2. /\ rWaitCh' = Rabbit!Fresh({rWaitCh} \cup Rabbit!Range(rSwait)) /\ rStop' = [rStop EXCEPT ![i] = 0]
          /\ rWaitOpen' = (rWaitOpen \cap Rabbit!Range(rSwait)) \cup {rWaitCh'}
          /\ UNCHANGED <<rCloseCh, rCloseOpen, rSclose, rSwait>>
      BY Zenon, <2>4 DEF Rabbit!Lost, Rabbit!subVars
    <3>3. rWaitCh' \in Ids
      BY Zenon, <3>1, <3>2, RabbitFreshIsNew DEF RabbitChanTypes
    <3> QED
      BY Zenon, <3>2, <3>3 DEF RabbitChanTypes
  <2> QED
    BY Zenon, <1>5, <2>1, <2>2, <2>3, <2>4 DEF Rabbit!LoopStep
<1>6. ASSUME NEW s \in Subscribers, Rabbit!Subscribe(s) \/ Rabbit!SubStep(s) \/ Rabbit!Unsubscribe(s) PROVE RabbitChanTypes'
  <2>1. UNCHANGED <<Rabbit!chanVars, rStop>>
    BY Zenon, <1>6 DEF Rabbit!Subscribe, Rabbit!SubStep, Rabbit!Unsubscribe, Rabbit!Check,
       Rabbit!Shutdown, Rabbit!Connected, Rabbit!Recheck, Rabbit!Consume, Rabbit!Store,
       Rabbit!RangeEnds, Rabbit!NotOfSubscribers, Rabbit!loopVars
  <2>2. /\ rSclose' = rSclose \/ \E c \in {0, rCloseCh} : rSclose' = [rSclose EXCEPT ![s] = c]
        /\ rSwait' = rSwait \/ \E c \in {0, rWaitCh} : rSwait' = [rSwait EXCEPT ![s] = c]
    <3>1. CASE Rabbit!Subscribe(s) \/ Rabbit!Unsubscribe(s)
      BY Zenon, <3>1 DEF Rabbit!Subscribe, Rabbit!Unsubscribe
    <3>2. CASE Rabbit!Check(s) \/ Rabbit!Shutdown(s) \/ Rabbit!Connected(s) \/ Rabbit!Recheck(s)
      BY Zenon, <3>2 DEF Rabbit!Check, Rabbit!Shutdown, Rabbit!Connected, Rabbit!Recheck,
         Rabbit!Selected
    <3>3. CASE Rabbit!Consume(s) \/ Rabbit!Store(s) \/ Rabbit!RangeEnds(s)
      BY Zenon, <3>3 DEF Rabbit!Consume, Rabbit!Store, Rabbit!RangeEnds
    <3> QED
      BY Zenon, <1>6, <3>1, <3>2, <3>3 DEF Rabbit!SubStep
  <2>3. rSclose' \in [Subscribers -> Ids \cup {0}]
    <3>1. rSclose \in [Subscribers -> Ids \cup {0}] /\ rCloseCh \in Ids
      BY Zenon DEF RabbitChanTypes
    <3> QED
      BY Zenon, <2>2, <3>1
  <2>4. rSwait' \in [Subscribers -> Ids \cup {0}]
    <3>1. rSwait \in [Subscribers -> Ids \cup {0}] /\ rWaitCh \in Ids
      BY Zenon DEF RabbitChanTypes
    <3> QED
      BY Zenon, <2>2, <3>1
  <2> QED
    BY Zenon, <2>1, <2>3, <2>4 DEF RabbitChanTypes, Rabbit!chanVars
<1> QED
  BY Zenon, <1>2, <1>3, <1>4, <1>5, <1>6 DEF Rabbit!Next

\* Every step keeps the types of the places.
LEMMA RabbitPlaceTypesKept == ASSUME RabbitPlaceTypes, [Rabbit!Next]_(Rabbit!vars) PROVE RabbitPlaceTypes'
<1>1. CASE UNCHANGED <<rCaller, rLoop, rSpc, rRmtx>>
  BY Zenon, <1>1 DEF RabbitPlaceTypes
<1>2. CASE UNCHANGED Rabbit!vars \/ Rabbit!Close \/ \E c \in rOpen : Rabbit!Drop(c)
  BY Zenon, <1>1, <1>2 DEF Rabbit!vars, Rabbit!loopVars, Rabbit!subVars, Rabbit!Close, Rabbit!Drop
<1>3. CASE Rabbit!Connect \/ Rabbit!ConnectTry
  BY Zenon, <1>3 DEF Rabbit!Connect, Rabbit!ConnectTry, Rabbit!tryConnect, RabbitPlaceTypes,
     Rabbit!loopVars, Rabbit!subVars
<1>4. CASE Rabbit!connect
  BY Zenon, <1>4 DEF Rabbit!connect, RabbitPlaceTypes, Rabbit!subVars
<1>5. ASSUME NEW i \in Rabbit!Loops, Rabbit!LoopStep(i) PROVE RabbitPlaceTypes'
  <2>1. UNCHANGED <<rCaller, rSpc, rRmtx>>
    BY Zenon, <1>5 DEF Rabbit!LoopStep, Rabbit!Reconnect, Rabbit!Unblock, Rabbit!NotifyClose,
       Rabbit!Lost, Rabbit!LoopEnds, Rabbit!subVars
  <2>2. rLoop' \in [Rabbit!Loops -> {"off", "try", "mark", "notify", "wait"}]
    BY Zenon, <1>5 DEF Rabbit!LoopStep, Rabbit!Reconnect, Rabbit!tryConnect, Rabbit!Unblock,
       Rabbit!NotifyClose, Rabbit!Lost, Rabbit!LoopEnds, RabbitPlaceTypes
  <2> QED
    BY Zenon, <2>1, <2>2 DEF RabbitPlaceTypes
<1>6. ASSUME NEW s \in Subscribers, Rabbit!Subscribe(s) \/ Rabbit!SubStep(s) \/ Rabbit!Unsubscribe(s) PROVE RabbitPlaceTypes'
  <2>1. UNCHANGED <<rCaller, rLoop>>
    BY Zenon, <1>6 DEF Rabbit!Subscribe, Rabbit!SubStep, Rabbit!Unsubscribe, Rabbit!Check,
       Rabbit!Shutdown, Rabbit!Connected, Rabbit!Recheck, Rabbit!Consume, Rabbit!Store,
       Rabbit!RangeEnds, Rabbit!NotOfSubscribers, Rabbit!loopVars
  <2>2. rRmtx' \in {rRmtx, s, Nobody}
    BY Zenon, <1>6 DEF Rabbit!Subscribe, Rabbit!SubStep, Rabbit!Unsubscribe, Rabbit!Check,
       Rabbit!Shutdown, Rabbit!Connected, Rabbit!Recheck, Rabbit!Consume, Rabbit!Store,
       Rabbit!RangeEnds
  <2>3. \/ rSpc' = rSpc
        \/ \E p \in {"check", "select", "recheck", "consume", "store", "range", "done"} : Rabbit!At(s, p)
    BY Zenon, <1>6 DEF Rabbit!Subscribe, Rabbit!SubStep, Rabbit!Unsubscribe, Rabbit!Check,
       Rabbit!Shutdown, Rabbit!Connected, Rabbit!Recheck, Rabbit!Consume, Rabbit!Store,
       Rabbit!RangeEnds, Rabbit!At
  <2>4. rSpc' \in [Subscribers ->
                    {"none", "check", "select", "recheck", "consume", "store", "range", "done"}]
    BY Zenon, <2>3 DEF Rabbit!At, RabbitPlaceTypes
  <2> QED
    BY Zenon, <2>1, <2>2, <2>4 DEF RabbitPlaceTypes
<1> QED
  BY Zenon, <1>2, <1>3, <1>4, <1>5, <1>6 DEF Rabbit!Next, Rabbit!UserStep

\* While a single reconnect loop runs, every subscriber that waits for a connection waits
\* on the channel the next connection closes, or on one that is closed.
THEOREM Woken ==
  ASSUME Rabbit!IdsAssumption
  PROVE  Rabbit!Spec => []RabbitWakes
<1>1. Rabbit!Init => RabbitIInv
  <2>1. Rabbit!Init => rLoop \in [Rabbit!Loops -> {"off", "try", "mark", "notify", "wait"}] /\ rOverlapped \in BOOLEAN
    BY Zenon DEF Rabbit!Init
  <2>2. Rabbit!Init => DOMAIN rSpc = Subscribers /\ DOMAIN rSwait = Subscribers /\ Rabbit!NoMissedWakeup
    BY Zenon DEF Rabbit!Init, Rabbit!NoMissedWakeup
  <2>3. Rabbit!Init => rWaitOpen = {} /\ rLoop = [i \in Rabbit!Loops |-> "off"]
    BY Zenon DEF Rabbit!Init
  <2>4. Rabbit!Init => rWaitCh \notin rWaitOpen /\ \A i \in Rabbit!Loops : rLoop[i] = "off"
    BY Zenon, <2>3
  <2> QED
    BY Zenon, <2>1, <2>2, <2>4 DEF RabbitIInv
<1>2. RabbitIInv /\ [Rabbit!Next]_(Rabbit!vars) => RabbitIInv'
  <2> SUFFICES ASSUME RabbitIInv, [Rabbit!Next]_(Rabbit!vars) PROVE RabbitIInv'
    BY Zenon
  <2>1. CASE UNCHANGED Rabbit!vars
    BY Zenon, <2>1, RabbitFrame DEF Rabbit!vars, Rabbit!chanVars, Rabbit!loopVars, Rabbit!subVars
  <2>2. CASE Rabbit!Next
    BY Zenon, <2>2, RabbitCallerStep, RabbitLoopKeeps, RabbitSubscriberKeeps DEF Rabbit!Next
  <2> QED
    BY Zenon, <2>1, <2>2
<1>3. Rabbit!Init => RabbitTypes
  <2>1. Rabbit!Init => RabbitConnTypes
    BY Zenon DEF Rabbit!Init, RabbitConnTypes
  <2>2. Rabbit!Init => RabbitChanTypes
    BY Zenon DEF Rabbit!Init, RabbitChanTypes, Rabbit!IdsAssumption
  <2>3. Rabbit!Init => RabbitPlaceTypes
    BY Zenon DEF Rabbit!Init, RabbitPlaceTypes
  <2> QED
    BY Zenon, <2>1, <2>2, <2>3 DEF RabbitTypes
<1>4. RabbitTypes /\ [Rabbit!Next]_(Rabbit!vars) => RabbitTypes'
  BY Zenon, RabbitConnTypesKept, RabbitChanTypesKept, RabbitPlaceTypesKept DEF RabbitTypes
<1>5. RabbitIInv /\ RabbitTypes => Rabbit!TypeOK /\ Rabbit!NoMissedWakeup
  BY Zenon DEF RabbitIInv, RabbitTypes, RabbitConnTypes, RabbitChanTypes, RabbitPlaceTypes,
     Rabbit!TypeOK
<1> QED
  BY <1>1, <1>2, <1>3, <1>4, <1>5, PTL DEF Rabbit!Spec, RabbitWakes

-----------------------------------------------------------------------------
(***************************************************************************)
(* LogRotate.                                                              *)
(***************************************************************************)

\* The file is there while it is open, and a rotation has closed it.
RotateFileInv ==
    /\ lF = "open" => lFiles[0] # Rotate!Absent
    /\ lPc = "roll" => lF = "nil"
    /\ lPc # "roll" => lSeqs = {}
    /\ lPc # "idle" => lEvent # 0

\* The files hold events before the one that is being sent.
RotateEarlierInv == \A n \in Rotate!Names : \A x \in Rotate!Range(Rotate!Lines(n)) : x <= lEvent /\ (lPc # "idle" => x < lEvent)

\* The empty sequence, and one with another element.
LEMMA RotateEmpty == DOMAIN <<>> = {} /\ Rotate!Range(<<>>) = {} /\ Len(<<>>) = 0
<1>1. DOMAIN <<>> = {} /\ Len(<<>>) = 0
  OBVIOUS
<1> QED
  BY <1>1 DEF Rotate!Range

RotateIsAppended(t, s, x) == t = Append(s, x)
\* What Append does to a sequence, its domain and its range.
LEMMA RotateAppended ==
  ASSUME NEW S, NEW s \in Seq(S), NEW x \in S, NEW t, RotateIsAppended(t, s, x)
  PROVE  /\ t \in Seq(S) /\ Len(t) = Len(s) + 1 /\ Len(s) \in Nat
         /\ Rotate!Range(t) = Rotate!Range(s) \cup {x}
         /\ \A i \in DOMAIN t : i \in Nat /\ (i \in DOMAIN s \/ i = Len(s) + 1)
         /\ \A i \in DOMAIN s : i < Len(s) + 1 /\ t[i] = s[i]
         /\ t[Len(s) + 1] = x
<1>1. /\ t \in Seq(S) /\ Len(t) = Len(s) + 1 /\ Len(s) \in Nat
      /\ DOMAIN t = 1 .. Len(s) + 1 /\ DOMAIN s = 1 .. Len(s)
      /\ \A i \in 1 .. Len(s) : t[i] = s[i]
      /\ t[Len(s) + 1] = x
  BY DEF RotateIsAppended
<1>2. \A i \in 1 .. Len(s) + 1 : i \in Nat /\ (i \in 1 .. Len(s) \/ i = Len(s) + 1)
  BY <1>1
<1>3. \A i \in 1 .. Len(s) : i < Len(s) + 1 /\ i \in 1 .. Len(s) + 1
  BY <1>1
<1>4. Len(s) + 1 \in 1 .. Len(s) + 1
  BY <1>1
<1>5. Rotate!Range(t) = Rotate!Range(s) \cup {x}
  BY Zenon, <1>1, <1>2, <1>3, <1>4 DEF Rotate!Range
<1> QED
  BY Zenon, <1>1, <1>2, <1>3, <1>5

\* Files that are emptied, or moved without changing their order, keep the log in order.
LEMMA RotateShifted ==
  ASSUME NEW s \in [Rotate!Names -> Rotate!Names], Rotate!LogInOrder,
         \A n \in Rotate!Names : Rotate!Lines(n)' = <<>> \/ Rotate!Lines(n)' = Rotate!Lines(s[n]),
         \A n, m \in Rotate!Names : m < n => Rotate!Lines(n)' = <<>> \/ Rotate!Lines(m)' = <<>> \/ s[m] < s[n]
  PROVE  /\ Rotate!LogInOrder'
         /\ \A n \in Rotate!Names : \A x \in Rotate!Range(Rotate!Lines(n)') : \E k \in Rotate!Names : x \in Rotate!Range(Rotate!Lines(k))
<1>1. ASSUME NEW n \in Rotate!Names, NEW i \in DOMAIN Rotate!Lines(n)', NEW j \in DOMAIN Rotate!Lines(n)', i < j
      PROVE  Rotate!Lines(n)'[i] < Rotate!Lines(n)'[j]
  BY Zenon, <1>1, RotateEmpty DEF Rotate!LogInOrder
<1>2. ASSUME NEW n \in Rotate!Names, NEW m \in Rotate!Names, m < n,
             NEW x \in Rotate!Range(Rotate!Lines(n)'), NEW y \in Rotate!Range(Rotate!Lines(m)')
      PROVE  x < y
  <2>1. Rotate!Lines(n)' = Rotate!Lines(s[n]) /\ Rotate!Lines(m)' = Rotate!Lines(s[m]) /\ s[m] < s[n]
    BY Zenon, <1>2, RotateEmpty
  <2>2. s[n] \in Rotate!Names /\ s[m] \in Rotate!Names /\ x \in Rotate!Range(Rotate!Lines(s[n])) /\ y \in Rotate!Range(Rotate!Lines(s[m]))
    BY Zenon, <1>2, <2>1
  <2> QED
    BY Zenon, <2>1, <2>2 DEF Rotate!LogInOrder
<1>3. Rotate!LogInOrder'
  BY Zenon, <1>1, <1>2 DEF Rotate!LogInOrder
<1> QED
  BY Zenon, <1>3, RotateEmpty

\* The files of the log stay, or are created empty.
LEMMA RotateFilesStay ==
  ASSUME Rotate!TypeOK, Rotate!LogInOrder, \A n \in Rotate!Names : Rotate!Lines(n)' = <<>> \/ Rotate!Lines(n)' = Rotate!Lines(n)
  PROVE  /\ Rotate!LogInOrder'
         /\ \A n \in Rotate!Names : \A x \in Rotate!Range(Rotate!Lines(n)') : \E k \in Rotate!Names : x \in Rotate!Range(Rotate!Lines(k))
<1>1. PICK s \in [Rotate!Names -> Rotate!Names] : \A n \in Rotate!Names : s[n] = n
  <2>1. [n \in Rotate!Names |-> n] \in [Rotate!Names -> Rotate!Names] /\ \A n \in Rotate!Names : [k \in Rotate!Names |-> k][n] = n
    BY Zenon
  <2> QED
    BY Zenon, <2>1
<1> QED
  BY Zenon, <1>1, RotateShifted

\* Which file a rename moves where.
LEMMA RotateMovedLines ==
  ASSUME Rotate!FilesAssumption, Rotate!TypeOK, NEW n \in Rotate!Names, lFiles' = Rotate!Moved(n)
  PROVE  /\ lFiles' \in [Rotate!Names -> Seq(1 .. MaxEvents) \cup {Rotate!Absent}]
         /\ lFiles'[n] = Rotate!Absent
         /\ \A k \in Rotate!Names : k # n /\ k # n + 1 => lFiles'[k] = lFiles[k]
         /\ n + 1 \in Rotate!Names => lFiles'[n + 1] = lFiles[n]
<1>1. n \in Nat /\ n + 1 # n /\ (n + 1 >= FileMaxNum => n + 1 \notin Rotate!Names)
      /\ (~(n + 1 >= FileMaxNum) => n + 1 \in Rotate!Names)
  BY DEF Rotate!FilesAssumption, Rotate!Names
<1>2. CASE n + 1 >= FileMaxNum
  BY Zenon, <1>1, <1>2 DEF Rotate!Moved, Rotate!TypeOK
<1>3. CASE ~(n + 1 >= FileMaxNum)
  BY <1>1, <1>3 DEF Rotate!Moved, Rotate!TypeOK
<1> QED
  BY Zenon, <1>2, <1>3

\* A rename keeps the order, whichever files there are.
LEMMA RotateMovedInOrder ==
  ASSUME Rotate!FilesAssumption, Rotate!TypeOK, Rotate!LogInOrder, NEW n \in Rotate!Names, lFiles' = Rotate!Moved(n)
  PROVE  /\ Rotate!LogInOrder'
         /\ \A m \in Rotate!Names : \A x \in Rotate!Range(Rotate!Lines(m)') : \E k \in Rotate!Names : x \in Rotate!Range(Rotate!Lines(k))
<1>1. PICK s \in [Rotate!Names -> Rotate!Names] : \A m \in Rotate!Names : s[m] = IF m = n + 1 THEN n ELSE m
  <2>1. [m \in Rotate!Names |-> IF m = n + 1 THEN n ELSE m] \in [Rotate!Names -> Rotate!Names]
    BY Zenon
  <2> QED
    BY Zenon, <2>1
<1>2. \A m \in Rotate!Names : Rotate!Lines(m)' = <<>> \/ Rotate!Lines(m)' = Rotate!Lines(s[m])
  <2>1. Rotate!Lines(n)' = <<>>
    BY Zenon, RotateMovedLines DEF Rotate!Lines
  <2>2. \A m \in Rotate!Names : m # n /\ m # n + 1 => Rotate!Lines(m)' = Rotate!Lines(m) /\ s[m] = m
    <3>1. \A m \in Rotate!Names : m # n /\ m # n + 1 => lFiles'[m] = lFiles[m]
      BY Zenon, RotateMovedLines
    <3> QED
      BY Zenon, <1>1, <3>1 DEF Rotate!Lines
  <2>3. n + 1 \in Rotate!Names => Rotate!Lines(n + 1)' = Rotate!Lines(n) /\ s[n + 1] = n
    BY Zenon, <1>1, RotateMovedLines DEF Rotate!Lines
  <2> QED
    BY Zenon, <2>1, <2>2, <2>3
<1>3. \A k, m \in Rotate!Names : m < k => Rotate!Lines(k)' = <<>> \/ Rotate!Lines(m)' = <<>> \/ s[m] < s[k]
  <2>1. Rotate!Lines(n)' = <<>>
    BY Zenon, RotateMovedLines DEF Rotate!Lines
  <2>2. \A k, m \in Rotate!Names : m < k /\ k # n /\ m # n =>
          (IF m = n + 1 THEN n ELSE m) < (IF k = n + 1 THEN n ELSE k)
    <3>1. Rotate!Names \subseteq Int
      BY DEF Rotate!Names
    <3>2. \A h, k, m \in Int : m < k /\ k # h /\ m # h =>
            (IF m = h + 1 THEN h ELSE m) < (IF k = h + 1 THEN h ELSE k)
      OBVIOUS
    <3> QED
      BY Zenon, <3>1, <3>2
  <2> QED
    BY Zenon, <1>1, <2>1, <2>2
<1> QED
  BY Zenon, <1>1, <1>2, <1>3, RotateShifted

\* No file of events is taken for a missing one.
LEMMA RotateNotAbsent == ASSUME Rotate!FilesAssumption, NEW s \in Seq(1 .. MaxEvents) PROVE s # Rotate!Absent
<1>1. s = <<0>> => 1 \in DOMAIN s /\ s[1] = 0
  OBVIOUS
<1>2. \A i \in DOMAIN s : s[i] \in 1 .. MaxEvents /\ s[i] # 0
  BY DEF Rotate!FilesAssumption
<1> QED
  BY Zenon, <1>1, <1>2 DEF Rotate!Absent

\* The event written is later than those in the files.
LEMMA RotateWriteInOrder ==
  ASSUME Rotate!FilesAssumption, Rotate!TypeOK, RotateFileInv, RotateEarlierInv, Rotate!LogInOrder, Rotate!Write
  PROVE  Rotate!LogInOrder' /\ RotateEarlierInv'
<1>0. lPc = "write" /\ lPc' = "idle" /\ lEvent' = lEvent /\ lEvent \in 1 .. MaxEvents /\ 0 \in Rotate!Names
      /\ lEvent \in Nat
  BY DEF Rotate!Write, Rotate!TypeOK, Rotate!Names, Rotate!FilesAssumption, RotateFileInv
<1>1. CASE lF # "open"
  <2>1. UNCHANGED lFiles
    BY Zenon, <1>1 DEF Rotate!Write
  <2> QED
    BY Zenon, <1>0, <2>1 DEF Rotate!LogInOrder, RotateEarlierInv, Rotate!Lines
<1>2. CASE lF = "open"
  <2>1. lFiles' = [lFiles EXCEPT ![0] = Append(lFiles[0], lEvent)] /\ lFiles[0] # Rotate!Absent
        /\ lFiles \in [Rotate!Names -> Seq(1 .. MaxEvents) \cup {Rotate!Absent}]
    BY Zenon, <1>2 DEF Rotate!Write, RotateFileInv, Rotate!TypeOK
  <2>2. PICK s \in Seq(1 .. MaxEvents) : s = lFiles[0] /\ s = Rotate!Lines(0)
    BY Zenon, <1>0, <2>1 DEF Rotate!Lines
  <2>3. \A x \in Rotate!Range(s) : x < lEvent
    BY Zenon, <1>0, <2>2 DEF RotateEarlierInv
  <2>4. s \in Seq(1 .. MaxEvents) /\ lEvent \in 1 .. MaxEvents
    BY Zenon, <1>0, <2>2
  <2>5. PICK t : t = Append(s, lEvent)
    BY Zenon
  <2>6. /\ t \in Seq(1 .. MaxEvents) /\ Rotate!Range(t) = Rotate!Range(s) \cup {lEvent} /\ Len(s) \in Nat
        /\ \A i \in DOMAIN t : i \in Nat /\ (i \in DOMAIN s \/ i = Len(s) + 1)
        /\ \A i \in DOMAIN s : i < Len(s) + 1 /\ t[i] = s[i]
        /\ t[Len(s) + 1] = lEvent
    <3>1. PICK S, x : S = 1 .. MaxEvents /\ x = lEvent
      BY Zenon
    <3>2. s \in Seq(S) /\ x \in S /\ RotateIsAppended(t, s, x)
      BY Zenon, <2>4, <2>5, <3>1 DEF RotateIsAppended
    <3>3. t \in Seq(S) /\ Rotate!Range(t) = Rotate!Range(s) \cup {x} /\ Len(s) \in Nat
      BY <3>2, RotateAppended
    <3>4. \A i \in DOMAIN t : i \in Nat /\ (i \in DOMAIN s \/ i = Len(s) + 1)
      BY <3>2, RotateAppended
    <3>5. \A i \in DOMAIN s : i < Len(s) + 1 /\ t[i] = s[i]
      BY <3>2, RotateAppended
    <3>6. t[Len(s) + 1] = x
      BY <3>2, RotateAppended
    <3> QED
      BY Zenon, <3>1, <3>3, <3>4, <3>5, <3>6
  <2>7. Rotate!Lines(0)' = t
    <3>1. lFiles'[0] = t
      BY Zenon, <1>0, <2>1, <2>2, <2>5
    <3>2. t # Rotate!Absent
      BY Zenon, <2>5, <2>6, RotateNotAbsent
    <3> QED
      BY Zenon, <3>1, <3>2 DEF Rotate!Lines
  <2>8. \A n \in Rotate!Names : n # 0 => Rotate!Lines(n)' = Rotate!Lines(n)
    BY Zenon, <2>1 DEF Rotate!Lines
  <2>9. ASSUME NEW n \in Rotate!Names
        PROVE  /\ \A x \in Rotate!Range(Rotate!Lines(n)') : x <= lEvent /\ (n # 0 => x < lEvent)
               /\ \A m \in Rotate!Names : m < n => \A x \in Rotate!Range(Rotate!Lines(n)'), y \in Rotate!Range(Rotate!Lines(m)') : x < y
    <3>1. n # 0 => Rotate!Lines(n)' = Rotate!Lines(n) /\ \A x \in Rotate!Range(Rotate!Lines(n)) : x < lEvent
      BY Zenon, <1>0, <2>8 DEF RotateEarlierInv
    <3>2. \A x \in Rotate!Range(Rotate!Lines(n)') : x <= lEvent /\ (n # 0 => x < lEvent)
      <4>1. \A x \in Rotate!Range(Rotate!Lines(n)) : x <= lEvent
        BY Zenon DEF RotateEarlierInv
      <4>2. lEvent <= lEvent
        BY <1>0
      <4> QED
        BY Zenon, <2>2, <2>5, <2>6, <2>7, <3>1, <4>1, <4>2
    <3>3. ASSUME NEW m \in Rotate!Names, m < n PROVE \A x \in Rotate!Range(Rotate!Lines(n)'), y \in Rotate!Range(Rotate!Lines(m)') : x < y
      <4>1. n # 0
        BY <3>3 DEF Rotate!Names, Rotate!FilesAssumption
      <4>2. m # 0 => Rotate!Lines(m)' = Rotate!Lines(m)
        BY Zenon, <2>8
      <4>3. m = 0 => Rotate!Range(Rotate!Lines(m)') = Rotate!Range(Rotate!Lines(m)) \cup {lEvent}
        BY Zenon, <2>2, <2>5, <2>6, <2>7
      <4> QED
        BY Zenon, <3>1, <3>3, <4>1, <4>2, <4>3 DEF Rotate!LogInOrder
    <3> QED
      BY Zenon, <3>2, <3>3
  <2>10. ASSUME NEW n \in Rotate!Names, NEW i \in DOMAIN Rotate!Lines(n)', NEW j \in DOMAIN Rotate!Lines(n)', i < j
         PROVE  Rotate!Lines(n)'[i] < Rotate!Lines(n)'[j]
    <3>1. CASE n # 0
      BY Zenon, <2>8, <2>10, <3>1 DEF Rotate!LogInOrder
    <3>2. CASE n = 0 /\ j \in DOMAIN s
      <4>1. i \in DOMAIN s
        BY <2>5, <2>6, <2>7, <2>10, <3>2
      <4> QED
        BY Zenon, <2>2, <2>5, <2>6, <2>7, <2>10, <3>2, <4>1 DEF Rotate!LogInOrder
    <3>3. CASE n = 0 /\ j = Len(s) + 1
      <4>1. i \in DOMAIN s
        BY <2>5, <2>6, <2>7, <2>10, <3>3
      <4>2. s[i] \in Rotate!Range(s)
        BY Zenon, <4>1 DEF Rotate!Range
      <4> QED
        BY Zenon, <2>3, <2>5, <2>6, <2>7, <3>3, <4>1, <4>2
    <3> QED
      BY Zenon, <2>5, <2>6, <2>7, <2>10, <3>1, <3>2, <3>3
  <2> QED
    BY Zenon, <1>0, <2>9, <2>10 DEF Rotate!LogInOrder, RotateEarlierInv
<1> QED
  BY Zenon, <1>1, <1>2

----------------------------------------------------------------------------
\* A missing file that is created, or is there, or is removed.
LEMMA RotateCreated ==
  ASSUME Rotate!TypeOK, lFiles' = [lFiles EXCEPT ![0] = IF @ = Rotate!Absent THEN <<>> ELSE @]
  PROVE  \A n \in Rotate!Names : Rotate!Lines(n)' = Rotate!Lines(n)
  BY Zenon DEF Rotate!TypeOK, Rotate!Lines

\* Every step keeps the types.
LEMMA RotateTypeStep == ASSUME Rotate!FilesAssumption, Rotate!TypeOK, RotateFileInv, [Rotate!Next]_(Rotate!vars) PROVE Rotate!TypeOK'
<1>0. 0 \in Rotate!Names /\ <<>> \in Seq(1 .. MaxEvents) /\ lEvent \in Nat /\ MaxEvents \in Nat
  BY DEF Rotate!FilesAssumption, Rotate!Names, Rotate!TypeOK
<1>1. lF' \in {"open", "nil", "unlinked", "dead"} /\ lPc' \in {"idle", "roll", "write"}
  BY Zenon DEF Rotate!TypeOK, Rotate!Next, Rotate!vars, Rotate!Send, Rotate!RollFails,
     Rotate!SendNoFile, Rotate!rollRunOnce, Rotate!MoveFails, Rotate!openNew, Rotate!openNewFails,
     Rotate!Write, Rotate!Close, Rotate!RemoveFile, Rotate!Crash, Rotate!NewOutput
<1>2. lSeqs' \subseteq Rotate!Names
  BY Zenon DEF Rotate!TypeOK, Rotate!Next, Rotate!vars, Rotate!Send, Rotate!RollFails,
     Rotate!SendNoFile, Rotate!rollRunOnce, Rotate!MoveFails, Rotate!openNew, Rotate!openNewFails,
     Rotate!Write, Rotate!Close, Rotate!RemoveFile, Rotate!Crash, Rotate!NewOutput,
     Rotate!oldLogFiles
<1>3. lEvent' \in 0 .. MaxEvents
  <2>1. UNCHANGED lEvent \/ (lEvent < MaxEvents /\ lEvent' = lEvent + 1)
    BY Zenon DEF Rotate!Next, Rotate!vars, Rotate!Send, Rotate!RollFails, Rotate!SendNoFile,
       Rotate!rollRunOnce, Rotate!MoveFails, Rotate!openNew, Rotate!openNewFails, Rotate!Write,
       Rotate!Close, Rotate!RemoveFile, Rotate!Crash, Rotate!NewOutput
  <2> QED
    BY <1>0, <2>1 DEF Rotate!TypeOK
<1>4. CASE Rotate!Write /\ lF = "open"
  <2>1. lEvent \in 1 .. MaxEvents
    BY <1>0, <1>4 DEF Rotate!Write, RotateFileInv, Rotate!TypeOK
  <2>2. lFiles[0] \in Seq(1 .. MaxEvents) /\ lWritten \in Seq(1 .. MaxEvents)
    BY Zenon, <1>0, <1>4 DEF RotateFileInv, Rotate!TypeOK
  <2>3. Append(lFiles[0], lEvent) \in Seq(1 .. MaxEvents) /\ Append(lWritten, lEvent) \in Seq(1 .. MaxEvents)
    BY <2>1, <2>2
  <2>4. lFiles' = [lFiles EXCEPT ![0] = Append(lFiles[0], lEvent)] /\ lWritten' = Append(lWritten, lEvent)
    BY Zenon, <1>4 DEF Rotate!Write
  <2>5. lFiles' \in [Rotate!Names -> Seq(1 .. MaxEvents) \cup {Rotate!Absent}]
    BY Zenon, <2>3, <2>4 DEF Rotate!TypeOK
  <2> QED
    BY Zenon, <1>1, <1>2, <1>3, <2>3, <2>4, <2>5 DEF Rotate!TypeOK
<1>5. CASE ~(Rotate!Write /\ lF = "open")
  <2>1. UNCHANGED lWritten
    BY Zenon, <1>5 DEF Rotate!Next, Rotate!vars, Rotate!Send, Rotate!RollFails, Rotate!SendNoFile,
       Rotate!rollRunOnce, Rotate!MoveFails, Rotate!openNew, Rotate!openNewFails, Rotate!Write,
       Rotate!Close, Rotate!RemoveFile, Rotate!Crash, Rotate!NewOutput
  <2>2. \/ UNCHANGED lFiles \/ \E n \in Rotate!Names : lFiles' = Rotate!Moved(n)
        \/ \E x \in {<<>>, Rotate!Absent} : lFiles' = [lFiles EXCEPT ![0] = x]
        \/ lFiles' = [lFiles EXCEPT ![0] = IF @ = Rotate!Absent THEN <<>> ELSE @]
    BY Zenon, <1>5 DEF Rotate!TypeOK, Rotate!Next, Rotate!vars, Rotate!Send, Rotate!RollFails,
       Rotate!SendNoFile, Rotate!rollRunOnce, Rotate!MoveFails, Rotate!openNew, Rotate!openNewFails,
       Rotate!Write, Rotate!Close, Rotate!RemoveFile, Rotate!Crash, Rotate!NewOutput
  <2>3. lFiles' \in [Rotate!Names -> Seq(1 .. MaxEvents) \cup {Rotate!Absent}]
    BY Zenon, <1>0, <2>2, RotateMovedLines DEF Rotate!TypeOK
  <2> QED
    BY Zenon, <1>1, <1>2, <1>3, <2>1, <2>3 DEF Rotate!TypeOK
<1> QED
  BY Zenon, <1>4, <1>5

\* Every step keeps what is known of the open file and of the rotation's state.
LEMMA RotateFileStep == ASSUME Rotate!FilesAssumption, Rotate!TypeOK, RotateFileInv, [Rotate!Next]_(Rotate!vars) PROVE RotateFileInv'
<1>0. 0 \in Rotate!Names /\ 0 \in DOMAIN lFiles /\ lEvent \in Nat /\ <<>> # Rotate!Absent
  BY DEF Rotate!FilesAssumption, Rotate!Names, Rotate!TypeOK, Rotate!Absent
<1>1. lPc' # "idle" => lEvent' # 0
  <2>1. \/ UNCHANGED lEvent /\ (lPc' # "idle" => lPc # "idle")
        \/ lEvent' = lEvent + 1
    BY Zenon DEF Rotate!Next, Rotate!vars, Rotate!Send, Rotate!RollFails, Rotate!SendNoFile,
       Rotate!rollRunOnce, Rotate!MoveFails, Rotate!openNew, Rotate!openNewFails, Rotate!Write,
       Rotate!Close, Rotate!RemoveFile, Rotate!Crash, Rotate!NewOutput
  <2>2. lEvent + 1 # 0
    BY <1>0
  <2> QED
    BY Zenon, <2>1, <2>2 DEF RotateFileInv
<1>2. (lPc' = "roll" => lF' = "nil") /\ (lPc' # "roll" => lSeqs' = {})
  BY Zenon DEF RotateFileInv, Rotate!Next, Rotate!vars, Rotate!Send, Rotate!RollFails,
     Rotate!SendNoFile, Rotate!rollRunOnce, Rotate!MoveFails, Rotate!openNew, Rotate!openNewFails,
     Rotate!Write, Rotate!Close, Rotate!RemoveFile, Rotate!Crash, Rotate!NewOutput
<1>3. lF' = "open" => lFiles'[0] # Rotate!Absent
  <2>1. CASE Rotate!Write
    <3>1. CASE lF = "open"
      <4>1. lFiles[0] \in Seq(1 .. MaxEvents) /\ lEvent \in 1 .. MaxEvents
        BY <1>0, <2>1, <3>1 DEF RotateFileInv, Rotate!TypeOK, Rotate!Write
      <4>2. Append(lFiles[0], lEvent) \in Seq(1 .. MaxEvents)
        BY <4>1
      <4>3. lFiles'[0] = Append(lFiles[0], lEvent)
        BY Zenon, <1>0, <2>1, <3>1 DEF Rotate!Write
      <4> QED
        BY Zenon, <4>2, <4>3, RotateNotAbsent
    <3> QED
      BY Zenon, <2>1, <3>1 DEF Rotate!Write
  <2>2. CASE ~Rotate!Write
    BY Zenon, <1>0, <2>2 DEF RotateFileInv, Rotate!Next, Rotate!vars, Rotate!Send, Rotate!RollFails,
       Rotate!SendNoFile, Rotate!rollRunOnce, Rotate!MoveFails, Rotate!openNew, Rotate!openNewFails,
       Rotate!Close, Rotate!RemoveFile, Rotate!Crash, Rotate!NewOutput, Rotate!Full
  <2> QED
    BY Zenon, <2>1, <2>2
<1> QED
  BY Zenon, <1>1, <1>2, <1>3 DEF RotateFileInv

\* Every step keeps the order.
LEMMA RotateOrderStep ==
  ASSUME Rotate!FilesAssumption, Rotate!TypeOK, RotateFileInv, RotateEarlierInv, Rotate!LogInOrder, [Rotate!Next]_(Rotate!vars)
  PROVE  Rotate!LogInOrder' /\ RotateEarlierInv'
<1>0. lEvent \in Nat /\ 0 \in Rotate!Names /\ \A n \in Rotate!Names : \A x \in Rotate!Range(Rotate!Lines(n)) : x \in Nat
  <2>1. \A n \in Rotate!Names : Rotate!Lines(n) \in Seq(1 .. MaxEvents)
    <3>1. <<>> \in Seq(1 .. MaxEvents)
      OBVIOUS
    <3> QED
      BY Zenon, <3>1 DEF Rotate!TypeOK, Rotate!Lines
  <2>2. \A t \in Seq(1 .. MaxEvents) : \A x \in Rotate!Range(t) : x \in Nat
    <3>1. \A t \in Seq(1 .. MaxEvents) : \A i \in DOMAIN t : t[i] \in Nat
      BY DEF Rotate!FilesAssumption
    <3> QED
      BY Zenon, <3>1 DEF Rotate!Range
  <2>3. lEvent \in Nat /\ 0 \in Rotate!Names
    BY DEF Rotate!FilesAssumption, Rotate!TypeOK, Rotate!Names
  <2> QED
    BY Zenon, <2>1, <2>2, <2>3
<1>1. CASE Rotate!Write
  BY Zenon, <1>1, RotateWriteInOrder
<1>2. CASE ~Rotate!Write
  <2>1. \/ \A n \in Rotate!Names : Rotate!Lines(n)' = <<>> \/ Rotate!Lines(n)' = Rotate!Lines(n)
        \/ \E n \in Rotate!Names : lFiles' = Rotate!Moved(n)
    <3>1. UNCHANGED lFiles => \A n \in Rotate!Names : Rotate!Lines(n)' = Rotate!Lines(n)
      BY Zenon DEF Rotate!Lines
    <3>2. ASSUME NEW x \in {<<>>, Rotate!Absent}, lFiles' = [lFiles EXCEPT ![0] = x]
          PROVE  \A n \in Rotate!Names : Rotate!Lines(n)' = <<>> \/ Rotate!Lines(n)' = Rotate!Lines(n)
      BY Zenon, <3>2 DEF Rotate!TypeOK, Rotate!Lines
    <3>3. \/ UNCHANGED lFiles \/ \E n \in Rotate!Names : lFiles' = Rotate!Moved(n)
          \/ \E x \in {<<>>, Rotate!Absent} : lFiles' = [lFiles EXCEPT ![0] = x]
          \/ lFiles' = [lFiles EXCEPT ![0] = IF @ = Rotate!Absent THEN <<>> ELSE @]
      BY Zenon, <1>2 DEF Rotate!TypeOK, Rotate!Next, Rotate!vars, Rotate!Send, Rotate!RollFails,
         Rotate!SendNoFile, Rotate!rollRunOnce, Rotate!MoveFails, Rotate!openNew,
         Rotate!openNewFails, Rotate!Close, Rotate!RemoveFile, Rotate!Crash, Rotate!NewOutput
    <3> QED
      BY Zenon, <3>1, <3>2, <3>3, RotateCreated
  <2>2. /\ Rotate!LogInOrder'
        /\ \A n \in Rotate!Names : \A x \in Rotate!Range(Rotate!Lines(n)') : \E k \in Rotate!Names : x \in Rotate!Range(Rotate!Lines(k))
    BY Zenon, <2>1, RotateFilesStay, RotateMovedInOrder
  <2>3. (UNCHANGED lEvent /\ (lPc' # "idle" => lPc # "idle")) \/ lEvent' = lEvent + 1
    BY Zenon, <1>2 DEF Rotate!Next, Rotate!vars, Rotate!Send, Rotate!RollFails, Rotate!SendNoFile,
       Rotate!rollRunOnce, Rotate!MoveFails, Rotate!openNew, Rotate!openNewFails, Rotate!Close,
       Rotate!RemoveFile, Rotate!Crash, Rotate!NewOutput
  <2>4. \A x \in Nat : x <= lEvent => x <= lEvent + 1 /\ x < lEvent + 1
    BY <1>0
  <2>5. RotateEarlierInv'
    BY Zenon, <1>0, <2>2, <2>3, <2>4 DEF RotateEarlierInv
  <2> QED
    BY Zenon, <2>2, <2>5
<1> QED
  BY Zenon, <1>1, <1>2

----------------------------------------------------------------------------
\* What a rotation that nothing stops will have made of the files.
RotateView(n) == IF lPc = "roll" /\ n # 0 /\ n - 1 \in lSeqs THEN lFiles[n - 1] ELSE lFiles[n]

\* Between rotations the current file is there and within its size.
RotateCurrentInv ==
    lPc # "roll" =>
         /\ lFiles[0] # Rotate!Absent /\ Len(lFiles[0]) <= FileSize
         /\ lPc = "write" => Len(lFiles[0]) < FileSize

\* A rotation finds full files only and has still to move the lowest of them.
RotateRollInv ==
    lPc = "roll" =>
         /\ \A n \in Rotate!Names : lFiles[n] # Rotate!Absent => Len(lFiles[n]) = FileSize
         /\ \A n \in lSeqs : lFiles[n] # Rotate!Absent /\ \A m \in Rotate!Names : m < n => m \in lSeqs
         /\ 0 \notin lSeqs => lFiles[0] = Rotate!Absent

\* The older files are full, and no number is left out.
RotateStackInv ==
    \A n \in Rotate!Names \ {0} : RotateView(n) # Rotate!Absent =>
        Len(RotateView(n)) = FileSize /\ \A m \in Rotate!Names \ {0} : m < n => RotateView(m) # Rotate!Absent

\* An event is in a file, or there is no room for it.
RotateFound(e) == \E n \in Rotate!Names : (lPc = "roll" => n # 0) /\ RotateView(n) # Rotate!Absent /\ e \in Rotate!Range(RotateView(n))
RotateCrowded(e) == \A n \in Rotate!Names \ {0} : RotateView(n) # Rotate!Absent /\ \A x \in Rotate!Range(RotateView(n)) : e < x
RotateKeptInv == \A e \in Rotate!Range(lWritten) : RotateFound(e) \/ RotateCrowded(e)

RotateSoundInv == ~lBroken => RotateCurrentInv /\ RotateRollInv /\ RotateStackInv /\ RotateKeptInv

\* Nothing changes while no rotation is on.
LEMMA RotateUnmoved ==
  ASSUME RotateSoundInv, ~lBroken, lPc # "roll", lPc' # "roll", UNCHANGED <<lFiles, lWritten>>,
         lPc' = "write" => lPc = "write" \/ Len(lFiles[0]) < FileSize
  PROVE  RotateSoundInv'
<1>1. \A n : RotateView(n) = lFiles[n] /\ RotateView(n)' = lFiles[n]
  BY Zenon DEF RotateView
<1>2. RotateCurrentInv' /\ RotateRollInv'
  BY Zenon DEF RotateSoundInv, RotateCurrentInv, RotateRollInv
<1>3. RotateStackInv'
  BY Zenon, <1>1 DEF RotateSoundInv, RotateStackInv
<1>4. \A e : (RotateFound(e) => RotateFound(e)') /\ (RotateCrowded(e) => RotateCrowded(e)')
  BY Zenon, <1>1 DEF RotateFound, RotateCrowded
<1>5. RotateKeptInv'
  BY Zenon, <1>4 DEF RotateSoundInv, RotateKeptInv
<1> QED
  BY Zenon, <1>2, <1>3, <1>5 DEF RotateSoundInv

\* A rotation begins: the files will be one further.
LEMMA RotateRollBegins ==
  ASSUME Rotate!FilesAssumption, Rotate!TypeOK, RotateFileInv, Rotate!LogInOrder, RotateSoundInv, ~lBroken, lPc = "idle", Rotate!Full,
         lPc' = "roll", lSeqs' = Rotate!oldLogFiles, UNCHANGED <<lFiles, lWritten>>
  PROVE  RotateSoundInv'
<1>0. /\ \A n \in Rotate!Names \ {0} : n \in Nat /\ n - 1 \in Rotate!Names /\ n - 1 < n /\ n - 1 + 1 = n
      /\ 0 \in Rotate!Names /\ \A n \in Rotate!Names : ~(n < 0) /\ (n + 1 \in Rotate!Names => n + 1 # 0 /\ n + 1 - 1 = n)
      /\ \A n, m \in Rotate!Names \ {0} : m < n => m - 1 < n - 1
      /\ \A n, m \in Rotate!Names : n + 1 \notin Rotate!Names /\ m # 0 => m - 1 < n
  BY DEF Rotate!FilesAssumption, Rotate!Names
<1>1. \A n : RotateView(n) = lFiles[n]
  BY Zenon DEF RotateView
<1>2. lFiles[0] # Rotate!Absent /\ Len(lFiles[0]) = FileSize
  <2>1. lFiles[0] # Rotate!Absent /\ Len(lFiles[0]) <= FileSize /\ Len(lFiles[0]) >= FileSize
    BY Zenon DEF RotateSoundInv, RotateCurrentInv, Rotate!Full
  <2>2. lFiles[0] \in Seq(1 .. MaxEvents)
    BY Zenon, <1>0, <2>1 DEF Rotate!TypeOK
  <2>3. Len(lFiles[0]) \in Nat /\ FileSize \in Nat
    BY <2>2 DEF Rotate!FilesAssumption
  <2> QED
    BY <2>1, <2>3
<1>3. \A n \in Rotate!Names : lFiles[n] # Rotate!Absent =>
        Len(lFiles[n]) = FileSize /\ \A m \in Rotate!Names : m < n => lFiles[m] # Rotate!Absent
  <2>1. \A n \in Rotate!Names \ {0} : lFiles[n] # Rotate!Absent =>
          Len(lFiles[n]) = FileSize /\ \A m \in Rotate!Names \ {0} : m < n => lFiles[m] # Rotate!Absent
    BY Zenon, <1>1 DEF RotateSoundInv, RotateStackInv
  <2> SUFFICES ASSUME NEW n \in Rotate!Names, lFiles[n] # Rotate!Absent
               PROVE  Len(lFiles[n]) = FileSize /\ \A m \in Rotate!Names : m < n => lFiles[m] # Rotate!Absent
    BY Zenon
  <2>2. CASE n = 0
    <3>1. \A m \in Rotate!Names : ~(m < 0)
      BY DEF Rotate!Names
    <3> QED
      BY Zenon, <1>2, <2>2, <3>1
  <2>3. CASE n # 0
    BY Zenon, <1>2, <2>1, <2>3
  <2> QED
    BY Zenon, <2>2, <2>3
<1>4. \A n \in Rotate!Names \ {0} : RotateView(n)' = lFiles[n - 1]
  <2>1. \A n \in Rotate!Names \ {0} : n - 1 \in lSeqs' <=> lFiles[n - 1] # Rotate!Absent
    BY Zenon, <1>0 DEF Rotate!oldLogFiles
  <2>2. \A n \in Rotate!Names \ {0} : lFiles[n - 1] = Rotate!Absent => lFiles[n] = Rotate!Absent
    BY Zenon, <1>0, <1>3
  <2>3. \A n \in Rotate!Names \ {0} : RotateView(n)' = IF n - 1 \in lSeqs' THEN lFiles[n - 1] ELSE lFiles[n]
    BY Zenon DEF RotateView
  <2> QED
    BY Zenon, <2>1, <2>2, <2>3
<1>5. RotateCurrentInv'
  BY Zenon DEF RotateCurrentInv
<1>6. RotateRollInv'
  BY Zenon, <1>0, <1>2, <1>3 DEF RotateRollInv, Rotate!oldLogFiles
<1>7. RotateStackInv'
  <2>1. ASSUME NEW n \in Rotate!Names \ {0}, RotateView(n)' # Rotate!Absent
        PROVE  Len(RotateView(n)') = FileSize /\ \A m \in Rotate!Names \ {0} : m < n => RotateView(m)' # Rotate!Absent
    <3>1. n - 1 \in Rotate!Names /\ RotateView(n)' = lFiles[n - 1] /\ lFiles[n - 1] # Rotate!Absent
      BY Zenon, <1>0, <1>4, <2>1
    <3>2. ASSUME NEW m \in Rotate!Names \ {0}, m < n
          PROVE  RotateView(m)' # Rotate!Absent
      <4>1. m - 1 \in Rotate!Names /\ m - 1 < n - 1 /\ RotateView(m)' = lFiles[m - 1]
        BY Zenon, <1>0, <1>4, <3>2
      <4> QED
        BY Zenon, <1>3, <3>1, <4>1
    <3> QED
      BY Zenon, <1>3, <3>1, <3>2
  <2> QED
    BY Zenon, <2>1 DEF RotateStackInv
<1>8. ASSUME NEW e, RotateFound(e)
      PROVE  RotateFound(e)' \/ RotateCrowded(e)'
  <2>1. PICK n \in Rotate!Names : lFiles[n] # Rotate!Absent /\ e \in Rotate!Range(lFiles[n])
    BY Zenon, <1>1, <1>8 DEF RotateFound
  <2>2. CASE n + 1 \in Rotate!Names
    <3>1. PICK k \in Rotate!Names \ {0} : k - 1 = n
      <4>1. n + 1 \in Rotate!Names \ {0} /\ (n + 1) - 1 = n
        BY <2>2 DEF Rotate!FilesAssumption, Rotate!Names
      <4> QED
        BY <4>1
    <3>2. RotateView(k)' = lFiles[n]
      BY Zenon, <1>4, <3>1
    <3> QED
      BY Zenon, <2>1, <3>1, <3>2 DEF RotateFound
  <2>3. CASE n + 1 \notin Rotate!Names
    <3>1. ASSUME NEW k \in Rotate!Names \ {0}
          PROVE  RotateView(k)' # Rotate!Absent /\ \A x \in Rotate!Range(RotateView(k)') : e < x
      <4>1. k - 1 \in Rotate!Names /\ k - 1 < n
        BY Zenon, <1>0, <2>3
      <4>2. lFiles[k - 1] # Rotate!Absent /\ RotateView(k)' = lFiles[k - 1]
        BY Zenon, <1>3, <1>4, <2>1, <4>1
      <4>3. Rotate!Lines(n) = lFiles[n] /\ Rotate!Lines(k - 1) = lFiles[k - 1]
        BY Zenon, <2>1, <4>2 DEF Rotate!Lines
      <4>4. \A x \in Rotate!Range(Rotate!Lines(n)), y \in Rotate!Range(Rotate!Lines(k - 1)) : x < y
        BY Zenon, <4>1 DEF Rotate!LogInOrder
      <4> QED
        BY Zenon, <2>1, <4>2, <4>3, <4>4
    <3> QED
      BY Zenon, <3>1 DEF RotateCrowded
  <2> QED
    BY Zenon, <2>2, <2>3
<1>9. ASSUME NEW e \in 1 .. MaxEvents, RotateCrowded(e)
      PROVE  RotateCrowded(e)'
  <2>1. ASSUME NEW k \in Rotate!Names \ {0}
        PROVE  RotateView(k)' # Rotate!Absent /\ \A x \in Rotate!Range(RotateView(k)') : e < x
    <3>1. k - 1 \in Rotate!Names /\ k - 1 < k /\ RotateView(k)' = lFiles[k - 1]
      BY Zenon, <1>0, <1>4
    <3>2. lFiles[k] # Rotate!Absent /\ \A x \in Rotate!Range(lFiles[k]) : e < x
      BY Zenon, <1>1, <1>9 DEF RotateCrowded
    <3>3. lFiles[k - 1] # Rotate!Absent /\ Rotate!Lines(k) = lFiles[k] /\ Rotate!Lines(k - 1) = lFiles[k - 1]
      BY Zenon, <1>3, <3>1, <3>2 DEF Rotate!Lines
    <3>4. \A x \in Rotate!Range(lFiles[k]), y \in Rotate!Range(lFiles[k - 1]) : x < y
      BY Zenon, <3>1, <3>3 DEF Rotate!LogInOrder
    <3>5. \A y \in Rotate!Range(lFiles[k - 1]) : e < y
      <4>1. PICK x \in Rotate!Range(lFiles[k]) : x \in Nat
        <5>1. lFiles[k] \in Seq(1 .. MaxEvents) /\ Len(lFiles[k]) = FileSize
          BY Zenon, <1>3, <3>2 DEF Rotate!TypeOK
        <5>2. 1 \in DOMAIN lFiles[k] /\ lFiles[k][1] \in Nat
          BY <5>1 DEF Rotate!FilesAssumption
        <5> QED
          BY Zenon, <5>2 DEF Rotate!Range
      <4>2. \A y \in Rotate!Range(lFiles[k - 1]) : y \in Nat
        <5>1. lFiles[k - 1] \in Seq(1 .. MaxEvents)
          BY Zenon, <3>1, <3>3 DEF Rotate!TypeOK
        <5>2. \A i \in DOMAIN lFiles[k - 1] : lFiles[k - 1][i] \in Nat
          BY <5>1 DEF Rotate!FilesAssumption
        <5> QED
          BY Zenon, <5>2 DEF Rotate!Range
      <4>3. \A y \in Rotate!Range(lFiles[k - 1]) : e < x /\ x < y
        BY Zenon, <3>2, <3>4, <4>1
      <4>4. e \in Nat
        BY DEF Rotate!FilesAssumption
      <4> QED
        BY <4>1, <4>2, <4>3, <4>4
    <3> QED
      BY Zenon, <3>1, <3>3, <3>5
  <2> QED
    BY Zenon, <2>1 DEF RotateCrowded
<1>10. \A e \in Rotate!Range(lWritten) : e \in 1 .. MaxEvents
  <2>0. lWritten \in Seq(1 .. MaxEvents)
    BY Zenon DEF Rotate!TypeOK
  <2>1. \A i \in DOMAIN lWritten : lWritten[i] \in 1 .. MaxEvents
    BY <2>0 DEF Rotate!FilesAssumption
  <2> QED
    BY Zenon, <2>1 DEF Rotate!Range
<1>11. RotateKeptInv'
  BY Zenon, <1>8, <1>9, <1>10 DEF RotateSoundInv, RotateKeptInv
<1> QED
  BY Zenon, <1>5, <1>6, <1>7, <1>11 DEF RotateSoundInv

\* A rename of a rotation is one that it was to do.
LEMMA RotateRollMoves ==
  ASSUME Rotate!FilesAssumption, Rotate!TypeOK, RotateSoundInv, ~lBroken, Rotate!rollRunOnce
  PROVE  RotateSoundInv'
<1>1. PICK n \in lSeqs : Rotate!byFormatSequence(n) /\ lFiles' = Rotate!Moved(n) /\ lSeqs' = lSeqs \ {n}
  BY Zenon DEF Rotate!rollRunOnce
<1>2. n \in Rotate!Names /\ \A m \in lSeqs : m <= n /\ m \in Rotate!Names
  BY Zenon, <1>1 DEF Rotate!TypeOK, Rotate!byFormatSequence
<1>3. /\ lFiles'[n] = Rotate!Absent
      /\ \A k \in Rotate!Names : k # n /\ k # n + 1 => lFiles'[k] = lFiles[k]
      /\ n + 1 \in Rotate!Names => lFiles'[n + 1] = lFiles[n]
  BY Zenon, <1>1, <1>2, RotateMovedLines
<1>4. /\ \A k \in Rotate!Names : lFiles[k] # Rotate!Absent => Len(lFiles[k]) = FileSize
      /\ \A k \in lSeqs : lFiles[k] # Rotate!Absent /\ \A m \in Rotate!Names : m < k => m \in lSeqs
      /\ 0 \notin lSeqs => lFiles[0] = Rotate!Absent
  BY Zenon DEF RotateSoundInv, RotateRollInv, Rotate!rollRunOnce
<1>5. /\ 0 \in Rotate!Names /\ n + 1 # 0 /\ n # n + 1
      /\ \A k \in Rotate!Names \ {0} : /\ k - 1 \in Rotate!Names /\ k - 1 < k
                                       /\ k - 1 = n <=> k = n + 1
      /\ \A k \in Rotate!Names : k <= n /\ k # n => k < n /\ k # n + 1
      /\ \A k, m \in Rotate!Names : k < m /\ m <= n => k # n
  BY <1>2 DEF Rotate!FilesAssumption, Rotate!Names
<1>6. lPc = "roll" /\ lPc' = "roll" /\ lWritten' = lWritten /\ lBroken' = lBroken
  BY Zenon DEF Rotate!rollRunOnce
<1>7. ASSUME NEW k \in Rotate!Names \ {0} PROVE RotateView(k)' = RotateView(k)
  <2>1. /\ RotateView(k) = IF k - 1 \in lSeqs THEN lFiles[k - 1] ELSE lFiles[k]
        /\ RotateView(k)' = IF k - 1 \in lSeqs \ {n} THEN lFiles'[k - 1] ELSE lFiles'[k]
    BY Zenon, <1>1, <1>6 DEF RotateView
  <2>2. CASE k - 1 = n
    BY Zenon, <1>1, <1>3, <1>5, <2>1, <2>2
  <2>3. CASE k - 1 # n /\ k - 1 \in lSeqs
    <3>1. lFiles'[k - 1] = lFiles[k - 1]
      BY Zenon, <1>2, <1>3, <1>5, <2>3
    <3> QED
      BY Zenon, <2>1, <2>3, <3>1
  <2>4. CASE k - 1 # n /\ k - 1 \notin lSeqs
    <3>1. k # n /\ k # n + 1
      BY Zenon, <1>1, <1>4, <1>5, <2>4
    <3> QED
      BY Zenon, <1>3, <2>1, <2>4, <3>1
  <2> QED
    BY Zenon, <2>2, <2>3, <2>4
<1>8. RotateRollInv'
  <2>1. \A k \in Rotate!Names : lFiles'[k] # Rotate!Absent => Len(lFiles'[k]) = FileSize
    <3>1. \A k \in Rotate!Names : lFiles'[k] = Rotate!Absent \/ \E m \in Rotate!Names : lFiles'[k] = lFiles[m]
      BY Zenon, <1>2, <1>3
    <3> QED
      BY Zenon, <1>4, <3>1
  <2>2. \A k \in lSeqs' : lFiles'[k] # Rotate!Absent /\ \A m \in Rotate!Names : m < k => m \in lSeqs'
    BY Zenon, <1>1, <1>2, <1>3, <1>4, <1>5
  <2>3. 0 \notin lSeqs' => lFiles'[0] = Rotate!Absent
    BY Zenon, <1>1, <1>3, <1>4, <1>5
  <2> QED
    BY Zenon, <2>1, <2>2, <2>3 DEF RotateRollInv
<1>9. RotateCurrentInv' /\ RotateStackInv'
  BY Zenon, <1>6, <1>7 DEF RotateSoundInv, RotateCurrentInv, RotateStackInv
<1>10. \A e : (RotateFound(e) => RotateFound(e)') /\ (RotateCrowded(e) => RotateCrowded(e)')
  BY Zenon, <1>6, <1>7 DEF RotateFound, RotateCrowded
<1>11. RotateKeptInv'
  BY Zenon, <1>6, <1>10 DEF RotateSoundInv, RotateKeptInv
<1> QED
  BY Zenon, <1>8, <1>9, <1>11 DEF RotateSoundInv

\* The rotation ends with a new file.
LEMMA RotateRollEnds ==
  ASSUME Rotate!FilesAssumption, Rotate!TypeOK, RotateSoundInv, ~lBroken, Rotate!openNew
  PROVE  RotateSoundInv'
<1>1. /\ lPc = "roll" /\ lPc' = "write" /\ lSeqs = {} /\ lSeqs' = {} /\ lWritten' = lWritten
      /\ lFiles' = [lFiles EXCEPT ![0] = IF @ = Rotate!Absent THEN <<>> ELSE @]
  BY Zenon DEF Rotate!openNew
<1>2. lFiles[0] = Rotate!Absent
  BY Zenon, <1>1 DEF RotateSoundInv, RotateRollInv
<1>3. lFiles'[0] = <<>> /\ \A n \in Rotate!Names \ {0} : lFiles'[n] = lFiles[n]
  <2>1. 0 \in Rotate!Names
    BY DEF Rotate!FilesAssumption, Rotate!Names
  <2> QED
    BY Zenon, <1>1, <1>2, <2>1 DEF Rotate!TypeOK
<1>4. \A n \in Rotate!Names \ {0} : RotateView(n) = lFiles[n] /\ RotateView(n)' = lFiles[n]
  BY Zenon, <1>1, <1>3 DEF RotateView
<1>5. RotateCurrentInv' /\ RotateRollInv'
  <2>1. <<>> # Rotate!Absent /\ Len(<<>>) <= FileSize /\ Len(<<>>) < FileSize
    BY DEF Rotate!Absent, Rotate!FilesAssumption
  <2> QED
    BY Zenon, <1>1, <1>3, <2>1 DEF RotateCurrentInv, RotateRollInv
<1>6. RotateStackInv'
  BY Zenon, <1>4 DEF RotateSoundInv, RotateStackInv
<1>7. \A e : (RotateFound(e) => RotateFound(e)') /\ (RotateCrowded(e) => RotateCrowded(e)')
  BY Zenon, <1>1, <1>4 DEF RotateFound, RotateCrowded
<1>8. RotateKeptInv'
  BY Zenon, <1>1, <1>7 DEF RotateSoundInv, RotateKeptInv
<1> QED
  BY Zenon, <1>5, <1>6, <1>8 DEF RotateSoundInv

\* The event goes into a file that has room for it.
LEMMA RotateWriteKept ==
  ASSUME Rotate!FilesAssumption, Rotate!TypeOK, RotateFileInv, RotateSoundInv, ~lBroken, Rotate!Write, lF = "open"
  PROVE  RotateSoundInv'
<1>1. PICK S, x, s, t : /\ S = 1 .. MaxEvents /\ x = lEvent /\ s = lFiles[0] /\ t = Append(s, x)
  OBVIOUS
<1>2. /\ lPc = "write" /\ lPc' = "idle" /\ lFiles' = [lFiles EXCEPT ![0] = t]
      /\ lWritten' = Append(lWritten, x)
  BY Zenon, <1>1 DEF Rotate!Write
<1>3. s \in Seq(S) /\ x \in S /\ lWritten \in Seq(S)
  <2>1. 0 \in Rotate!Names
    BY DEF Rotate!FilesAssumption, Rotate!Names
  <2>2. s \in Seq(S) /\ lWritten \in Seq(S) /\ lEvent \in 0 .. MaxEvents /\ lEvent # 0
    BY Zenon, <1>1, <1>2, <2>1 DEF Rotate!TypeOK, RotateFileInv
  <2>3. lEvent \in 1 .. MaxEvents
    BY <2>2 DEF Rotate!FilesAssumption
  <2> QED
    BY Zenon, <1>1, <2>2, <2>3
<1>4. t \in Seq(S) /\ Len(t) = Len(s) + 1 /\ Len(s) \in Nat /\ Rotate!Range(t) = Rotate!Range(s) \cup {x}
  <2>1. RotateIsAppended(t, s, x)
    BY Zenon, <1>1 DEF RotateIsAppended
  <2>2. t \in Seq(S)
    BY <1>3, <2>1, RotateAppended
  <2>3. Len(t) = Len(s) + 1 /\ Len(s) \in Nat
    BY <1>3, <2>1, RotateAppended
  <2>4. Rotate!Range(t) = Rotate!Range(s) \cup {x}
    BY <1>3, <2>1, RotateAppended
  <2> QED
    BY Zenon, <2>2, <2>3, <2>4
<1>5. Rotate!Range(lWritten') = Rotate!Range(lWritten) \cup {x}
  <2>1. RotateIsAppended(lWritten', lWritten, x)
    BY Zenon, <1>2 DEF RotateIsAppended
  <2> QED
    BY <1>3, <2>1, RotateAppended
<1>6. lFiles'[0] = t /\ 0 \in Rotate!Names /\ \A n \in Rotate!Names \ {0} : lFiles'[n] = lFiles[n]
  <2>1. 0 \in Rotate!Names
    BY DEF Rotate!FilesAssumption, Rotate!Names
  <2> QED
    BY Zenon, <1>2, <2>1 DEF Rotate!TypeOK
<1>7. t # Rotate!Absent
  BY Zenon, <1>1, <1>4, RotateNotAbsent
<1>8. \A n \in Rotate!Names : RotateView(n) = lFiles[n] /\ RotateView(n)' = lFiles'[n]
  BY Zenon, <1>2 DEF RotateView
<1>9. RotateCurrentInv' /\ RotateRollInv'
  <2>1. Len(s) < FileSize
    BY Zenon, <1>1, <1>2 DEF RotateSoundInv, RotateCurrentInv
  <2>2. Len(t) <= FileSize
    BY <1>4, <2>1 DEF Rotate!FilesAssumption
  <2> QED
    BY Zenon, <1>2, <1>6, <1>7, <2>2 DEF RotateCurrentInv, RotateRollInv
<1>10. RotateStackInv'
  BY Zenon, <1>6, <1>8 DEF RotateSoundInv, RotateStackInv
<1>11. ASSUME NEW e, RotateFound(e) PROVE RotateFound(e)'
  <2>1. PICK n \in Rotate!Names : lFiles[n] # Rotate!Absent /\ e \in Rotate!Range(lFiles[n])
    BY Zenon, <1>8, <1>11 DEF RotateFound
  <2>2. lFiles'[n] # Rotate!Absent /\ e \in Rotate!Range(lFiles'[n])
    BY Zenon, <1>1, <1>4, <1>6, <1>7, <2>1
  <2> QED
    BY Zenon, <1>2, <1>8, <2>2 DEF RotateFound
<1>12. \A e : RotateCrowded(e) => RotateCrowded(e)'
  BY Zenon, <1>6, <1>8 DEF RotateCrowded
<1>13. RotateFound(x)'
  BY Zenon, <1>2, <1>4, <1>6, <1>7, <1>8 DEF RotateFound
<1>14. RotateKeptInv'
  BY Zenon, <1>5, <1>11, <1>12, <1>13 DEF RotateSoundInv, RotateKeptInv
<1> QED
  BY Zenon, <1>9, <1>10, <1>14 DEF RotateSoundInv

\* Every step keeps what the rotations keep.
LEMMA RotateSoundStep ==
  ASSUME Rotate!FilesAssumption, Rotate!TypeOK, RotateFileInv, Rotate!LogInOrder, RotateSoundInv, [Rotate!Next]_(Rotate!vars)
  PROVE  RotateSoundInv'
<1>0. CASE lBroken'
  BY Zenon, <1>0 DEF RotateSoundInv
<1>1. CASE ~lBroken' /\ UNCHANGED Rotate!vars
  <2>1. \A n : RotateView(n)' = RotateView(n)
    BY Zenon, <1>1 DEF RotateView, Rotate!vars
  <2>2. \A e : (RotateFound(e) => RotateFound(e)') /\ (RotateCrowded(e) => RotateCrowded(e)')
    BY Zenon, <1>1, <2>1 DEF RotateFound, RotateCrowded, Rotate!vars
  <2>3. ~lBroken /\ RotateCurrentInv' /\ RotateRollInv' /\ RotateStackInv'
    BY Zenon, <1>1, <2>1 DEF RotateSoundInv, RotateCurrentInv, RotateRollInv, RotateStackInv,
       Rotate!vars
  <2>4. RotateKeptInv'
    BY Zenon, <1>1, <2>2, <2>3 DEF RotateSoundInv, RotateKeptInv, Rotate!vars
  <2> QED
    BY Zenon, <2>3, <2>4 DEF RotateSoundInv
<1>2. CASE ~lBroken' /\ Rotate!Send
  <2>1. ~lBroken /\ lPc = "idle" /\ lWritten' = lWritten /\ lFiles[0] # Rotate!Absent
    BY Zenon, <1>2 DEF Rotate!Send, RotateSoundInv, RotateCurrentInv
  <2>2. CASE Rotate!Full
    <3>1. lPc' = "roll" /\ lSeqs' = Rotate!oldLogFiles /\ UNCHANGED lFiles
      BY Zenon, <1>2, <2>1, <2>2 DEF Rotate!Send
    <3> QED
      BY Zenon, <2>1, <2>2, <3>1, RotateRollBegins
  <2>3. CASE ~Rotate!Full
    <3>1. lPc' = "write" /\ UNCHANGED lFiles
      BY Zenon, <1>2, <2>1, <2>3 DEF Rotate!Send
    <3>2. lFiles[0] \in Seq(1 .. MaxEvents) /\ ~(Len(lFiles[0]) >= FileSize)
      <4>1. 0 \in Rotate!Names
        BY DEF Rotate!FilesAssumption, Rotate!Names
      <4> QED
        BY Zenon, <2>1, <2>3, <4>1 DEF Rotate!Full, Rotate!TypeOK
    <3>3. Len(lFiles[0]) < FileSize
      <4>1. Len(lFiles[0]) \in Nat /\ FileSize \in Nat
        BY <3>2 DEF Rotate!FilesAssumption
      <4> QED
        BY <3>2, <4>1
    <3> QED
      BY Zenon, <2>1, <3>1, <3>3, RotateUnmoved
  <2> QED
    BY Zenon, <2>2, <2>3
<1>3. CASE ~lBroken' /\ Rotate!rollRunOnce
  <2>1. ~lBroken
    BY Zenon, <1>3 DEF Rotate!rollRunOnce
  <2> QED
    BY Zenon, <1>3, <2>1, RotateRollMoves
<1>4. CASE ~lBroken' /\ Rotate!openNew
  <2>1. ~lBroken
    BY Zenon, <1>4 DEF Rotate!openNew
  <2> QED
    BY Zenon, <1>4, <2>1, RotateRollEnds
<1>5. CASE ~lBroken' /\ Rotate!Write
  <2>1. ~lBroken /\ lPc = "write" /\ lPc' = "idle"
    BY Zenon, <1>5 DEF Rotate!Write
  <2>2. CASE lF = "open"
    BY Zenon, <1>5, <2>1, <2>2, RotateWriteKept
  <2>3. CASE lF # "open"
    <3>1. UNCHANGED <<lFiles, lWritten>>
      BY Zenon, <1>5, <2>3 DEF Rotate!Write
    <3> QED
      BY Zenon, <2>1, <3>1, RotateUnmoved
  <2> QED
    BY Zenon, <2>2, <2>3
<1>6. CASE ~lBroken' /\ (Rotate!SendNoFile \/ Rotate!Close \/ Rotate!Crash)
  <2>1. ~lBroken /\ lPc # "roll" /\ lPc' = "idle" /\ UNCHANGED <<lFiles, lWritten>>
    <3>1. CASE Rotate!SendNoFile
      BY Zenon, <1>6, <3>1 DEF Rotate!SendNoFile
    <3>2. CASE Rotate!Close
      BY Zenon, <1>6, <3>2 DEF Rotate!Close
    <3>3. CASE Rotate!Crash
      BY Zenon, <1>6, <3>3 DEF Rotate!Crash
    <3> QED
      BY Zenon, <1>6, <3>1, <3>2, <3>3
  <2> QED
    BY Zenon, <2>1, RotateUnmoved
<1>7. CASE ~lBroken' /\ Rotate!NewOutput
  <2>1. ~lBroken /\ UNCHANGED <<lPc, lWritten>> /\ lF = "dead"
    BY Zenon, <1>7 DEF Rotate!NewOutput
  <2>2. lPc # "roll" /\ lFiles[0] # Rotate!Absent
    BY Zenon, <2>1 DEF RotateFileInv, RotateSoundInv, RotateCurrentInv
  <2>3. UNCHANGED lFiles
    BY Zenon, <1>7, <2>2 DEF Rotate!NewOutput, Rotate!TypeOK
  <2> QED
    BY Zenon, <2>1, <2>2, <2>3, RotateUnmoved
<1>8. lBroken' \/ UNCHANGED Rotate!vars \/ Rotate!Send \/ Rotate!rollRunOnce \/ Rotate!openNew \/ Rotate!Write \/ Rotate!SendNoFile \/ Rotate!Close \/ Rotate!Crash \/ Rotate!NewOutput
  BY Zenon DEF Rotate!Next, Rotate!RollFails, Rotate!MoveFails, Rotate!openNewFails,
     Rotate!RemoveFile
<1> QED
  BY Zenon, <1>0, <1>1, <1>2, <1>3, <1>4, <1>5, <1>6, <1>7, <1>8

----------------------------------------------------------------------------
\* The invariant of the files says that the newest events are kept, within the bound.
LEMMA RotateSoundMeans ==
  ASSUME Rotate!FilesAssumption, Rotate!TypeOK, RotateSoundInv
  PROVE  Rotate!NewestKept /\ Rotate!FilesBounded
<1>1. ASSUME ~lBroken, lSeqs = {}, NEW e \in Rotate!Range(lWritten)
      PROVE  \/ \E n \in Rotate!Names : e \in Rotate!Range(Rotate!Lines(n))
             \/ \A n \in Rotate!Names \ {0} : Len(Rotate!Lines(n)) = FileSize /\ \A x \in Rotate!Range(Rotate!Lines(n)) : e < x
  <2>1. \A n : RotateView(n) = lFiles[n] /\ (lFiles[n] # Rotate!Absent => Rotate!Lines(n) = lFiles[n])
    BY Zenon, <1>1 DEF RotateView, Rotate!Lines
  <2>2. RotateFound(e) \/ RotateCrowded(e)
    BY Zenon, <1>1 DEF RotateSoundInv, RotateKeptInv
  <2>3. RotateFound(e) => \E n \in Rotate!Names : e \in Rotate!Range(Rotate!Lines(n))
    BY Zenon, <2>1 DEF RotateFound
  <2>4. RotateCrowded(e) => \A n \in Rotate!Names \ {0} : Len(Rotate!Lines(n)) = FileSize /\ \A x \in Rotate!Range(Rotate!Lines(n)) : e < x
    BY Zenon, <1>1, <2>1 DEF RotateCrowded, RotateSoundInv, RotateStackInv
  <2> QED
    BY Zenon, <2>2, <2>3, <2>4
<1>2. ASSUME ~lBroken, NEW n \in Rotate!Names
      PROVE  Len(Rotate!Lines(n)) <= FileSize
  <2>1. FileSize <= FileSize /\ Len(<<>>) <= FileSize
    BY DEF Rotate!FilesAssumption
  <2>2. CASE lFiles[n] = Rotate!Absent
    BY Zenon, <2>1, <2>2 DEF Rotate!Lines
  <2>3. CASE lFiles[n] # Rotate!Absent
    <3>1. Rotate!Lines(n) = lFiles[n]
      BY Zenon, <2>3 DEF Rotate!Lines
    <3>2. lPc = "roll" => Len(lFiles[n]) = FileSize
      BY Zenon, <1>2, <2>3 DEF RotateSoundInv, RotateRollInv
    <3>3. lPc # "roll" /\ n = 0 => Len(lFiles[n]) <= FileSize
      BY Zenon, <1>2 DEF RotateSoundInv, RotateCurrentInv
    <3>4. lPc # "roll" /\ n # 0 => Len(lFiles[n]) = FileSize
      BY Zenon, <1>2, <2>3 DEF RotateSoundInv, RotateStackInv, RotateView
    <3> QED
      BY Zenon, <2>1, <3>1, <3>2, <3>3, <3>4
  <2> QED
    BY Zenon, <2>2, <2>3
<1> QED
  BY Zenon, <1>1, <1>2 DEF Rotate!NewestKept, Rotate!FilesBounded

\* The log starts in the invariant.
LEMMA RotateInitSound ==
  ASSUME Rotate!FilesAssumption, Rotate!Init
  PROVE  Rotate!TypeOK /\ RotateFileInv /\ Rotate!LogInOrder /\ RotateEarlierInv /\ RotateSoundInv
<1>1. /\ 0 \in Rotate!Names /\ <<>> \in Seq(1 .. MaxEvents) /\ 0 \in 0 .. MaxEvents
      /\ <<>> # Rotate!Absent /\ Len(<<>>) <= FileSize
  BY DEF Rotate!FilesAssumption, Rotate!Names, Rotate!Absent
<1>2. lFiles[0] = <<>> /\ (\A n \in Rotate!Names \ {0} : lFiles[n] = Rotate!Absent) /\ lPc = "idle" /\ lWritten = <<>>
  BY Zenon, <1>1 DEF Rotate!Init
<1>3. \A n \in Rotate!Names : Rotate!Lines(n) = <<>> /\ RotateView(n) = lFiles[n]
  BY Zenon, <1>2 DEF Rotate!Lines, RotateView
<1>4. Rotate!TypeOK
  BY Zenon, <1>1 DEF Rotate!Init, Rotate!TypeOK
<1>5. RotateFileInv
  BY Zenon, <1>1, <1>2 DEF Rotate!Init, RotateFileInv
<1>6. Rotate!LogInOrder /\ RotateEarlierInv
  BY Zenon, <1>3, RotateEmpty DEF Rotate!LogInOrder, RotateEarlierInv
<1>7. RotateCurrentInv /\ RotateRollInv
  BY Zenon, <1>1, <1>2 DEF RotateCurrentInv, RotateRollInv
<1>8. RotateStackInv /\ RotateKeptInv
  BY Zenon, <1>2, <1>3, RotateEmpty DEF RotateStackInv, RotateKeptInv
<1> QED
  BY Zenon, <1>4, <1>5, <1>6, <1>7, <1>8 DEF RotateSoundInv

\* Whatever fails and wherever the process dies the log is read in the order of Send; while
\* nothing fails a rotation drops the oldest file only, and no file grows past its size.
THEOREM Ordered ==
  ASSUME Rotate!FilesAssumption
  PROVE  Rotate!Spec => []LogIsOrdered
<1>1. Rotate!Init => Rotate!TypeOK /\ RotateFileInv /\ Rotate!LogInOrder /\ RotateEarlierInv /\ RotateSoundInv
  BY Zenon, RotateInitSound
<1>2. Rotate!TypeOK /\ RotateFileInv /\ Rotate!LogInOrder /\ RotateEarlierInv /\ RotateSoundInv /\ [Rotate!Next]_(Rotate!vars) =>
        (Rotate!TypeOK /\ RotateFileInv /\ Rotate!LogInOrder /\ RotateEarlierInv /\ RotateSoundInv)'
  BY Zenon, RotateTypeStep, RotateFileStep, RotateOrderStep, RotateSoundStep
<1>3. Rotate!TypeOK /\ RotateSoundInv => Rotate!NewestKept /\ Rotate!FilesBounded
  BY Zenon, RotateSoundMeans
<1> QED
  BY <1>1, <1>2, <1>3, PTL DEF Rotate!Spec, LogIsOrdered
=============================================================================
