----------------------------- MODULE NodeHealth -----------------------------
(***************************************************************************)
(* src/monitor/os.go: the status an owner computes from the load of its    *)
(* node, and how it reaches etcd: with the register loop of the service    *)
(* once the status has changed, or with the heartbeats of the monitor.     *)
(* Clients deregister a node that fails them (web/roundshardtripper.go,    *)
(* module Balance).  Register is that of EtcdRegistry in one step; the     *)
(* services and the monitor use the default registry.                      *)
(***************************************************************************)
EXTENDS Integers, FiniteSets

CONSTANTS
    Node,
    Reporting, Pushing, \* the owners that call UpdateServiceWithoutSync, PushHeartBeat
    MaxCalls,           \* of SetMaxCalls
    Weights,            \* loads the owners report
    HbMax,              \* heartbeats kept at most (1000)
    MaxChanges          \* bound of the loads reported, leases lost, nodes deregistered and
                        \* registrations that fail

\* What the configuration must satisfy.
HealthAssumption ==
    Pushing \subseteq Node /\ MaxCalls \in Nat /\ Weights \subseteq Nat

VARIABLES
    meta,            \* of each owner: status in its Metadata
    pushed, monitor, \* os.heartbeats; "open", "closed", "ended"
    hashed, lease,   \* of each owner's registry: status last put, lease alive
    fresh,           \* the nodes whose Metadata has a time that is not put yet
    reg,             \* etcd: status of the nodes that are registered, or "none"
    changes,
    lastW            \* ghost: the load at the last change of status

regVars == <<hashed, lease, fresh, reg>>
vars == <<meta, pushed, monitor, regVars, changes, lastW>>

\* SetMaxCalls.
UpLimits == (MaxCalls * 9) \div 10
DownLimits == IF (MaxCalls * 7) \div 10 = UpLimits THEN UpLimits - 1 ELSE (MaxCalls * 7) \div 10

Init ==
    /\ meta = [n \in Node |-> "normal"] /\ pushed = {} /\ monitor = "open"
    /\ hashed = meta /\ lease = Node /\ fresh = {} /\ reg = meta
    /\ changes = 0 /\ lastW = [n \in Node |-> -1]

Changed == changes < MaxChanges /\ changes' = changes + 1

----------------------------------------------------------------------------
\* Mutant: one limit for both ways.
NewStatusOneLimit(old, w) == IF w > UpLimits THEN "upThresh" ELSE "normal"

\* Between the two limits the status stays.
NewStatus(old, w) ==
    IF w < DownLimits THEN "normal" ELSE IF w > UpLimits THEN "upThresh" ELSE old

\* In the owner's memory; the register loop publishes it.
UpdateServiceWithoutSync(n, w) ==
    /\ n \in Reporting /\ Changed
    /\ meta' = [meta EXCEPT ![n] = NewStatus(@, w)]
    /\ lastW' = IF meta'[n] = meta[n] THEN lastW ELSE [lastW EXCEPT ![n] = w]
    /\ UNCHANGED <<pushed, monitor, regVars>>

\* Mutant: only the lease is looked at.
NeedsPutLeaseOnly(n, stamped) == n \notin lease \/ n \in stamped

\* Register is skipped while the lease lives and the hash of the service is the same; a
\* node in stamped has a time that was not put.
NeedsPut(n, stamped) == n \notin lease \/ hashed[n] # meta'[n] \/ n \in stamped

\* Register for each node in ns; any of them may fail, which is logged.
RegisterAll(ns, stamped) ==
    \E ps \in SUBSET {n \in ns : NeedsPut(n, stamped)} :
        /\ IF \A n \in ns : NeedsPut(n, stamped) => n \in ps THEN UNCHANGED changes ELSE Changed
        /\ reg' = [n \in Node |-> IF n \in ps THEN meta'[n] ELSE reg[n]]
        /\ hashed' = [n \in Node |-> IF n \in ps THEN meta'[n] ELSE hashed[n]]
        /\ lease' = lease \cup ps /\ fresh' = stamped \ ps

\* One tick of the register loop of the node's service.
RegisterLoop(n) ==
    /\ UNCHANGED meta /\ RegisterAll({n}, fresh)
    /\ UNCHANGED <<pushed, monitor, lastW>>

PushHeartBeat(n) ==
    /\ n \in Pushing \ pushed /\ pushed' = pushed \cup {n}
    /\ UNCHANGED <<meta, monitor, regVars, changes, lastW>>

\* The nodes whose Metadata has a new time after the tick.
Stamped == fresh \cup pushed

\* A tick: the weights of a heartbeat are never set, and 0 is under the limit; neither is
\* its timestamp stored, so that every heartbeat is out of date.  More heartbeats than the
\* cache keeps empty it.
heartbeat ==
    /\ monitor # "ended" /\ pushed # {}
    /\ meta' = [n \in Node |-> IF n \in pushed THEN NewStatus(meta[n], 0) ELSE meta[n]]
    /\ lastW' = [n \in Node |-> IF meta'[n] = meta[n] THEN lastW[n] ELSE 0]
    /\ RegisterAll(pushed, Stamped)
    /\ pushed' = IF Cardinality(pushed) > HbMax THEN {} ELSE pushed
    /\ UNCHANGED monitor

Close ==
    /\ monitor = "open" /\ monitor' = "closed"
    /\ UNCHANGED <<meta, pushed, regVars, changes, lastW>>
\* The loop returns once its select takes exit, which may be after a further tick.
HeartbeatEnds ==
    /\ monitor = "closed" /\ monitor' = "ended"
    /\ UNCHANGED <<meta, pushed, regVars, changes, lastW>>

\* The lease of the node ends in etcd, and its key with it.
LeaseLost(n) ==
    /\ n \in lease /\ Changed /\ lease' = lease \ {n} /\ reg' = [reg EXCEPT ![n] = "none"]
    /\ UNCHANGED <<meta, pushed, monitor, hashed, fresh, lastW>>
\* deRegisterNode of a client: the key goes, and the owner does not know.
deRegisterNode(n) ==
    /\ reg[n] # "none" /\ Changed /\ reg' = [reg EXCEPT ![n] = "none"]
    /\ UNCHANGED <<meta, pushed, monitor, hashed, fresh, lease, lastW>>

Next ==
    \/ heartbeat \/ Close \/ HeartbeatEnds
    \/ \E n \in Node : \/ RegisterLoop(n) \/ PushHeartBeat(n) \/ LeaseLost(n) \/ deRegisterNode(n)
                       \/ \E w \in Weights : UpdateServiceWithoutSync(n, w)

\* The tickers go on.
Fairness == WF_vars(heartbeat) /\ \A n \in Node : WF_vars(RegisterLoop(n))
Spec == Init /\ [][Next]_vars /\ Fairness

----------------------------------------------------------------------------
TypeOK ==
    /\ pushed \subseteq Pushing /\ lease \subseteq Node /\ fresh \subseteq Node
    /\ monitor \in {"open", "closed", "ended"}
    /\ meta \in [Node -> {"normal", "upThresh"}] /\ hashed \in [Node -> {"normal", "upThresh"}]
    /\ reg \in [Node -> {"none", "normal", "upThresh"}]

\* A node that sends heartbeats through the monitor is registered again and again, whoever
\* deregistered it: each heartbeat changes the timestamp, so that Register does not skip it
\* (os.go:118, etcdv3.go:193).
HeartbeatRestores == \A n \in Node : []<>(n \in pushed /\ monitor = "open" => reg[n] # "none")

\* The status of a node that reports its load without heartbeats moves only when the load
\* has crossed the whole band between the limits since the last move.
NoFlapping ==
    [][\A n \in Node \ Pushing : meta'[n] # meta[n] /\ lastW[n] # -1 =>
        \/ lastW[n] < DownLimits /\ UpLimits < lastW'[n]
        \/ UpLimits < lastW[n] /\ lastW'[n] < DownLimits]_vars

\* What an owner computes is what etcd says in the end, once the loads are quiet and unless
\* a client has deregistered the node: the register loop sees every change of status.
StatusIsPublished ==
    \A n \in Node : []<>(reg[n] \in {meta[n], "none"})
=============================================================================
