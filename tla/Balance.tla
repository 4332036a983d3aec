------------------------------ MODULE Balance ------------------------------
(***************************************************************************)
(* How a request finds its node: the strategies of src/selector over the   *)
(* nodes the cache offers, and src/web/roundshardtripper.go, which tries   *)
(* up to three times and deregisters a node that fails.  The cache is that *)
(* of RCache in one step; what the owners publish is in NodeHealth.        *)
(***************************************************************************)
EXTENDS Integers, Sequences, FiniteSets

CONSTANTS
    Nodes,      \* the nodes of the service, in the order of the cached list
    Requests,
    Period,     \* selectKey counts modulo a multiple of every list's length; the wrap of
                \* the 64-bit counter is out of reach
    MaxChanges  \* bound of the servers that stop or come back, the changes of status, the
                \* nodes registered again and the errors of etcd

Servers == {Nodes[i] : i \in DOMAIN Nodes}
Tries == 3

VARIABLES
    strategy,         \* Options.Selector: "random", "roundbin"
    up,               \* the servers that answer
    reg,              \* etcd: the nodes registered
    cache,            \* "none", "normal", "deleted", or "unfit": over the limit or without
                      \* a recent heartbeat
    selectKey,
    pc,               \* of each request: "idle", "pick", "try", "sticky", "failed"
    list, tries, picked,
    changes,
    tried, alone      \* ghosts, of the round robin: the nodes tried; no other request
                      \* picked between this one's picks

reqVars == <<selectKey, pc, list, tries, picked, tried, alone>>
vars == <<strategy, up, reg, cache, reqVars, changes>>

Init ==
    /\ strategy \in {"random", "roundbin"} /\ up \in SUBSET Servers /\ reg = Servers
    /\ cache = [n \in Servers |-> "normal"]
    /\ selectKey = 0 /\ pc = [r \in Requests |-> "idle"] /\ list = [r \in Requests |-> <<>>]
    /\ tries = [r \in Requests |-> 0] /\ picked = [r \in Requests |-> "none"]
    /\ changes = 0
    /\ tried = [r \in Requests |-> {}] /\ alone = [r \in Requests |-> TRUE]

Changed == changes < MaxChanges /\ changes' = changes + 1

----------------------------------------------------------------------------
\* A server stops answering or answers again, its owner registers it again.
Flip(n) ==
    /\ Changed /\ up' = (up \ {n}) \cup ({n} \ up)
    /\ UNCHANGED <<strategy, reg, cache, reqVars>>
Register(n) ==
    /\ n \notin reg /\ Changed /\ reg' = reg \cup {n}
    /\ UNCHANGED <<strategy, up, cache, reqVars>>

\* update: the node's entry is replaced or marked; a node not cached is not added.
Update(n) ==
    /\ cache[n] # "none" /\ n \notin reg /\ cache' = [cache EXCEPT ![n] = "deleted"]
    /\ UNCHANGED <<strategy, up, reg, reqVars, changes>>
UpdateStatus(n, s) ==
    /\ cache[n] # "none" /\ n \in reg /\ cache[n] # s /\ Changed
    /\ cache' = [cache EXCEPT ![n] = s]
    /\ UNCHANGED <<strategy, up, reg, reqVars>>
\* get after the TTL; a registry without nodes is an error, and the old entry serves.
Refresh ==
    /\ reg # {} /\ cache' = [n \in Servers |->
                    IF n \notin reg THEN "none" ELSE IF cache[n] = "unfit" THEN "unfit" ELSE "normal"]
    /\ UNCHANGED <<strategy, up, reg, reqVars, changes>>

----------------------------------------------------------------------------
Having(ss) == SelectSeq(Nodes, LAMBDA n : cache[n] \in ss)
bHealthNodesByWeights == Having({"normal"})
bDeletedNodes == Having({"deleted"})
Random == Having({"normal", "unfit", "deleted"})
RoundBinSelect == IF bHealthNodesByWeights = <<>> THEN bDeletedNodes ELSE bHealthNodesByWeights

To(r, l) == pc' = [pc EXCEPT ![r] = l]
\* The call returns; its variables are gone.
Return(r) ==
    /\ To(r, "idle")
    /\ list' = [list EXCEPT ![r] = <<>>] /\ tries' = [tries EXCEPT ![r] = 0]
    /\ picked' = [picked EXCEPT ![r] = "none"]
    /\ tried' = [tried EXCEPT ![r] = {}] /\ alone' = [alone EXCEPT ![r] = TRUE]

\* RoundTrip without a destination: the list is fixed before the tries.
RoundTrip(r) ==
    /\ pc[r] = "idle" /\ Random # <<>>
    /\ LET l == IF strategy = "random" THEN Random ELSE RoundBinSelect
       IN list' = [list EXCEPT ![r] = l] /\ To(r, IF l = <<>> THEN "failed" ELSE "pick")
    /\ UNCHANGED <<strategy, up, reg, cache, selectKey, tries, picked, tried, alone, changes>>

\* RoundTrip to the server a header names, whatever its status; it is tried once.
RoundTripTo(r) ==
    /\ pc[r] = "idle" /\ Random # <<>> /\ To(r, "sticky")
    /\ UNCHANGED <<strategy, up, reg, cache, selectKey, list, tries, picked, tried, alone, changes>>
Answered(r) ==
    /\ pc[r] = "sticky" /\ Return(r)
    /\ UNCHANGED <<strategy, up, reg, cache, selectKey, changes>>

Picked(r, n) == To(r, "try") /\ picked' = [picked EXCEPT ![r] = n]
PickedByKey(r, n) ==
    /\ Picked(r, n) /\ tried' = [tried EXCEPT ![r] = @ \cup {n}]
    /\ alone' = [q \in Requests |-> alone[q] /\ (q = r \/ tried[q] = {})]

\* Mutant: the key counts only the requests that succeed.
PickStays(r) ==
    /\ pc[r] = "pick" /\ strategy = "roundbin" /\ PickedByKey(r, list[r][(selectKey % Len(list[r])) + 1])
    /\ UNCHANGED <<strategy, up, reg, cache, selectKey, list, tries, changes>>

\* The closures the strategies return; the key of RoundBinSelect is shared by all of them.
Pick(r) ==
    /\ pc[r] = "pick"
    /\ \/ strategy = "random" /\ UNCHANGED <<selectKey, tried, alone>>
          /\ \E i \in DOMAIN list[r] : Picked(r, list[r][i])
       \/ strategy = "roundbin" /\ selectKey' = (selectKey + 1) % Period
          /\ PickedByKey(r, list[r][(selectKey' % Len(list[r])) + 1])
    /\ UNCHANGED <<strategy, up, reg, cache, list, tries, changes>>

\* A request of another service picks.
OtherPick ==
    /\ strategy = "roundbin" /\ selectKey' = (selectKey + 1) % Period
    /\ alone' = [q \in Requests |-> alone[q] /\ tried[q] = {}]
    /\ UNCHANGED <<strategy, up, reg, cache, pc, list, tries, picked, tried, changes>>

Served(r) ==
    /\ pc[r] = "try" /\ picked[r] \in up /\ Return(r)
    /\ UNCHANGED <<strategy, up, reg, cache, selectKey, changes>>

\* Mutant: the node that fails is left in etcd.
deRegisterNodeNot(n) == UNCHANGED reg

\* Every service of the list deletes the key of the node.
deRegisterNode(n) == reg' = reg \ {n}

\* The request to the node fails; so may etcd, whose error is dropped.
TryFails(r) ==
    /\ pc[r] = "try" /\ picked[r] \notin up
    /\ tries' = [tries EXCEPT ![r] = @ + 1] /\ picked' = [picked EXCEPT ![r] = "none"]
    /\ To(r, IF tries'[r] = Tries THEN "failed" ELSE "pick")
    /\ \/ deRegisterNode(picked[r]) /\ UNCHANGED changes
       \/ Changed /\ UNCHANGED reg
    /\ UNCHANGED <<strategy, up, cache, selectKey, list, tried, alone>>
\* The caller has the error.
Failed(r) ==
    /\ pc[r] = "failed" /\ Return(r)
    /\ UNCHANGED <<strategy, up, reg, cache, selectKey, changes>>

Request(r) == Pick(r) \/ Served(r) \/ TryFails(r) \/ Answered(r) \/ Failed(r)
Next ==
    \/ Refresh \/ OtherPick
    \/ \E n \in Servers : Flip(n) \/ Register(n) \/ Update(n) \/ \E s \in {"normal", "unfit"} : UpdateStatus(n, s)
    \/ \E r \in Requests : RoundTrip(r) \/ Request(r) \/ RoundTripTo(r)

\* The watch loop and the requests go on.
Fairness ==
    /\ WF_vars(\E n \in Servers : Update(n))
    /\ \A r \in Requests : WF_vars(Request(r))
Spec == Init /\ [][Next]_vars /\ Fairness

----------------------------------------------------------------------------
TypeOK ==
    /\ up \subseteq Servers /\ reg \subseteq Servers
    /\ cache \in [Servers -> {"none", "normal", "unfit", "deleted"}]
    /\ selectKey \in 0 .. Period - 1
    /\ pc \in [Requests -> {"idle", "pick", "try", "sticky", "failed"}]
    /\ \A r \in Requests : tries[r] \in 0 .. Tries

\* A request by round robin that fails has tried as many different nodes as it may, three
\* or all of its list, unless another request picked in between: the key is shared
\* (strategy.go:123; "may be the same one", roundshardtripper.go:108).
TriesDifferentNodes ==
    \A r \in Requests :
        pc[r] = "failed" /\ strategy = "roundbin" /\ alone[r] =>
            Cardinality(tried[r]) = IF Len(list[r]) < Tries THEN Len(list[r]) ELSE Tries

\* Requests by round robin do not fail for ever while a healthy node answers: the nodes
\* that fail are deregistered, their entries marked, and no longer picked, once the owners
\* and etcd are quiet.
FailuresEnd ==
    \A r \in Requests :
        <>[](strategy = "roundbin" /\ (\E n \in up : cache[n] = "normal") => pc[r] # "failed")
=============================================================================
