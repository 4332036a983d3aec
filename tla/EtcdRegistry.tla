---------------------------- MODULE EtcdRegistry ----------------------------
(***************************************************************************)
(* The etcd registry client of src/registry/etcdv3.go, for one service:    *)
(* Register with its lease and the hash of what it registered last, and    *)
(* Deregister, called by several goroutines, against an etcd that drops    *)
(* leases and fails requests.                                              *)
(*                                                                         *)
(* The service is abstracted to its Data, of which the hash is taken; the  *)
(* hash is assumed to tell different data apart.                           *)
(***************************************************************************)
EXTENDS Integers, FiniteSets

CONSTANTS
  Proc,        \* goroutines that use the client
  Node,        \* nodes of the service, each with a key of its own
  Data, None,
  MaxLeases,   \* bound of the number of leases
  MaxErrors    \* bound of the number of failed requests

\* What the configuration must satisfy.
RegistryAssumption ==
  /\ None \notin Data /\ MaxLeases \in Nat /\ MaxErrors \in Nat

NoLease == 0
Lease == 1..MaxLeases
Absent == [data |-> None, lease |-> NoLease]

VARIABLES
  hasTTL,    \* RegisterOptions.TTL is positive: keys are bound to a lease
  putsFail,  \* whether a Put or Delete may fail, with or without effect, and a lease
             \* may end (TTL below Options.Timeout) before the puts under it are done
  key, alive, granted, errors,  \* etcd: keys, live leases, leases so far; failures so far
  srv,                          \* the service handed to Register
  register, leases,             \* register[s.Name] and leases[s.Name] of the client
  pc, result,                   \* each goroutine's place, and what its call returned
  data, lgr, todo, notFound     \* its h, lgr, nodes still to do and leaseNotFound

setting == <<hasTTL, putsFail>>
etcd == <<setting, key, alive, granted, errors>>
client == <<register, leases>>
locals == <<data, lgr, todo, notFound>>
regVars == <<hasTTL, putsFail, key, alive, granted, errors, srv, register, leases,
             pc, result, data, lgr, todo, notFound>>

RegTypeOK ==
  /\ hasTTL \in BOOLEAN /\ putsFail \in BOOLEAN
  /\ key \in [Node -> [data : Data \cup {None}, lease : Lease \cup {NoLease}]]
  /\ alive \subseteq Lease /\ granted \in 0..MaxLeases /\ errors \in 0..MaxErrors
  /\ srv \in Data
  /\ register \in Data \cup {None} /\ leases \in Lease \cup {NoLease}
  /\ pc \in [Proc -> {"idle", "keep", "compare", "grant", "put", "save", "clear", "delete"}]
  /\ result \in [Proc -> {"none", "ok", "err"}]
  /\ data \in [Proc -> Data \cup {None}]
  /\ lgr \in [Proc -> Lease \cup {NoLease}]
  /\ todo \in [Proc -> SUBSET Node]
  /\ notFound \in [Proc -> BOOLEAN]

RegInit ==
  /\ hasTTL \in BOOLEAN /\ putsFail \in BOOLEAN
  /\ key = [n \in Node |-> Absent] /\ alive = {} /\ granted = 0 /\ errors = 0
  /\ srv \in Data
  /\ register = None /\ leases = NoLease
  /\ pc = [p \in Proc |-> "idle"] /\ result = [p \in Proc |-> "none"]
  /\ data = [p \in Proc |-> None] /\ lgr = [p \in Proc |-> NoLease]
  /\ todo = [p \in Proc |-> {}] /\ notFound = [p \in Proc |-> FALSE]

Goto(p, l) == pc' = [pc EXCEPT ![p] = l]

\* The call of p returns r, and its local variables are gone.
Return(p, r) ==
  /\ Goto(p, "idle")
  /\ result' = [result EXCEPT ![p] = r]
  /\ data' = [data EXCEPT ![p] = None] /\ lgr' = [lgr EXCEPT ![p] = NoLease]
  /\ todo' = [todo EXCEPT ![p] = {}] /\ notFound' = [notFound EXCEPT ![p] = FALSE]

\* A request fails.
Error == errors < MaxErrors /\ errors' = errors + 1

-----------------------------------------------------------------------------
(* etcd and the owner of the service (external) *)

LeaseExpires(l) ==
  /\ l \in alive /\ alive' = alive \ {l}
  /\ putsFail \/ \A p \in Proc : lgr[p] # l
  /\ key' = [n \in Node |-> IF key[n].lease = l THEN Absent ELSE key[n]]
  /\ UNCHANGED <<setting, granted, errors, srv, client, pc, result, locals>>

\* The metadata of the service changes, between two calls.
Change ==
  /\ \A p \in Proc : pc[p] = "idle"
  /\ srv' \in Data \ {srv}
  /\ UNCHANGED <<etcd, client, pc, result, locals>>

-----------------------------------------------------------------------------
(* Register *)

\* Mutant: a lease that is not found is an error like the others.
KeepAliveReturnsNotFound(p) ==
  /\ pc[p] = "keep"
  /\ \/ /\ leases = NoLease \/ leases \in alive
        /\ Goto(p, "compare")
        /\ UNCHANGED <<errors, result, locals>>
     \/ leases # NoLease /\ leases \notin alive /\ Return(p, "err") /\ UNCHANGED errors
  /\ UNCHANGED <<setting, key, alive, granted, srv, client>>

KeepAlive(p) ==
  /\ pc[p] = "keep"
  /\ \/ /\ leases = NoLease \/ leases \in alive
        /\ Goto(p, "compare")
        /\ UNCHANGED <<errors, result, locals>>
     \/ /\ leases # NoLease /\ leases \notin alive
        /\ notFound' = [notFound EXCEPT ![p] = TRUE]
        /\ Goto(p, "compare")
        /\ UNCHANGED <<errors, result, data, lgr, todo>>
     \/ leases # NoLease /\ Error /\ Return(p, "err")
  /\ UNCHANGED <<setting, key, alive, granted, srv, client>>

\* "the service is unchanged, skip registering"
Skip(p) == register = srv /\ ~notFound[p]

Compare(p) ==
  /\ pc[p] = "compare"
  /\ IF Skip(p) THEN Return(p, "ok")
     ELSE /\ data' = [data EXCEPT ![p] = srv]
          /\ todo' = [todo EXCEPT ![p] = Node]
          /\ Goto(p, IF hasTTL THEN "grant" ELSE "put")
          /\ UNCHANGED <<result, lgr, notFound>>
  /\ UNCHANGED <<etcd, srv, client>>

\* A lease beyond MaxLeases is refused.
Grant(p) ==
  /\ pc[p] = "grant"
  /\ IF granted < MaxLeases
     THEN /\ granted' = granted + 1 /\ alive' = alive \cup {granted'}
          /\ lgr' = [lgr EXCEPT ![p] = granted']
          /\ Goto(p, "put")
          /\ UNCHANGED <<result, data, todo, notFound>>
     ELSE Return(p, "err") /\ UNCHANGED <<granted, alive>>
  /\ UNCHANGED <<setting, key, errors, srv, client>>

PutKey(p, n) == key' = [key EXCEPT ![n] = [data |-> data[p], lease |-> lgr[p]]]

\* One Put: done; or failed, perhaps after etcd has done it; or the lease is gone.
Put(p) ==
  /\ pc[p] = "put"
  /\ \E n \in todo[p] :
       \/ /\ lgr[p] = NoLease \/ lgr[p] \in alive
          /\ PutKey(p, n)
          /\ todo' = [todo EXCEPT ![p] = @ \ {n}]
          /\ Goto(p, IF todo'[p] = {} THEN "save" ELSE "put")
          /\ UNCHANGED <<errors, result, data, lgr, notFound>>
       \/ /\ putsFail /\ Error /\ Return(p, "err")
          /\ \/ (lgr[p] = NoLease \/ lgr[p] \in alive) /\ PutKey(p, n)
             \/ UNCHANGED key
       \/ /\ lgr[p] # NoLease /\ lgr[p] \notin alive
          /\ Return(p, "err") /\ UNCHANGED <<key, errors>>
  /\ UNCHANGED <<setting, alive, granted, srv, client>>

\* Mutant: the lease is not remembered.
SaveForgetsLease(p) ==
  /\ pc[p] = "save"
  /\ register' = data[p]
  /\ Return(p, "ok")
  /\ UNCHANGED <<etcd, srv, leases>>

Save(p) ==
  /\ pc[p] = "save"
  /\ register' = data[p]
  /\ leases' = IF hasTTL THEN lgr[p] ELSE leases
  /\ Return(p, "ok")
  /\ UNCHANGED <<etcd, srv>>

-----------------------------------------------------------------------------
(* Deregister *)

Clear(p) ==
  /\ pc[p] = "clear"
  /\ register' = None /\ leases' = NoLease
  /\ todo' = [todo EXCEPT ![p] = Node]
  /\ Goto(p, "delete")
  /\ UNCHANGED <<etcd, srv, result, data, lgr, notFound>>

Delete(p) ==
  /\ pc[p] = "delete"
  /\ \E n \in todo[p] :
       \/ /\ key' = [key EXCEPT ![n] = Absent]
          /\ IF todo[p] = {n} THEN Return(p, "ok")
             ELSE /\ todo' = [todo EXCEPT ![p] = @ \ {n}]
                  /\ UNCHANGED <<pc, result, data, lgr, notFound>>
          /\ UNCHANGED errors
       \/ /\ putsFail /\ Error /\ Return(p, "err")
          /\ key' = [key EXCEPT ![n] = Absent] \/ UNCHANGED key
  /\ UNCHANGED <<setting, alive, granted, srv, client>>

CallStep(p) ==
  KeepAlive(p) \/ Compare(p) \/ Grant(p) \/ Put(p) \/ Save(p) \/ Clear(p) \/ Delete(p)

\* A call begins.
Call(p, l) ==
  /\ pc[p] = "idle" /\ Goto(p, l)
  /\ result' = [result EXCEPT ![p] = "none"]
  /\ UNCHANGED <<etcd, srv, client, locals>>

=============================================================================
