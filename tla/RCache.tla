------------------------------- MODULE RCache -------------------------------
(***************************************************************************)
(* The registry cache of src/rcache, with the etcd watcher of              *)
(* src/registry/etcdv3watcher.go, for one service name: lookups that read  *)
(* the cache and fill it, watch loops that apply registry events to it,    *)
(* and Stop.                                                               *)
(*                                                                         *)
(* Every node has its own key in the registry and registers alone, so an   *)
(* event is about one node.  What a node registers is Data, which has a    *)
(* version.  The cached services are the set of <<version, node, data>>,   *)
(* where data is Deleted once update has marked the node.                  *)
(***************************************************************************)
EXTENDS Integers, Sequences, FiniteSets

CONSTANTS
  Caller, Runner,  \* goroutines in GetService; goroutines in run
  Node, Data, VersionOf,
  Absent, Deleted, NoEntry,
  TTL,             \* Options.TTL, in ticks
  MaxChanges       \* bound of the number of changes of the registry

\* What the configuration must satisfy.
CacheAssumption ==
  /\ {Absent, Deleted} \cap Data = {} /\ Absent # Deleted
  /\ TTL \in Nat \ {0} /\ MaxChanges \in Nat

VARIABLES
  reg, up, changes,       \* etcd: what is registered, whether it answers
  entry, age, watched,    \* cache[service]; ticks since its set; watched[service]
  exit,                   \* the exit channel is closed
  cpc, snap,              \* callers of GetService: place, copy in hand
  rpc, queue,             \* watch loops: place, events not yet returned by Next
  closed, closer          \* each watcher's stop channel, and who is in its Stop

regVars == <<reg, up, changes>>
cacheVars == <<entry, age, watched>>
callerVars == <<cpc, snap>>
watchVars == <<rpc, queue, closed, closer>>
vars == <<reg, up, changes, entry, age, watched, exit, cpc, snap,
          rpc, queue, closed, closer>>

Version == {VersionOf[d] : d \in Data}
Event == [action : {"create", "update", "delete"}, node : Node, data : Data]
Services == SUBSET (Version \X Node \X (Data \cup {Deleted}))
MaxAge == 2 * TTL + 1

TypeOK ==
  /\ reg \in [Node -> Data \cup {Absent}]
  /\ up \in BOOLEAN /\ changes \in 0..MaxChanges
  /\ entry \in Services \cup {NoEntry}
  /\ age \in 0..MaxAge
  /\ watched \in BOOLEAN /\ exit \in BOOLEAN
  /\ cpc \in [Caller -> {"idle", "fetch", "fill"}]
  /\ snap \in [Caller -> Services]
  /\ rpc \in [Runner -> {"none", "start", "loop", "open", "watch", "defer", "end", "done"}]
  /\ queue \in [Runner -> Seq(Event)]
  /\ closed \in [Runner -> {"open", "closed", "panic"}]
  /\ closer \in [Runner -> SUBSET {"defer", "exit"}]

Init ==
  /\ reg = [n \in Node |-> Absent] /\ up = TRUE /\ changes = 0
  /\ entry = NoEntry /\ age = 0 /\ watched = FALSE /\ exit = FALSE
  /\ cpc = [c \in Caller |-> "idle"]
  /\ snap = [c \in Caller |-> {}]
  /\ rpc = [r \in Runner |-> "none"]
  /\ queue = [r \in Runner |-> <<>>]
  /\ closed = [r \in Runner |-> "open"]
  /\ closer = [r \in Runner |-> {}]

-----------------------------------------------------------------------------
(* The registry (external) *)

\* Every watcher that is open gets the event.
Emit(e) ==
  queue' = [r \in Runner |-> IF rpc[r] = "watch" THEN Append(queue[r], e) ELSE queue[r]]

Put(n, d) ==
  /\ up /\ changes < MaxChanges /\ reg[n] # d
  /\ reg' = [reg EXCEPT ![n] = d] /\ changes' = changes + 1
  /\ Emit([action |-> IF reg[n] = Absent THEN "create" ELSE "update",
           node |-> n, data |-> d])
  /\ UNCHANGED <<up, cacheVars, exit, callerVars, rpc, closed, closer>>

\* Deregister, or the lease of the node ends.
Remove(n) ==
  /\ up /\ changes < MaxChanges /\ reg[n] # Absent
  /\ reg' = [reg EXCEPT ![n] = Absent] /\ changes' = changes + 1
  /\ Emit([action |-> "delete", node |-> n, data |-> reg[n]])
  /\ UNCHANGED <<up, cacheVars, exit, callerVars, rpc, closed, closer>>

Fail ==
  /\ up /\ changes < MaxChanges
  /\ up' = FALSE /\ changes' = changes + 1
  /\ UNCHANGED <<reg, cacheVars, exit, callerVars, watchVars>>

Recover ==
  /\ ~up /\ up' = TRUE
  /\ UNCHANGED <<reg, changes, cacheVars, exit, callerVars, watchVars>>

\* etcdv3Registry.GetService: the nodes by version.
Registered == {<<VersionOf[reg[n]], n, reg[n]>> : n \in {m \in Node : reg[m] # Absent}}

-----------------------------------------------------------------------------
(* Lookups *)

\* Mutant: an entry once cached is good for ever.
IsValidForever == entry \notin {NoEntry, {}}

\* ttls holds the time of set plus TTL, and isValid allows TTL more.
IsValid ==
  /\ entry \notin {NoEntry, {}}
  /\ age - TTL <= TTL

\* A call returns; what it answers is no state of the cache.
Return(c) ==
  /\ cpc' = [cpc EXCEPT ![c] = "idle"]
  /\ snap' = [snap EXCEPT ![c] = {}]

\* get under the read lock: served from the cache ...
GetCached(c) ==
  /\ cpc[c] = "idle" /\ IsValid
  /\ UNCHANGED vars

\* ... or the expired entry is copied, and a watch loop started if there is none.
GetExpired(c) ==
  /\ cpc[c] = "idle" /\ ~IsValid
  /\ cpc' = [cpc EXCEPT ![c] = "fetch"]
  /\ snap' = [snap EXCEPT ![c] = IF entry = NoEntry THEN {} ELSE entry]
  /\ IF watched THEN rpc' = rpc
     ELSE \E r \in Runner : rpc[r] = "none" /\ rpc' = [rpc EXCEPT ![r] = "start"]
  /\ UNCHANGED <<regVars, cacheVars, exit, queue, closed, closer>>

\* The registry answers with services, which get will cache.
Fetch(c) ==
  /\ cpc[c] = "fetch" /\ up /\ Registered # {}
  /\ snap' = [snap EXCEPT ![c] = Registered]
  /\ cpc' = [cpc EXCEPT ![c] = "fill"]
  /\ UNCHANGED <<regVars, cacheVars, exit, watchVars>>

\* The registry fails, or knows no such service: the expired entry is the answer,
\* if there is one, and an error if not.
FetchFails(c) ==
  /\ cpc[c] = "fetch" /\ (~up \/ Registered = {})
  /\ Return(c)
  /\ UNCHANGED <<regVars, cacheVars, exit, watchVars>>

Set(services) == entry' = services /\ age' = 0

Fill(c) ==
  /\ cpc[c] = "fill"
  /\ Set(snap[c])
  /\ Return(c)
  /\ UNCHANGED <<regVars, watched, exit, watchVars>>

Tick ==
  /\ entry # NoEntry /\ age < MaxAge
  /\ age' = age + 1
  /\ UNCHANGED <<regVars, entry, watched, exit, callerVars, watchVars>>

-----------------------------------------------------------------------------
(* Watch loops *)

\* Mutant: a node that has gone stays in the entry.
UpdateIgnoresDelete(e) ==
  LET v == VersionOf[e.data]
      old == {s \in entry : s[1] = v /\ s[2] = e.node}
  IN IF entry = NoEntry \/ e.action = "delete" THEN UNCHANGED <<entry, age>>
     ELSE /\ entry' = (entry \ old) \cup {<<v, e.node, e.data>>}
          /\ UNCHANGED age

\* update: a node is replaced where its version is known and lists it; a new
\* node of a known version is left out; a new version is added, and counts as
\* a fill.  A service without nodes is never registered.
Update(e) ==
  LET v == VersionOf[e.data]
      old == {s \in entry : s[1] = v /\ s[2] = e.node}
  IN IF entry = NoEntry THEN UNCHANGED <<entry, age>>
     ELSE IF e.action # "delete" /\ \A s \in entry : s[1] # v
     THEN Set(entry \cup {<<v, e.node, e.data>>})
     ELSE IF old = {} THEN UNCHANGED <<entry, age>>
     ELSE /\ entry' = (entry \ old) \cup
                      {<<v, e.node, IF e.action = "delete" THEN Deleted ELSE e.data>>}
          /\ UNCHANGED age

RunStart(r) ==
  /\ rpc[r] = "start"
  /\ watched' = TRUE
  /\ rpc' = [rpc EXCEPT ![r] = "loop"]
  /\ UNCHANGED <<regVars, entry, age, exit, callerVars, queue, closed, closer>>

\* The head of run's loop, and, after the jitter, the new watcher.
RunLoop(r) ==
  /\ rpc[r] = "loop"
  /\ rpc' = [rpc EXCEPT ![r] = IF exit THEN "end" ELSE "open"]
  /\ UNCHANGED <<regVars, cacheVars, exit, callerVars, queue, closed, closer>>

RunOpen(r) ==
  /\ rpc[r] = "open"
  /\ IF up
     THEN /\ rpc' = [rpc EXCEPT ![r] = "watch"]
          /\ queue' = [queue EXCEPT ![r] = <<>>]
          /\ closed' = [closed EXCEPT ![r] = "open"]
     ELSE /\ rpc' = [rpc EXCEPT ![r] = IF exit THEN "end" ELSE "loop"]
          /\ UNCHANGED <<queue, closed>>
  /\ UNCHANGED <<regVars, cacheVars, exit, callerVars, closer>>

\* Next returns the first event of a response and drops the others; the
\* registry may put any number of events into a response.
Next1(r) ==
  /\ rpc[r] = "watch" /\ up /\ closed[r] = "open" /\ queue[r] # <<>>
  /\ \E n \in 1..Len(queue[r]) :
       queue' = [queue EXCEPT ![r] = SubSeq(@, n + 1, Len(@))]
  /\ Update(Head(queue[r]))
  /\ UNCHANGED <<regVars, watched, exit, callerVars, rpc, closed, closer>>

\* Next fails: the registry is down, or the watcher has been stopped.
NextFails(r) ==
  /\ rpc[r] = "watch" /\ (~up \/ closed[r] # "open")
  /\ rpc' = [rpc EXCEPT ![r] = "defer"]
  /\ queue' = [queue EXCEPT ![r] = <<>>]
  /\ UNCHANGED <<regVars, cacheVars, exit, callerVars, closed, closer>>

\* etcdv3Watcher.Stop, called by watch when it returns and by the goroutine
\* that waits for exit: a look at the channel ...
StopLook(r, who) ==
  /\ IF who = "defer" THEN rpc[r] = "defer" ELSE exit /\ rpc[r] \in {"watch", "defer"}
  /\ closed[r] = "open" /\ who \notin closer[r]
  /\ closer' = [closer EXCEPT ![r] = @ \cup {who}]
  /\ UNCHANGED <<regVars, cacheVars, exit, callerVars, rpc, queue, closed>>

\* ... and the close, which panics if the other one was faster.
StopClose(r, who) ==
  /\ who \in closer[r] /\ closed[r] # "panic"
  /\ closed' = [closed EXCEPT ![r] = IF @ = "open" THEN "closed" ELSE "panic"]
  /\ closer' = [closer EXCEPT ![r] = @ \ {who}]
  /\ UNCHANGED <<regVars, cacheVars, exit, callerVars, rpc, queue>>

\* watch has returned; run goes round (its back-off is time only) or leaves.
WatchReturns(r) ==
  /\ rpc[r] = "defer" /\ closed[r] = "closed" /\ closer[r] = {}
  /\ rpc' = [rpc EXCEPT ![r] = IF exit THEN "end" ELSE "loop"]
  /\ UNCHANGED <<regVars, cacheVars, exit, callerVars, queue, closed, closer>>

RunEnd(r) ==
  /\ rpc[r] = "end"
  /\ watched' = FALSE
  /\ rpc' = [rpc EXCEPT ![r] = "done"]
  /\ UNCHANGED <<regVars, entry, age, exit, callerVars, queue, closed, closer>>

Stop ==
  /\ ~exit /\ exit' = TRUE
  /\ UNCHANGED <<regVars, cacheVars, callerVars, watchVars>>

-----------------------------------------------------------------------------
Registry == Fail \/ Recover \/ \E n \in Node : Remove(n) \/ \E d \in Data : Put(n, d)

Lookup(c) == GetCached(c) \/ GetExpired(c) \/ Fetch(c) \/ FetchFails(c) \/ Fill(c)

WatchLoop(r) ==
  \/ RunStart(r) \/ RunLoop(r) \/ RunOpen(r) \/ Next1(r) \/ NextFails(r)
  \/ WatchReturns(r) \/ RunEnd(r)
  \/ \E who \in {"defer", "exit"} : StopLook(r, who) \/ StopClose(r, who)

Next ==
  \/ Registry \/ Tick \/ Stop
  \/ \E c \in Caller : Lookup(c)
  \/ \E r \in Runner : WatchLoop(r)

Spec == Init /\ [][Next]_vars

\* Goroutines run, time passes and the registry comes back; nobody has to call.
Fairness ==
  /\ WF_vars(Tick) /\ WF_vars(Recover)
  /\ \A c \in Caller : WF_vars(Fetch(c) \/ FetchFails(c) \/ Fill(c))
  /\ \A r \in Runner : WF_vars(WatchLoop(r))

FairSpec == Spec /\ Fairness

-----------------------------------------------------------------------------
(* Properties *)

Alive(services) == {s \in services : s[3] # Deleted}

Agrees == Alive(entry) \subseteq Registered

(***************************************************************************)
(* However lookups, events and failures interleave (an event lost in the   *)
(* gap before the watch, a slow lookup that overwrites what an event has   *)
(* changed), once the registry is quiet a lookup served from the cache     *)
(* ends up offering only nodes that are registered, as they are.           *)
(***************************************************************************)
CacheConverges == <>[](IsValid => Agrees)

(***************************************************************************)
(* After Stop every watch loop comes to its end, whatever it was doing.    *)
(***************************************************************************)
StopEndsWatching == 
  []<>(exit => \A r \in Runner : rpc[r] \in {"none", "done"} \/ closed[r] = "panic")

Offered(services) == {<<s[2], s[3]>> : s \in Alive(services)}

(***************************************************************************)
(* A node that a delete event has marked is not offered again by the cache *)
(* until the registry has been asked or an event has brought it back: no   *)
(* update for another node revives it.                                     *)
(***************************************************************************)
DeletedStaysDeleted ==
  [][\A r \in Runner : Next1(r) /\ entry # NoEntry =>
       LET e == Head(queue[r])
       IN /\ e.action = "delete" => <<e.node, e.data>> \notin Offered(entry')
          /\ Offered(entry') \subseteq Offered(entry) \cup {<<e.node, e.data>>}]_vars

(***************************************************************************)
(* rcache.go:25: Stop is to "stop the cache watcher".  It ends no process: *)
(* a watcher whose Next has just failed is closed by watch and by the      *)
(* goroutine that waited for exit, and a second close panics.              *)
(***************************************************************************)
StopDoesNotPanic == \A r \in Runner : closed[r] # "panic"
=============================================================================
