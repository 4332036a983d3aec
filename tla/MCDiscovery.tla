---------------------------- MODULE MCDiscovery ----------------------------
(***************************************************************************)
(* Service discovery for TLC: the service that registers (ServiceLife),    *)
(* the cache of the registry, the status a node publishes and the requests *)
(* that pick a node, each with variables of its own; etcd stands between   *)
(* them in each model.  The initial state picks the model that moves       *)
(* (part) while the others stay as they were made.  The bounds, from the   *)
(* configuration: the registry changes three times (create, delete and     *)
(* create again behind a slow lookup); the service gets three leases (a    *)
(* lost one, its successor and one more lost) and one failed request; of   *)
(* three owners one sends heartbeats, one reports its load, one does both, *)
(* with the limits 2 and 1; requests pick from lists of one to three nodes *)
(* of which one may stop or come back.                                     *)
(***************************************************************************)
EXTENDS ServiceLife, Sequences, FiniteSets

CONSTANTS a, b, v1, v2,  \* two data of two versions
          n1, n2, n3     \* nodes that are picked

CONSTANTS Key, Content, Caller, Runner, VersionOf, Unset, Deleted, NoEntry, TTL,
          CacheChanges,                                                    \* RCache
          Owner, Reporting, Pushing, MaxCalls, Weights, HbMax, HealthChanges,  \* NodeHealth
          Nodes, Requests, Period, NodeChanges                             \* Balance

VARIABLES
  cReg, cUp, cChanges, cEntry, cAge, cWatched, cExit, cCpc, cSnap,
  cRpc, cQueue, cClosed, cCloser,
  hMeta, hPushed, hMonitor, hHashed, hLease, hFresh, hReg, hChanges, hLastW,
  bStrategy, bUp, bReg, bCache, bKey, bPc, bList, bTries, bPicked, bChanges, bTried, bAlone

cacheVars == <<cReg, cUp, cChanges, cEntry, cAge, cWatched, cExit, cCpc, cSnap,
               cRpc, cQueue, cClosed, cCloser>>
healthVars == <<hMeta, hPushed, hMonitor, hHashed, hLease, hFresh, hReg, hChanges, hLastW>>
balanceVars == <<bStrategy, bUp, bReg, bCache, bKey, bPc, bList, bTries, bPicked,
                 bChanges, bTried, bAlone>>

Cache == INSTANCE RCache WITH
  Node <- Key, Data <- Content, Absent <- Unset, MaxChanges <- CacheChanges,
  reg <- cReg, up <- cUp, changes <- cChanges, entry <- cEntry, age <- cAge,
  watched <- cWatched, exit <- cExit, cpc <- cCpc, snap <- cSnap, rpc <- cRpc,
  queue <- cQueue, closed <- cClosed, closer <- cCloser

Health == INSTANCE NodeHealth WITH
  Node <- Owner, MaxChanges <- HealthChanges,
  meta <- hMeta, pushed <- hPushed, monitor <- hMonitor, hashed <- hHashed,
  lease <- hLease, fresh <- hFresh, reg <- hReg, changes <- hChanges, lastW <- hLastW

Picks == INSTANCE Balance WITH
  MaxChanges <- NodeChanges,
  strategy <- bStrategy, up <- bUp, reg <- bReg, cache <- bCache, selectKey <- bKey,
  pc <- bPc, list <- bList, tries <- bTries, picked <- bPicked, changes <- bChanges,
  tried <- bTried, alone <- bAlone

VARIABLE part

parts == <<part, vars, cacheVars, healthVars, balanceVars>>

VersionOfData == [d \in {a, b} |-> IF d = a THEN v1 ELSE v2]
NodeList == <<n1, n2, n3>>

\* What the modules assume of their constants.
ASSUME Legal ==
  Cache!CacheAssumption /\ RegistryAssumption /\ ProcsAssumption /\ Health!HealthAssumption

\* One or all of the servers answer at the start.
MCInit ==
  /\ part \in {"cache", "life", "health", "balance"}
  /\ Init /\ Cache!Init /\ Health!Init /\ Picks!Init
  /\ part # "life" => hasTTL /\ putsFail /\ srv = a
  /\ part # "balance" => bStrategy = "random" /\ bUp = {}
  /\ part = "balance" => bUp \in {{n1}, {n1, n2, n3}}

CacheNext == part = "cache" /\ Cache!Next /\ UNCHANGED <<part, vars, healthVars, balanceVars>>
LifeNext == part = "life" /\ Next /\ UNCHANGED <<part, cacheVars, healthVars, balanceVars>>
HealthNext == part = "health" /\ Health!Next /\ UNCHANGED <<part, vars, cacheVars, balanceVars>>
PicksNext == part = "balance" /\ Picks!Next /\ UNCHANGED <<part, vars, cacheVars, healthVars>>
MCNext == CacheNext \/ LifeNext \/ HealthNext \/ PicksNext

\* The fairness of RCache, ServiceLife, NodeHealth and Balance.
MCFairness ==
  /\ WF_cacheVars(part = "cache" /\ Cache!Tick)
  /\ WF_cacheVars(part = "cache" /\ Cache!Recover)
  /\ \A c \in Caller :
       WF_cacheVars(part = "cache" /\ (Cache!Fetch(c) \/ Cache!FetchFails(c) \/ Cache!Fill(c)))
  /\ \A r \in Runner : WF_cacheVars(part = "cache" /\ Cache!WatchLoop(r))
  /\ WF_vars(part = "life" /\ (Start \/ Registered \/ Deregistered))
  /\ WF_vars(part = "life" /\ (LoopTick \/ LoopRegistered \/ LoopExit))
  /\ SF_vars(part = "life" /\ LoopExit)
  /\ \A p \in Proc : WF_vars(part = "life" /\ Step(p))
  /\ \A l \in 1..MaxLeases :
       WF_vars(/\ part = "life" /\ mpc = "returned" /\ lpc \in {"none", "ended"}
               /\ LeaseExpires(l) /\ UNCHANGED lifeVars)
  /\ WF_healthVars(part = "health" /\ Health!heartbeat)
  /\ \A n \in Owner : WF_healthVars(part = "health" /\ Health!RegisterLoop(n))
  /\ WF_balanceVars(part = "balance" /\ \E n \in {n1, n2, n3} : Picks!Update(n))
  /\ \A r \in Requests : WF_balanceVars(part = "balance" /\ Picks!Request(r))

MCSpec == MCInit /\ [][MCNext]_parts /\ MCFairness

-----------------------------------------------------------------------------
(* Made of what the modules explain. *)

(***************************************************************************)
(* rcache: no event for another node revives one that a delete event has   *)
(* marked, and none brings back the node it deletes.                       *)
(***************************************************************************)
DeletedStaysDeleted == []Cache!TypeOK /\ Cache!DeletedStaysDeleted

(***************************************************************************)
(* monitor: the status of a node that reports its load without heartbeats  *)
(* moves only when the load has crossed the whole band between the limits. *)
(***************************************************************************)
NoFlapping == []Health!TypeOK /\ Health!NoFlapping

(***************************************************************************)
(* selector, web: a request that fails has tried as many different nodes   *)
(* as it may, unless another picked in between.                            *)
(***************************************************************************)
TriesDifferentNodes == Picks!TypeOK /\ Picks!TriesDifferentNodes

(***************************************************************************)
(* rcache: however lookups, events and failures interleave, once the       *)
(* registry is quiet the cache offers only what is registered; and after   *)
(* Stop every watch loop ends, whatever it was doing.                      *)
(***************************************************************************)
CacheConverges == Cache!CacheConverges /\ Cache!StopEndsWatching

(***************************************************************************)
(* service-wrapper: a key lost with its lease is put back while the loop   *)
(* runs, and after Run the keys are gone for good.                         *)
(***************************************************************************)
KeysFollowService == LostKeyComesBack /\ GoneInTheEnd

(***************************************************************************)
(* monitor: the status an owner computes is published, and a node that     *)
(* sends heartbeats comes back, whoever deregistered it.                   *)
(***************************************************************************)
HealthIsPublished == Health!HeartbeatRestores /\ Health!StatusIsPublished

(***************************************************************************)
(* selector, web: nodes that fail are no longer picked while a healthy one *)
(* answers.                                                                *)
(***************************************************************************)
FailuresEnd == Picks!FailuresEnd

(***************************************************************************)
(* rcache.go:25: Stop is to "stop the cache watcher" and ends no process.  *)
(***************************************************************************)
StopDoesNotPanic == Cache!StopDoesNotPanic
=============================================================================
