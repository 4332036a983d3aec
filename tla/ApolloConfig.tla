---------------------------- MODULE ApolloConfig ----------------------------
(***************************************************************************)
(* apollo-config: the client of a configuration server.  It polls for the  *)
(* notification id of its namespace, fetches the configuration when that   *)
(* changed, updates its cache, tells a listener what changed and keeps a   *)
(* backup file, from which it starts when the server cannot be reached.    *)
(* Requests go to the configured host or, for a while after that failed,   *)
(* to the servers it listed.                                               *)
(*                                                                         *)
(* A configuration gives each key a value, or 0 when the key is absent.    *)
(* The server's release number stands for both its notification id and     *)
(* its release key.                                                        *)
(***************************************************************************)
EXTENDS Naturals, Sequences, FiniteSets

CONSTANTS Keys, Values,  \* Values do not contain 0
          Nodes,         \* hosts of the server list
          MaxReleases, MaxFaults, MaxRestarts

VARIABLES
    release, conf,     \* the server: release number and configuration
    notif, relKey,     \* the client: notification id and release key it knows
    cache,
    pc,                \* "start", "notify", "fetch", "push", "load", "idle"
    first,             \* in StartApolloClient
    next,              \* what the update in progress is about: release, configuration, origin
    chan, view,        \* notifyChan, capacity 1, and the listener's own copy
    file, writes,      \* backup file; configurations on their way to it
    direct,            \* isConnectDirectly: the configured host failed lately
    down,              \* servers with IsDown, or not listed yet
    faults, restarts,
    missed, expired    \* ghosts: a fetch after a notification failed; an entry expired

serverVars == <<release, conf>>
hostVars == <<direct, down, faults>>
fileVars == <<file, writes>>
vars == <<serverVars, notif, relKey, cache, pc, first, next, chan, view, fileVars, hostVars,
          restarts, missed, expired>>

Empty == [k \in Keys |-> 0]
Nothing == [rel |-> 0, conf |-> Empty, backup |-> FALSE]
Confs == [Keys -> Values \cup {0}]

Client ==
    /\ notif = 0 /\ relKey = 0 /\ cache = Empty /\ pc = "start" /\ first = TRUE
    /\ next = Nothing /\ chan = <<>> /\ view = Empty /\ writes = {}
    /\ direct = FALSE /\ down = Nodes /\ missed = FALSE /\ expired = FALSE
Init ==
    /\ release = 1 /\ conf \in [Keys -> Values] /\ file = Nothing
    /\ Client /\ faults = 0 /\ restarts = 0

----------------------------------------------------------------------------
Publish ==
    /\ release < MaxReleases /\ release' = release + 1
    /\ conf' \in Confs \ {conf}
    /\ UNCHANGED <<notif, relKey, cache, pc, first, next, chan, view, fileVars, hostVars,
                   restarts, missed, expired>>

\* requestRecovery: selectHost, request with its retries, setDownNode on failure.
Available == ~direct \/ down # Nodes
setDownNode ==
    /\ faults < MaxFaults /\ faults' = faults + 1 /\ Available
    /\ IF ~direct THEN direct' = TRUE /\ UNCHANGED down
                  ELSE (\E n \in Nodes \ down : down' = down \cup {n}) /\ UNCHANGED direct
\* next_try_connect_period passes; the list of servers is fetched again from the host.
NextTry ==
    /\ direct /\ direct' = FALSE
    /\ UNCHANGED <<serverVars, notif, relKey, cache, pc, first, next, chan, view, fileVars,
                   down, faults, restarts, missed, expired>>
syncServerIpList ==
    /\ down # {} /\ down' = {}
    /\ UNCHANGED <<serverVars, notif, relKey, cache, pc, first, next, chan, view, fileVars,
                   direct, faults, restarts, missed, expired>>

\* StartApolloClient, and each tick of the poll: notifyRemoteConfig.
Poll ==
    /\ pc \in {"start", "idle"} /\ pc' = "notify"
    /\ UNCHANGED <<serverVars, notif, relKey, cache, first, next, chan, view, fileVars,
                   hostVars, restarts, missed, expired>>
notifyRemoteConfig ==
    /\ pc = "notify"
    /\ \/ setDownNode /\ UNCHANGED <<notif, pc, first>>
       \/ /\ Available /\ release # notif  \* updateAllNotifications
          /\ notif' = release /\ pc' = "fetch" /\ UNCHANGED <<first, hostVars>>
       \/ /\ Available /\ release = notif  \* 304: touchApolloConfigCache
          /\ pc' = "idle" /\ first' = FALSE /\ UNCHANGED <<notif, hostVars>>
       \/ /\ ~Available
          /\ pc' = IF first THEN "load" ELSE "idle"
          /\ UNCHANGED <<notif, first, hostVars>>
    /\ UNCHANGED <<serverVars, relKey, cache, next, chan, view, fileVars, restarts, missed, expired>>

\* Mutant: removed keys are not announced.
UpdateNoRemovals(rel, c, backup) ==
    /\ cache' = c /\ pc' = "push"
    /\ next' = [rel |-> rel, conf |-> [k \in Keys |-> IF c[k] # cache[k] /\ c[k] # 0 THEN 1 ELSE 0],
                backup |-> backup]

\* updateApolloConfigCache: the new entries, and the change of every key that differs.
Update(rel, c, backup) ==
    /\ cache' = c /\ next' = [rel |-> rel, conf |-> [k \in Keys |-> IF c[k] # cache[k] THEN 1 ELSE 0],
                              backup |-> backup]
    /\ pc' = "push"

\* autoSyncConfigServices: its error is dropped, and notifySyncConfigServices returns nil.
autoSyncConfigServices ==
    /\ pc = "fetch"
    /\ \/ setDownNode /\ UNCHANGED <<cache, next, pc, first, missed>>
       \/ /\ Available /\ release # relKey
          /\ Update(release, conf, TRUE) /\ missed' = FALSE /\ UNCHANGED <<first, hostVars>>
       \/ /\ Available /\ release = relKey
          /\ pc' = "idle" /\ first' = FALSE /\ missed' = FALSE /\ UNCHANGED <<cache, next, hostVars>>
       \/ /\ ~Available
          /\ pc' = "idle" /\ first' = FALSE /\ missed' = TRUE /\ UNCHANGED <<cache, next, hostVars>>
    /\ UNCHANGED <<serverVars, notif, relKey, chan, view, fileVars, restarts, expired>>

\* First sync failed: the backup file.
loadConfigFile ==
    /\ pc = "load"
    /\ IF file.rel = 0
       THEN pc' = "idle" /\ first' = FALSE /\ UNCHANGED <<cache, next>>
       ELSE Update(file.rel, file.conf, FALSE) /\ UNCHANGED first
    /\ UNCHANGED <<serverVars, notif, relKey, chan, view, fileVars, hostVars, restarts, missed, expired>>

Changed == {k \in Keys : next.conf[k] = 1}
Event == [k \in Changed |-> cache[k]]
\* PushChangeEvent, when something changed, waits for room; then the release key, and the
\* goroutine that writes the backup.
PushChangeEvent ==
    /\ pc = "push" /\ (Changed # {} => Len(chan) < 1)
    /\ chan' = IF Changed = {} THEN chan ELSE Append(chan, Event)
    /\ relKey' = next.rel /\ pc' = "idle" /\ first' = FALSE
    /\ writes' = IF next.backup THEN writes \cup {[rel |-> next.rel, conf |-> cache, backup |-> TRUE]} ELSE writes
    /\ next' = Nothing
    /\ UNCHANGED <<serverVars, notif, cache, view, file, hostVars, restarts, missed, expired>>
writeConfigFile(w) ==
    /\ w \in writes /\ file' = w /\ writes' = writes \ {w}
    /\ UNCHANGED <<serverVars, notif, relKey, cache, pc, first, next, chan, view, hostVars,
                   restarts, missed, expired>>

\* The application receives from ListenChangeEvent and applies the changes.
Listen ==
    /\ chan # <<>> /\ chan' = Tail(chan)
    /\ view' = [k \in Keys |-> IF k \in DOMAIN Head(chan) THEN Head(chan)[k] ELSE view[k]]
    /\ UNCHANGED <<serverVars, notif, relKey, cache, pc, first, next, fileVars, hostVars,
                   restarts, missed, expired>>

\* An entry that no poll touched for configCacheExpireTime is gone from the cache.
Expire(k) ==
    /\ pc = "idle" /\ cache[k] # 0 /\ faults < MaxFaults /\ faults' = faults + 1
    /\ cache' = [cache EXCEPT ![k] = 0] /\ expired' = TRUE
    /\ UNCHANGED <<serverVars, notif, relKey, pc, first, next, chan, view, fileVars, direct, down,
                   restarts, missed>>

\* The process ends and starts again: only the file is left.
Restart ==
    /\ restarts < MaxRestarts /\ restarts' = restarts + 1
    /\ notif' = 0 /\ relKey' = 0 /\ cache' = Empty /\ pc' = "start" /\ first' = TRUE
    /\ next' = Nothing /\ chan' = <<>> /\ view' = Empty /\ writes' = {}
    /\ direct' = FALSE /\ down' = Nodes /\ missed' = FALSE /\ expired' = FALSE
    /\ UNCHANGED <<serverVars, file, faults>>

PollStep == Poll \/ notifyRemoteConfig \/ autoSyncConfigServices \/ loadConfigFile \/ PushChangeEvent
Write == \E w \in writes : writeConfigFile(w)
Next ==
    \/ Publish \/ NextTry \/ syncServerIpList \/ PollStep \/ Write \/ Listen \/ Restart
    \/ \E k \in Keys : Expire(k)

\* Ticks come, time passes, goroutines run and the application listens.
Fairness == WF_vars(PollStep) /\ WF_vars(NextTry) /\ WF_vars(Write) /\ WF_vars(Listen)
Spec == Init /\ [][Next]_vars /\ Fairness

----------------------------------------------------------------------------
TypeOK ==
    /\ conf \in Confs /\ cache \in Confs /\ view \in Confs
    /\ notif \in 0 .. release /\ relKey \in 0 .. release
    /\ pc \in {"start", "notify", "fetch", "push", "load", "idle"}
    /\ Len(chan) <= 1 /\ down \subseteq Nodes

Applied(v, es) ==
    LET step(k) == IF es # <<>> /\ k \in DOMAIN Head(es) THEN Head(es)[k] ELSE v[k]
    IN [k \in Keys |-> step(k)]
\* The changes pushed so far, those still in the channel included, turn an empty
\* configuration into the cache: the listener misses none and sees none twice, unless an
\* entry expired, which nobody is told.
ListenerTracksCache ==
    ~expired => \A k \in Keys : Applied(view, chan)[k] = cache[k] \/ (pc = "push" /\ k \in Changed)

\* The client ends up with the server's last release, however often requests fail, unless
\* the fetch that followed a notification failed: its id is recorded by then and the next
\* poll is told that nothing changed.  (An entry that expired does not come back either.)
UpToDate == (relKey = release /\ cache = conf) \/ missed \/ expired
GetsLastRelease == <>[]UpToDate

\* The release key and the cache belong together: what is cached is the configuration of
\* that release as long as the server has no later one and no update is under way.
KeyMatchesCache == relKey = release /\ pc # "push" /\ ~expired => cache = conf
=============================================================================
