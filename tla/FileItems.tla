----------------------------- MODULE FileItems -----------------------------
(***************************************************************************)
(* util/mem/cache: a table of items whose data lives in files.  An item    *)
(* has a data file and an index file holding its creation time.  A caller  *)
(* adds, deletes and flushes; expirationCheck runs on a timer; the process *)
(* may crash between any two file operations and reload the directory.     *)
(***************************************************************************)
EXTENDS Integers

CONSTANTS Keys, None,
          LifeSpan,   \* life of every item, in ticks
          MaxTime,    \* bound: clock
          MaxCrashes  \* bound: crashes

VARIABLES
    up,       \* "up", "down", "loading"
    data,     \* data file: None, "partial", "whole"
    idx,      \* index file: None, or the creation time it holds
    items,    \* the sync.Map: None or the item's accessedOn
    clock,
    pc, key, born,  \* the caller: its step, key and NewFileItem's time.Now()
    exp,      \* expirationCheck: "off", "armed", or the step of a running check
    todo,     \* keys the check found outdated
    kept,     \* keys whose data file aboutToExpire asked to keep
    stray,    \* keys whose entry left the table before their index file
    toLoad,   \* keys LoadFileItems has still to visit
    crashes

disk == <<data, idx>>
caller == <<pc, key, born>>
vars == <<up, data, idx, items, clock, pc, key, born, exp, todo, kept, stray, toLoad, crashes>>

Expired(t) == clock - t >= LifeSpan
\* An index file that was created and not written: its text does not parse and leaves
\* the zero time, outdated at any clock.
ZeroTime == -LifeSpan

Init ==
    /\ up = "up" /\ data = [k \in Keys |-> None] /\ idx = [k \in Keys |-> None]
    /\ items = [k \in Keys |-> None] /\ clock = 0
    /\ pc = "idle" /\ key = None /\ born = None
    /\ exp = "armed" /\ todo = {} /\ kept = {} /\ stray = {} /\ toLoad = {} /\ crashes = 0

Set(f, k, v) == [f EXCEPT ![k] = v]
\* Entries ks leave the table.
Leave(ks) == stray' = stray \cup {k \in ks : idx[k] # None}
Done == pc' = "idle" /\ key' = None /\ born' = None

----------------------------------------------------------------------------
\* Add, AddUnsafe and NotFoundAdd: the table is looked up first, then NewFileItem
\* writes the data file, the index file, and addInternal stores the item.

AddUnsafe(k) ==
    /\ up = "up" /\ pc = "idle" /\ items[k] = None
    /\ key' = k /\ born' = clock /\ pc' = "createData"
    /\ UNCHANGED <<up, disk, items, clock, exp, todo, kept, stray, toLoad, crashes>>

\* Mutant: the index file is created first.
CreateDataIndexFirst ==
    /\ pc = "createData"
    /\ \/ data' = Set(data, key, "partial") /\ pc' = "createIdx" /\ kept' = kept \ {key}
          /\ UNCHANGED <<key, born>>
       \/ Done /\ UNCHANGED <<data, kept>>
    /\ UNCHANGED <<up, idx, items, clock, exp, todo, stray, toLoad, crashes>>

CreateData ==
    /\ pc = "createData"
    /\ \/ data' = Set(data, key, "partial") /\ pc' = "writeData" /\ kept' = kept \ {key}
          /\ UNCHANGED <<key, born>>
       \/ Done /\ UNCHANGED <<data, kept>>
    /\ UNCHANGED <<up, idx, items, clock, exp, todo, stray, toLoad, crashes>>

\* A file unlinked meanwhile stays unlinked: the descriptor writes to no name.
WriteData ==
    /\ pc = "writeData"
    /\ \/ /\ data' = IF data[key] = None THEN data ELSE Set(data, key, "whole")
          /\ pc' = "createIdx" /\ UNCHANGED <<key, born>>
       \/ data' = Set(data, key, None) /\ Done
    /\ UNCHANGED <<up, idx, items, clock, exp, todo, kept, stray, toLoad, crashes>>

CreateIdx ==
    /\ pc = "createIdx"
    /\ \/ /\ idx' = Set(idx, key, ZeroTime) /\ stray' = stray \ {key}
          /\ pc' = "writeIdx" /\ UNCHANGED <<data, key, born>>
       \/ data' = Set(data, key, None) /\ Done /\ UNCHANGED <<idx, stray>>
    /\ UNCHANGED <<up, items, clock, exp, todo, kept, toLoad, crashes>>

WriteIdx ==
    /\ pc = "writeIdx"
    /\ \/ /\ idx' = IF idx[key] = None THEN idx ELSE Set(idx, key, born)
          /\ pc' = "store" /\ UNCHANGED <<data, key, born>>
       \/ data' = Set(data, key, None) /\ idx' = Set(idx, key, None) /\ Done
    /\ UNCHANGED <<up, items, clock, exp, todo, kept, stray, toLoad, crashes>>

addInternal ==
    /\ pc = "store"
    /\ items' = Set(items, key, born) /\ Done
    /\ UNCHANGED <<up, disk, clock, exp, todo, kept, stray, toLoad, crashes>>

----------------------------------------------------------------------------
\* Delete: FileItem.delete removes the data file, then the index file; then the
\* entry leaves the table.
Delete(k) ==
    /\ up = "up" /\ pc = "idle" /\ items[k] # None
    /\ key' = k /\ pc' = "rmData" /\ UNCHANGED born
    /\ UNCHANGED <<up, disk, items, clock, exp, todo, kept, stray, toLoad, crashes>>
\* aboutToDelete may ask to keep the data file.
RemoveData ==
    /\ pc = "rmData" /\ pc' = "rmIdx"
    /\ \/ data' = Set(data, key, None) /\ UNCHANGED kept
       \/ kept' = kept \cup {key} /\ UNCHANGED data
    /\ UNCHANGED <<up, idx, items, clock, key, born, exp, todo, stray, toLoad, crashes>>
RemoveIdx ==
    /\ pc = "rmIdx" /\ idx' = Set(idx, key, None) /\ pc' = "rmItem"
    /\ UNCHANGED <<up, data, items, clock, key, born, exp, todo, kept, stray, toLoad, crashes>>
RemoveItem ==
    /\ pc = "rmItem" /\ items' = Set(items, key, None) /\ Leave({key}) /\ Done
    /\ UNCHANGED <<up, disk, clock, exp, todo, kept, toLoad, crashes>>

\* Flush forgets the items and stops the timer; a check that is running goes on.
Flush ==
    /\ up = "up" /\ pc = "idle" /\ items # [k \in Keys |-> None]
    /\ items' = [k \in Keys |-> None]
    /\ exp' = IF exp = "armed" THEN "off" ELSE exp
    /\ Leave({k \in Keys : items[k] # None})
    /\ UNCHANGED <<up, disk, clock, caller, todo, kept, toLoad, crashes>>

----------------------------------------------------------------------------
\* expirationCheck: collect the outdated keys, delete them one by one, arm the timer.
\* deleteInternal looks the key up again but not its age.
expirationCheck ==
    /\ up = "up" /\ exp = "armed"
    /\ todo' = {k \in Keys : items[k] # None /\ Expired(items[k])}
    /\ exp' = "check"
    /\ UNCHANGED <<up, disk, items, clock, caller, kept, stray, toLoad, crashes>>

Victim == CHOOSE k \in todo : TRUE
deleteInternal ==
    /\ exp = "check" /\ todo # {}
    /\ IF items[Victim] = None
       THEN todo' = todo \ {Victim} /\ UNCHANGED <<exp, kept, data>>
       ELSE \/ data' = Set(data, Victim, None) /\ exp' = "idx" /\ UNCHANGED <<kept, todo>>
            \/ kept' = kept \cup {Victim} /\ exp' = "idx" /\ UNCHANGED <<data, todo>>
            \* aboutToExpire panics: recovered, and the timer is not armed again
            \/ exp' = "off" /\ todo' = {} /\ UNCHANGED <<kept, data>>
    /\ UNCHANGED <<up, idx, items, clock, caller, stray, toLoad, crashes>>
ExpireIdx ==
    /\ exp = "idx" /\ idx' = Set(idx, Victim, None) /\ exp' = "item"
    /\ UNCHANGED <<up, data, items, clock, caller, todo, kept, stray, toLoad, crashes>>
ExpireItem ==
    /\ exp = "item" /\ items' = Set(items, Victim, None) /\ exp' = "check"
    /\ todo' = todo \ {Victim} /\ Leave({Victim})
    /\ UNCHANGED <<up, disk, clock, caller, kept, toLoad, crashes>>
Rearm ==
    /\ exp = "check" /\ todo = {} /\ exp' = "armed"
    /\ UNCHANGED <<up, disk, items, clock, caller, todo, kept, stray, toLoad, crashes>>

----------------------------------------------------------------------------
\* The process dies; memory is lost, files stay.
Crash ==
    /\ up # "down" /\ crashes < MaxCrashes /\ crashes' = crashes + 1
    /\ up' = "down" /\ items' = [k \in Keys |-> None] /\ Done
    /\ exp' = "off" /\ todo' = {} /\ toLoad' = {}
    /\ UNCHANGED <<disk, clock, kept, stray>>
Restart ==
    /\ up = "down" /\ up' = "loading"
    /\ toLoad' = {k \in Keys : data[k] # None \/ idx[k] # None}
    /\ UNCHANGED <<disk, items, clock, caller, exp, todo, kept, stray, crashes>>

\* LoadFileItem: both files are there and the index gives the item its time.
LoadFileItem(k) == data[k] # None /\ idx[k] # None

\* A file without its partner is removed.
RemoveOrphan(k) ==
    /\ ~LoadFileItem(k)
    /\ data' = Set(data, k, None) /\ idx' = Set(idx, k, None)
    /\ kept' = kept \ {k} /\ UNCHANGED items
\* A pair becomes an item, unless it is outdated: then it is deleted, and
\* aboutToExpire decides over the data file.
AddFromFile(k) ==
    /\ LoadFileItem(k)
    /\ \/ /\ Expired(idx[k]) /\ idx' = Set(idx, k, None) /\ UNCHANGED items
          /\ \/ data' = Set(data, k, None) /\ UNCHANGED kept
             \/ kept' = kept \cup {k} /\ UNCHANGED data
       \/ ~Expired(idx[k]) /\ items' = Set(items, k, idx[k]) /\ UNCHANGED <<disk, kept>>
\* The loop of LoadFileItems over the files found, one key at a time.
LoadKey(k) ==
    /\ up = "loading" /\ k \in toLoad /\ toLoad' = toLoad \ {k}
    /\ RemoveOrphan(k) \/ AddFromFile(k)
    /\ UNCHANGED <<up, clock, caller, exp, todo, stray, crashes>>
\* The check starts when LoadFileItems returns.
Loaded ==
    /\ up = "loading" /\ toLoad = {} /\ up' = "up" /\ exp' = "armed"
    /\ UNCHANGED <<disk, items, clock, caller, todo, kept, stray, toLoad, crashes>>

Tick ==
    /\ clock < MaxTime /\ clock' = clock + 1
    /\ UNCHANGED <<up, disk, items, caller, exp, todo, kept, stray, toLoad, crashes>>

Check == expirationCheck \/ deleteInternal \/ ExpireIdx \/ ExpireItem \/ Rearm
Caller == CreateData \/ WriteData \/ CreateIdx \/ WriteIdx \/ addInternal
              \/ RemoveData \/ RemoveIdx \/ RemoveItem
Load == Restart \/ Loaded \/ \E k \in Keys : LoadKey(k)
Next == Check \/ Caller \/ Load \/ Crash \/ Tick \/ Flush
            \/ \E k \in Keys : AddUnsafe(k) \/ Delete(k)

\* The timer fires, goroutines run, and a process that died is started again.
Fairness == WF_vars(Check) /\ WF_vars(Caller) /\ WF_vars(Load)
Spec == Init /\ [][Next]_vars /\ Fairness

----------------------------------------------------------------------------
TypeOK ==
    /\ up \in {"up", "down", "loading"} /\ clock \in 0 .. MaxTime
    /\ data \in [Keys -> {None, "partial", "whole"}]
    /\ \A k \in Keys : /\ idx[k] \in {None, ZeroTime} \cup 0 .. MaxTime
                       /\ items[k] \in {None} \cup 0 .. MaxTime
    /\ exp \in {"off", "armed", "check", "idx", "item"}
    /\ todo \subseteq Keys /\ toLoad \subseteq Keys

\* Whatever the moment of the crash, an item that a restart loads has its whole data
\* file: the order data file, index file in createAndStoreToFile.  The exception is a
\* key whose entry left the table before its index file did (Flush, or a check that
\* deletes an entry added after it looked): adding it again overwrites the data file
\* beside the old index file.
LoadedIsWhole ==
    [][\A k \in Keys : up = "loading" /\ items[k] = None /\ items'[k] # None
           => data[k] = "whole" \/ k \in stray]_vars

\* After a reload the directory and the table agree: an index file for exactly the
\* items, a data file for them and for those aboutToExpire kept.
DirectoryMatchesTable ==
    up = "loading" /\ toLoad = {} =>
        \A k \in Keys : /\ (idx[k] # None) = (items[k] # None)
                        /\ data[k] # None => items[k] # None \/ k \in kept
                        /\ items[k] # None => data[k] # None

\* An outdated item leaves the table as long as checks go on: the timer is armed again
\* by every check that ends.  Flush and a panic in aboutToExpire end the checks.
OutdatedItemsGo ==
    \A k \in Keys :
        []<>(items[k] = None \/ ~Expired(items[k]) \/ exp = "off" \/ up # "up")
=============================================================================
