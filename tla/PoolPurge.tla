----------------------------- MODULE PoolPurge -----------------------------
(***************************************************************************)
(* The scavengers of a gpool.Pool.  A scavenger takes the expired workers  *)
(* off the stack under the pool lock and notifies them outside it, reading *)
(* them from wq.expiry, a slice that the next retrieveExpiry cuts to       *)
(* length 0 and fills again.  Reboot starts a scavenger although the one   *)
(* before it may not have noticed the Release.                             *)
(*                                                                         *)
(* Which prefix of the stack has expired is left open (WorkerStack), as is *)
(* all that callers do but take and give back workers (GPool).             *)
(***************************************************************************)
EXTENDS Integers, Sequences

CONSTANTS
  Worker,
  None,          \* a slot of the expiry array that holds nil
  Scavengers,    \* how many scavengers may be started (a bound)
  RebootWaits    \* whether Reboot is called only after the old scavenger stopped

PurgeAssumption ==
  None \notin Worker /\ Scavengers \in Nat \ {0} /\ RebootWaits \in BOOLEAN

Scavenger == 1..Scavengers

VARIABLES
  state, items,
  where,         \* busy, idle, purged (off the stack, not yet told), ended
  arrays,        \* the backing arrays of wq.expiry, by the order of allocation
  expiry,        \* [array, len]: the slice wq.expiry
  spc, slice, i  \* each scavenger: its place, expiredWorkers, loop index

poolVars == <<state, items, where>>
sliceVars == <<arrays, expiry>>
scavVars == <<spc, slice, i>>
vars == <<state, items, where, arrays, expiry, spc, slice, i>>

Slice == [array : Nat, len : Nat]
Empty == [array |-> 0, len |-> 0]

TypeOK ==
  /\ state \in {"OPENED", "CLOSED"}
  /\ items \in Seq(Worker)
  /\ where \in [Worker -> {"busy", "idle", "purged", "ended"}]
  /\ arrays \in Seq(Seq(Worker \cup {None}))
  /\ expiry \in Slice
  /\ spc \in [Scavenger -> {"unborn", "tick", "notify", "crashed", "stopped"}]
  /\ slice \in [Scavenger -> Slice]
  /\ i \in [Scavenger -> Nat]

\* NewPool starts the first scavenger.  Array 0 is the nil slice.
Init ==
  /\ state = "OPENED" /\ items = <<>>
  /\ where = [w \in Worker |-> "ended"]
  /\ arrays = <<>> /\ expiry = Empty
  /\ spc = [s \in Scavenger |-> IF s = 1 THEN "tick" ELSE "unborn"]
  /\ slice = [s \in Scavenger |-> Empty]
  /\ i = [s \in Scavenger |-> 0]

\* Callers: run a worker from the workerCache, or take an idle one.
Spawn(w) ==
  /\ state = "OPENED" /\ where[w] = "ended"
  /\ where' = [where EXCEPT ![w] = "busy"]
  /\ UNCHANGED <<state, items, sliceVars, scavVars>>

Detach ==
  /\ state = "OPENED" /\ items # <<>>
  /\ where' = [where EXCEPT ![items[Len(items)]] = "busy"]
  /\ items' = SubSeq(items, 1, Len(items) - 1)
  /\ UNCHANGED <<state, sliceVars, scavVars>>

\* revertWorker: back on the stack, or the goroutine ends.
Revert(w) ==
  /\ where[w] = "busy"
  /\ IF state = "OPENED"
     THEN items' = Append(items, w) /\ where' = [where EXCEPT ![w] = "idle"]
     ELSE items' = items /\ where' = [where EXCEPT ![w] = "ended"]
  /\ UNCHANGED <<state, sliceVars, scavVars>>

Release ==
  /\ state = "OPENED" /\ state' = "CLOSED"
  /\ items' = <<>>
  /\ where' = [w \in Worker |-> IF where[w] = "idle" THEN "ended" ELSE where[w]]
  /\ UNCHANGED <<sliceVars, scavVars>>

Reboot ==
  /\ state = "CLOSED" /\ state' = "OPENED"
  /\ RebootWaits => \A s \in Scavenger : spc[s] \notin {"tick", "notify"}
  /\ \E s \in Scavenger : /\ spc[s] = "unborn" /\ \A r \in 1..s-1 : spc[r] # "unborn"
                          /\ spc' = [spc EXCEPT ![s] = "tick"]
  /\ UNCHANGED <<items, where, sliceVars, slice, i>>

\* append(wq.expiry[:0], taken...): into the same array if it has room, else
\* into a new one.
Fill(taken) ==
  LET a == expiry.array
      fits == a # 0 /\ Len(taken) <= Len(arrays[a])
  IN IF fits
     THEN /\ arrays' = [arrays EXCEPT ![a] = taken \o SubSeq(@, Len(taken) + 1, Len(@))]
          /\ expiry' = [array |-> a, len |-> Len(taken)]
     ELSE /\ arrays' = Append(arrays, taken)
          /\ expiry' = [array |-> Len(arrays'), len |-> Len(taken)]

\* A tick of an open pool that finds expired workers, under the lock.
Purge(s) ==
  /\ spc[s] = "tick" /\ state = "OPENED"
  /\ \E n \in 1..Len(items) :
       /\ Fill(SubSeq(items, 1, n))
       /\ slice' = [slice EXCEPT ![s] = expiry']
       /\ where' = [w \in Worker |->
                      IF \E k \in 1..n : items[k] = w THEN "purged" ELSE where[w]]
       /\ items' = SubSeq(items, n + 1, Len(items))
  /\ spc' = [spc EXCEPT ![s] = "notify"] /\ i' = [i EXCEPT ![s] = 1]
  /\ UNCHANGED state

\* A tick that finds the pool closed.
Stop(s) ==
  /\ spc[s] = "tick" /\ state = "CLOSED"
  /\ spc' = [spc EXCEPT ![s] = "stopped"]
  /\ UNCHANGED <<poolVars, sliceVars, slice, i>>

Slot(s) == arrays[slice[s].array][i[s]]

\* Mutant: the loop leaves before the last worker.
NotifySkipsLast(s) ==
  /\ spc[s] = "notify"
  /\ IF i[s] >= slice[s].len
     THEN /\ spc' = [spc EXCEPT ![s] = "tick"]
          /\ slice' = [slice EXCEPT ![s] = Empty] /\ i' = [i EXCEPT ![s] = 0]
          /\ UNCHANGED <<where, arrays>>
     ELSE /\ where' = [where EXCEPT ![Slot(s)] = "ended"]
          /\ arrays' = [arrays EXCEPT ![slice[s].array][i[s]] = None]
          /\ i' = [i EXCEPT ![s] = @ + 1]
          /\ UNCHANGED <<spc, slice>>
  /\ UNCHANGED <<state, items, expiry>>

\* One round of the loop that notifies, or its end.  A nil slot is dereferenced.
\* A worker that has already ended keeps the second nil in its channel.
Notify(s) ==
  /\ spc[s] = "notify"
  /\ IF i[s] > slice[s].len
     THEN /\ spc' = [spc EXCEPT ![s] = "tick"]
          /\ slice' = [slice EXCEPT ![s] = Empty] /\ i' = [i EXCEPT ![s] = 0]
          /\ UNCHANGED <<where, arrays>>
     ELSE IF Slot(s) = None
     THEN /\ spc' = [spc EXCEPT ![s] = "crashed"]
          /\ UNCHANGED <<where, arrays, slice, i>>
     ELSE /\ where' = [where EXCEPT ![Slot(s)] = "ended"]
          /\ arrays' = [arrays EXCEPT ![slice[s].array][i[s]] = None]
          /\ i' = [i EXCEPT ![s] = @ + 1]
          /\ UNCHANGED <<spc, slice>>
  /\ UNCHANGED <<state, items, expiry>>

Next ==
  \/ \E w \in Worker : Spawn(w) \/ Revert(w)
  \/ Detach \/ Release \/ Reboot
  \/ \E s \in Scavenger : Purge(s) \/ Stop(s) \/ Notify(s)

Spec == Init /\ [][Next]_vars

-----------------------------------------------------------------------------
(* Properties *)

Pending(s) ==
  IF spc[s] = "notify"
  THEN {arrays[slice[s].array][k] : k \in i[s]..slice[s].len} ELSE {}

(***************************************************************************)
(* pool.go:61, "Notify obsolete workers to stop.": a worker taken off the  *)
(* stack by retrieveExpiry is in the list of a scavenger that will tell it *)
(* to stop, and the list holds nothing else.  Otherwise its goroutine is   *)
(* leaked, or a nil pointer is dereferenced, or a busy worker is stopped.  *)
(* Two scavengers that share wq.expiry break this.                         *)
(***************************************************************************)
PurgedWorkersAreTold ==
  {w \in Worker : where[w] = "purged"} = UNION {Pending(s) : s \in Scavenger}
=============================================================================
