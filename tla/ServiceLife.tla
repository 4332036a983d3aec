---------------------------- MODULE ServiceLife ----------------------------
(***************************************************************************)
(* The life of a service (src/service-wrapper/service.go) with its         *)
(* registry client: Run registers, starts the loop that registers again    *)
(* at every tick, waits, closes ex and deregisters.  The HTTP server       *)
(* itself is left out; that it fails is one of the reasons to leave.       *)
(***************************************************************************)
EXTENDS EtcdRegistry

CONSTANTS Main, Loop  \* the two goroutines

ProcsAssumption == Proc = {Main, Loop} /\ Main # Loop

VARIABLES mpc, lpc, ex, running

lifeVars == <<mpc, lpc, ex, running>>
vars == <<regVars, lifeVars>>

TypeOK ==
  /\ RegTypeOK
  /\ mpc \in {"start", "registering", "wait", "deregistering", "returned"}
  /\ lpc \in {"none", "select", "registering", "ended"}
  /\ ex \in BOOLEAN /\ running \in BOOLEAN

Init ==
  /\ RegInit
  /\ mpc = "start" /\ lpc = "none" /\ ex = FALSE /\ running = FALSE

\* start, and the first register.
Start ==
  /\ mpc = "start" /\ running' = TRUE
  /\ Call(Main, "keep") /\ mpc' = "registering"
  /\ UNCHANGED <<lpc, ex>>

\* It failed: Run returns, without stop.  Or the loop is started.
Registered ==
  /\ mpc = "registering" /\ pc[Main] = "idle"
  /\ IF result[Main] = "err"
     THEN mpc' = "returned" /\ UNCHANGED lpc
     ELSE mpc' = "wait" /\ lpc' = "select"
  /\ UNCHANGED <<regVars, ex, running>>

\* A signal, the end of the context, or of the server.
Leave ==
  /\ mpc = "wait"
  /\ ex' = TRUE
  /\ Call(Main, "clear") /\ mpc' = "deregistering"
  /\ UNCHANGED <<lpc, running>>

\* Run returns; stop is skipped if deregister failed.
Deregistered ==
  /\ mpc = "deregistering" /\ pc[Main] = "idle"
  /\ mpc' = "returned"
  /\ running' = (result[Main] = "err")
  /\ UNCHANGED <<regVars, lpc, ex>>

\* The select of run: a tick, which may be chosen although ex is closed too ...
LoopTick ==
  /\ lpc = "select"
  /\ Call(Loop, "keep") /\ lpc' = "registering"
  /\ UNCHANGED <<mpc, ex, running>>

LoopRegistered ==
  /\ lpc = "registering" /\ pc[Loop] = "idle"
  /\ lpc' = "select"
  /\ UNCHANGED <<regVars, mpc, ex, running>>

\* ... or the end.
LoopExit ==
  /\ lpc = "select" /\ ex
  /\ lpc' = "ended"
  /\ UNCHANGED <<regVars, mpc, ex, running>>

Env == (Change \/ \E l \in Lease : LeaseExpires(l)) /\ UNCHANGED lifeVars

Step(p) == CallStep(p) /\ UNCHANGED lifeVars

Next ==
  \/ Start \/ Registered \/ Leave \/ Deregistered
  \/ LoopTick \/ LoopRegistered \/ LoopExit
  \/ Env
  \/ \E p \in Proc : Step(p)

Spec == Init /\ [][Next]_vars

\* Both goroutines run and the ticker ticks; of two ready cases select takes each
\* again and again, so the exit is taken in the end; a lease that nobody keeps
\* alive ends.  Nothing makes Run leave.
Fairness ==
  /\ WF_vars(Start \/ Registered \/ Deregistered)
  /\ WF_vars(LoopTick \/ LoopRegistered \/ LoopExit) /\ SF_vars(LoopExit)
  /\ \A p \in Proc : WF_vars(Step(p))
  /\ \A l \in Lease :
       WF_vars(/\ mpc = "returned" /\ lpc \in {"none", "ended"}
               /\ LeaseExpires(l) /\ UNCHANGED lifeVars)

FairSpec == Spec /\ Fairness

-----------------------------------------------------------------------------
(* Properties *)

AllAbsent == \A n \in Node : key[n] = Absent
AllPresent == \A n \in Node : key[n] # Absent

\* A heartbeat that skips finds in etcd every node as it is, under the lease that
\* is kept alive, unless that lease has just ended.
SoundSkip ==
  \A p \in Proc : Compare(p) /\ Skip(p) /\ ~ex =>
    \/ leases # NoLease /\ leases \notin alive
    \/ \A n \in Node : key[n] = [data |-> srv, lease |-> leases]

(***************************************************************************)
(* When the puts of Register are answered, a heartbeat before the end of   *)
(* Run only skips what etcd holds: the hash and the lease are saved after  *)
(* every node has been put, and a lost lease is noticed.                   *)
(***************************************************************************)
SkipIsSound == []TypeOK /\ [][~putsFail => SoundSkip]_vars

(***************************************************************************)
(* While the loop runs, a key that is lost with its lease is put back:     *)
(* the heartbeat notices that the lease is gone (until MaxLeases).         *)
(***************************************************************************)
LostKeyComesBack ==
  []<>(hasTTL /\ ~putsFail /\ mpc = "wait" => AllPresent \/ ex \/ granted = MaxLeases)

(***************************************************************************)
(* Once Run has returned, keys bound to leases are gone for good in the    *)
(* end: if not by Deregister, whose effect a register of the loop may      *)
(* undo, then because the loop ends and so do the leases.                  *)
(***************************************************************************)
GoneInTheEnd == <>[](hasTTL /\ mpc = "returned" => AllAbsent)

(***************************************************************************)
(* service.go:280: "exit reg loop", and then deregister: after a Run that  *)
(* deregistered without error the service is not registered.  The loop may *)
(* be in the middle of a register, or choose the tick once more, and put   *)
(* the keys back.                                                          *)
(***************************************************************************)
GoneAfterRun == mpc = "returned" /\ result[Main] = "ok" => AllAbsent
=============================================================================
