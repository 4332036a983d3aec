------------------------------ MODULE TaskPool ------------------------------
(***************************************************************************)
(* What gpool.Pool promises to the goroutines that call Submit or Invoke:  *)
(* a call either fails, or its task is accepted; an accepted task is       *)
(* started exactly once and ends.  Nothing is said of workers, capacity,   *)
(* locks or wake-ups.  GPool implements this specification.                *)
(***************************************************************************)
CONSTANT Caller

\* status[c]: where the current call of c, or the task it handed over, stands.
VARIABLE status

Init == status = [c \in Caller |-> "idle"]

Move(c, from, to) ==
  /\ status[c] = from
  /\ status' = [status EXCEPT ![c] = to]

Call(c)   == Move(c, "idle", "calling")
Reject(c) == Move(c, "calling", "idle")
Accept(c) == Move(c, "calling", "accepted")
Start(c)  == Move(c, "accepted", "running")
Finish(c) == Move(c, "running", "idle")

Next ==
  \E c \in Caller : Call(c) \/ Reject(c) \/ Accept(c) \/ Start(c) \/ Finish(c)

(***************************************************************************)
(* An accepted task is eventually started, a started one ends, and a call  *)
(* is answered.                                                            *)
(***************************************************************************)
Fairness ==
  \A c \in Caller : /\ WF_status(Start(c))
                    /\ WF_status(Finish(c))

Safety == Init /\ [][Next]_status
Spec == Safety /\ Fairness
=============================================================================
