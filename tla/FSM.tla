-------------------------------- MODULE FSM ---------------------------------
(***************************************************************************)
(* util/fsm: goroutines that raise events of one state machine.  Event     *)
(* holds eventMu from its look-up to the end of its callback; EventNoArgs  *)
(* holds nothing; SetState holds stateMu for its one assignment and Reset  *)
(* nothing, so both are single steps.  The callbacks of the user are       *)
(* results: a check that says yes or no, an enter callback with an error   *)
(* or none.                                                                *)
(***************************************************************************)
EXTENDS Naturals, Sequences, FiniteSets, Functions

CONSTANTS Procs, None,
          States,       \* the states, 0 among them
          statusAny,    \* SetAnyState
          Transitions,  \* f.transitions, in order: [event, src, dst]
          Checked,      \* states with a check callback; 0 is the default check
          Entered,      \* states with an enter callback, none of them 0
          MaxCalls

VARIABLES
    current,
    checks,     \* f.checkBeforeCallbacks: Checked in the order a map iteration gave
    eventMu,
    pc,         \* "idle", "check", "set", "enter"
    call,       \* the call: its name, event and destination
    calls,
    disturbed,  \* ghost: SetState, Reset or EventNoArgs wrote current since the look-up
    moves       \* ghost: the last write: from, to, event; or the callback run

vars == <<current, checks, eventMu, pc, call, calls, disturbed, moves>>

NoCall == [op |-> "none", event |-> None, dst |-> 0]
NoMove == [from |-> 0, to |-> 0, event |-> None, clean |-> FALSE]

Init ==
    /\ current = 0 /\ checks \in Bijection(1 .. Cardinality(Checked), Checked) /\ eventMu = None
    /\ pc = [p \in Procs |-> "idle"] /\ call = [p \in Procs |-> NoCall] /\ calls = 0
    /\ disturbed = [p \in Procs |-> FALSE] /\ moves = NoMove

----------------------------------------------------------------------------
Events == {Transitions[i].event : i \in DOMAIN Transitions}

\* The transitions are a slice between known states; None is no goroutine and no event.
FSMAssumption ==
    /\ 0 \in States /\ None \notin Procs \cup Events
    /\ DOMAIN Transitions \subseteq Nat
    /\ \A i \in DOMAIN Transitions : Transitions[i].dst \in States

Usable(t, event) == t.event = event /\ (t.src = current \/ t.src = statusAny)
Can(event) == \E i \in DOMAIN Transitions : Usable(Transitions[i], event)
\* GetDestState: the first transition that fits.
FirstUsable(event) ==
    CHOOSE i \in DOMAIN Transitions :
        /\ Usable(Transitions[i], event)
        /\ \A j \in DOMAIN Transitions : Usable(Transitions[j], event) => i <= j
GetDestState(event) == Transitions[FirstUsable(event)].dst

\* Two calls of Event are not expected to meet.
Meets(p, q) == q # p /\ pc[q] # "idle" /\ ~(call[p].op = "Event" /\ call[q].op = "Event")
Disturb(p) == disturbed' = [q \in Procs |-> disturbed[q] \/ Meets(p, q)]
Unlock(p) == eventMu' = IF call[p].op = "Event" THEN None ELSE eventMu
Return(p) ==
    /\ pc' = [pc EXCEPT ![p] = "idle"] /\ call' = [call EXCEPT ![p] = NoCall] /\ Unlock(p)

\* Mutant: eventMu is not taken.
EventUnlocked(p, op, event) ==
    /\ pc[p] = "idle" /\ calls < MaxCalls /\ calls' = calls + 1
    /\ IF Can(event)
       THEN /\ pc' = [pc EXCEPT ![p] = "check"]
            /\ call' = [call EXCEPT ![p] = [op |-> op, event |-> event, dst |-> GetDestState(event)]]
            /\ disturbed' = [disturbed EXCEPT ![p] = FALSE]
       ELSE UNCHANGED <<pc, call, disturbed>>
    /\ UNCHANGED <<current, checks, moves, eventMu>>

\* Event (under eventMu) or EventNoArgs: the destination is looked up; an event that is
\* not possible, or unknown, is an error and changes nothing.
Event(p, op, event) ==
    /\ pc[p] = "idle" /\ calls < MaxCalls /\ calls' = calls + 1
    /\ op = "Event" => eventMu = None
    /\ IF Can(event)
       THEN /\ eventMu' = IF op = "Event" THEN p ELSE eventMu
            /\ pc' = [pc EXCEPT ![p] = "check"]
            /\ call' = [call EXCEPT ![p] = [op |-> op, event |-> event, dst |-> GetDestState(event)]]
            /\ disturbed' = [disturbed EXCEPT ![p] = FALSE]
       ELSE UNCHANGED <<eventMu, pc, call, disturbed>>
    /\ UNCHANGED <<current, checks, moves>>

\* beforeEventCallbacks: the first check of the current state or of state 0.
Applicable == SelectSeq(checks, LAMBDA s : s = current \/ s = 0)
beforeEventCallbacks(p) ==
    /\ pc[p] = "check"
    /\ \/ pc' = [pc EXCEPT ![p] = "set"] /\ UNCHANGED <<eventMu, call>>
       \/ Applicable # <<>> /\ Return(p)
    /\ UNCHANGED <<current, checks, calls, disturbed, moves>>

\* SetState(dst) of the event.
Transit(p) ==
    /\ pc[p] = "set" /\ current' = call[p].dst /\ Disturb(p)
    /\ pc' = [pc EXCEPT ![p] = "enter"]
    /\ moves' = [from |-> current, to |-> current', event |-> call[p].event, clean |-> ~disturbed[p]]
    /\ UNCHANGED <<checks, eventMu, call, calls>>

\* enterStateCallbacks: the callback of the state the machine is in now.
enterStateCallbacks(p) ==
    /\ pc[p] = "enter" /\ Return(p)
    /\ moves' = IF current \in Entered /\ ~disturbed[p]
                THEN [from |-> call[p].dst, to |-> current, event |-> None, clean |-> TRUE]
                ELSE NoMove
    /\ UNCHANGED <<current, checks, calls, disturbed>>

\* SetState and Reset of a user.
SetState(p, s) ==
    /\ pc[p] = "idle" /\ calls < MaxCalls /\ calls' = calls + 1
    /\ current' = s /\ Disturb(p) /\ moves' = NoMove
    /\ UNCHANGED <<checks, eventMu, pc, call>>
Reset(p) ==
    /\ pc[p] = "idle" /\ calls < MaxCalls /\ calls' = calls + 1
    /\ current' = 0 /\ Disturb(p) /\ moves' = NoMove
    /\ UNCHANGED <<checks, eventMu, pc, call>>

Step(p) == beforeEventCallbacks(p) \/ Transit(p) \/ enterStateCallbacks(p)
Next ==
    \E p \in Procs :
        \/ \E e \in Events : Event(p, "Event", e) \/ Event(p, "EventNoArgs", e)
        \/ Step(p) \/ \E s \in States : SetState(p, s)
        \/ Reset(p)
Spec == Init /\ [][Next]_vars

----------------------------------------------------------------------------
TypeOK ==
    /\ current \in States /\ eventMu \in Procs \cup {None}
    /\ pc \in [Procs -> {"idle", "check", "set", "enter"}]

Listed(from, to, e) ==
    \E i \in DOMAIN Transitions :
        /\ Transitions[i].event = e /\ Transitions[i].dst = to
        /\ Transitions[i].src = from \/ Transitions[i].src = statusAny
\* An event moves the machine along a listed transition of that event from the state it
\* was in, whatever other Event calls do meanwhile; only SetState, Reset and EventNoArgs,
\* which do not take eventMu, get between its look-up and its assignment.
MovesAreListed == moves.event # None /\ moves.clean => Listed(moves.from, moves.to, moves.event)

\* The enter callback that runs is the one of the state the event led to, unless one of
\* those wrote the state after the assignment.
EntersItsState == moves.event = None /\ moves.clean => moves.from = moves.to
=============================================================================
