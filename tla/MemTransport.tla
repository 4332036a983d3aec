---------------------------- MODULE MemTransport ----------------------------
(***************************************************************************)
(* transport/memory.go: a listener, one connection dialled to it, and the  *)
(* goroutines that use its two ends.  Channels are unbuffered: a select    *)
(* that finds no case ready parks, a message passes between a parked       *)
(* goroutine and one that arrives, and closing exit or lexit wakes every   *)
(* goroutine parked on it.  Send and Recv keep the socket's read lock      *)
(* while parked.                                                           *)
(***************************************************************************)
EXTENDS Naturals, Sequences

CONSTANTS Users, None,
          EndOf,     \* the end each user holds: "client" or "server"
          OpsOf,     \* the calls it makes: subset of {"send", "recv", "close"}
          Timeout,   \* Options.Timeout > 0
          MaxCalls

Ends == {"client", "server"}
Peer(e) == IF e = "client" THEN "server" ELSE "client"

VARIABLES
    listener,       \* memoryListener: "none", "open", "closed"; it stays in m.listeners
    acceptor,       \* Accept: "out", "parked", "returned"
    dial,           \* Dial: "no", "parked", "done", "refused"
    relisten,       \* a second Listen on the address: "no", "error"
    sendOf, recvOf, \* of each end: the channel it sends and receives on
    exit,           \* the exit channel of the connection is closed
    readers, writer,\* of each end: holders of its RLock, a Close waiting for Lock
    st,             \* "idle", "lock", "send", "recv" (parked), "close"
    calls, sent, got,
    late            \* ghost: a message passed after exit or lexit was closed

connVars == <<listener, acceptor, dial, relisten, sendOf, recvOf>>
vars == <<connVars, exit, readers, writer, st, calls, sent, got, late>>

Init ==
    /\ listener = "none" /\ acceptor = "out" /\ dial = "no" /\ relisten = "no"
    /\ sendOf = [e \in Ends |-> None] /\ recvOf = [e \in Ends |-> None]
    /\ exit = FALSE /\ readers = [e \in Ends |-> {}] /\ writer = [e \in Ends |-> None]
    /\ st = [u \in Users |-> "idle"] /\ calls = [u \in Users |-> 0]
    /\ sent = [e \in Ends |-> <<>>] /\ got = [e \in Ends |-> <<>>] /\ late = FALSE

\* Every user holds an end.
EndsAssumption == EndOf \in [Users -> Ends]

lexit == listener = "closed"
sockVars == <<exit, readers, writer, st, calls, sent, got, late>>

----------------------------------------------------------------------------
\* Listen: m.Lock waits for every Dial, which holds m.RLock while parked.
Listen ==
    /\ dial # "parked"
    /\ IF listener = "none" THEN listener' = "open" /\ UNCHANGED relisten
       ELSE relisten = "no" /\ relisten' = "error" /\ UNCHANGED listener
    /\ UNCHANGED <<acceptor, dial, sendOf, recvOf, sockVars>>

\* Mutant: each end is its own peer.
EstablishedOneChannel ==
    /\ sendOf' = [client |-> 1, server |-> 2] /\ recvOf' = [client |-> 1, server |-> 2]

\* The accepted socket has the channels of the client's, crossed.
Established ==
    /\ sendOf' = [client |-> 1, server |-> 2] /\ recvOf' = [client |-> 2, server |-> 1]

\* Accept and Dial meet on listener.conn; the second one to come takes the first along.
Accept ==
    /\ acceptor = "out" /\ listener # "none"
    /\ \/ lexit /\ acceptor' = "returned" /\ UNCHANGED <<dial, sendOf, recvOf>>
       \/ ~lexit /\ dial = "parked" /\ dial' = "done" /\ Established /\ UNCHANGED acceptor
       \/ ~lexit /\ dial # "parked" /\ acceptor' = "parked" /\ UNCHANGED <<dial, sendOf, recvOf>>
    /\ UNCHANGED <<listener, relisten, sockVars>>
Dial ==
    /\ dial = "no" /\ listener # "none"
    /\ \/ lexit /\ dial' = "refused" /\ UNCHANGED <<acceptor, sendOf, recvOf>>
       \/ ~lexit /\ acceptor = "parked" /\ dial' = "done" /\ acceptor' = "out" /\ Established
       \/ ~lexit /\ acceptor # "parked" /\ dial' = "parked" /\ UNCHANGED <<acceptor, sendOf, recvOf>>
    /\ UNCHANGED <<listener, relisten, sockVars>>

Parked(u) == st[u] \in {"send", "recv"}

\* Closing exit or lexit wakes the goroutines parked in Send and Recv, which return an error.
WakeAll ==
    /\ st' = [u \in Users |-> IF Parked(u) THEN "idle" ELSE st[u]]
    /\ readers' = [e \in Ends |-> {}]
ListenerClose ==
    /\ listener = "open" /\ listener' = "closed" /\ WakeAll
    /\ acceptor' = IF acceptor = "parked" THEN "returned" ELSE acceptor
    /\ dial' = IF dial = "parked" THEN "refused" ELSE dial
    /\ UNCHANGED <<relisten, sendOf, recvOf, exit, writer, calls, sent, got, late>>

----------------------------------------------------------------------------
\* A user calls Send, Recv or Close on its end.
Call(u) ==
    /\ dial = "done" /\ st[u] = "idle" /\ calls[u] < MaxCalls
    /\ calls' = [calls EXCEPT ![u] = @ + 1]
    /\ \/ OpsOf[u] \cap {"send", "recv"} # {} /\ st' = [st EXCEPT ![u] = "lock"]
       \/ "close" \in OpsOf[u] /\ st' = [st EXCEPT ![u] = "close"]
    /\ UNCHANGED <<connVars, exit, readers, writer, sent, got, late>>

Waits(v, op, c) == st[v] = op /\ (IF op = "send" THEN sendOf ELSE recvOf)[EndOf[v]] = c
\* The message m of end e passes to end d.
Pass(e, d, m) ==
    /\ sent' = [sent EXCEPT ![e] = Append(@, m)] /\ got' = [got EXCEPT ![d] = Append(@, m)]
    /\ late' = (late \/ exit \/ lexit)
\* The message sent next by end e.
NextMsg(e) == <<e, Len(sent[e]) + 1>>

\* RLock, then the select of Send: a closed channel, a parked receiver, or it parks.
Send(u) ==
    LET e == EndOf[u] IN
    /\ st[u] = "lock" /\ "send" \in OpsOf[u] /\ writer[e] = None
    /\ \/ (exit \/ lexit) /\ st' = [st EXCEPT ![u] = "idle"] /\ UNCHANGED <<readers, sent, got, late>>
       \/ \E v \in Users :
            /\ Waits(v, "recv", sendOf[e])
            /\ Pass(e, EndOf[v], NextMsg(e)) /\ st' = [st EXCEPT ![u] = "idle", ![v] = "idle"]
            /\ readers' = [readers EXCEPT ![EndOf[v]] = @ \ {v}]
       \/ /\ ~exit /\ ~lexit /\ \A v \in Users : ~Waits(v, "recv", sendOf[e])
          /\ st' = [st EXCEPT ![u] = "send"] /\ readers' = [readers EXCEPT ![e] = @ \cup {u}]
          /\ UNCHANGED <<sent, got, late>>
    /\ UNCHANGED <<connVars, exit, writer, calls>>
Recv(u) ==
    LET e == EndOf[u] IN
    /\ st[u] = "lock" /\ "recv" \in OpsOf[u] /\ writer[e] = None
    /\ \/ (exit \/ lexit) /\ st' = [st EXCEPT ![u] = "idle"] /\ UNCHANGED <<readers, sent, got, late>>
       \/ \E v \in Users :
            /\ Waits(v, "send", recvOf[e])
            /\ Pass(EndOf[v], e, NextMsg(EndOf[v])) /\ st' = [st EXCEPT ![u] = "idle", ![v] = "idle"]
            /\ readers' = [readers EXCEPT ![EndOf[v]] = @ \ {v}]
       \/ /\ ~exit /\ ~lexit /\ \A v \in Users : ~Waits(v, "send", recvOf[e])
          /\ st' = [st EXCEPT ![u] = "recv"] /\ readers' = [readers EXCEPT ![e] = @ \cup {u}]
          /\ UNCHANGED <<sent, got, late>>
    /\ UNCHANGED <<connVars, exit, writer, calls>>

\* ctx.Done of a parked Send or Recv, with Timeout.
TimeOut(u) ==
    /\ Timeout /\ Parked(u) /\ st' = [st EXCEPT ![u] = "idle"]
    /\ readers' = [readers EXCEPT ![EndOf[u]] = @ \ {u}]
    /\ UNCHANGED <<connVars, exit, writer, calls, sent, got, late>>

\* Close asks for the write lock, which keeps new readers out, and gets it when the
\* parked ones are gone.
CloseLock(u) ==
    /\ st[u] = "close" /\ writer[EndOf[u]] = None /\ writer' = [writer EXCEPT ![EndOf[u]] = u]
    /\ UNCHANGED <<connVars, exit, readers, st, calls, sent, got, late>>
Close(u) ==
    /\ st[u] = "close" /\ writer[EndOf[u]] = u /\ readers[EndOf[u]] = {}
    /\ writer' = [writer EXCEPT ![EndOf[u]] = None] /\ exit' = TRUE
    /\ st' = [v \in Users |-> IF v = u \/ Parked(v) THEN "idle" ELSE st[v]]
    /\ readers' = [e \in Ends |-> {}]
    /\ UNCHANGED <<connVars, calls, sent, got, late>>

UserStep(u) == Send(u) \/ Recv(u) \/ TimeOut(u) \/ CloseLock(u) \/ Close(u)
Next ==
    \/ Listen \/ Accept \/ Dial \/ ListenerClose
    \/ \E u \in Users : Call(u) \/ UserStep(u)

\* Goroutines run, timers fire; the calls are bounded, so a waiting lock is granted.
Fairness == WF_vars(Accept) /\ \A u \in Users : WF_vars(UserStep(u))
Spec == Init /\ [][Next]_vars /\ Fairness

----------------------------------------------------------------------------
TypeOK ==
    /\ listener \in {"none", "open", "closed"} /\ acceptor \in {"out", "parked", "returned"}
    /\ dial \in {"no", "parked", "done", "refused"}
    /\ st \in [Users -> {"idle", "lock", "send", "recv", "close"}]
    /\ \A e \in Ends : readers[e] \subseteq {u \in Users : EndOf[u] = e /\ Parked(u)}

\* What an end receives is what the other end sent, whole, in order and once: the ends
\* are crossed on accepting, and a Send returns without an error exactly when its message
\* was received.
InOrderOnce == \A e \in Ends : got[e] = sent[Peer(e)]

\* Once the connection or the listener is closed no message passes any more.
NothingAfterClose == ~late

\* With a timeout Close gets past the calls that hold the lock of its socket, and every
\* call returns.
CallsReturn == Timeout => \A u \in Users : []<>(st[u] = "idle")
=============================================================================
