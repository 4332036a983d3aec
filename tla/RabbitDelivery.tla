--------------------------- MODULE RabbitDelivery ---------------------------
(***************************************************************************)
(* rabbitmq: what becomes of the messages of a durable queue.  The         *)
(* subscriber of RabbitMQ ranges over the deliveries of its channel and    *)
(* starts a goroutine for each, which acknowledges the message, calls the  *)
(* handler and settles it again by the handler's result.  The channel is   *)
(* lost with its connection; the server closes it when a delivery is       *)
(* settled twice; unacknowledged messages then return to the queue.        *)
(***************************************************************************)
EXTENDS Naturals, FiniteSets

CONSTANTS Msgs,
          Modes,     \* subset of {"auto", "ackSuccess"}: AutoAck, AckOnSuccess with RequeueOnError
          MaxDrops,  \* lost channels
          MaxErrors  \* handlers that return an error

VARIABLES
    mode,
    ready,      \* messages in the queue
    sent,       \* messages on their way to the subscriber
    unacked,    \* messages the server waits to have settled, on the current channel
    settled,    \* messages the server has dropped
    channel,    \* number of the consumer channel, of which alive says whether it is open
    alive,
    hand,       \* the delivery the loop has received, before wg.Add
    gos,        \* goroutines: message, channel, place
    wg,         \* rbroker.wg
    closing,    \* Disconnect: "no", "wait", "returned"
    called, drops, errs

vars == <<mode, ready, sent, unacked, settled, channel, alive, hand, gos, wg, closing,
          called, drops, errs>>

Init ==
    /\ mode \in Modes /\ ready = Msgs /\ sent = {} /\ unacked = {} /\ settled = {}
    /\ channel = 1 /\ alive = TRUE /\ hand = {} /\ gos = {} /\ wg = 0 /\ closing = "no"
    /\ called = {} /\ drops = 0 /\ errs = 0

----------------------------------------------------------------------------
\* The server sends a message; with autoAck it is settled with that.
Send(m) ==
    /\ alive /\ m \in ready /\ ready' = ready \ {m} /\ sent' = sent \cup {m}
    /\ IF mode = "auto"
       THEN settled' = settled \cup {m} /\ UNCHANGED unacked
       ELSE unacked' = unacked \cup {m} /\ UNCHANGED settled
    /\ UNCHANGED <<mode, channel, alive, gos, wg, closing, called, drops, errs, hand>>

\* The channel is gone: what was sent is lost, what is unacknowledged is queued again.
Gone ==
    /\ alive' = FALSE /\ sent' = {} /\ unacked' = {} /\ ready' = ready \cup unacked
Drop ==
    /\ alive /\ drops < MaxDrops /\ drops' = drops + 1 /\ Gone
    /\ UNCHANGED <<mode, settled, channel, gos, wg, closing, called, errs, hand>>

\* Mutant: the loop consumes once only.
ResubscribeOnce ==
    /\ ~alive /\ hand = {} /\ closing = "no" /\ channel = 1 /\ alive' = TRUE /\ channel' = channel + 1
    /\ UNCHANGED <<mode, ready, sent, unacked, settled, gos, wg, closing, called, drops, errs, hand>>

\* resubscribe consumes on a new channel, as long as the broker is not closed.
Resubscribe ==
    /\ ~alive /\ hand = {} /\ closing = "no" /\ alive' = TRUE /\ channel' = channel + 1
    /\ UNCHANGED <<mode, ready, sent, unacked, settled, gos, wg, closing, called, drops, errs, hand>>

\* for d := range sub: a delivery in hand, then wg.Add and the goroutine.
Receive(m) ==
    /\ m \in sent /\ hand = {} /\ sent' = sent \ {m} /\ hand' = {[m |-> m, ch |-> channel, at |-> "ack"]}
    /\ UNCHANGED <<mode, ready, unacked, settled, channel, alive, gos, wg, closing, called, drops, errs>>

Go ==
    /\ hand # {} /\ hand' = {} /\ gos' = gos \cup hand /\ wg' = wg + 1
    /\ UNCHANGED <<mode, ready, sent, unacked, settled, channel, alive, closing, called, drops, errs>>

OnChannel(g) == alive /\ g.ch = channel
\* The goroutine acknowledges before the handler runs; on a closed channel that is an
\* error, which is dropped.
Ack(g) ==
    /\ g.at = "ack" /\ gos' = (gos \ {g}) \cup {[g EXCEPT !.at = "run"]}
    /\ called' = called \cup {g.m}
    /\ IF mode # "auto" /\ OnChannel(g)
       THEN unacked' = unacked \ {g.m} /\ settled' = settled \cup {g.m}
       ELSE UNCHANGED <<unacked, settled>>
    /\ UNCHANGED <<mode, ready, sent, channel, alive, wg, closing, drops, errs, hand>>
\* fn after the handler: Ack on success, Nack with requeue on an error.  The delivery has
\* been settled, so the server closes the channel.  Then wg.Done.
Handled(g, ok) ==
    /\ g.at = "run" /\ gos' = gos \ {g} /\ wg' = wg - 1
    /\ IF ok THEN UNCHANGED errs ELSE errs < MaxErrors /\ errs' = errs + 1
    /\ IF mode # "auto" /\ OnChannel(g) THEN Gone ELSE UNCHANGED <<alive, sent, unacked, ready>>
    /\ UNCHANGED <<mode, settled, channel, closing, called, drops, hand>>

\* Disconnect: the connection is closed, then wg.Wait.
Disconnect ==
    /\ closing = "no" /\ closing' = "wait" /\ Gone
    /\ UNCHANGED <<mode, settled, channel, gos, wg, called, drops, errs, hand>>
Wait ==
    /\ closing = "wait" /\ wg = 0 /\ closing' = "returned"
    /\ UNCHANGED <<mode, ready, sent, unacked, settled, channel, alive, gos, wg, called, drops, errs, hand>>

Goroutine(g) == Ack(g) \/ Handled(g, TRUE) \/ Handled(g, FALSE)
Next ==
    \/ \E m \in Msgs : Send(m) \/ Receive(m)
    \/ \E g \in gos : Goroutine(g)
    \/ Go \/ Drop \/ Resubscribe \/ Disconnect \/ Wait

\* The server sends, the goroutines run, the handlers return.
Fairness ==
    /\ \A m \in Msgs : SF_vars(Send(m)) /\ SF_vars(Receive(m))
    /\ WF_vars(\E g \in gos : Goroutine(g)) /\ WF_vars(Resubscribe) /\ WF_vars(Wait) /\ WF_vars(Go)
Spec == Init /\ [][Next]_vars /\ Fairness

----------------------------------------------------------------------------
TypeOK ==
    /\ ready \subseteq Msgs /\ sent \subseteq Msgs /\ unacked \subseteq Msgs /\ settled \subseteq Msgs
    /\ gos \subseteq [m : Msgs, ch : 1 .. channel, at : {"ack", "run"}]
    /\ wg \in Nat /\ closing \in {"no", "wait", "returned"}

\* Without AutoAck every message of the queue gets to a handler, however often the channel
\* is lost or closed, unless the broker is disconnected.
EveryMessageHandled == []<>(mode # "ackSuccess" \/ Msgs \subseteq called \/ closing # "no")

\* When Disconnect has returned, wg.Wait has seen every handler return but one at most:
\* the delivery the range loop had in hand, not yet added to wg.
DisconnectWaits == closing = "returned" => Cardinality(gos) + Cardinality(hand) <= 1
=============================================================================
