------------------------------ MODULE WSocket ------------------------------
(***************************************************************************)
(* src/web/websocket.go: a socket that Connect dialled or NewWSocket       *)
(* wraps, its reader goroutine, goroutines that send, and Close.  The      *)
(* library (gorilla/websocket, external) allows one writer of messages and *)
(* one reader at a time; control frames are handled inside ReadMessage.    *)
(***************************************************************************)
EXTENDS Naturals, Sequences

CONSTANTS Readers,     \* reader goroutines there may be
          Senders, None,
          MaxFrames, MaxSends

VARIABLES
    role,              \* "client" (Connect), "server" (NewWSocket and Start)
    callbacks,         \* OnConnected and OnDisconnected are set
    conn,              \* "none", "open", "closed" (by Close), "lost"
    isConnected,
    inbox, frames,     \* frames on their way in, texts by their numbers; frames sent
    closeSent,         \* a close frame is written: the library refuses further messages
    receiveMu, rpc,    \* of each reader: "none", "lock", "read", "call", "ended"
    hand,              \* of each reader: the message it delivers
    sendMu, spc,       \* of each sender, Close included: "idle", "lock", "write"
    sends,
    closer,            \* Close: "no", "send", "close", "done"
    delivered, told    \* texts given to OnTextMessage; calls of OnDisconnected

peerVars == <<inbox, frames>>
readVars == <<receiveMu, rpc, hand, delivered>>
sendVars == <<sendMu, spc, sends>>
vars == <<role, callbacks, conn, isConnected, peerVars, closeSent, readVars, sendVars, closer, told>>

Closer == "closer"
Ping == 0
CloseFrame == MaxFrames + 1
Texts == 1 .. MaxFrames
Writers == Senders \cup {Closer}

\* None is nobody, and there is a reader.
SocketAssumption ==
    /\ None \notin Writers /\ None \notin Readers /\ Readers # {} /\ MaxFrames \in Nat

Init ==
    /\ role \in {"client", "server"} /\ callbacks \in BOOLEAN
    /\ conn = "none" /\ isConnected = FALSE /\ inbox = <<>> /\ frames = 0 /\ closeSent = FALSE
    /\ receiveMu = None /\ rpc = [i \in Readers |-> "none"] /\ hand = [i \in Readers |-> 0]
    /\ sendMu = None /\ spc = [u \in Writers |-> "idle"] /\ sends = 0
    /\ closer = "no" /\ delivered = <<>> /\ told = 0

----------------------------------------------------------------------------
FirstReader == CHOOSE i \in Readers : TRUE

\* Start, and the end of Connect: the reader goroutine.
Start == rpc' = [rpc EXCEPT ![FirstReader] = "lock"]

\* Connect dials, or fails and calls OnConnectError; NewWSocket takes a connection, and has
\* no callbacks yet.
Connect ==
    /\ conn = "none" /\ conn' = "open" /\ isConnected' = (role = "client" /\ callbacks)
    /\ Start
    /\ UNCHANGED <<role, callbacks, peerVars, closeSent, receiveMu, hand, delivered, sendVars, closer, told>>
ConnectError ==
    /\ conn = "none" /\ role = "client" /\ isConnected' = FALSE
    /\ UNCHANGED <<role, callbacks, conn, peerVars, closeSent, readVars, sendVars, closer, told>>

----------------------------------------------------------------------------
PeerSends(f) ==
    /\ conn = "open" /\ frames < MaxFrames /\ frames' = frames + 1
    /\ CloseFrame \notin {inbox[i] : i \in DOMAIN inbox}
    /\ inbox' = Append(inbox, IF f \in Texts THEN frames' ELSE f)
    /\ UNCHANGED <<role, callbacks, conn, isConnected, closeSent, readVars, sendVars, closer, told>>
Lost ==
    /\ conn = "open" /\ conn' = "lost" /\ inbox' = <<>>
    /\ UNCHANGED <<role, callbacks, isConnected, frames, closeSent, readVars, sendVars, closer, told>>

\* IsConnected and OnDisconnected.
Disconnected ==
    /\ isConnected' = (isConnected /\ ~callbacks)
    /\ told' = IF callbacks /\ told < 2 THEN told + 1 ELSE told

\* The reader: the lock, ReadMessage, the callback outside the lock.
ReadLock(i) ==
    /\ rpc[i] = "lock" /\ receiveMu = None /\ receiveMu' = i /\ rpc' = [rpc EXCEPT ![i] = "read"]
    /\ UNCHANGED <<role, callbacks, conn, isConnected, peerVars, closeSent, hand, delivered, sendVars, closer, told>>
ReadText(i) ==
    /\ rpc[i] = "read" /\ conn = "open" /\ inbox # <<>> /\ Head(inbox) \in Texts
    /\ inbox' = Tail(inbox) /\ hand' = [hand EXCEPT ![i] = Head(inbox)]
    /\ receiveMu' = None /\ rpc' = [rpc EXCEPT ![i] = "call"]
    /\ UNCHANGED <<role, callbacks, conn, isConnected, frames, closeSent, delivered, sendVars, closer, told>>
\* The ping handler, inside ReadMessage: the pong is a control frame.
ReadPing(i) ==
    /\ rpc[i] = "read" /\ conn = "open" /\ inbox # <<>> /\ Head(inbox) = Ping
    /\ inbox' = Tail(inbox)
    /\ UNCHANGED <<role, callbacks, conn, isConnected, frames, closeSent, readVars, sendVars, closer, told>>

ReadEnds(i) == receiveMu' = None /\ rpc' = [rpc EXCEPT ![i] = "ended"]

\* The close handler, inside ReadMessage, which then returns an error.
ReadClose(i) ==
    /\ rpc[i] = "read" /\ conn = "open" /\ inbox # <<>> /\ Head(inbox) = CloseFrame
    /\ closeSent' = TRUE /\ Disconnected /\ ReadEnds(i)
    /\ UNCHANGED <<role, callbacks, conn, peerVars, hand, delivered, sendVars, closer>>

\* Any other error ends the reader and nobody is told.
ReadError(i) ==
    /\ rpc[i] = "read" /\ conn \in {"closed", "lost"} /\ ReadEnds(i)
    /\ UNCHANGED <<role, callbacks, conn, isConnected, peerVars, closeSent, hand, delivered, sendVars, closer, told>>
OnTextMessage(i) ==
    /\ rpc[i] = "call" /\ delivered' = Append(delivered, hand[i])
    /\ hand' = [hand EXCEPT ![i] = 0] /\ rpc' = [rpc EXCEPT ![i] = "lock"]
    /\ UNCHANGED <<role, callbacks, conn, isConnected, peerVars, closeSent, receiveMu, sendVars, closer, told>>

----------------------------------------------------------------------------
\* SendText and SendBinary, on a socket that has a connection.
SendCall(u) ==
    /\ conn # "none" /\ spc[u] = "idle" /\ sends < MaxSends /\ sends' = sends + 1
    /\ spc' = [spc EXCEPT ![u] = "lock"]
    /\ UNCHANGED <<role, callbacks, conn, isConnected, peerVars, closeSent, readVars, sendMu, closer, told>>

\* Mutant: sendMu is not taken.
sendUnlocked(u) ==
    /\ spc[u] = "lock" /\ spc' = [spc EXCEPT ![u] = "write"]
    /\ UNCHANGED <<role, callbacks, conn, isConnected, peerVars, closeSent, readVars, sendMu, sends, closer, told>>

\* send: the lock, then WriteMessage.
send(u) ==
    /\ spc[u] = "lock" /\ sendMu = None /\ sendMu' = u /\ spc' = [spc EXCEPT ![u] = "write"]
    /\ UNCHANGED <<role, callbacks, conn, isConnected, peerVars, closeSent, readVars, sends, closer, told>>
\* WriteMessage returns, with an error after a close frame or without a connection.
Written(u) ==
    /\ spc[u] = "write" /\ spc' = [spc EXCEPT ![u] = "idle"]
    /\ sendMu' = IF sendMu = u THEN None ELSE sendMu
    /\ IF u = Closer THEN closeSent' = TRUE /\ closer' = "close" ELSE UNCHANGED <<closeSent, closer>>
    /\ UNCHANGED <<role, callbacks, conn, isConnected, peerVars, readVars, sends, told>>

\* Close: a close frame whose error is only logged, the connection, the callback.
CloseCall ==
    /\ conn # "none" /\ closer = "no" /\ closer' = "send" /\ spc' = [spc EXCEPT ![Closer] = "lock"]
    /\ UNCHANGED <<role, callbacks, conn, isConnected, peerVars, closeSent, readVars, sendMu, sends, told>>

Close ==
    /\ closer = "close" /\ closer' = "done" /\ conn' = "closed" /\ inbox' = <<>> /\ Disconnected
    /\ UNCHANGED <<role, callbacks, frames, closeSent, readVars, sendVars>>

Read(i) ==
    \/ ReadLock(i) \/ ReadText(i) \/ ReadPing(i) \/ ReadClose(i) \/ ReadError(i) \/ OnTextMessage(i)
Write(u) == send(u) \/ Written(u)
Next ==
    \/ Connect \/ ConnectError \/ Lost \/ CloseCall \/ Close
    \/ \E f \in {1, Ping, CloseFrame} : PeerSends(f)
    \/ \E i \in Readers : Read(i)
    \/ \E u \in Senders : SendCall(u)
    \/ \E u \in Writers : Write(u)

\* Goroutines run; the sends are bounded, so a waiting lock is granted.
Fairness ==
    /\ WF_vars(Close) /\ \A i \in Readers : WF_vars(Read(i))
    /\ \A u \in Writers : WF_vars(Write(u))
Spec == Init /\ [][Next]_vars /\ Fairness

----------------------------------------------------------------------------
TypeOK ==
    /\ conn \in {"none", "open", "closed", "lost"} /\ isConnected \in BOOLEAN
    /\ rpc \in [Readers -> {"none", "lock", "read", "call", "ended"}]
    /\ spc \in [Writers -> {"idle", "lock", "write"}]
    /\ closer \in {"no", "send", "close", "done"} /\ told \in 0 .. 2

\* No two messages are written at a time, the close frame of Close included: "Prevent
\* concurrent write to websocket connection" (websocket.go:40).
OneWriter == \A u, v \in Writers : spc[u] = "write" /\ spc[v] = "write" => u = v

\* OnTextMessage gets the messages in the order the peer sent them, each once: the callback
\* runs outside receiveMu, and there is one reader.
TextsInOrder == \A i, j \in DOMAIN delivered : i < j => delivered[i] < delivered[j]

\* The reader ends once the connection is closed on either side or lost, and with callbacks
\* Close leaves IsConnected FALSE.
ReaderEnds ==
    /\ \A i \in Readers : []<>(closer = "done" \/ conn = "lost" => rpc[i] \in {"none", "ended"})
    /\ []<>(closer = "done" /\ callbacks => ~isConnected)
=============================================================================
