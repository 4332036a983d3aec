----------------------------- MODULE HttpSocket -----------------------------
(***************************************************************************)
(* src/transport/http_transport.go, the server's side: the handler Accept  *)
(* installs makes a socket of a request, and the function it is given uses *)
(* the socket from three goroutines, a receiver, a sender and a closer.    *)
(* With HTTP/1 the connection is hijacked and carries further requests;    *)
(* with HTTP/2 the body of the one request is a stream.  net/http is       *)
(* external.                                                               *)
(***************************************************************************)
EXTENDS Naturals, Sequences

CONSTANTS MaxData,   \* requests (HTTP/1) or pieces of the body (HTTP/2) the peer sends
          MaxSends

DataAssumption == MaxData \in Nat

VARIABLES
    proto,           \* r.ProtoMajor
    reads,           \* the peer reads what it is sent
    handler,         \* "no", "running", "returned"
    sent,            \* what the peer sent, numbered; the first makes the handler run
    ended,           \* the peer sends no more
    first,           \* the channel ch
    input,           \* unread, in the hijacked connection or in the body
    open,            \* the connection, or the body of the request, is open
    closed,          \* the channel closed is closed
    rpc, spc, cpc,   \* receiver, sender, closer
    sends,
    got,
    late, overtaken  \* ghosts: the Send began after a Close had returned; it wrote

peerVars == <<proto, reads, sent, ended>>
vars == <<peerVars, handler, first, input, open, closed, rpc, spc, cpc, sends, got, late, overtaken>>

Init ==
    /\ proto \in {1, 2} /\ reads \in BOOLEAN /\ handler = "no"
    /\ sent = 0 /\ ended = FALSE /\ first = <<>> /\ input = <<>>
    /\ open = TRUE /\ closed = FALSE
    /\ rpc = "idle" /\ spc = "idle" /\ cpc = "idle"
    /\ sends = 0 /\ got = <<>> /\ late = FALSE /\ overtaken = FALSE

----------------------------------------------------------------------------
Sends ==
    /\ sent < MaxData /\ ~ended /\ sent' = sent + 1
    /\ input' = IF open THEN Append(input, sent') ELSE input
    /\ UNCHANGED <<proto, reads, ended, handler, first, open, closed, rpc, spc, cpc, sends, got, late, overtaken>>
Ends ==
    /\ handler = "running" /\ ~ended /\ ended' = TRUE
    /\ UNCHANGED <<proto, reads, sent, handler, first, input, open, closed, rpc, spc, cpc, sends, got, late, overtaken>>

\* The handler: with HTTP/1 it reads the body of the request, takes the connection over
\* and saves the request in ch; an error is answered, and nothing runs.
Accept ==
    /\ handler = "no" /\ input # <<>>
    /\ \/ /\ handler' = "running"
          /\ first' = <<Head(input)>>
          /\ input' = IF proto = 1 THEN Tail(input) ELSE input
          /\ UNCHANGED open
       \/ proto = 1 /\ handler' = "returned" /\ open' = FALSE /\ UNCHANGED <<first, input>>
    /\ UNCHANGED <<peerVars, closed, rpc, spc, cpc, sends, got, late, overtaken>>

\* fn returns when its goroutines are done; the deferred Close of the connection, and the
\* end of the stream.
Returns ==
    /\ handler = "running" /\ rpc = "idle" /\ spc = "idle" /\ cpc # "lock"
    /\ handler' = "returned" /\ open' = FALSE
    /\ UNCHANGED <<peerVars, first, input, closed, rpc, spc, cpc, sends, got, late, overtaken>>

----------------------------------------------------------------------------
\* Recv is called: with HTTP/2 not on a closed socket.
RecvCall ==
    /\ handler = "running" /\ rpc = "idle" /\ Len(got) < MaxData
    /\ rpc' = IF proto = 2 /\ closed THEN "idle" ELSE "read"
    /\ UNCHANGED <<peerVars, handler, first, input, open, closed, spc, cpc, sends, got, late, overtaken>>

\* HTTP/1: the request in ch if it is there ...
RecvFirst ==
    /\ rpc = "read" /\ proto = 1 /\ first # <<>>
    /\ got' = got \o first /\ first' = <<>> /\ rpc' = "idle"
    /\ UNCHANGED <<peerVars, handler, input, open, closed, spc, cpc, sends, late, overtaken>>

\* Mutant: the connection is read while ch holds the first request.
RecvNextAnyway ==
    /\ rpc = "read" /\ open /\ input # <<>>
    /\ \E k \in (IF proto = 1 THEN {1} ELSE 1 .. Len(input)) :
         got' = got \o SubSeq(input, 1, k) /\ input' = SubSeq(input, k + 1, Len(input))
    /\ rpc' = "idle"
    /\ UNCHANGED <<peerVars, handler, first, open, closed, spc, cpc, sends, late, overtaken>>

\* ... and the next one of the connection otherwise; HTTP/2: what the body has, at most
\* a buffer full.
RecvNext ==
    /\ rpc = "read" /\ (proto = 1 => first = <<>>) /\ open /\ input # <<>>
    /\ \E k \in (IF proto = 1 THEN {1} ELSE 1 .. Len(input)) :
         got' = got \o SubSeq(input, 1, k) /\ input' = SubSeq(input, k + 1, Len(input))
    /\ rpc' = "idle"
    /\ UNCHANGED <<peerVars, handler, first, open, closed, spc, cpc, sends, late, overtaken>>
RecvFails ==
    /\ rpc = "read" /\ (proto = 1 => first = <<>>) /\ (~open \/ (ended /\ input = <<>>))
    /\ rpc' = "idle"
    /\ UNCHANGED <<peerVars, handler, first, input, open, closed, spc, cpc, sends, got, late, overtaken>>

\* Send is called: with HTTP/2 closed is looked at before the lock is taken.
SendCall ==
    /\ handler = "running" /\ spc = "idle" /\ sends < MaxSends /\ sends' = sends + 1
    /\ late' = (cpc = "done")
    /\ spc' = IF proto = 1 THEN "write" ELSE IF closed THEN "idle" ELSE "lock"
    /\ UNCHANGED <<peerVars, handler, first, input, open, closed, rpc, cpc, got, overtaken>>
\* RLock: a Close that has the lock or waits for it goes first.
SendLock ==
    /\ spc = "lock" /\ cpc # "lock" /\ spc' = "write"
    /\ UNCHANGED <<peerVars, handler, first, input, open, closed, rpc, cpc, sends, got, late, overtaken>>
\* The write, and the read lock with HTTP/2, ends once the peer reads or the connection is
\* closed under it.
SendWrite ==
    /\ spc = "write" /\ (reads \/ (proto = 1 /\ ~open)) /\ spc' = "idle"
    /\ overtaken' = (overtaken \/ (late /\ (proto = 1 => open)))
    /\ UNCHANGED <<peerVars, handler, first, input, open, closed, rpc, cpc, sends, got, late>>

----------------------------------------------------------------------------
CloseCall ==
    /\ handler = "running" /\ cpc = "idle" /\ cpc' = "lock"
    /\ UNCHANGED <<peerVars, handler, first, input, open, closed, rpc, spc, sends, got, late, overtaken>>

\* Lock, which waits for a Send that holds the read lock; the channel, the body and with
\* HTTP/1 the connection are closed.
Close ==
    /\ cpc = "lock" /\ ~(proto = 2 /\ spc = "write") /\ cpc' = "done"
    /\ closed' = TRUE /\ open' = FALSE
    /\ UNCHANGED <<peerVars, handler, first, input, rpc, spc, sends, got, late, overtaken>>

Recv == RecvFirst \/ RecvNext \/ RecvFails
Send == SendLock \/ SendWrite
Next == Sends \/ Ends \/ Accept \/ Returns \/ RecvCall \/ Recv \/ SendCall \/ Send \/ CloseCall \/ Close

\* Goroutines run and locks are granted.
Fairness == WF_vars(Recv) /\ WF_vars(Send) /\ WF_vars(Close)
Spec == Init /\ [][Next]_vars /\ Fairness

----------------------------------------------------------------------------
TypeOK ==
    /\ handler \in {"no", "running", "returned"} /\ sent \in 0 .. MaxData
    /\ rpc \in {"idle", "read"} /\ spc \in {"idle", "lock", "write"} /\ cpc \in {"idle", "lock", "done"}
    /\ Len(first) <= 1

\* Recv gives what the peer sent in its order, without a gap and nothing twice, though the
\* first request comes by a channel and the others by the connection.
RequestsInOrder == got = [i \in 1 .. Len(got) |-> i]

\* A Send called after Close has returned writes nothing (a Send called before it may).
ClosedMeansClosed == ~overtaken

\* Close ends a Recv that waits, and a Close waits only for a Send, with HTTP/2, to a peer
\* that does not read.
CloseUnblocksRecv ==
    /\ []<>(closed => rpc = "idle")
    /\ []<>(cpc = "lock" => proto = 2 /\ ~reads)
=============================================================================
