---------------------------- MODULE NetlinkConn ----------------------------
(***************************************************************************)
(* netlink-client: a Conn used by several goroutines.  Conn.mu orders      *)
(* Execute against Send and Receive; sysSocket.mu orders system calls      *)
(* against Close; one goroutine locked to its thread runs every system     *)
(* call of the connection.  The kernel's receive queue is external.        *)
(*                                                                         *)
(* A datagram is a sequence of messages [seq, kind]; its size is counted   *)
(* in half pages, the unit the peek loop of conn.Receive doubles.          *)
(***************************************************************************)
EXTENDS Naturals, Sequences

CONSTANTS Users,      \* goroutines, each makes one call
          OpsOf,      \* the calls a goroutine may make
          None,
          SeqWrap,    \* 2^32 scaled down: Conn.seq wraps
          Seeds,      \* the first value of Conn.seq is random
          QueueMax,   \* datagrams the kernel keeps for the socket
          MaxCasts,   \* bound: multicast messages
          ReadDeadline   \* one is set (SetDeadline, SetReadDeadline)

GroupOps == {"join", "leave"}
SockOps == GroupOps \cup {"setopt"}
Calls == SockOps \cup {"execute", "send", "sendMessages", "receive", "close"}

\* No goroutine that calls is taken for a state of the worker, None is no call, no
\* system call and no result, and the first number is one of those there are.
UsersAssumption ==
    /\ {None, "idle", "gone"} \cap Users = {} /\ None \notin Calls \cup {"peek", "recv", "opt", "ok", "error", "truncated"}
    /\ \A u \in Users : OpsOf[u] \subseteq Calls
    /\ SeqWrap \in Nat /\ Seeds \subseteq 0 .. SeqWrap - 1 /\ QueueMax \in Nat
\* Only one goroutine calls Receive: two of them could each peek at a datagram and read
\* the next, which may be larger.
OneReceiver == \A u, v \in Users : "receive" \in OpsOf[u] \cap OpsOf[v] => u = v

VARIABLES
    dial,      \* progress of Dial
    threadNS,  \* the worker thread's namespace is its own, or was changed
    worker,    \* lockedNetNSGoroutine: None, "idle", "gone" or the user it serves
    fd,        \* the socket's descriptor
    closed,    \* sysSocket.closed
    connW, connR,   \* Conn.mu: announced writer, readers
    sockW, sockR,   \* sysSocket.mu
    seq,       \* Conn.seq
    issued,    \* how many sequence numbers were given out (history)
    inq,       \* kernel receive queue of datagrams
    overrun,   \* ENOBUFS is pending
    joined,    \* multicast group membership
    casts,     \* multicast messages sent so far
    pc, op, sys, buf, req, kind, res, result

numbers == <<seq, issued>>
locks == <<connW, connR, sockW, sockR>>
kernel == <<inq, overrun, joined, casts>>
locals == <<op, sys, buf, req, kind, res, result>>
vars == <<dial, threadNS, worker, fd, closed, connW, connR, sockW, sockR, seq,
          issued, inq, overrun, joined, casts, pc, op, sys, buf, req, kind, res, result>>

Msg(s, k) == [seq |-> s, kind |-> k]
\* What the kernel answers to request s, as datagrams: an acknowledgement (a
\* large one spans more than a page), a netlink error, a two-part dump.
Replies(s, k) ==
    CASE k = "ack"   -> << <<Msg(s, "ack")>> >>
      [] k = "big"   -> << <<Msg(s, "big")>> >>
      [] k = "error" -> << <<Msg(s, "error")>> >>
      [] k = "dump"  -> << <<Msg(s, "part")>>, <<Msg(s, "part"), Msg(s, "done")>> >>
ReplyKinds == {"ack", "big", "error", "dump"}
Size(d) == IF \E i \in DOMAIN d : d[i].kind = "big" THEN 3 ELSE 1
Messages == [seq : Nat, kind : {"ack", "big", "error", "part", "done"}]
Multi(m) == m.kind \in {"part", "done"}

Init ==
    /\ dial = "ns" /\ threadNS = "own" /\ worker = None /\ fd = "none" /\ closed = FALSE
    /\ connW = None /\ connR = {} /\ sockW = None /\ sockR = {}
    /\ seq \in Seeds /\ issued = 0
    /\ inq = <<>> /\ overrun = FALSE /\ joined = FALSE /\ casts = 0
    /\ pc = [u \in Users |-> "start"] /\ op = [u \in Users |-> None]
    /\ sys = [u \in Users |-> None] /\ buf = [u \in Users |-> 0]
    /\ req = [u \in Users |-> None] /\ kind = [u \in Users |-> None]
    /\ res = [u \in Users |-> <<>>] /\ result = [u \in Users |-> None]

----------------------------------------------------------------------------
\* Dial.

\* The worker enters the namespace of the configuration.  Only an explicit one
\* that cannot be entered is an error; the goroutine then returns.  The namespace of
\* the caller, or that of the worker, may not be found.
newLockedNetNSGoroutine ==
    /\ dial = "ns"
    /\ \/ dial' = "failed" /\ worker' \in {None, "gone"} /\ UNCHANGED threadNS
       \/ \E explicit, entered \in BOOLEAN :
            /\ threadNS' = IF entered THEN "set" ELSE "own"
            /\ IF explicit /\ ~entered
               THEN dial' = "failed" /\ worker' = "gone"
               ELSE dial' = "socket" /\ worker' = "idle"
    /\ UNCHANGED <<fd, closed, locks, numbers, kernel, pc, locals>>

\* socket(2) on the worker, then the descriptor's blocking mode.  When one of the two
\* fails the worker goes on, and the descriptor of the second stays open.
Socket ==
    /\ dial = "socket"
    /\ \/ dial' = "bind" /\ fd' = "open"
       \/ dial' = "failed" /\ fd' \in {"none", "lost"}
    /\ UNCHANGED <<threadNS, worker, closed, locks, numbers, kernel, pc, locals>>

\* The goroutine leaves its loop: Restore runs before the thread is unlocked.
WorkerReturns == worker' = "gone" /\ threadNS' = "own"

\* bind(2) and getsockname(2); when one fails the socket is closed.
bind ==
    /\ dial = "bind"
    /\ \/ dial' = "open" /\ UNCHANGED <<threadNS, worker, fd, closed>>
       \/ dial' = "failed" /\ fd' = "closed" /\ closed' = TRUE /\ WorkerReturns
    /\ UNCHANGED <<locks, numbers, kernel, pc, locals>>

----------------------------------------------------------------------------
\* The calls.

Goto(u, l) == pc' = [pc EXCEPT ![u] = l]

\* The call returns r: the deferred unlock of Conn.mu.
Return(u, r) ==
    /\ Goto(u, "done") /\ result' = [result EXCEPT ![u] = r]
    /\ connR' = connR \ {u} /\ connW' = IF connW = u THEN None ELSE connW
    /\ sys' = [sys EXCEPT ![u] = None] /\ buf' = [buf EXCEPT ![u] = 0]
\* The next system call of u.
Syscall(u, s) ==
    /\ Goto(u, "enter") /\ sys' = [sys EXCEPT ![u] = s]
    /\ buf' = [buf EXCEPT ![u] = IF s = "peek" THEN 2 ELSE @]

EntryOf(o) == CASE o = "execute" -> "lock" [] o \in {"send", "sendMessages", "receive"} -> "rlock"
                [] o = "close" -> "closeLock" [] OTHER -> "enter"

Begin(u) ==
    /\ dial = "open" /\ pc[u] = "start"
    /\ \E o \in OpsOf[u] :
        /\ op' = [op EXCEPT ![u] = o] /\ Goto(u, EntryOf(o))
        /\ sys' = [sys EXCEPT ![u] = IF o \in SockOps THEN "opt" ELSE None]
    /\ UNCHANGED <<dial, threadNS, worker, fd, closed, locks, numbers, kernel,
                   buf, req, kind, res, result>>

\* nextSequence: an atomic add on a uint32.
nextSequence(s) == (s + 1) % SeqWrap
\* lockedSend up to the system call: a message that is too large is refused, another
\* gets the next sequence number (fixMsg).
lockedSend(u) ==
    /\ UNCHANGED <<kind, res>>
    /\ \/ Return(u, "error") /\ UNCHANGED <<numbers, req>>
       \/ /\ seq' = nextSequence(seq) /\ issued' = issued + 1 /\ req' = [req EXCEPT ![u] = seq']
          /\ Syscall(u, "send")
          /\ connR' = IF op[u] = "send" THEN connR \cup {u} ELSE connR
          /\ UNCHANGED <<connW, result>>

\* Conn.mu.RLock of Send.
Send(u) ==
    /\ pc[u] = "rlock" /\ op[u] = "send" /\ connW = None
    /\ lockedSend(u)
    /\ UNCHANGED <<dial, threadNS, worker, fd, closed, sockW, sockR, kernel, op>>

\* SendMessages, of two messages: each is checked and numbered in turn, so a refusal of
\* the second has used up a number.  req is the first number.
SendMessages(u) ==
    /\ pc[u] = "rlock" /\ op[u] = "sendMessages" /\ connW = None
    /\ \/ Return(u, "error") /\ UNCHANGED <<numbers, req>>
       \/ Return(u, "error") /\ seq' = nextSequence(seq) /\ issued' = issued + 1 /\ UNCHANGED req
       \/ /\ req' = [req EXCEPT ![u] = nextSequence(seq)] /\ seq' = nextSequence(req'[u])
          /\ issued' = issued + 2
          /\ Syscall(u, "send") /\ connR' = connR \cup {u} /\ UNCHANGED <<connW, result>>
    /\ UNCHANGED <<dial, threadNS, worker, fd, closed, sockW, sockR, kernel, op, kind, res>>

\* Conn.mu.RLock of Receive.
Receive(u) ==
    /\ pc[u] = "rlock" /\ op[u] = "receive" /\ connW = None
    /\ connR' = connR \cup {u}
    /\ Syscall(u, "peek")
    /\ UNCHANGED <<dial, threadNS, worker, fd, closed, connW, sockW, sockR, numbers,
                   kernel, op, req, kind, res, result>>

\* Conn.mu.Lock of Execute: announce, then wait for the readers.
Lock(u) ==
    /\ pc[u] = "lock" /\ connW = None
    /\ connW' = u /\ Goto(u, "locking")
    /\ UNCHANGED <<dial, threadNS, worker, fd, closed, connR, sockW, sockR, numbers, kernel, locals>>

\* Mutant: Execute does not wait for readers.
ExecuteNoWait(u) ==
    /\ pc[u] = "locking"
    /\ lockedSend(u)
    /\ UNCHANGED <<dial, threadNS, worker, fd, closed, sockW, sockR, kernel, op>>

Execute(u) ==
    /\ pc[u] = "locking" /\ connR = {}
    /\ lockedSend(u)
    /\ UNCHANGED <<dial, threadNS, worker, fd, closed, sockW, sockR, kernel, op>>

\* conn.Send: MarshalBinary refuses a message whose explicit length is wrong.
MarshalFails(u) ==
    /\ pc[u] = "enter" /\ sys[u] = "send"
    /\ Return(u, "error")
    /\ UNCHANGED <<dial, threadNS, worker, fd, closed, sockW, sockR, numbers, kernel,
                   op, req, kind, res>>

\* sysSocket.do, read, write, control: RLock and the test of closed.
Enter(u) ==
    /\ pc[u] = "enter" /\ sockW = None
    /\ IF closed
       THEN Return(u, "error") /\ UNCHANGED sockR
       ELSE /\ sockR' = sockR \cup {u} /\ Goto(u, "run")
            /\ UNCHANGED <<connW, connR, sys, buf, result>>
    /\ UNCHANGED <<dial, threadNS, worker, fd, closed, sockW, numbers, kernel, op, req, kind, res>>

\* lockedNetNSGoroutine.run: the worker receives the function from funcC.
run(u) ==
    /\ pc[u] = "run" /\ worker = "idle"
    /\ worker' = u /\ Goto(u, "exec")
    /\ UNCHANGED <<dial, threadNS, fd, closed, locks, numbers, kernel, locals>>

\* The function has run: done is closed, sysSocket.mu released.
Ran(u) == worker = u /\ worker' = "idle" /\ sockR' = sockR \ {u}

\* The kernel queues datagrams ds; what does not fit is lost and flagged.
Queue(ds) ==
    LET all == inq \o ds IN
    /\ inq' = SubSeq(all, 1, IF Len(all) < QueueMax THEN Len(all) ELSE QueueMax)
    /\ overrun' = (overrun \/ Len(all) > QueueMax)

\* The answers to what u sent: one message or the two of SendMessages.
Answers(u, k) == Replies(req[u], k) \o
                     IF op[u] = "sendMessages" THEN Replies(nextSequence(req[u]), k) ELSE <<>>
\* sendmsg(2): it fails, or the kernel takes the request and answers it.
Sendmsg(u) ==
    /\ pc[u] = "exec" /\ sys[u] = "send" /\ Ran(u)
    /\ \/ Return(u, "error") /\ UNCHANGED <<inq, overrun, kind>>
       \/ \E k \in ReplyKinds :
            /\ Queue(Answers(u, k)) /\ kind' = [kind EXCEPT ![u] = k]
            /\ IF op[u] = "execute"
               THEN Syscall(u, "peek") /\ UNCHANGED <<connW, connR, result>>
               ELSE Return(u, "ok")
    /\ UNCHANGED <<dial, threadNS, fd, closed, sockW, numbers, joined, casts, op, req, res>>

\* A read that fails: ENOBUFS after an overrun, or the deadline.
RecvmsgFails(u) ==
    /\ pc[u] = "exec" /\ sys[u] \in {"peek", "recv"} /\ Ran(u)
    /\ overrun \/ (ReadDeadline /\ inq = <<>>)
    /\ overrun' = FALSE
    /\ Return(u, "error")
    /\ UNCHANGED <<dial, threadNS, fd, closed, sockW, numbers, inq, joined, casts,
                   op, req, kind, res>>

\* conn.Receive: peek until the datagram is smaller than the buffer.
Peek(u) ==
    /\ pc[u] = "exec" /\ sys[u] = "peek" /\ ~overrun /\ inq # <<>> /\ Ran(u)
    /\ Goto(u, "enter")
    /\ IF Size(Head(inq)) < buf[u]
       THEN sys' = [sys EXCEPT ![u] = "recv"] /\ UNCHANGED buf
       ELSE buf' = [buf EXCEPT ![u] = 2 * @] /\ UNCHANGED sys
    /\ UNCHANGED <<dial, threadNS, fd, closed, connW, connR, sockW, numbers, kernel,
                   op, req, kind, res, result>>

\* Validate: with no sequence in the request any reply is accepted.
Validate(s, ms) == s = 0 \/ \A i \in DOMAIN ms : ms[i].seq = s
\* lockedReceive drops the final multi-part done.
Trim(ms) == IF ms # <<>> /\ ms[Len(ms)].kind = "done" THEN SubSeq(ms, 1, Len(ms) - 1) ELSE ms
\* receive: another datagram follows when the last multi-part message is not done.
More(ms) == \E i \in DOMAIN ms : /\ Multi(ms[i]) /\ ms[i].kind # "done"
                                 /\ \A j \in DOMAIN ms : j > i => ~Multi(ms[j])

\* checkMessage: no message is a netlink error.
checkMessage(ms) == \A i \in DOMAIN ms : ms[i].kind # "error"

\* conn.Receive reads the datagram, receive checks and collects its messages; a
\* datagram larger than the buffer is cut and does not parse.
Recv(u) ==
    /\ pc[u] = "exec" /\ sys[u] = "recv" /\ ~overrun /\ inq # <<>> /\ Ran(u)
    /\ inq' = Tail(inq)
    /\ LET ms == Head(inq)
           all == res[u] \o ms
       IN \/ /\ Size(ms) > buf[u]
             /\ Return(u, "truncated") /\ UNCHANGED res
          \/ /\ Size(ms) <= buf[u] /\ ~checkMessage(ms)
             /\ Return(u, "error") /\ UNCHANGED res
          \/ /\ Size(ms) <= buf[u] /\ checkMessage(ms) /\ More(ms)
             /\ Syscall(u, "peek") /\ res' = [res EXCEPT ![u] = all]
             /\ UNCHANGED <<connW, connR, result>>
          \/ /\ Size(ms) <= buf[u] /\ checkMessage(ms) /\ ~More(ms)
             /\ res' = [res EXCEPT ![u] = Trim(all)]
             /\ Return(u, IF op[u] = "execute" /\ ~Validate(req[u], Trim(all))
                          THEN "error" ELSE "ok")
    /\ UNCHANGED <<dial, threadNS, fd, closed, sockW, numbers, overrun, joined, casts,
                   op, req, kind>>

\* setsockopt(2): the group calls change the membership, the others only the socket.
Setsockopt(u) ==
    /\ pc[u] = "exec" /\ sys[u] = "opt" /\ Ran(u)
    /\ \E r \in {"ok", "error"} :
        /\ Return(u, r)
        /\ joined' = IF r = "ok" /\ op[u] \in GroupOps THEN op[u] = "join" ELSE joined
    /\ UNCHANGED <<dial, threadNS, fd, closed, sockW, numbers, inq, overrun, casts,
                   op, req, kind, res>>

----------------------------------------------------------------------------
\* Close: sysSocket.mu.Lock, close(2) and doneC, then wait for the worker.

CloseLock(u) ==
    /\ pc[u] = "closeLock" /\ sockW = None
    /\ sockW' = u /\ Goto(u, "closing")
    /\ UNCHANGED <<dial, threadNS, worker, fd, closed, connW, connR, sockR, numbers, kernel, locals>>

\* Closing doneC a second time panics; the deferred Unlock still runs.
Close(u) ==
    /\ pc[u] = "closing" /\ sockR = {}
    /\ fd' = "closed" /\ closed' = TRUE
    /\ IF closed THEN Goto(u, "panic") /\ sockW' = None
                 ELSE Goto(u, "stop") /\ UNCHANGED sockW
    /\ UNCHANGED <<dial, threadNS, worker, connW, connR, sockR, numbers, kernel, locals>>

\* The worker sees doneC.
WorkerStop ==
    /\ closed /\ worker = "idle" /\ WorkerReturns
    /\ UNCHANGED <<dial, fd, closed, locks, numbers, kernel, pc, locals>>

Stopped(u) ==
    /\ pc[u] = "stop" /\ worker = "gone"
    /\ sockW' = None /\ Goto(u, "done") /\ result' = [result EXCEPT ![u] = "ok"]
    /\ UNCHANGED <<dial, threadNS, worker, fd, closed, connW, connR, sockR, numbers, kernel,
                   op, sys, buf, req, kind, res>>

\* The kernel sends a multicast message to the members of the group.
Multicast ==
    /\ joined /\ fd = "open" /\ casts < MaxCasts
    /\ casts' = casts + 1
    /\ \E k \in {"ack", "big"} : Queue(Replies(0, k))
    /\ UNCHANGED <<dial, threadNS, worker, fd, closed, locks, numbers, joined, pc, locals>>

UserStep(u) ==
    \/ Begin(u) \/ Send(u) \/ SendMessages(u) \/ Receive(u) \/ Lock(u) \/ Execute(u) \/ MarshalFails(u) \/ Enter(u)
    \/ run(u) \/ Sendmsg(u) \/ RecvmsgFails(u) \/ Peek(u) \/ Recv(u) \/ Setsockopt(u)
    \/ CloseLock(u) \/ Close(u) \/ Stopped(u)
Next ==
    \/ newLockedNetNSGoroutine \/ Socket \/ bind \/ WorkerStop \/ Multicast
    \/ \E u \in Users : UserStep(u)

\* Goroutines that can run do run, the worker included.
Fairness == WF_vars(WorkerStop) /\ \A u \in Users : WF_vars(UserStep(u))
Spec == Init /\ [][Next]_vars /\ Fairness

----------------------------------------------------------------------------
\* Properties.

TypeOK ==
    /\ dial \in {"ns", "socket", "bind", "open", "failed"}
    /\ threadNS \in {"own", "set"} /\ worker \in Users \cup {None, "idle", "gone"}
    /\ connW \in Users \cup {None} /\ connR \subseteq Users
    /\ sockW \in Users \cup {None} /\ sockR \subseteq Users
    /\ seq \in 0 .. SeqWrap - 1 /\ inq \in Seq(Seq(Messages)) /\ Len(inq) <= QueueMax
    /\ op \in [Users -> Calls \cup {None}] /\ res \in [Users -> Seq(Messages)]
    /\ buf \in [Users -> Nat]

Whole(ds) == IF Len(ds) = 1 THEN ds[1] ELSE ds[1] \o ds[2]
\* What Execute returns is the whole answer to its own request and nothing else,
\* unless the sequence number wrapped to 0, which Validate takes for a multicast, or the
\* numbers have come round.
ExecuteReturnsItsReply ==
    \A u \in Users : op[u] = "execute" /\ result[u] = "ok" /\ req[u] # 0 /\ issued <= SeqWrap =>
        res[u] = Trim(Whole(Replies(req[u], kind[u])))

\* The size conn.Receive peeked is still that of the datagram it then reads: no
\* other reader took the peeked one in between.
NothingTruncated == \A u \in Users : result[u] # "truncated"

\* No goroutine is left offering a function to a worker that has returned, and no
\* function runs on a closed descriptor (the contract of lockedNetNSGoroutine.stop).
NoCallAfterStop ==
    \A u \in Users : /\ pc[u] = "run" => worker # "gone"
                     /\ pc[u] = "exec" => fd = "open"

\* A Dial that fails at bind or getsockname leaves neither the descriptor nor the
\* worker behind, and a worker that returned gave its thread back in the thread's own
\* namespace.
NothingLeftBehind ==
    /\ dial = "failed" /\ fd \in {"open", "closed"} => fd = "closed" /\ worker = "gone"
    /\ worker = "gone" => threadNS = "own"

(***************************************************************************)
(* netlink: Execute returns the whole answer to its own request, no        *)
(* datagram is cut, no system call runs on a closed descriptor, and a Dial *)
(* that fails leaves nothing behind, while others send, receive and close. *)
(***************************************************************************)
NetlinkIsSound ==
    /\ TypeOK /\ ExecuteReturnsItsReply /\ NothingTruncated
    /\ NoCallAfterStop /\ NothingLeftBehind

\* With a read deadline every call that began ends.  (Without one a Receive that waits
\* keeps the lock Close waits for.)
CallsEnd == \A u \in Users : []<>(op[u] = None \/ pc[u] \in {"done", "panic"})
=============================================================================
