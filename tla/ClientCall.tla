----------------------------- MODULE ClientCall -----------------------------
(***************************************************************************)
(* rpcClient.Call of src/client over the connection pool of                *)
(* src/transport/pool and the HTTP client of src/transport.                *)
(*                                                                         *)
(* A call makes attempts one after the other.  An attempt is two           *)
(* goroutines, the one that runs rpcClient.call and the one it starts to   *)
(* send and receive; either may outlive the call, whose deadline passes at *)
(* any time.  Requests and answers are named after their attempt.  All     *)
(* nodes are one address, an IP, under which the pool both looks for and   *)
(* files connections; the server answers each connection in order.         *)
(***************************************************************************)
EXTENDS Integers, Sequences, Functions

CONSTANTS
  Caller,   \* calls, each made once
  Conn,     \* connections; a closed one that nobody refers to may be dialled again
  None,
  Retries,  \* CallOptions.Retries, an option of each call
  Size      \* Options.PoolSize

\* Options are numbers, and no connection is taken for nil.
CallAssumption == Retries \in [Caller -> Nat] /\ Size \in Nat /\ None \notin Conn

Attempt == UNION {{c} \X (0..Retries[c]) : c \in Caller}

VARIABLES
  cpc, tries, ctxDone, ch,    \* Call: its place, i, its context and its ch
  apc, conn, failed, closed,  \* call: its place, c, stream.err # nil, stream.closed
  ach,                        \* the ch of call
  ipc,                        \* the place of the goroutine that sends and receives
  isOpen, hlock, wire, rsp,   \* connections: open, lock held, unanswered, unread
  conns                       \* the pool's conns[addr]

callVars == <<cpc, tries, ctxDone, ch>>
attemptVars == <<apc, conn, failed, closed, ach>>
connVars == <<isOpen, hlock, wire, rsp>>
vars == <<cpc, tries, ctxDone, ch, apc, conn, failed, closed, ach, ipc,
          isOpen, hlock, wire, rsp, conns>>

Result == {"none", "ok", "err"}

TypeOK ==
  /\ cpc \in [Caller -> {"idle", "try", "wait", "returned"}]
  /\ tries \in [Caller -> Nat] /\ (\A c \in Caller : tries[c] <= Retries[c])
  /\ ctxDone \in [Caller -> BOOLEAN]
  /\ ch \in [Caller -> Result]
  /\ apc \in [Attempt -> {"none", "get", "select", "release", "kill"}]
  /\ conn \in [Attempt -> Conn \cup {None}]
  /\ failed \in [Attempt -> BOOLEAN] /\ closed \in [Attempt -> BOOLEAN]
  /\ ach \in [Attempt -> Result]
  /\ ipc \in [Attempt -> {"none", "send", "check", "recv", "read"}]
  /\ isOpen \in [Conn -> BOOLEAN] /\ hlock \in [Conn -> BOOLEAN]
  /\ wire \in [Conn -> Seq(Attempt)] /\ rsp \in [Conn -> Seq(Attempt)]
  /\ conns \in Seq(Conn) /\ Len(conns) <= Size

Init ==
  /\ cpc = [c \in Caller |-> "idle"] /\ tries = [c \in Caller |-> 0]
  /\ ctxDone = [c \in Caller |-> FALSE] /\ ch = [c \in Caller |-> "none"]
  /\ apc = [a \in Attempt |-> "none"] /\ conn = [a \in Attempt |-> None]
  /\ failed = [a \in Attempt |-> FALSE] /\ closed = [a \in Attempt |-> FALSE]
  /\ ach = [a \in Attempt |-> "none"] /\ ipc = [a \in Attempt |-> "none"]
  /\ isOpen = [k \in Conn |-> FALSE] /\ hlock = [k \in Conn |-> FALSE]
  /\ wire = [k \in Conn |-> <<>>] /\ rsp = [k \in Conn |-> <<>>]
  /\ conns = <<>>

-----------------------------------------------------------------------------
(* Call *)

\* Call returns at once if the selector fails or the context is already done.
Start(c) ==
  /\ cpc[c] = "idle"
  /\ \E l \in {"try", "returned"} : cpc' = [cpc EXCEPT ![c] = l]
  /\ UNCHANGED <<tries, ctxDone, ch, attemptVars, ipc, connVars, conns>>

\* The deadline of the context passes.
Deadline(c) ==
  /\ cpc[c] \in {"try", "wait"} /\ ~ctxDone[c]
  /\ ctxDone' = [ctxDone EXCEPT ![c] = TRUE]
  /\ UNCHANGED <<cpc, tries, ch, attemptVars, ipc, connVars, conns>>

\* The next attempt is started in a goroutine of its own.
Try(c) ==
  /\ cpc[c] = "try"
  /\ cpc' = [cpc EXCEPT ![c] = "wait"]
  /\ apc' = [apc EXCEPT ![<<c, tries[c]>>] = "get"]
  /\ UNCHANGED <<tries, ctxDone, ch, conn, failed, closed, ach, ipc, connVars, conns>>

CallTimeout(c) ==
  /\ cpc[c] = "wait" /\ ctxDone[c]
  /\ cpc' = [cpc EXCEPT ![c] = "returned"]
  /\ tries' = [tries EXCEPT ![c] = 0] /\ ch' = [ch EXCEPT ![c] = "none"]
  /\ UNCHANGED <<ctxDone, attemptVars, ipc, connVars, conns>>

\* An error is tried again (Retry is asked about status 500, whatever it was).
CallResult(c) ==
  /\ cpc[c] = "wait" /\ ch[c] # "none"
  /\ ch' = [ch EXCEPT ![c] = "none"]
  /\ IF ch[c] = "err" /\ tries[c] < Retries[c]
     THEN /\ tries' = [tries EXCEPT ![c] = @ + 1]
          /\ cpc' = [cpc EXCEPT ![c] = "try"]
     ELSE /\ tries' = [tries EXCEPT ![c] = 0]
          /\ cpc' = [cpc EXCEPT ![c] = "returned"]
  /\ UNCHANGED <<ctxDone, attemptVars, ipc, connVars, conns>>

-----------------------------------------------------------------------------
(* The pool *)

\* httpTransportClient.Close: waits for the lock, which a reader holds.
CloseConn(k) ==
  /\ ~hlock[k]
  /\ isOpen' = [isOpen EXCEPT ![k] = FALSE]
  /\ wire' = [wire EXCEPT ![k] = <<>>] /\ rsp' = [rsp EXCEPT ![k] = <<>>]
  /\ UNCHANGED hlock

\* The attempt has a connection: the stream is made, its goroutine started.
Open(a, k) ==
  /\ conn' = [conn EXCEPT ![a] = k]
  /\ apc' = [apc EXCEPT ![a] = "select"]
  /\ ipc' = [ipc EXCEPT ![a] = "send"]
  /\ UNCHANGED <<callVars, failed, closed, ach>>

\* call returns r, to the goroutine that puts it into ch.  What only it has used is gone.
Finish(a, r) ==
  /\ apc' = [apc EXCEPT ![a] = "none"]
  /\ ch' = [ch EXCEPT ![a[1]] = IF cpc[a[1]] = "wait" THEN r ELSE @]
  /\ conn' = [conn EXCEPT ![a] = IF ipc[a] = "none" THEN None ELSE @]
  /\ failed' = [failed EXCEPT ![a] = FALSE]
  /\ closed' = [closed EXCEPT ![a] = ipc[a] # "none"]
  /\ ach' = [ach EXCEPT ![a] = "none"]
  /\ UNCHANGED <<cpc, tries, ctxDone>>

GetPooled(a) ==
  /\ apc[a] = "get" /\ conns # <<>>
  /\ Open(a, conns[Len(conns)])
  /\ conns' = SubSeq(conns, 1, Len(conns) - 1)
  /\ UNCHANGED connVars

\* "if conn is old kill it and move on"
GetOld(a) ==
  /\ apc[a] = "get" /\ conns # <<>>
  /\ CloseConn(conns[Len(conns)])
  /\ conns' = SubSeq(conns, 1, Len(conns) - 1)
  /\ UNCHANGED <<callVars, attemptVars, ipc>>

InUse(k) == \E a \in Attempt : conn[a] = k /\ (apc[a] # "none" \/ ipc[a] # "none")

\* A connection that can stand for a new one.
Fresh(k) == ~isOpen[k] /\ ~InUse(k)

Dial(k) ==
  /\ isOpen' = [isOpen EXCEPT ![k] = TRUE]
  /\ hlock' = [hlock EXCEPT ![k] = FALSE]
  /\ UNCHANGED <<wire, rsp>>

GetDial(a) ==
  /\ apc[a] = "get" /\ conns = <<>>
  /\ \E k \in Conn : Fresh(k)
  /\ LET k == CHOOSE k \in Conn : Fresh(k)
     IN Dial(k) /\ Open(a, k)
  /\ UNCHANGED conns

\* No node is left, or the dial fails.
GetFails(a) ==
  /\ apc[a] = "get"
  /\ Finish(a, "err")
  /\ UNCHANGED <<ipc, connVars, conns>>

\* pool.Close: connections in use are not in the pool.
ClosePool ==
  /\ \A k \in Range(conns) : ~hlock[k]
  /\ conns' = <<>>
  /\ isOpen' = [k \in Conn |-> isOpen[k] /\ k \notin Range(conns)]
  /\ wire' = [k \in Conn |-> IF k \in Range(conns) THEN <<>> ELSE wire[k]]
  /\ rsp' = [k \in Conn |-> IF k \in Range(conns) THEN <<>> ELSE rsp[k]]
  /\ UNCHANGED hlock

\* rpcClient.Init with other pool options: a new pool takes the old one's place.
Reconfigure ==
  /\ conns # <<>>
  /\ ClosePool
  /\ UNCHANGED <<callVars, attemptVars, ipc>>

-----------------------------------------------------------------------------
(* The goroutine that sends and receives *)

\* It ends and tells call.  Every error is also stream.err.
IoEnds(a, r) ==
  /\ ipc' = [ipc EXCEPT ![a] = "none"]
  /\ IF apc[a] = "none"
     THEN /\ conn' = [conn EXCEPT ![a] = None]
          /\ closed' = [closed EXCEPT ![a] = FALSE]
          /\ UNCHANGED <<ach, failed>>
     ELSE /\ ach' = [ach EXCEPT ![a] = r]
          /\ failed' = [failed EXCEPT ![a] = @ \/ r = "err"]
          /\ UNCHANGED <<conn, closed>>
  /\ UNCHANGED <<callVars, apc, conns>>

IoGoto(a, l) ==
  /\ ipc' = [ipc EXCEPT ![a] = l]
  /\ UNCHANGED <<callVars, attemptVars, conns>>

\* httpTransportClient.Send
Write(a, k) ==
  /\ isOpen[k] /\ ~hlock[k]
  /\ wire' = [wire EXCEPT ![k] = Append(@, a)]
  /\ UNCHANGED <<isOpen, hlock, rsp>>

\* rpcStream.Send holds the stream's lock until it is done.
Send(a) ==
  /\ ipc[a] = "send"
  /\ \/ ~closed[a] /\ Write(a, conn[a]) /\ IoGoto(a, "check")
     \/ IoEnds(a, "err") /\ UNCHANGED connVars

\* rpcStream.Recv: isClosed under the stream's lock ...
Check(a) ==
  /\ ipc[a] = "check"
  /\ IF closed[a] THEN IoEnds(a, "err") ELSE IoGoto(a, "recv")
  /\ UNCHANGED connVars

\* ... then, without it, the connection's Recv; on a closed connection it
\* returns without giving the lock back.
Recv(a) ==
  /\ ipc[a] = "recv" /\ ~hlock[conn[a]]
  /\ hlock' = [hlock EXCEPT ![conn[a]] = TRUE]
  /\ IF isOpen[conn[a]] THEN IoGoto(a, "read") ELSE IoEnds(a, "err")
  /\ UNCHANGED <<isOpen, wire, rsp>>

\* An answer is read: good, or a status, an error or a body that is not.
Read(a) ==
  /\ ipc[a] = "read" /\ rsp[conn[a]] # <<>>
  /\ rsp' = [rsp EXCEPT ![conn[a]] = Tail(@)]
  /\ hlock' = [hlock EXCEPT ![conn[a]] = FALSE]
  /\ \E r \in {"ok", "err"} : IoEnds(a, r)
  /\ UNCHANGED <<isOpen, wire>>

\* Mutant: an error returns before the lock is given back.
ReadFailsLocked(a) ==
  /\ ipc[a] = "read"
  /\ IoEnds(a, "err")
  /\ UNCHANGED connVars

\* The connection breaks, or its deadline passes.
ReadFails(a) ==
  /\ ipc[a] = "read"
  /\ hlock' = [hlock EXCEPT ![conn[a]] = FALSE]
  /\ IoEnds(a, "err")
  /\ UNCHANGED <<isOpen, wire, rsp>>

\* The server (external) answers.
Answer(k) ==
  /\ wire[k] # <<>>
  /\ rsp' = [rsp EXCEPT ![k] = Append(@, Head(wire[k]))]
  /\ wire' = [wire EXCEPT ![k] = Tail(@)]
  /\ UNCHANGED <<callVars, attemptVars, ipc, isOpen, hlock, conns>>

-----------------------------------------------------------------------------
(* The end of an attempt *)

\* Mutant: a timeout is returned, but is no error of the stream.
SelectKeepsStream(a) ==
  /\ apc[a] = "select" /\ (ach[a] # "none" \/ ctxDone[a[1]])
  /\ closed' = [closed EXCEPT ![a] = TRUE]
  /\ apc' = [apc EXCEPT ![a] = "release"]
  /\ UNCHANGED <<callVars, conn, failed, ach, ipc, connVars, conns>>

\* The answer of the other goroutine, or the end of the context; then the
\* deferred stream.Close.
Select(a) ==
  /\ apc[a] = "select"
  /\ \/ ach[a] # "none" /\ UNCHANGED failed
     \/ ctxDone[a[1]] /\ failed' = [failed EXCEPT ![a] = TRUE]
  /\ closed' = [closed EXCEPT ![a] = TRUE]
  /\ apc' = [apc EXCEPT ![a] = "release"]
  /\ UNCHANGED <<callVars, conn, ach, ipc, connVars, conns>>

\* pool.Release: a connection without error goes back if there is room.
Release(a) ==
  /\ apc[a] = "release"
  /\ IF failed[a] \/ Len(conns) >= Size
     THEN /\ apc' = [apc EXCEPT ![a] = "kill"]
          /\ UNCHANGED <<callVars, conn, failed, closed, ach, conns>>
     ELSE /\ Finish(a, "ok")
          /\ conns' = Append(conns, conn[a])
  /\ UNCHANGED <<ipc, connVars>>

\* Or it is closed.
Kill(a) ==
  /\ apc[a] = "kill"
  /\ CloseConn(conn[a])
  /\ Finish(a, IF failed[a] THEN "err" ELSE "ok")
  /\ UNCHANGED <<ipc, conns>>

-----------------------------------------------------------------------------
CallStep(c) == Try(c) \/ CallTimeout(c) \/ CallResult(c)

AttemptStep(a) ==
  \/ GetPooled(a) \/ GetOld(a) \/ GetDial(a) \/ GetFails(a)
  \/ Select(a) \/ Release(a) \/ Kill(a)

IoStep(a) == Send(a) \/ Check(a) \/ Recv(a) \/ Read(a) \/ ReadFails(a)

Next ==
  \/ \E c \in Caller : Start(c) \/ Deadline(c) \/ CallStep(c)
  \/ \E a \in Attempt : AttemptStep(a) \/ IoStep(a)
  \/ \E k \in Conn : Answer(k)
  \/ Reconfigure

Spec == Init /\ [][Next]_vars

\* Goroutines run, deadlines pass; a read ends, be it by the transport's timeout.
Fairness ==
  /\ \A c \in Caller : WF_vars(CallStep(c)) /\ WF_vars(Deadline(c))
  /\ \A a \in Attempt : WF_vars(AttemptStep(a)) /\ WF_vars(IoStep(a))

FairSpec == Spec /\ Fairness

-----------------------------------------------------------------------------
(* Properties *)

(***************************************************************************)
(* An attempt reads the answer to its own request: a connection on which   *)
(* an answer may still come is never used by another, although calls time  *)
(* out at any point and leave their goroutines behind.                     *)
(***************************************************************************)
AnswerIsForRequest ==
  \A a \in Attempt : ipc[a] = "read" /\ rsp[conn[a]] # <<>> => Head(rsp[conn[a]]) = a

(***************************************************************************)
(* The pool holds open connections, each once, that nobody uses and on     *)
(* which nothing is under way.                                             *)
(***************************************************************************)
PoolIsClean ==
  /\ IsInjective(conns)
  /\ \A k \in Range(conns) :
       isOpen[k] /\ ~hlock[k] /\ wire[k] = <<>> /\ rsp[k] = <<>> /\ ~InUse(k)

\* The attempts that will release k.
Holders(k) == {a \in Attempt : conn[a] = k /\ apc[a] # "none"}

(***************************************************************************)
(* No connection is leaked or shared: an open one is in the pool and       *)
(* nobody's, or exactly one attempt will release it.                       *)
(***************************************************************************)
NoConnIsLeaked ==
  \A k \in Conn : isOpen[k] =>
    IF k \in Range(conns) THEN Holders(k) = {} ELSE \E a \in Attempt : Holders(k) = {a}

(***************************************************************************)
(* Every attempt ends and gives its connection up, although Close waits    *)
(* for the lock that a reader holds and a Recv on a closed connection      *)
(* never gives it back.                                                    *)
(***************************************************************************)
AttemptsEnd == \A a \in Attempt : []<>(apc[a] = "none")
=============================================================================
