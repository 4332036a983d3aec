--------------------------- MODULE NetlinkProofs ---------------------------
(***************************************************************************)
(* Proofs about NetlinkConn, for every number of goroutines, every choice  *)
(* of calls with one receiver, every wrap of the sequence number and every *)
(* size of the kernel's queue: what Close and a Dial that fails leave      *)
(* behind, the size a receiver peeks, and the answer Execute returns.      *)
(***************************************************************************)
EXTENDS NetlinkConn, TLAPS

\* The places of a goroutine in its call.
Places == {"start", "lock", "rlock", "closeLock", "enter", "locking", "run", "exec", "closing",
           "stop", "panic", "done"}

(***************************************************************************)
(* The inductive invariant.  A goroutine that offers a function to the     *)
(* worker, or whose function runs, holds sysSocket.mu for reading; nobody  *)
(* does once the socket is closed; and until then the worker and the       *)
(* descriptor are there.                                                   *)
(***************************************************************************)
IInv ==
    /\ pc \in [Users -> Places] /\ closed \in BOOLEAN
    /\ dial \in {"ns", "socket", "bind", "open", "failed"}
    /\ dial # "open" => sockR = {} /\ \A u \in Users : pc[u] = "start"
    /\ \A u \in Users : /\ pc[u] \in {"run", "exec"} => u \in sockR
                        /\ pc[u] = "exec" => worker = u
    /\ sockR \subseteq Users
    /\ closed => sockR = {} /\ fd = "closed"
    /\ dial \in {"ns", "socket", "bind"} => ~closed
    /\ dial = "open" /\ ~closed => fd = "open" /\ worker # "gone"
    /\ dial = "ns" => threadNS = "own" /\ fd = "none"
    /\ dial = "socket" => fd = "none" /\ worker # "gone"
    /\ dial = "bind" => fd = "open" /\ worker # "gone"
    /\ dial = "failed" => fd \in {"none", "lost"} \/ (fd = "closed" /\ worker = "gone")
    /\ dial = "failed" /\ fd \in {"none", "lost"} => ~closed
    /\ worker = "gone" => threadNS = "own"

\* The steps of Dial, before any goroutine calls.
LEMMA DialStep ==
  ASSUME IInv, newLockedNetNSGoroutine \/ Socket \/ bind
  PROVE  IInv'
<1>1. UNCHANGED <<locks, pc>> /\ dial # "open"
  BY Zenon DEF newLockedNetNSGoroutine, Socket, bind, locals
<1>2. CASE newLockedNetNSGoroutine
  BY Zenon, <1>1, <1>2 DEF newLockedNetNSGoroutine, IInv, locks
<1>3. CASE Socket
  BY Zenon, <1>1, <1>3 DEF Socket, IInv, locks
<1>4. CASE bind
  <2>1. CASE dial' = "open" /\ UNCHANGED <<threadNS, worker, fd, closed>>
    BY Zenon, <1>1, <1>4, <2>1 DEF bind, IInv, locks
  <2>2. CASE dial' = "failed" /\ fd' = "closed" /\ closed' = TRUE /\ WorkerReturns
    BY Zenon, <1>1, <2>2 DEF WorkerReturns, IInv, locks
  <2> QED
    BY Zenon, <1>4, <2>1, <2>2 DEF bind
<1> QED
  BY Zenon, <1>2, <1>3, <1>4

\* What a goroutine does before its function is offered, and after a panic or an
\* answer: it moves to a place where it does not need the worker.
LEMMA PlainStep ==
  ASSUME IInv, NEW u \in Users, dial = "open", pc[u] \notin {"run", "exec"},
         pc' \in [Users -> Places], \A v \in Users \ {u} : pc'[v] = pc[v],
         pc'[u] \notin {"run", "exec"}, UNCHANGED <<dial, threadNS, worker, fd, closed, sockR>>
  PROVE  IInv'
  BY Zenon DEF IInv

\* The function of a goroutine has run.
LEMMA RanStep ==
  ASSUME IInv, NEW u \in Users, dial = "open", pc[u] = "exec", Ran(u), UsersAssumption,
         pc' \in [Users -> Places], \A v \in Users \ {u} : pc'[v] = pc[v],
         pc'[u] \notin {"run", "exec"}, UNCHANGED <<dial, threadNS, fd, closed>>
  PROVE  IInv'
  BY Zenon DEF IInv, Ran, UsersAssumption

\* Every step of a goroutine keeps the invariant.
LEMMA UserStepKeeps ==
  ASSUME IInv, UsersAssumption, NEW u \in Users, UserStep(u)
  PROVE  IInv'
<1>1. dial = "open"
  BY Zenon DEF IInv, UserStep, Begin, Send, SendMessages, Receive, Lock, Execute, MarshalFails, Enter,
         run, Sendmsg, RecvmsgFails, Peek, Recv, Setsockopt, CloseLock, Close, Stopped
<1>2. pc \in [Users -> Places]
  BY Zenon DEF IInv
<1>3. \A l \in Places : Goto(u, l) => /\ pc' \in [Users -> Places] /\ pc'[u] = l
                                      /\ \A v \in Users \ {u} : pc'[v] = pc[v]
  BY Zenon, <1>2 DEF Goto
<1>4. ASSUME NEW r, Return(u, r) PROVE Goto(u, "done")
  BY Zenon, <1>4 DEF Return
<1>5. ASSUME NEW s, Syscall(u, s) PROVE Goto(u, "enter")
  BY Zenon, <1>5 DEF Syscall
<1>6. ASSUME NEW o PROVE EntryOf(o) \in {"lock", "rlock", "closeLock", "enter"}
  BY Zenon DEF EntryOf
<1>7. CASE Begin(u)
  <2>1. PICK o \in OpsOf[u] : Goto(u, EntryOf(o))
    BY Zenon, <1>7 DEF Begin
  <2> QED
    BY Zenon, <1>1, <1>3, <1>6, <1>7, <2>1, PlainStep DEF Places, Begin, locks
<1>8. ASSUME lockedSend(u) PROVE Goto(u, "done") \/ Goto(u, "enter")
  BY Zenon, <1>4, <1>5, <1>8 DEF lockedSend
<1>9. CASE Send(u) \/ Execute(u)
  <2>1. Goto(u, "done") \/ Goto(u, "enter")
    BY Zenon, <1>8, <1>9 DEF Send, Execute
  <2> QED
    BY Zenon, <1>1, <1>3, <1>9, <2>1, PlainStep DEF Places, Send, Execute
<1>10. CASE SendMessages(u) \/ Receive(u)
  <2>1. Goto(u, "done") \/ Goto(u, "enter")
    BY Zenon, <1>4, <1>5, <1>10 DEF SendMessages, Receive
  <2> QED
    BY Zenon, <1>1, <1>3, <1>10, <2>1, PlainStep DEF Places, SendMessages, Receive
<1>11. CASE Lock(u) \/ CloseLock(u)
  BY Zenon, <1>1, <1>3, <1>11, PlainStep DEF Places, Lock, CloseLock
<1>12. CASE MarshalFails(u)
  BY Zenon, <1>1, <1>3, <1>4, <1>12, PlainStep DEF Places, MarshalFails
<1>13. CASE Enter(u)
  <2>1. CASE closed
    BY Zenon, <1>1, <1>3, <1>4, <1>13, <2>1, PlainStep DEF Places, Enter
  <2>2. CASE ~closed
    BY Zenon, <1>1, <1>3, <1>13, <2>2 DEF Places, Enter, IInv
  <2> QED
    BY Zenon, <2>1, <2>2
<1>14. CASE run(u)
  BY Zenon, <1>1, <1>3, <1>14 DEF Places, run, IInv, UsersAssumption, locks
<1>15. CASE Sendmsg(u)
  <2>1. Goto(u, "done") \/ Goto(u, "enter")
    BY Zenon, <1>4, <1>5, <1>15 DEF Sendmsg
  <2> QED
    BY Zenon, <1>1, <1>3, <1>15, <2>1, RanStep DEF Places, Sendmsg
<1>16. CASE RecvmsgFails(u) \/ Peek(u) \/ Setsockopt(u)
  <2>1. Goto(u, "done") \/ Goto(u, "enter")
    BY Zenon, <1>4, <1>16 DEF RecvmsgFails, Peek, Setsockopt
  <2> QED
    BY Zenon, <1>1, <1>3, <1>16, <2>1, RanStep DEF Places, RecvmsgFails, Peek, Setsockopt
<1>17. CASE Recv(u)
  <2>1. Goto(u, "done") \/ Goto(u, "enter")
    BY Zenon, <1>4, <1>5, <1>17 DEF Recv
  <2> QED
    BY Zenon, <1>1, <1>3, <1>17, <2>1, RanStep DEF Places, Recv
<1>18. CASE Close(u)
  BY Zenon, <1>1, <1>3, <1>18 DEF Places, Close, IInv
<1>19. CASE Stopped(u)
  BY Zenon, <1>1, <1>3, <1>19, PlainStep DEF Places, Stopped
<1> QED
  BY Zenon, <1>7, <1>9, <1>10, <1>11, <1>12, <1>13, <1>14, <1>15, <1>16, <1>17, <1>18, <1>19
     DEF UserStep

\* Every step keeps it.
LEMMA IInvStep == ASSUME UsersAssumption, IInv, [Next]_vars PROVE IInv'
<1>1. CASE UNCHANGED vars
  BY Zenon, <1>1 DEF IInv, vars
<1>2. CASE newLockedNetNSGoroutine \/ Socket \/ bind
  BY Zenon, <1>2, DialStep
<1>3. CASE WorkerStop
  BY Zenon, <1>3, UsersAssumption DEF WorkerStop, WorkerReturns, IInv, locks, UsersAssumption
<1>4. CASE Multicast
  BY Zenon, <1>4 DEF Multicast, IInv, locks
<1>5. ASSUME NEW u \in Users, UserStep(u) PROVE IInv'
  BY Zenon, <1>5, UserStepKeeps
<1> QED
  BY Zenon, <1>1, <1>2, <1>3, <1>4, <1>5 DEF Next

----------------------------------------------------------------------------
(***************************************************************************)
(* The locks and the system calls.  A goroutine in a system call of        *)
(* Execute holds Conn.mu for writing and is alone with it, one of Send,    *)
(* SendMessages or Receive holds it for reading, and the system call is    *)
(* one its operation makes.                                                *)
(***************************************************************************)
InCall(u) == pc[u] \in {"enter", "run", "exec"}
Reading == {"peek", "recv"}
Shared == {"send", "sendMessages", "receive"}

\* What the variables of a call are.
Sorts ==
    /\ pc \in [Users -> Places] /\ op \in [Users -> Calls \cup {None}]
    /\ sys \in [Users -> Reading \cup {"send", "opt", None}]
    /\ result \in [Users -> {"ok", "error", "truncated", None}]
    /\ connW \in Users \cup {None} /\ connR \subseteq Users

\* What a call does follows from what it is.
Fitting(u) ==
    /\ op[u] # None => op[u] \in OpsOf[u]
    /\ pc[u] = "start" => op[u] = None
    /\ pc[u] \in {"lock", "locking"} => op[u] = "execute"
    /\ pc[u] = "rlock" => op[u] \in Shared
    /\ pc[u] \in {"closeLock", "closing", "stop", "panic"} => op[u] = "close"
    /\ InCall(u) => \/ sys[u] = "send" /\ op[u] \in {"execute", "send", "sendMessages"}
                    \/ sys[u] \in Reading /\ op[u] \in {"execute", "receive"}
                    \/ sys[u] = "opt" /\ op[u] \in SockOps
    /\ pc[u] # "done" => result[u] = None

\* Who holds Conn.mu.
Holding(u) ==
    /\ connW = u <=> op[u] = "execute" /\ (pc[u] = "locking" \/ InCall(u))
    /\ u \in connR <=> op[u] \in Shared /\ InCall(u)
    /\ connW = u /\ InCall(u) => connR = {}

LockInv == Sorts /\ \A u \in Users : Fitting(u) /\ Holding(u)

\* The step of one goroutine concerns it and the locks.
LEMMA OneMoves ==
  ASSUME LockInv, NEW u \in Users, Sorts', Fitting(u)', Holding(u)',
         \A v \in Users \ {u} : /\ pc'[v] = pc[v] /\ op'[v] = op[v] /\ sys'[v] = sys[v]
                                /\ result'[v] = result[v]
                                /\ connW' = v <=> connW = v
                                /\ v \in connR' <=> v \in connR
                                /\ connW = v /\ InCall(v) => u \notin connR'
  PROVE  LockInv'
<1> SUFFICES ASSUME NEW v \in Users \ {u} PROVE Fitting(v)' /\ Holding(v)'
  BY Zenon DEF LockInv
<1>1. Fitting(v) /\ Holding(v)
  BY Zenon DEF LockInv
<1>2. Fitting(v)'
  BY Zenon, <1>1 DEF Fitting, InCall
<1>3. connW = v /\ InCall(v) => connR' = {}
  BY ZenonT(30), <1>1 DEF Holding, LockInv, Sorts
<1>4. Holding(v)'
  BY Zenon, <1>1, <1>3 DEF Holding, InCall
<1> QED
  BY Zenon, <1>2, <1>4

\* A call returns.
LEMMA ReturnLocks ==
  ASSUME UsersAssumption, LockInv, NEW u \in Users, NEW r \in {"ok", "error", "truncated"},
         Return(u, r), UNCHANGED op, op[u] # None, pc[u] # "start"
  PROVE  LockInv'
<1>1. /\ pc' = [pc EXCEPT ![u] = "done"] /\ sys' = [sys EXCEPT ![u] = None]
      /\ result' = [result EXCEPT ![u] = r] /\ connR' = connR \ {u}
      /\ connW' = IF connW = u THEN None ELSE connW
  BY Zenon DEF Return, Goto
<1>2. None \notin Users /\ Sorts /\ Fitting(u) /\ Holding(u)
  BY Zenon DEF UsersAssumption, LockInv
<1>3. Sorts'
  BY Zenon, <1>1, <1>2 DEF Sorts, Places
<1>4. pc'[u] = "done" /\ connW' # u /\ u \notin connR' /\ op'[u] = op[u]
  BY Zenon, <1>1, <1>2 DEF Sorts
<1>5. Fitting(u)' /\ Holding(u)'
  BY Zenon, <1>2, <1>4 DEF Fitting, Holding, InCall
<1>6. \A v \in Users \ {u} : /\ pc'[v] = pc[v] /\ op'[v] = op[v] /\ sys'[v] = sys[v]
                             /\ result'[v] = result[v]
                             /\ connW' = v <=> connW = v
                             /\ v \in connR' <=> v \in connR
                             /\ connW = v /\ InCall(v) => u \notin connR'
  BY <1>1, <1>2 DEF Sorts
<1> QED
  BY Zenon, <1>3, <1>5, <1>6, OneMoves

\* A goroutine moves on without a change of the locks.
LEMMA MoveLocks ==
  ASSUME LockInv, NEW u \in Users, NEW l \in Places, NEW s \in Reading \cup {"send", "opt", None},
         pc' = [pc EXCEPT ![u] = l], sys' = [sys EXCEPT ![u] = s], UNCHANGED <<op, result, connW, connR>>,
         Fitting(u)', Holding(u)'
  PROVE  LockInv'
<1>1. Sorts'
  BY Zenon DEF LockInv, Sorts
<1>2. \A v \in Users \ {u} : connW = v /\ InCall(v) => u \notin connR'
  BY Zenon DEF LockInv, Holding
<1> QED
  BY Zenon, <1>1, <1>2, OneMoves DEF LockInv, Sorts

\* The steps before and between the system calls.
LEMMA EntryLocks ==
  ASSUME UsersAssumption, LockInv, NEW u \in Users, Begin(u) \/ Lock(u) \/ Receive(u) \/ run(u)
  PROVE  LockInv'
<1>1. None \notin Users /\ Sorts /\ Fitting(u) /\ Holding(u) /\ OpsOf[u] \subseteq Calls
  BY Zenon DEF UsersAssumption, LockInv
<1>2. CASE Begin(u)
  <2>1. PICK o \in OpsOf[u] : /\ op' = [op EXCEPT ![u] = o] /\ pc' = [pc EXCEPT ![u] = EntryOf(o)]
                              /\ sys' = [sys EXCEPT ![u] = IF o \in SockOps THEN "opt" ELSE None]
    BY ZenonT(30), <1>2 DEF Begin, Goto
  <2>2. UNCHANGED <<connW, connR, result>> /\ pc[u] = "start" /\ o \in Calls
    BY Zenon, <1>1, <1>2 DEF Begin, locks
  <2>3. EntryOf(o) \in {"lock", "rlock", "closeLock", "enter"}
    BY Zenon DEF EntryOf
  <2>4. Sorts'
    BY Zenon, <1>1, <2>1, <2>2, <2>3 DEF Sorts, Places
  <2>5. /\ op'[u] = o /\ pc'[u] = EntryOf(o) /\ sys'[u] = (IF o \in SockOps THEN "opt" ELSE None)
        /\ result'[u] = None
    BY Zenon, <1>1, <2>1, <2>2 DEF Sorts, Fitting
  <2>6. Fitting(u)'
    BY Zenon, <2>2, <2>5 DEF Fitting, InCall, EntryOf, Calls, SockOps, GroupOps, Shared
  <2>7. connW' # u /\ u \notin connR'
    BY Zenon, <1>1, <2>2 DEF Holding, InCall
  <2>8. Holding(u)'
    BY Zenon, <2>2, <2>5, <2>7 DEF Holding, InCall, EntryOf, Calls, SockOps, GroupOps, Shared
  <2>9. \A v \in Users \ {u} : /\ pc'[v] = pc[v] /\ op'[v] = op[v] /\ sys'[v] = sys[v]
                               /\ result'[v] = result[v]
                               /\ connW = v /\ InCall(v) => u \notin connR'
    BY Zenon, <1>1, <2>1, <2>2, <2>7 DEF Sorts
  <2> QED
    BY Zenon, <2>2, <2>4, <2>6, <2>8, <2>9, OneMoves
<1>3. CASE Lock(u)
  <2>1. /\ pc' = [pc EXCEPT ![u] = "locking"] /\ connW = None /\ connW' = u
        /\ UNCHANGED <<connR, op, sys, result>> /\ pc[u] = "lock"
    BY Zenon, <1>3 DEF Lock, Goto, locals
  <2>2. Sorts'
    BY Zenon, <1>1, <2>1 DEF Sorts, Places
  <2>3. pc'[u] = "locking" /\ op'[u] = "execute" /\ op[u] = "execute" /\ result'[u] = result[u]
    BY Zenon, <1>1, <2>1 DEF Sorts, Fitting
  <2>4. Fitting(u)'
    BY Zenon, <1>1, <2>1, <2>3 DEF Fitting, InCall
  <2>5. u \notin connR
    BY Zenon, <1>1, <2>1 DEF Holding, InCall
  <2>6. Holding(u)'
    BY Zenon, <2>1, <2>3, <2>5 DEF Holding, InCall, Shared
  <2>7. \A v \in Users \ {u} : /\ pc'[v] = pc[v] /\ op'[v] = op[v] /\ sys'[v] = sys[v]
                               /\ result'[v] = result[v] /\ connW' # v /\ connW # v
    BY Zenon, <1>1, <2>1 DEF Sorts
  <2> QED
    BY Zenon, <2>1, <2>2, <2>4, <2>6, <2>7, OneMoves
<1>4. CASE Receive(u)
  <2>1. /\ pc' = [pc EXCEPT ![u] = "enter"] /\ connW = None /\ connR' = connR \cup {u}
        /\ sys' = [sys EXCEPT ![u] = "peek"]
        /\ UNCHANGED <<connW, op, result>> /\ pc[u] = "rlock" /\ op[u] = "receive"
    BY Zenon, <1>4 DEF Receive, Syscall, Goto
  <2>2. Sorts'
    BY Zenon, <1>1, <2>1 DEF Sorts, Places, Reading
  <2>3. pc'[u] = "enter" /\ op'[u] = "receive" /\ sys'[u] = "peek" /\ result'[u] = result[u]
    BY Zenon, <1>1, <2>1 DEF Sorts
  <2>4. Fitting(u)'
    BY Zenon, <1>1, <2>1, <2>3 DEF Fitting, InCall, Reading
  <2>5. Holding(u)'
    BY Zenon, <1>1, <2>1, <2>3 DEF Holding, InCall, Shared
  <2>6. \A v \in Users \ {u} : /\ pc'[v] = pc[v] /\ op'[v] = op[v] /\ sys'[v] = sys[v]
                               /\ result'[v] = result[v] /\ connW' # v /\ connW # v
                               /\ v \in connR' <=> v \in connR
    BY Zenon, <1>1, <2>1 DEF Sorts
  <2> QED
    BY Zenon, <2>2, <2>4, <2>5, <2>6, OneMoves
<1>5. CASE run(u)
  <2>1. /\ pc' = [pc EXCEPT ![u] = "exec"] /\ pc[u] = "run"
        /\ UNCHANGED <<connW, connR, op, sys, result>>
    BY Zenon, <1>5 DEF run, Goto, locks, locals
  <2>2. pc'[u] = "exec"
    BY Zenon, <1>1, <2>1 DEF Sorts
  <2>3. Fitting(u)' /\ Holding(u)'
    BY Zenon, <1>1, <2>1, <2>2 DEF Fitting, Holding, InCall
  <2>4. "exec" \in Places /\ sys[u] \in Reading \cup {"send", "opt", None} /\ sys' = [sys EXCEPT ![u] = sys[u]]
    BY Zenon, <1>1, <2>1 DEF Sorts, Places
  <2> QED
    BY ZenonT(30), <2>1, <2>3, <2>4, MoveLocks
<1> QED
  BY Zenon, <1>2, <1>3, <1>4, <1>5

\* A goroutine begins a system call, with the lock it has taken.
LEMMA SyscallLocks ==
  ASSUME UsersAssumption, LockInv, NEW u \in Users, NEW s \in Reading \cup {"send"}, Syscall(u, s),
         UNCHANGED <<op, result, connW>>, op[u] # None, result[u] = None,
         connR' = connR \/ connR' = connR \cup {u},
         u \in connR' <=> op[u] \in Shared,
         connW = u <=> op[u] = "execute",
         op[u] = "execute" => connR' = {},
         op[u] \in Shared => connW = None \/ u \in connR,
         s = "send" => op[u] \in {"execute", "send", "sendMessages"},
         s \in Reading => op[u] \in {"execute", "receive"}
  PROVE  LockInv'
<1>1. None \notin Users /\ Sorts /\ Fitting(u) /\ Holding(u)
  BY Zenon DEF UsersAssumption, LockInv
<1>2. pc' = [pc EXCEPT ![u] = "enter"] /\ sys' = [sys EXCEPT ![u] = s]
  BY Zenon DEF Syscall, Goto
<1>3. Sorts'
  BY Zenon, <1>1, <1>2 DEF Sorts, Places
<1>4. pc'[u] = "enter" /\ sys'[u] = s /\ op'[u] = op[u] /\ result'[u] = None
  BY Zenon, <1>1, <1>2 DEF Sorts
<1>5. Fitting(u)'
  BY Zenon, <1>1, <1>4 DEF Fitting, InCall
<1>6. Holding(u)'
  BY Zenon, <1>4 DEF Holding, InCall
<1>7. \A v \in Users \ {u} : /\ pc'[v] = pc[v] /\ op'[v] = op[v] /\ sys'[v] = sys[v]
                             /\ result'[v] = result[v] /\ (v \in connR' <=> v \in connR)
  BY Zenon, <1>1, <1>2 DEF Sorts
<1>8. ASSUME NEW v \in Users \ {u}, connW = v, InCall(v) PROVE u \notin connR'
  BY Zenon, <1>1, <1>8 DEF LockInv, Holding
<1> QED
  BY Zenon, <1>3, <1>5, <1>6, <1>7, <1>8, OneMoves

\* The numbering of a message, in Execute, Send and SendMessages.
LEMMA SendLocks ==
  ASSUME UsersAssumption, LockInv, NEW u \in Users, Send(u) \/ SendMessages(u) \/ Execute(u)
  PROVE  LockInv'
<1>1. None \notin Users /\ Sorts /\ Fitting(u) /\ Holding(u)
  BY Zenon DEF UsersAssumption, LockInv
<1>2. /\ UNCHANGED op /\ pc[u] \in {"rlock", "locking"} /\ op[u] \in {"execute", "send", "sendMessages"}
      /\ op[u] # None /\ result[u] = None
  <2>1. UNCHANGED op /\ pc[u] \in {"rlock", "locking"} /\ op[u] \in {"execute", "send", "sendMessages"}
    BY Zenon, <1>1 DEF Send, SendMessages, Execute, LockInv, Fitting
  <2>2. None \notin {"execute", "send", "sendMessages"}
    BY Zenon DEF UsersAssumption, Calls
  <2> QED
    BY Zenon, <1>1, <2>1, <2>2 DEF Fitting
<1>3. CASE Return(u, "error")
  BY Zenon, <1>2, <1>3, ReturnLocks
<1>7. None \notin Users /\ None # "execute" /\ "send" \in Reading \cup {"send"} /\ "send" \notin Reading
  BY Zenon DEF UsersAssumption, Calls, Reading
<1>8. op[u] \in Shared => connW # u
  BY Zenon, <1>1 DEF Holding, Shared
<1>4. CASE Send(u) /\ ~Return(u, "error")
  <2>1. Syscall(u, "send") /\ connR' = connR \cup {u} /\ UNCHANGED <<connW, result>> /\ connW = None /\ op[u] = "send"
    BY Zenon, <1>4 DEF Send, lockedSend
  <2> QED
    BY Zenon, <1>2, <1>7, <1>8, <2>1, SyscallLocks DEF Shared
<1>5. CASE SendMessages(u) /\ ~Return(u, "error")
  <2>1. /\ Syscall(u, "send") /\ connR' = connR \cup {u} /\ UNCHANGED <<connW, result>>
        /\ connW = None /\ op[u] = "sendMessages"
    BY Zenon, <1>5 DEF SendMessages
  <2> QED
    BY Zenon, <1>2, <1>7, <1>8, <2>1, SyscallLocks DEF Shared
<1>6. CASE Execute(u) /\ ~Return(u, "error")
  <2>1. pc[u] = "locking" /\ op[u] = "execute" /\ connW = u
    BY Zenon, <1>6 DEF Execute, LockInv, Fitting, Holding
  <2>2. Syscall(u, "send") /\ UNCHANGED <<connW, connR, result>> /\ connR = {}
    BY Zenon, <1>6, <2>1 DEF Execute, lockedSend
  <2> QED
    BY Zenon, <1>2, <1>7, <2>1, <2>2, SyscallLocks DEF Shared
<1> QED
  BY Zenon, <1>3, <1>4, <1>5, <1>6

\* The system calls.
LEMMA CallLocks ==
  ASSUME UsersAssumption, LockInv, NEW u \in Users,
         MarshalFails(u) \/ Enter(u) \/ Sendmsg(u) \/ RecvmsgFails(u) \/ Peek(u) \/ Recv(u) \/ Setsockopt(u)
  PROVE  LockInv'
<1>1. None \notin Users /\ Sorts /\ Fitting(u) /\ Holding(u)
  BY Zenon DEF UsersAssumption, LockInv
<1>2. UNCHANGED op /\ InCall(u) /\ op[u] # None /\ pc[u] # "start" /\ result[u] = None
  <2>1. UNCHANGED op /\ InCall(u)
    BY ZenonT(30) DEF MarshalFails, Enter, Sendmsg, RecvmsgFails, Peek, Recv, Setsockopt, InCall
  <2>2. op[u] \in Calls
    BY Zenon, <1>1, <2>1 DEF Fitting, Calls, SockOps
  <2>3. None \notin Calls
    BY Zenon DEF UsersAssumption
  <2> QED
    BY Zenon, <1>1, <2>1, <2>2, <2>3 DEF Fitting, InCall
<1>3. ASSUME NEW r \in {"ok", "error", "truncated"}, Return(u, r) PROVE LockInv'
  BY Zenon, <1>2, <1>3, ReturnLocks
<1>4. /\ connW = u <=> op[u] = "execute"
      /\ u \in connR <=> op[u] \in Shared
      /\ op[u] = "execute" => connR = {}
  BY Zenon, <1>1, <1>2 DEF Holding
<1>5. ASSUME NEW s \in Reading, Syscall(u, s), UNCHANGED <<connW, connR, result>>,
             op[u] \in {"execute", "receive"}
      PROVE  LockInv'
  BY Zenon, <1>2, <1>4, <1>5, SyscallLocks DEF Reading
<1>6. CASE MarshalFails(u) \/ RecvmsgFails(u) \/ Setsockopt(u)
  BY Zenon, <1>3, <1>6 DEF MarshalFails, RecvmsgFails, Setsockopt
<1>7. CASE Enter(u) /\ ~closed
  <2>1. /\ pc' = [pc EXCEPT ![u] = "run"] /\ UNCHANGED <<connW, connR, sys, result>>
    BY Zenon, <1>7 DEF Enter, Goto
  <2>2. pc'[u] = "run"
    BY Zenon, <1>1, <2>1 DEF Sorts
  <2>3. Fitting(u)' /\ Holding(u)'
    BY Zenon, <1>1, <1>2, <2>1, <2>2 DEF Fitting, Holding, InCall
  <2>4. "run" \in Places /\ sys[u] \in Reading \cup {"send", "opt", None} /\ sys' = [sys EXCEPT ![u] = sys[u]]
    BY Zenon, <1>1, <2>1 DEF Sorts, Places
  <2> QED
    BY Zenon, <1>2, <2>1, <2>3, <2>4, MoveLocks
<1>8. CASE Enter(u) /\ closed
  BY Zenon, <1>3, <1>8 DEF Enter
<1>9. CASE Sendmsg(u)
  BY ZenonT(30), <1>3, <1>5, <1>9 DEF Sendmsg, Reading
<1>10. CASE Peek(u)
  <2>1. PICK s \in Reading : sys' = [sys EXCEPT ![u] = s]
    <3>1. sys[u] = "peek" /\ sys' \in {sys, [sys EXCEPT ![u] = "recv"]}
      BY Zenon, <1>10 DEF Peek
    <3>2. sys = [sys EXCEPT ![u] = "peek"]
      BY Zenon, <1>1, <3>1 DEF Sorts
    <3> QED
      BY Zenon, <3>1, <3>2 DEF Reading
  <2>2. /\ pc' = [pc EXCEPT ![u] = "enter"] /\ UNCHANGED <<connW, connR, result>> /\ sys[u] = "peek"
    BY Zenon, <1>10 DEF Peek, Goto
  <2>3. pc'[u] = "enter" /\ sys'[u] = s
    BY Zenon, <1>1, <2>1, <2>2 DEF Sorts
  <2>4. op[u] \in {"execute", "receive"}
    BY ZenonT(30), <1>1, <1>2, <2>2 DEF Fitting, Reading
  <2>5. Fitting(u)' /\ Holding(u)'
    BY Zenon, <1>1, <1>2, <2>2, <2>3, <2>4 DEF Fitting, Holding, InCall
  <2> QED
    BY Zenon, <1>2, <2>1, <2>2, <2>5, MoveLocks DEF Places
<1>11. CASE Recv(u)
  <2>1. op[u] \in {"execute", "receive"}
    BY ZenonT(30), <1>1, <1>2, <1>11 DEF Fitting, Reading, Recv
  <2>2. \/ \E r \in {"ok", "error", "truncated"} : Return(u, r)
        \/ Syscall(u, "peek") /\ UNCHANGED <<connW, connR, result>>
    BY Zenon, <1>11 DEF Recv
  <2> QED
    BY Zenon, <1>3, <1>5, <2>1, <2>2 DEF Reading
<1> QED
  BY Zenon, <1>6, <1>7, <1>8, <1>9, <1>10, <1>11

\* The steps of Close, which takes the socket's lock only.
LEMMA CloseLocks ==
  ASSUME UsersAssumption, LockInv, NEW u \in Users, CloseLock(u) \/ Close(u) \/ Stopped(u)
  PROVE  LockInv'
<1>1. None \notin Users /\ Sorts /\ Fitting(u) /\ Holding(u)
  BY Zenon DEF UsersAssumption, LockInv
<1>2. PICK l \in {"closing", "panic", "stop", "done"} : pc' = [pc EXCEPT ![u] = l]
  BY Zenon DEF CloseLock, Close, Stopped, Goto
<1>3. /\ UNCHANGED <<op, sys, connW, connR>> /\ pc[u] \in {"closeLock", "closing", "stop"}
      /\ result' = result \/ (result' = [result EXCEPT ![u] = "ok"] /\ l = "done")
  <2>1. CASE Stopped(u)
    <3>1. pc'[u] = "done" /\ pc'[u] = l
      BY Zenon, <1>1, <1>2, <2>1 DEF Stopped, Goto, Sorts
    <3> QED
      BY Zenon, <2>1, <3>1 DEF Stopped
  <2> QED
    BY Zenon, <2>1 DEF CloseLock, Close, locals
<1>4. Sorts'
  BY Zenon, <1>1, <1>2, <1>3 DEF Sorts, Places
<1>5. pc'[u] = l /\ op'[u] = "close" /\ op[u] = "close" /\ (l # "done" => result'[u] = None)
  BY Zenon, <1>1, <1>2, <1>3 DEF Sorts, Fitting
<1>6. Fitting(u)'
  BY Zenon, <1>1, <1>5 DEF Fitting, InCall
<1>7. connW # u /\ u \notin connR
  BY Zenon, <1>1, <1>5 DEF Holding, Shared
<1>8. Holding(u)'
  BY Zenon, <1>3, <1>5, <1>7 DEF Holding, InCall, Shared
<1>9. \A v \in Users \ {u} : /\ pc'[v] = pc[v] /\ op'[v] = op[v] /\ sys'[v] = sys[v]
                             /\ result'[v] = result[v]
  BY Zenon, <1>1, <1>2, <1>3 DEF Sorts
<1> QED
  BY Zenon, <1>3, <1>4, <1>6, <1>7, <1>8, <1>9, OneMoves

\* Every step keeps the two locks: a writer alone, readers and no writer.
LEMMA LockStep == ASSUME UsersAssumption, LockInv, [Next]_vars PROVE LockInv'
<1>1. ASSUME NEW u \in Users, UserStep(u) PROVE LockInv'
  BY Zenon, <1>1, EntryLocks, SendLocks, CallLocks, CloseLocks DEF UserStep
<1>2. CASE UNCHANGED <<locks, pc, locals>>
  BY ZenonT(30), <1>2 DEF LockInv, Sorts, Fitting, Holding, InCall, locks, locals
<1>3. UNCHANGED vars \/ newLockedNetNSGoroutine \/ Socket \/ bind \/ WorkerStop \/ Multicast
        => UNCHANGED <<locks, pc, locals>>
  BY Zenon DEF newLockedNetNSGoroutine, Socket, bind, WorkerStop, Multicast, vars, locks, locals
<1> QED
  BY Zenon, <1>1, <1>2, <1>3 DEF Next

----------------------------------------------------------------------------
(***************************************************************************)
(* The queue.  A datagram has a message, and does not begin with the end   *)
(* of a dump.                                                              *)
(***************************************************************************)
Datagrams == {d \in Seq(Messages) : d # <<>> /\ d[1].kind # "done"}

\* The kernel's answer: one datagram or two, with the sequence number of the request.
LEMMA RepliesAre ==
  ASSUME NEW s \in Nat, NEW k \in ReplyKinds
  PROVE  /\ Replies(s, k) \in Seq(Datagrams) /\ Len(Replies(s, k)) \in {1, 2}
         /\ \A i \in DOMAIN Replies(s, k) : \A j \in DOMAIN Replies(s, k)[i] : Replies(s, k)[i][j].seq = s
<1>1. ASSUME NEW l \in {"ack", "big", "error"}
      PROVE  /\ << <<Msg(s, l)>> >> \in Seq(Datagrams) /\ Len(<< <<Msg(s, l)>> >>) = 1
             /\ \A i \in DOMAIN << <<Msg(s, l)>> >> : \A j \in DOMAIN << <<Msg(s, l)>> >>[i] :
                    << <<Msg(s, l)>> >>[i][j].seq = s
  BY <1>1 DEF Datagrams, Messages, Msg
<1>2. CASE k \in {"ack", "big", "error"}
  <2>1. Replies(s, k) = << <<Msg(s, k)>> >>
    BY Zenon, <1>2 DEF Replies
  <2> QED
    BY <1>1, <1>2, <2>1
<1>3. CASE k = "dump"
  <2>1. PICK a \in Seq(Messages), b \in Seq(Messages) :
             a = <<Msg(s, "part")>> /\ b = <<Msg(s, "part"), Msg(s, "done")>>
    <3>1. Msg(s, "part") \in Messages /\ Msg(s, "done") \in Messages
      BY Zenon DEF Messages, Msg
    <3>2. <<Msg(s, "part")>> \in Seq(Messages) /\ <<Msg(s, "part"), Msg(s, "done")>> \in Seq(Messages)
      BY <3>1
    <3> QED
      BY Zenon, <3>2
  <2>2. a \in Datagrams /\ b \in Datagrams
    BY Zenon, <2>1 DEF Datagrams, Msg
  <2>3. (\A j \in DOMAIN a : a[j].seq = s) /\ (\A j \in DOMAIN b : b[j].seq = s)
    BY <2>1 DEF Msg
  <2>4. Replies(s, k) = <<a, b>>
    BY Zenon, <1>3, <2>1 DEF Replies
  <2> QED
    BY <2>2, <2>3, <2>4
<1> QED
  BY Zenon, <1>2, <1>3 DEF ReplyKinds

\* The next sequence number, where it wraps and where it does not.
LEMMA NextIs ==
  ASSUME SeqWrap \in Nat, NEW s \in 0 .. SeqWrap - 1
  PROVE  nextSequence(s) = IF s + 1 = SeqWrap THEN 0 ELSE s + 1
<1>1. CASE s + 1 < SeqWrap
  BY <1>1 DEF nextSequence
<1>2. CASE s + 1 = SeqWrap
  BY <1>2 DEF nextSequence
<1> QED
  BY <1>1, <1>2

\* The sequence number stays in its range.
LEMMA NextIn ==
  ASSUME UsersAssumption, NEW s \in 0 .. SeqWrap - 1 PROVE nextSequence(s) \in 0 .. SeqWrap - 1
<1>1. SeqWrap \in Nat
  BY Zenon DEF UsersAssumption
<1>2. nextSequence(s) = IF s + 1 = SeqWrap THEN 0 ELSE s + 1
  BY Zenon, <1>1, NextIs
<1> QED
  BY <1>1, <1>2

\* What the kernel takes of the datagrams it is to queue.
LEMMA Queued ==
  ASSUME NEW ds \in Seq(Datagrams), inq \in Seq(Datagrams), QueueMax \in Nat, Len(inq) <= QueueMax,
         Queue(ds)
  PROVE  /\ inq' \in Seq(Datagrams) /\ Len(inq') <= QueueMax
         /\ \A i \in DOMAIN inq' : \/ i \in DOMAIN inq /\ inq'[i] = inq[i]
                                   \/ \E k \in DOMAIN ds : inq'[i] = ds[k]
         /\ inq # <<>> => inq' # <<>> /\ Head(inq') = Head(inq)
         /\ ~overrun' => inq' = inq \o ds
<1>0. inq \o ds \in Seq(Datagrams)
  OBVIOUS
<1>1. PICK all \in Seq(Datagrams) : all = inq \o ds
  BY Zenon, <1>0
<1>2. /\ Len(all) = Len(inq) + Len(ds)
      /\ \A i \in 1 .. Len(all) : all[i] = IF i <= Len(inq) THEN inq[i] ELSE ds[i - Len(inq)]
  BY <1>1
<1>3. PICK n \in Nat : n = (IF Len(all) < QueueMax THEN Len(all) ELSE QueueMax)
  OBVIOUS
<1>4. n <= Len(all) /\ n <= QueueMax /\ Len(inq) <= n
  BY <1>2, <1>3
<1>5. inq' = SubSeq(all, 1, n) /\ overrun' = (overrun \/ Len(all) > QueueMax)
  BY Zenon, <1>1, <1>3 DEF Queue
<1>6. inq' \in Seq(Datagrams) /\ Len(inq') = n /\ \A i \in 1 .. n : inq'[i] = all[i]
  BY <1>4, <1>5
<1>7. ASSUME NEW i \in DOMAIN inq'
      PROVE  \/ i \in DOMAIN inq /\ inq'[i] = inq[i]
             \/ \E k \in DOMAIN ds : inq'[i] = ds[k]
  <2>1. i \in 1 .. n /\ i \in 1 .. Len(all) /\ inq'[i] = all[i]
    BY <1>4, <1>6
  <2>2. CASE i <= Len(inq)
    BY <1>2, <2>1, <2>2
  <2>3. CASE i > Len(inq)
    <3>1. i - Len(inq) \in DOMAIN ds
      BY <1>2, <2>1, <2>3
    <3> QED
      BY <1>2, <2>1, <2>3, <3>1
  <2> QED
    BY <2>1, <2>2, <2>3
<1>8. ASSUME inq # <<>> PROVE inq' # <<>> /\ Head(inq') = Head(inq)
  <2>1. 1 <= Len(inq)
    BY <1>8
  <2>2. 1 \in 1 .. n /\ 1 \in 1 .. Len(all)
    BY <1>4, <2>1
  <2>3. inq'[1] = inq[1]
    BY Zenon, <1>2, <1>6, <2>1, <2>2
  <2> QED
    BY <1>6, <1>8, <2>2, <2>3
<1>9. ASSUME ~overrun' PROVE inq' = inq \o ds
  <2>1. ~(Len(all) > QueueMax)
    BY <1>5, <1>9, Zenon
  <2>2. n = Len(all)
    BY <1>3, <2>1
  <2> QED
    BY <1>1, <1>5, <2>2
<1> QED
  BY Zenon, <1>4, <1>6, <1>7, <1>8, <1>9

\* What the numbers, the queue and the locals of the calls are.
Sending(u) == InCall(u) /\ sys[u] = "send"
Values ==
    /\ seq \in 0 .. SeqWrap - 1 /\ issued \in Nat
    /\ inq \in Seq(Datagrams) /\ Len(inq) <= QueueMax
    /\ buf \in [Users -> Nat] /\ res \in [Users -> Seq(Messages)]
    /\ req \in [Users -> Nat \cup {None}] /\ kind \in [Users -> ReplyKinds \cup {None}]
    /\ \A u \in Users : Sending(u) => req[u] \in 0 .. SeqWrap - 1

\* A step of one goroutine leaves the locals of the others alone.
Untouched(v) ==
    /\ pc'[v] = pc[v] /\ op'[v] = op[v] /\ sys'[v] = sys[v] /\ buf'[v] = buf[v]
    /\ req'[v] = req[v] /\ kind'[v] = kind[v] /\ res'[v] = res[v] /\ result'[v] = result[v]

\* A step of one goroutine leaves the state of the others.
LEMMA Alone ==
  ASSUME Sorts, Values, NEW u \in Users, UserStep(u), NEW v \in Users \ {u}
  PROVE  Untouched(v)
<1>1. /\ \A l : [pc EXCEPT ![u] = l][v] = pc[v]
      /\ \A l : [op EXCEPT ![u] = l][v] = op[v]
      /\ \A l : [sys EXCEPT ![u] = l][v] = sys[v]
      /\ \A l : [result EXCEPT ![u] = l][v] = result[v]
  BY Zenon DEF Sorts
<1>2. /\ \A l : [buf EXCEPT ![u] = l][v] = buf[v]
      /\ \A l : [req EXCEPT ![u] = l][v] = req[v]
      /\ \A l : [kind EXCEPT ![u] = l][v] = kind[v]
      /\ \A l : [res EXCEPT ![u] = l][v] = res[v]
  BY Zenon DEF Values
<1>3. ASSUME NEW l, Goto(u, l) PROVE pc'[v] = pc[v]
  BY Zenon, <1>1, <1>3 DEF Goto
<1>4. ASSUME NEW r, Return(u, r)
      PROVE  pc'[v] = pc[v] /\ sys'[v] = sys[v] /\ buf'[v] = buf[v] /\ result'[v] = result[v]
  BY Zenon, <1>1, <1>2, <1>3, <1>4 DEF Return
<1>5. ASSUME NEW c, Syscall(u, c)
      PROVE  pc'[v] = pc[v] /\ sys'[v] = sys[v] /\ buf'[v] = buf[v]
  BY Zenon, <1>1, <1>2, <1>3, <1>5 DEF Syscall
<1>6. ASSUME lockedSend(u), UNCHANGED op PROVE Untouched(v)
  BY Zenon, <1>2, <1>4, <1>5, <1>6 DEF lockedSend, Untouched
<1>7. CASE Begin(u)
  BY Zenon, <1>1, <1>3, <1>7 DEF Begin, Untouched
<1>8. CASE Send(u) \/ Execute(u)
  BY Zenon, <1>6, <1>8 DEF Send, Execute
<1>9. CASE SendMessages(u) \/ Receive(u)
  BY ZenonT(30), <1>2, <1>4, <1>5, <1>9 DEF SendMessages, Receive, Untouched
<1>10. CASE Lock(u) \/ CloseLock(u) \/ Close(u) \/ run(u)
  BY Zenon, <1>3, <1>10 DEF Lock, CloseLock, Close, run, Untouched, locals
<1>11. CASE MarshalFails(u) \/ RecvmsgFails(u) \/ Setsockopt(u)
  BY Zenon, <1>4, <1>11 DEF MarshalFails, RecvmsgFails, Setsockopt, Untouched
<1>12. CASE Enter(u)
  BY Zenon, <1>3, <1>4, <1>12 DEF Enter, Untouched
<1>13. CASE Sendmsg(u)
  BY Zenon, <1>2, <1>4, <1>5, <1>13 DEF Sendmsg, Untouched
<1>14. CASE Peek(u)
  BY ZenonT(30), <1>1, <1>2, <1>3, <1>14 DEF Peek, Untouched
<1>15. CASE Recv(u)
  BY ZenonT(30), <1>2, <1>4, <1>5, <1>15 DEF Recv, Untouched
<1>16. CASE Stopped(u)
  BY Zenon, <1>1, <1>3, <1>16 DEF Stopped, Untouched
<1> QED
  BY Zenon, <1>7, <1>8, <1>9, <1>10, <1>11, <1>12, <1>13, <1>14, <1>15, <1>16 DEF UserStep

\* Nobody else draws a number, sends or reads while Execute is in a system call.
LEMMA Exclusive ==
  ASSUME UsersAssumption, LockInv, NEW u \in Users, connW = u, InCall(u),
         NEW v \in Users \ {u}, UserStep(v)
  PROVE  UNCHANGED <<seq, issued, inq, overrun>>
<1>1. None \notin Users /\ connW # None /\ connR = {}
  BY Zenon DEF UsersAssumption, LockInv, Holding
<1>2. Fitting(v) /\ ~(op[v] = "execute" /\ (pc[v] = "locking" \/ InCall(v))) /\ ~(op[v] \in Shared /\ InCall(v))
  BY Zenon, <1>1 DEF LockInv, Holding
<1>3. ~(InCall(v) /\ sys[v] \in {"send", "peek", "recv"}) /\ pc[v] # "locking"
  BY Zenon, <1>2 DEF Fitting, Shared
<1>4. ~(Send(v) \/ SendMessages(v) \/ Receive(v) \/ Lock(v) \/ Execute(v) \/ MarshalFails(v)
          \/ Sendmsg(v) \/ RecvmsgFails(v) \/ Peek(v) \/ Recv(v))
  BY Zenon, <1>1, <1>3 DEF Send, SendMessages, Receive, Lock, Execute, MarshalFails, Sendmsg, RecvmsgFails, Peek,
                    Recv, InCall
<1>5. Begin(v) \/ Enter(v) \/ run(v) \/ Setsockopt(v) \/ CloseLock(v) \/ Close(v) \/ Stopped(v)
  BY Zenon, <1>4 DEF UserStep
<1> QED
  BY ZenonT(30), <1>5 DEF Begin, Enter, run, Setsockopt, CloseLock, Close, Stopped, numbers, kernel

\* What a goroutine sends is answered by datagrams with the numbers it has drawn.
LEMMA AnswersAre ==
  ASSUME UsersAssumption, Values, NEW u \in Users, Sending(u), NEW k \in ReplyKinds
  PROVE  /\ Answers(u, k) \in Seq(Datagrams)
         /\ op[u] # "sendMessages" => Answers(u, k) = Replies(req[u], k)
         /\ \A i \in DOMAIN Answers(u, k) : \A j \in DOMAIN Answers(u, k)[i] :
               \/ Answers(u, k)[i][j].seq = req[u]
               \/ op[u] = "sendMessages" /\ Answers(u, k)[i][j].seq = nextSequence(req[u])
<1>1. PICK s \in 0 .. SeqWrap - 1 : s = req[u]
  BY Zenon DEF Values
<1>2. PICK t \in Nat : t = nextSequence(s)
  BY NextIs DEF UsersAssumption
<1>3. PICK a \in Seq(Datagrams), b \in Seq(Datagrams) : a = Replies(s, k) /\ b = Replies(t, k)
  BY RepliesAre
<1>4. /\ \A i \in DOMAIN a : \A j \in DOMAIN a[i] : a[i][j].seq = s
      /\ \A i \in DOMAIN b : \A j \in DOMAIN b[i] : b[i][j].seq = t
  <2>1. s \in Nat
    OBVIOUS
  <2>2. /\ \A i \in DOMAIN Replies(s, k) : \A j \in DOMAIN Replies(s, k)[i] : Replies(s, k)[i][j].seq = s
        /\ \A i \in DOMAIN Replies(t, k) : \A j \in DOMAIN Replies(t, k)[i] : Replies(t, k)[i][j].seq = t
    BY Zenon, <2>1, RepliesAre
  <2> QED
    BY Zenon, <1>3, <2>2
<1>5. Answers(u, k) = a \o IF op[u] = "sendMessages" THEN b ELSE <<>>
  BY Zenon, <1>1, <1>2, <1>3 DEF Answers
<1>6. CASE op[u] = "sendMessages"
  <2>1. Answers(u, k) = a \o b
    BY Zenon, <1>5, <1>6
  <2>2. /\ a \o b \in Seq(Datagrams) /\ DOMAIN (a \o b) = 1 .. Len(a) + Len(b)
        /\ DOMAIN a = 1 .. Len(a) /\ DOMAIN b = 1 .. Len(b) /\ Len(a) \in Nat /\ Len(b) \in Nat
        /\ \A i \in 1 .. Len(a) + Len(b) : (a \o b)[i] = IF i <= Len(a) THEN a[i] ELSE b[i - Len(a)]
    OBVIOUS
  <2>3. ASSUME NEW i \in DOMAIN (a \o b)
        PROVE  (\E m \in DOMAIN a : (a \o b)[i] = a[m]) \/ (\E m \in DOMAIN b : (a \o b)[i] = b[m])
    <3>1. CASE i <= Len(a)
      BY <2>2, <3>1
    <3>2. CASE i > Len(a)
      <4>1. i - Len(a) \in DOMAIN b
        BY <2>2, <3>2
      <4> QED
        BY <2>2, <3>2, <4>1
    <3> QED
      BY <2>2, <3>1, <3>2
  <2>4. \A i \in DOMAIN (a \o b) : \A j \in DOMAIN (a \o b)[i] :
            (a \o b)[i][j].seq = s \/ (a \o b)[i][j].seq = t
    BY <1>4, <2>3
  <2> QED
    BY Zenon, <1>1, <1>2, <1>6, <2>1, <2>2, <2>4
<1>7. CASE op[u] # "sendMessages"
  <2>1. Answers(u, k) = a
    BY <1>5, <1>7
  <2> QED
    BY Zenon, <1>1, <1>3, <1>4, <1>7, <2>1
<1> QED
  BY Zenon, <1>6, <1>7

\* The values stay, as long as only what is unread and the buffers change.
LEMMA ValuesFrame ==
  ASSUME UsersAssumption, Sorts, Values, NEW u \in Users, UserStep(u), UNCHANGED <<numbers, req>>,
         Sending(u)' => Sending(u),
         inq' \in Seq(Datagrams), Len(inq') <= QueueMax, buf' \in [Users -> Nat],
         res' \in [Users -> Seq(Messages)], kind' \in [Users -> ReplyKinds \cup {None}]
  PROVE  Values'
<1>1. \A v \in Users : Sending(v)' => Sending(v)
  BY ZenonT(30), Alone DEF Untouched, Sending, InCall
<1> QED
  BY Zenon, <1>1 DEF Values, numbers

\* Every step keeps the places, buffers and queues in their types.
LEMMA ValuesStep == ASSUME UsersAssumption, IInv, LockInv, Values, [Next]_vars PROVE Values'
<1>0. Sorts /\ pc \in [Users -> Places] /\ sys \in [Users -> Reading \cup {"send", "opt", None}]
  BY Zenon DEF LockInv, Sorts
<1>1. ASSUME NEW u \in Users, NEW r, Return(u, r) PROVE ~Sending(u)' /\ buf' \in [Users -> Nat]
  BY Zenon, <1>0, <1>1 DEF Return, Goto, Sending, InCall, Values
<1>2. ASSUME NEW u \in Users, NEW c, Syscall(u, c) PROVE (Sending(u)' => c = "send") /\ buf' \in [Users -> Nat]
  BY Zenon, <1>0, <1>2 DEF Syscall, Goto, Sending, InCall, Values
<1>3. CASE UNCHANGED vars
  BY Zenon, <1>3 DEF Values, vars, Sending, InCall
<1>4. CASE newLockedNetNSGoroutine \/ Socket \/ bind \/ WorkerStop
  <2>1. UNCHANGED <<numbers, kernel, pc, locals>>
    BY Zenon, <1>4 DEF newLockedNetNSGoroutine, Socket, bind, WorkerStop
  <2> QED
    BY Zenon, <2>1 DEF Values, Sending, InCall, numbers, kernel, locals
<1>5. CASE Multicast
  <2>1. PICK k \in ReplyKinds : Queue(Replies(0, k)) /\ UNCHANGED <<numbers, pc, locals>>
    BY Zenon, <1>5 DEF Multicast, ReplyKinds
  <2>2. Replies(0, k) \in Seq(Datagrams)
    BY Zenon, RepliesAre
  <2>3. inq' \in Seq(Datagrams) /\ Len(inq') <= QueueMax
    BY Zenon, <2>1, <2>2, Queued DEF Values, UsersAssumption
  <2> QED
    BY Zenon, <2>1, <2>3 DEF Values, Sending, InCall, numbers, locals
<1>6. ASSUME NEW u \in Users, Send(u) \/ SendMessages(u) \/ Execute(u) PROVE Values'
  <2>1. UserStep(u) /\ UNCHANGED <<inq, kind, res>>
    BY Zenon, <1>6 DEF UserStep, Send, SendMessages, Execute, lockedSend, kernel
  <2>2. /\ nextSequence(seq) \in 0 .. SeqWrap - 1
        /\ nextSequence(nextSequence(seq)) \in 0 .. SeqWrap - 1
    BY Zenon, NextIn DEF Values
  <2>3. /\ seq' \in 0 .. SeqWrap - 1 /\ issued' \in Nat
        /\ \/ UNCHANGED req /\ Return(u, "error")
           \/ (\E n \in 0 .. SeqWrap - 1 : req' = [req EXCEPT ![u] = n]) /\ Syscall(u, "send")
    <3>1. CASE SendMessages(u)
      BY <2>2, <3>1 DEF SendMessages, Values, numbers
    <3>2. CASE lockedSend(u)
      BY <2>2, <3>2 DEF lockedSend, Values, numbers
    <3> QED
      BY ZenonT(30), <1>6, <3>1, <3>2 DEF Send, Execute
  <2>4. /\ buf' \in [Users -> Nat] /\ req' \in [Users -> Nat \cup {None}]
        /\ Sending(u)' => req'[u] \in 0 .. SeqWrap - 1
    <3>1. CASE UNCHANGED req /\ Return(u, "error")
      BY Zenon, <1>1, <3>1 DEF Values
    <3>2. ASSUME NEW n \in 0 .. SeqWrap - 1, req' = [req EXCEPT ![u] = n], Syscall(u, "send")
          PROVE  buf' \in [Users -> Nat] /\ req' \in [Users -> Nat \cup {None}] /\ req'[u] = n
      <4>1. n \in Nat
        BY DEF UsersAssumption
      <4> QED
        BY Zenon, <1>2, <3>2, <4>1 DEF Values
    <3> QED
      BY Zenon, <2>3, <3>1, <3>2
  <2>5. \A v \in Users \ {u} : Sending(v)' => req'[v] \in 0 .. SeqWrap - 1
    BY Zenon, <1>0, <2>1, Alone DEF Untouched, Sending, InCall, Values
  <2> QED
    BY Zenon, <2>1, <2>3, <2>4, <2>5 DEF Values
<1>7. ASSUME NEW u \in Users, Begin(u) \/ Lock(u) \/ CloseLock(u) \/ Close(u) \/ Stopped(u) \/ run(u)
      PROVE  Values'
  <2>1. UserStep(u) /\ UNCHANGED <<numbers, inq, buf, req, kind, res>>
    BY Zenon, <1>7 DEF UserStep, Begin, Lock, CloseLock, Close, Stopped, run, kernel, locals
  <2>2. Sending(u)' => Sending(u)
    <3>1. CASE Begin(u)
      <4>1. sys'[u] \in {"opt", None}
        BY Zenon, <1>0, <3>1 DEF Begin
      <4>2. None # "send"
        BY Zenon DEF UsersAssumption, Calls
      <4> QED
        BY Zenon, <4>1, <4>2 DEF Sending
    <3>2. CASE run(u)
      BY Zenon, <1>0, <3>2 DEF run, Goto, Sending, InCall, locals
    <3>3. CASE Lock(u) \/ CloseLock(u) \/ Close(u) \/ Stopped(u)
      BY ZenonT(30), <1>0, <3>3 DEF Lock, CloseLock, Close, Stopped, Goto, Sending, InCall, locals
    <3> QED
      BY Zenon, <1>7, <3>1, <3>2, <3>3
  <2> QED
    BY Zenon, <1>0, <2>1, <2>2, ValuesFrame DEF Values
<1>8. ASSUME NEW u \in Users, Receive(u) \/ MarshalFails(u) \/ Enter(u) \/ RecvmsgFails(u) \/ Peek(u)
                                \/ Setsockopt(u)
      PROVE  Values'
  <2>1. UserStep(u) /\ UNCHANGED <<numbers, inq, req, kind, res>>
    BY Zenon, <1>8 DEF UserStep, Receive, MarshalFails, Enter, RecvmsgFails, Peek, Setsockopt, kernel
  <2>2. (Sending(u)' => Sending(u)) /\ buf' \in [Users -> Nat]
    <3>1. CASE Receive(u) \/ MarshalFails(u) \/ RecvmsgFails(u) \/ Setsockopt(u)
      <4>1. Syscall(u, "peek") \/ \E r : Return(u, r)
        BY Zenon, <3>1 DEF Receive, MarshalFails, RecvmsgFails, Setsockopt
      <4> QED
        BY <1>1, <1>2, <4>1
    <3>2. CASE Enter(u)
      BY Zenon, <1>0, <1>1, <3>2 DEF Enter, Goto, Sending, InCall, Values
    <3>3. CASE Peek(u)
      <4>1. sys'[u] \in Reading
        BY Zenon, <1>0, <3>3 DEF Peek, Reading
      <4>2. buf' = buf \/ buf' = [buf EXCEPT ![u] = 2 * @]
        BY Zenon, <3>3 DEF Peek
      <4>3. buf \in [Users -> Nat] /\ 2 * buf[u] \in Nat
        BY DEF Values
      <4>4. buf' \in [Users -> Nat]
        BY Zenon, <4>2, <4>3
      <4> QED
        BY Zenon, <4>1, <4>4 DEF Sending, Reading
    <3> QED
      BY Zenon, <1>8, <3>1, <3>2, <3>3
  <2> QED
    BY Zenon, <1>0, <2>1, <2>2, ValuesFrame DEF Values
<1>9. ASSUME NEW u \in Users, Sendmsg(u) PROVE Values'
  <2>1. UserStep(u) /\ UNCHANGED <<numbers, req, res>> /\ Sending(u)
    BY ZenonT(30), <1>9 DEF UserStep, Sendmsg, Sending, InCall
  <2>2. CASE Return(u, "error") /\ UNCHANGED <<inq, kind>>
    BY Zenon, <1>0, <1>1, <2>1, <2>2, ValuesFrame DEF Values
  <2>3. ASSUME NEW k \in ReplyKinds, Queue(Answers(u, k)), kind' = [kind EXCEPT ![u] = k],
               Syscall(u, "peek") \/ Return(u, "ok")
        PROVE  Values'
    <3>1. inq' \in Seq(Datagrams) /\ Len(inq') <= QueueMax
      BY Zenon, <2>1, <2>3, AnswersAre, Queued DEF Values, UsersAssumption
    <3>2. (Sending(u)' => Sending(u)) /\ buf' \in [Users -> Nat]
      BY Zenon, <1>1, <1>2, <2>1, <2>3
    <3>3. kind' \in [Users -> ReplyKinds \cup {None}] /\ res' \in [Users -> Seq(Messages)]
      BY Zenon, <2>1, <2>3 DEF Values
    <3> QED
      BY Zenon, <1>0, <2>1, <3>1, <3>2, <3>3, ValuesFrame
  <2> QED
    BY Zenon, <1>9, <2>2, <2>3 DEF Sendmsg
<1>10. ASSUME NEW u \in Users, Recv(u) PROVE Values'
  <2>1. UserStep(u) /\ UNCHANGED <<numbers, req, kind>> /\ inq # <<>> /\ inq' = Tail(inq)
    BY ZenonT(30), <1>10 DEF UserStep, Recv
  <2>2. inq' \in Seq(Datagrams) /\ Len(inq') <= QueueMax /\ Head(inq) \in Datagrams
    BY <2>1 DEF Values, UsersAssumption
  <2>3. Head(inq) \in Seq(Messages) /\ res[u] \in Seq(Messages)
    BY Zenon, <2>2 DEF Datagrams, Values
  <2>10. \A a, b \in Seq(Messages) : a \o b \in Seq(Messages)
    OBVIOUS
  <2>4. PICK all \in Seq(Messages) : all = res[u] \o Head(inq)
    BY Zenon, <2>3, <2>10
  <2>5. Trim(all) \in Seq(Messages)
    BY DEF Trim
  <2>6. /\ \/ UNCHANGED res \/ res' = [res EXCEPT ![u] = all] \/ res' = [res EXCEPT ![u] = Trim(all)]
        /\ (\E r \in {"ok", "error", "truncated"} : Return(u, r)) \/ Syscall(u, "peek")
    BY Zenon, <1>10, <2>4 DEF Recv
  <2>7. res' \in [Users -> Seq(Messages)]
    BY Zenon, <2>5, <2>6 DEF Values
  <2>8. (Sending(u)' => Sending(u)) /\ buf' \in [Users -> Nat]
    BY <1>1, <1>2, <2>6
  <2> QED
    BY Zenon, <1>0, <2>1, <2>2, <2>7, <2>8, ValuesFrame DEF Values
<1> QED
  BY Zenon, <1>3, <1>4, <1>5, <1>6, <1>7, <1>8, <1>9, <1>10 DEF Next, UserStep

----------------------------------------------------------------------------
(***************************************************************************)
(* The peeked size.  A goroutine that is to read has peeked at the first   *)
(* datagram of the queue, which fits its buffer.                           *)
(***************************************************************************)
Peeked(u) == InCall(u) /\ sys[u] = "recv" => inq # <<>> /\ Size(Head(inq)) < buf[u]
SizeInv == \A u \in Users : Peeked(u) /\ result[u] # "truncated"

\* There is one reader at a time.
LEMMA OneReads ==
  ASSUME UsersAssumption, OneReceiver, LockInv, NEW u \in Users, NEW v \in Users,
         InCall(u), sys[u] \in Reading, InCall(v), sys[v] \in Reading
  PROVE  u = v
<1>1. op[u] \in {"execute", "receive"} /\ op[v] \in {"execute", "receive"}
  BY Zenon DEF LockInv, Fitting, Reading
<1>2. CASE op[u] = "execute" \/ op[v] = "execute"
  BY Zenon, <1>1, <1>2 DEF LockInv, Holding, Shared
<1>3. CASE op[u] = "receive" /\ op[v] = "receive"
  <2>1. None # "receive"
    BY Zenon DEF UsersAssumption, Calls
  <2>2. "receive" \in OpsOf[u] /\ "receive" \in OpsOf[v]
    BY Zenon, <1>3, <2>1 DEF LockInv, Fitting
  <2> QED
    BY Zenon, <2>2 DEF OneReceiver
<1> QED
  BY Zenon, <1>1, <1>2, <1>3

\* A goroutine that has peeked keeps what it saw while others move.
LEMMA PeekedStays ==
  ASSUME UsersAssumption, OneReceiver, LockInv, Values, NEW u \in Users, Peeked(u), InCall(u), sys[u] = "recv",
         Multicast \/ \E v \in Users \ {u} : UserStep(v)
  PROVE  inq' # <<>> /\ Head(inq') = Head(inq)
<1>1. inq # <<>>
  BY Zenon DEF Peeked
<1>2. ASSUME NEW ds \in Seq(Datagrams), Queue(ds) PROVE inq' # <<>> /\ Head(inq') = Head(inq)
  BY Zenon, <1>1, <1>2, Queued DEF Values, UsersAssumption
<1>3. CASE Multicast
  <2>1. PICK k \in ReplyKinds : Queue(Replies(0, k))
    BY Zenon, <1>3 DEF Multicast, ReplyKinds
  <2> QED
    BY ZenonT(30), <1>2, <2>1, RepliesAre
<1>4. ASSUME NEW v \in Users \ {u}, UserStep(v) PROVE inq' # <<>> /\ Head(inq') = Head(inq)
  <2>1. CASE UNCHANGED inq
    BY Zenon, <1>1, <2>1
  <2>2. CASE Sendmsg(v)
    <3>1. Sending(v)
      BY Zenon, <2>2 DEF Sendmsg, Sending, InCall
    <3>2. UNCHANGED inq \/ \E k \in ReplyKinds : Queue(Answers(v, k))
      BY Zenon, <2>2 DEF Sendmsg
    <3> QED
      BY Zenon, <1>2, <2>1, <3>1, <3>2, AnswersAre
  <2>3. ~Recv(v)
    BY ZenonT(30), OneReads DEF Recv, InCall, Reading
  <2>4. UNCHANGED inq \/ Sendmsg(v) \/ Recv(v)
    BY Zenon, <1>4 DEF UserStep, Begin, Send, SendMessages, Receive, Lock, Execute, MarshalFails, Enter, run,
                RecvmsgFails, Peek, Setsockopt, CloseLock, Close, Stopped, kernel
  <2> QED
    BY Zenon, <2>1, <2>2, <2>3, <2>4
<1> QED
  BY Zenon, <1>3, <1>4

\* Every step keeps the size that a receiver has peeked that of the first datagram.
LEMMA SizeStep ==
  ASSUME UsersAssumption, OneReceiver, LockInv, Values, SizeInv, [Next]_vars PROVE SizeInv'
<1> SUFFICES ASSUME NEW u \in Users PROVE Peeked(u)' /\ result'[u] # "truncated"
  BY Zenon DEF SizeInv
<1>0. /\ pc \in [Users -> Places] /\ sys \in [Users -> Reading \cup {"send", "opt", None}]
      /\ result \in [Users -> {"ok", "error", "truncated", None}] /\ buf \in [Users -> Nat]
      /\ Peeked(u) /\ result[u] # "truncated" /\ None # "recv" /\ None # "truncated"
  <2>1. Sorts /\ Values /\ SizeInv
    BY Zenon DEF LockInv
  <2>2. None # "truncated" /\ None # "recv" 
    BY Zenon DEF UsersAssumption, Calls
  <2> QED
    BY Zenon, <2>1, <2>2 DEF Sorts, Values, SizeInv
<1>1. CASE UNCHANGED <<inq, pc, locals>>
  BY Zenon, <1>0, <1>1 DEF Peeked, InCall, locals
<1>2. UNCHANGED vars \/ newLockedNetNSGoroutine \/ Socket \/ bind \/ WorkerStop => UNCHANGED <<inq, pc, locals>>
  BY Zenon DEF newLockedNetNSGoroutine, Socket, bind, WorkerStop, vars, kernel, locals
<1>3. CASE Multicast
  <2>1. UNCHANGED <<pc, locals>>
    BY Zenon, <1>3 DEF Multicast
  <2> QED
    BY Zenon, <1>0, <1>3, <2>1, PeekedStays DEF Peeked, InCall, locals
<1>4. ASSUME NEW v \in Users \ {u}, UserStep(v) PROVE Peeked(u)' /\ result'[u] # "truncated"
  <2>1. Untouched(u)
    BY Zenon, <1>4, Alone DEF LockInv
  <2> QED
    BY Zenon, <1>0, <1>4, <2>1, PeekedStays DEF Peeked, InCall, Untouched
<1>5. CASE UserStep(u)
  <2>1. ASSUME NEW r, r # "truncated", Return(u, r) PROVE Peeked(u)' /\ result'[u] # "truncated"
    BY Zenon, <1>0, <2>1 DEF Return, Goto, Peeked, InCall
  <2>2. ASSUME NEW c, c # "recv", Syscall(u, c), UNCHANGED result PROVE Peeked(u)' /\ result'[u] # "truncated"
    BY Zenon, <1>0, <2>2 DEF Syscall, Goto, Peeked, InCall
  <2>3. CASE Send(u) \/ SendMessages(u) \/ Execute(u) \/ Receive(u) \/ MarshalFails(u) \/ Sendmsg(u)
               \/ RecvmsgFails(u) \/ Setsockopt(u)
    BY Zenon, <2>1, <2>2, <2>3 DEF Send, SendMessages, Execute, lockedSend, Receive, MarshalFails, Sendmsg,
                            RecvmsgFails, Setsockopt
  <2>4. CASE Begin(u)
    <3>1. sys'[u] \in {"opt", None} /\ UNCHANGED result
      BY Zenon, <1>0, <2>4 DEF Begin
    <3> QED
      BY Zenon, <1>0, <3>1 DEF Peeked
  <2>5. CASE Lock(u) \/ CloseLock(u) \/ Close(u) \/ Stopped(u)
    BY Zenon, <1>0, <2>5 DEF Lock, CloseLock, Close, Stopped, Goto, Peeked, InCall, locals
  <2>6. CASE run(u)
    BY Zenon, <1>0, <2>6 DEF run, Goto, Peeked, InCall, kernel, locals
  <2>7. CASE Enter(u)
    <3>1. CASE closed
      BY Zenon, <2>1, <2>7, <3>1 DEF Enter
    <3>2. CASE ~closed
      BY Zenon, <1>0, <2>7, <3>2 DEF Enter, Goto, Peeked, InCall, kernel
    <3> QED
      BY Zenon, <3>1, <3>2
  <2>8. CASE Peek(u)
    <3>1. UNCHANGED <<inq, result>> /\ inq # <<>>
      BY Zenon, <2>8 DEF Peek, kernel
    <3>2. CASE Size(Head(inq)) < buf[u]
      BY Zenon, <1>0, <2>8, <3>1, <3>2 DEF Peek, Peeked
    <3>3. CASE ~(Size(Head(inq)) < buf[u])
      BY Zenon, <1>0, <2>8, <3>1, <3>3 DEF Peek, Peeked
    <3> QED
      BY Zenon, <3>2, <3>3
  <2>9. CASE Recv(u)
    <3>1. Size(Head(inq)) < buf[u] /\ Size(Head(inq)) \in Nat /\ buf[u] \in Nat
      BY Zenon, <1>0, <2>9 DEF Recv, Peeked, InCall, Size
    <3>2. ~(Size(Head(inq)) > buf[u])
      BY <3>1
    <3>3. \/ Return(u, "error") \/ Return(u, "ok")
          \/ Syscall(u, "peek") /\ UNCHANGED result
      BY Zenon, <2>9, <3>2 DEF Recv
    <3> QED
      BY Zenon, <2>1, <2>2, <3>3
  <2> QED
    BY Zenon, <1>5, <2>3, <2>4, <2>5, <2>6, <2>7, <2>8, <2>9 DEF UserStep
<1> QED
  BY Zenon, <1>1, <1>2, <1>3, <1>4, <1>5 DEF Next

----------------------------------------------------------------------------
(***************************************************************************)
(* The numbers.  Before they come round, the k-th number after the seed b  *)
(* is Number(b, k); the datagrams that are queued, and the requests that   *)
(* are to be sent, have numbers that were drawn, multicasts have 0.        *)
(***************************************************************************)
Number(b, k) == IF b + k < SeqWrap THEN b + k ELSE b + k - SeqWrap
Drawn(b, n) == {Number(b, k) : k \in 1 .. n}
Numbered(d, b, n) == \A j \in DOMAIN d : d[j].seq = 0 \/ d[j].seq \in Drawn(b, n)
NumberInv(b) ==
    issued <= SeqWrap =>
        /\ seq = Number(b, issued)
        /\ \A i \in DOMAIN inq : Numbered(inq[i], b, issued)
        /\ \A u \in Users : Sending(u) =>
              /\ req[u] \in Drawn(b, issued)
              /\ op[u] = "sendMessages" => nextSequence(req[u]) \in Drawn(b, issued)

\* A number that was drawn stays so.
LEMMA DrawnGrows ==
  ASSUME NEW b \in Nat, NEW n \in Nat, NEW m \in Nat, n <= m
  PROVE  /\ Drawn(b, n) \subseteq Drawn(b, m)
         /\ \A d : Numbered(d, b, n) => Numbered(d, b, m)
<1>1. \A k \in 1 .. n : k \in 1 .. m
  OBVIOUS
<1>2. Drawn(b, n) \subseteq Drawn(b, m)
  BY Zenon, <1>1 DEF Drawn
<1> QED
  BY Zenon, <1>2 DEF Numbered

\* The next number is a new one.
LEMMA NextNumber ==
  ASSUME UsersAssumption, NEW b \in 0 .. SeqWrap - 1, NEW n \in Nat, n + 1 <= SeqWrap
  PROVE  /\ nextSequence(Number(b, n)) = Number(b, n + 1)
         /\ Number(b, n + 1) \in Drawn(b, n + 1)
         /\ Number(b, n + 1) \notin Drawn(b, n)
<1>1. SeqWrap \in Nat /\ b \in Nat /\ b < SeqWrap
  BY DEF UsersAssumption
<1>2. Number(b, n) \in 0 .. SeqWrap - 1
  BY <1>1 DEF Number
<1>3. nextSequence(Number(b, n)) = IF Number(b, n) + 1 = SeqWrap THEN 0 ELSE Number(b, n) + 1
  BY Zenon, <1>1, <1>2, NextIs
<1>4. nextSequence(Number(b, n)) = Number(b, n + 1)
  BY <1>1, <1>3 DEF Number
<1>5. n + 1 \in 1 .. n + 1
  OBVIOUS
<1>6. ASSUME NEW k \in 1 .. n PROVE Number(b, k) # Number(b, n + 1)
  BY <1>1, <1>6 DEF Number
<1>7. Number(b, n + 1) \in Drawn(b, n + 1)
  BY Zenon, <1>5 DEF Drawn
<1>8. Number(b, n + 1) \notin Drawn(b, n)
  BY Zenon, <1>6 DEF Drawn
<1> QED
  BY Zenon, <1>4, <1>7, <1>8

\* The step of one goroutine concerns what it sends and the queue.
LEMMA NumberFrame ==
  ASSUME UsersAssumption, Sorts, Values, NEW b \in Nat, NumberInv(b), NEW u \in Users, UserStep(u), issued' \in Nat, issued <= issued',
         issued' <= SeqWrap =>
            /\ seq' = Number(b, issued')
            /\ \A i \in DOMAIN inq' : Numbered(inq'[i], b, issued')
            /\ Sending(u)' => /\ req'[u] \in Drawn(b, issued')
                              /\ op'[u] = "sendMessages" => nextSequence(req'[u]) \in Drawn(b, issued')
  PROVE  NumberInv(b)'
<1> SUFFICES ASSUME issued' <= SeqWrap,
                    NEW v \in Users \ {u}, Sending(v)'
             PROVE  /\ req'[v] \in Drawn(b, issued')
                    /\ op'[v] = "sendMessages" => nextSequence(req'[v]) \in Drawn(b, issued')
  BY Zenon DEF NumberInv
<1>1. Untouched(v)
  BY Zenon, Alone
<1>2. issued <= SeqWrap /\ Sending(v) /\ issued \in Nat
  BY <1>1 DEF Untouched, Sending, InCall, Values, UsersAssumption
<1>3. Drawn(b, issued) \subseteq Drawn(b, issued')
  BY Zenon, <1>2, DrawnGrows
<1> QED
  BY Zenon, <1>1, <1>2, <1>3 DEF NumberInv, Untouched

\* Only the numbering of a message makes a goroutine send.
LEMMA SendingStarts ==
  ASSUME UsersAssumption, Sorts, Values, NEW u \in Users, UserStep(u), ~Send(u), ~SendMessages(u), ~Execute(u)
  PROVE  UNCHANGED <<numbers, req>> /\ (Sending(u)' => Sending(u) /\ op'[u] = op[u])
<1>0. /\ pc \in [Users -> Places] /\ sys \in [Users -> Reading \cup {"send", "opt", None}]
      /\ None \notin Reading \cup {"send"}
  BY Zenon DEF Sorts, UsersAssumption, Calls, Reading
<1>1. UNCHANGED <<numbers, req>> /\ (UNCHANGED op \/ Begin(u))
  BY Zenon DEF UserStep, Begin, Receive, Lock, MarshalFails, Enter, run, Sendmsg, RecvmsgFails, Peek, Recv,
         Setsockopt, CloseLock, Close, Stopped, locals
<1>2. ASSUME NEW r, Return(u, r) PROVE ~Sending(u)'
  BY Zenon, <1>0, <1>2 DEF Return, Goto, Sending, InCall
<1>3. ASSUME Syscall(u, "peek") PROVE ~Sending(u)'
  BY Zenon, <1>0, <1>3 DEF Syscall, Goto, Sending, InCall
<1>4. CASE Begin(u)
  <2>1. sys'[u] \in {"opt", None}
    BY Zenon, <1>0, <1>4 DEF Begin
  <2> QED
    BY Zenon, <1>0, <1>1, <2>1 DEF Sending
<1>5. CASE run(u) \/ (Enter(u) /\ ~closed)
  BY Zenon, <1>0, <1>1, <1>5 DEF run, Enter, Goto, Sending, InCall, locals
<1>6. CASE Lock(u) \/ CloseLock(u) \/ Close(u) \/ Stopped(u)
  BY Zenon, <1>0, <1>1, <1>6 DEF Lock, CloseLock, Close, Stopped, Goto, Sending, InCall, locals
<1>7. CASE Peek(u)
  <2>1. sys'[u] \in Reading
    BY Zenon, <1>0, <1>7 DEF Peek, Reading
  <2> QED
    BY Zenon, <1>1, <2>1 DEF Sending, Reading
<1>8. CASE Receive(u) \/ MarshalFails(u) \/ RecvmsgFails(u) \/ Setsockopt(u) \/ Sendmsg(u) \/ Recv(u)
             \/ (Enter(u) /\ closed)
  <2>1. Syscall(u, "peek") \/ \E r : Return(u, r)
    BY Zenon, <1>8 DEF Receive, MarshalFails, RecvmsgFails, Setsockopt, Sendmsg, Recv, Enter
  <2> QED
    BY Zenon, <1>1, <1>2, <1>3, <2>1
<1> QED
  BY Zenon, <1>4, <1>5, <1>6, <1>7, <1>8 DEF UserStep

\* The numbering.
LEMMA DrawStep ==
  ASSUME UsersAssumption, LockInv, Values, NEW b \in 0 .. SeqWrap - 1, NumberInv(b), NEW u \in Users,
         Send(u) \/ SendMessages(u) \/ Execute(u)
  PROVE  NumberInv(b)'
<1>0. /\ Sorts /\ pc \in [Users -> Places] /\ sys \in [Users -> Reading \cup {"send", "opt", None}]
      /\ b \in Nat /\ issued \in Nat /\ SeqWrap \in Nat /\ req \in [Users -> Nat \cup {None}]
  BY DEF LockInv, Sorts, UsersAssumption, Values
<1>1. UserStep(u) /\ UNCHANGED <<inq, op>>
  BY ZenonT(30) DEF UserStep, Send, SendMessages, Execute, kernel
<1>2. ASSUME NEW r, Return(u, r) PROVE ~Sending(u)'
  BY Zenon, <1>0, <1>2 DEF Return, Goto, Sending, InCall
<1>3. ASSUME NEW m \in Nat, m <= SeqWrap, issued <= m
      PROVE  /\ \A i \in DOMAIN inq : Numbered(inq[i], b, m)
             /\ issued <= SeqWrap /\ seq = Number(b, issued)
  <2>1. \A d : Numbered(d, b, issued) => Numbered(d, b, m)
    BY Zenon, <1>0, <1>3, DrawnGrows
  <2>2. issued <= SeqWrap
    BY <1>0, <1>3
  <2> QED
    BY Zenon, <2>1, <2>2 DEF NumberInv
<1>4. CASE UNCHANGED <<numbers, req>> /\ Return(u, "error")
  <2>1. UNCHANGED <<seq, issued>>
    BY Zenon, <1>4 DEF numbers
  <2> QED
    BY <1>0, <1>1, <1>2, <1>3, <1>4, <2>1, NumberFrame
<1>5. CASE seq' = nextSequence(seq) /\ issued' = issued + 1 /\ Return(u, "error")
  <2>1. issued + 1 \in Nat /\ issued <= issued + 1
    BY <1>0
  <2>2. ASSUME issued + 1 <= SeqWrap PROVE nextSequence(seq) = Number(b, issued + 1)
    BY <1>0, <1>3, <2>1, <2>2, NextNumber
  <2> QED
    BY Zenon, <1>0, <1>1, <1>2, <1>3, <1>5, <2>1, <2>2, NumberFrame
<1>6. CASE /\ seq' = nextSequence(seq) /\ issued' = issued + 1 /\ req' = [req EXCEPT ![u] = seq']
           /\ op[u] # "sendMessages"
  <2>1. issued + 1 \in Nat /\ issued <= issued + 1 /\ req'[u] = seq'
    BY <1>0, <1>6
  <2>2. ASSUME issued + 1 <= SeqWrap
        PROVE  nextSequence(seq) = Number(b, issued + 1) /\ nextSequence(seq) \in Drawn(b, issued + 1)
    BY <1>0, <1>3, <2>1, <2>2, NextNumber
  <2> QED
    BY Zenon, <1>0, <1>1, <1>3, <1>6, <2>1, <2>2, NumberFrame
<1>7. CASE /\ req' = [req EXCEPT ![u] = nextSequence(seq)] /\ seq' = nextSequence(nextSequence(seq))
           /\ issued' = issued + 2
  <2>1. /\ issued + 1 \in Nat /\ issued + 2 \in Nat /\ issued <= issued + 2 /\ issued <= issued + 1
        /\ (issued + 1) + 1 = issued + 2 /\ issued + 1 <= issued + 2
        /\ req'[u] = nextSequence(seq)
    BY <1>0, <1>7
  <2>2. ASSUME issued + 2 <= SeqWrap
        PROVE  /\ nextSequence(seq) = Number(b, issued + 1) /\ nextSequence(seq) \in Drawn(b, issued + 2)
               /\ nextSequence(nextSequence(seq)) = Number(b, issued + 2)
               /\ nextSequence(nextSequence(seq)) \in Drawn(b, issued + 2)
    <3>1. issued + 1 <= SeqWrap
      BY <1>0, <2>2
    <3>2. nextSequence(seq) = Number(b, issued + 1) /\ Number(b, issued + 1) \in Drawn(b, issued + 1)
      BY <1>0, <1>3, <2>1, <3>1, NextNumber
    <3>3. /\ nextSequence(Number(b, issued + 1)) = Number(b, issued + 2)
          /\ Number(b, issued + 2) \in Drawn(b, issued + 2)
      BY <2>1, <2>2, NextNumber
    <3>4. Drawn(b, issued + 1) \subseteq Drawn(b, issued + 2)
      BY Zenon, <1>0, <2>1, DrawnGrows
    <3> QED
      BY Zenon, <3>2, <3>3, <3>4
  <2> QED
    BY Zenon, <1>0, <1>1, <1>3, <1>7, <2>1, <2>2, NumberFrame
<1>8. CASE SendMessages(u)
  <2>1. \/ UNCHANGED <<numbers, req>> /\ Return(u, "error")
        \/ seq' = nextSequence(seq) /\ issued' = issued + 1 /\ Return(u, "error")
        \/ /\ req' = [req EXCEPT ![u] = nextSequence(seq)] /\ seq' = nextSequence(nextSequence(seq))
           /\ issued' = issued + 2
    <3>1. [req EXCEPT ![u] = nextSequence(seq)][u] = nextSequence(seq)
      BY Zenon, <1>0
    <3> QED
      BY ZenonT(30), <1>8, <3>1 DEF SendMessages
  <2> QED
    BY Zenon, <1>4, <1>5, <1>7, <2>1
<1>9. CASE Send(u) \/ Execute(u)
  <2>1. op[u] # "sendMessages"
    BY Zenon, <1>9 DEF Send, Execute, LockInv, Fitting
  <2>2. lockedSend(u)
    BY Zenon, <1>9 DEF Send, Execute
  <2> QED
    BY Zenon, <1>4, <1>6, <2>1, <2>2 DEF lockedSend
<1> QED
  BY Zenon, <1>8, <1>9

\* Every step keeps the numbers of the requests apart, as far as they have not wrapped.
LEMMA NumberStep ==
  ASSUME UsersAssumption, LockInv, Values, NEW b \in 0 .. SeqWrap - 1, NumberInv(b), [Next]_vars
  PROVE  NumberInv(b)'
<1>0. Sorts /\ b \in Nat /\ issued \in Nat /\ SeqWrap \in Nat
  BY DEF LockInv, Sorts, UsersAssumption, Values
<1>1. CASE UNCHANGED <<numbers, inq, pc, locals>>
  BY Zenon, <1>1 DEF NumberInv, numbers, locals, Sending, InCall
<1>2. UNCHANGED vars \/ newLockedNetNSGoroutine \/ Socket \/ bind \/ WorkerStop => UNCHANGED <<numbers, inq, pc, locals>>
  BY Zenon DEF newLockedNetNSGoroutine, Socket, bind, WorkerStop, vars, kernel, locals, numbers
<1>3. CASE Multicast
  <2>1. PICK k \in ReplyKinds : Queue(Replies(0, k)) /\ UNCHANGED <<numbers, pc, locals>>
    BY Zenon, <1>3 DEF Multicast, ReplyKinds
  <2>2. Replies(0, k) \in Seq(Datagrams) /\ \A i \in DOMAIN Replies(0, k) : Numbered(Replies(0, k)[i], b, issued)
    BY RepliesAre DEF Numbered
  <2>3. \A i \in DOMAIN inq' : \/ i \in DOMAIN inq /\ inq'[i] = inq[i]
                               \/ \E j \in DOMAIN Replies(0, k) : inq'[i] = Replies(0, k)[j]
    BY Zenon, <2>1, <2>2, Queued DEF Values, UsersAssumption
  <2>4. issued <= SeqWrap => \A i \in DOMAIN inq' : Numbered(inq'[i], b, issued)
    BY Zenon, <2>2, <2>3 DEF NumberInv
  <2> QED
    BY Zenon, <2>1, <2>4 DEF NumberInv, numbers, locals, Sending, InCall
<1>4. ASSUME NEW u \in Users, UserStep(u), ~Send(u), ~SendMessages(u), ~Execute(u) PROVE NumberInv(b)'
  <2>1. UNCHANGED <<seq, issued, req>> /\ (Sending(u)' => Sending(u) /\ op'[u] = op[u])
    BY Zenon, <1>0, <1>4, SendingStarts DEF numbers
  <2>2. SUFFICES ASSUME issued <= SeqWrap
                 PROVE  \A i \in DOMAIN inq' : Numbered(inq'[i], b, issued)
    BY <1>0, <1>4, <2>1, NumberFrame DEF NumberInv
  <2>3. \A i \in DOMAIN inq : Numbered(inq[i], b, issued)
    BY Zenon, <2>2 DEF NumberInv
  <2>4. CASE Recv(u)
    <3>1. inq # <<>> /\ inq' = Tail(inq) /\ inq \in Seq(Datagrams)
      BY Zenon, <2>4 DEF Recv, Values
    <3>2. \A i \in DOMAIN inq' : i + 1 \in DOMAIN inq /\ inq'[i] = inq[i + 1]
      BY <3>1
    <3> QED
      BY Zenon, <2>3, <3>2
  <2>5. CASE Sendmsg(u) /\ ~UNCHANGED inq
    <3>1. Sending(u)
      BY Zenon, <2>5 DEF Sendmsg, Sending, InCall
    <3>2. PICK k \in ReplyKinds : Queue(Answers(u, k))
      BY Zenon, <2>5 DEF Sendmsg
    <3>3. PICK ds \in Seq(Datagrams) : ds = Answers(u, k)
      BY Zenon, <3>1, AnswersAre
    <3>4. \A i \in DOMAIN ds : \A j \in DOMAIN ds[i] :
               ds[i][j].seq = req[u] \/ (op[u] = "sendMessages" /\ ds[i][j].seq = nextSequence(req[u]))
      BY Zenon, <3>1, <3>3, AnswersAre
    <3>5. \A i \in DOMAIN ds : Numbered(ds[i], b, issued)
      BY Zenon, <2>2, <3>1, <3>4 DEF NumberInv, Numbered
    <3>6. \A i \in DOMAIN inq' : \/ i \in DOMAIN inq /\ inq'[i] = inq[i]
                                 \/ \E j \in DOMAIN ds : inq'[i] = ds[j]
      BY Zenon, <3>2, <3>3, Queued DEF Values, UsersAssumption
    <3> QED
      BY Zenon, <2>3, <3>5, <3>6
  <2>6. UNCHANGED inq \/ Sendmsg(u) \/ Recv(u)
    BY Zenon, <1>4 DEF UserStep, Begin, Receive, Lock, MarshalFails, Enter, run,
                RecvmsgFails, Peek, Setsockopt, CloseLock, Close, Stopped, kernel
  <2> QED
    BY Zenon, <2>3, <2>4, <2>5, <2>6
<1> QED
  BY Zenon, <1>1, <1>2, <1>3, <1>4, DrawStep DEF Next

----------------------------------------------------------------------------
(***************************************************************************)
(* The answer.  While Execute waits, what is left of the answer to its     *)
(* request s stands in the queue in one piece, R[j + 1] at place p + 1,    *)
(* among datagrams with other numbers; or it has read a message with       *)
(* another number, which Validate will refuse; or the queue has overrun,   *)
(* which its next read reports.                                            *)
(***************************************************************************)
Foreign(d, s) == \A m \in DOMAIN d : d[m].seq # s
Spoilt(r, s) == \E m \in DOMAIN r : r[m].seq # s /\ r[m].kind # "done"
Pending(q, r, s, R, j, p) ==
    /\ j < Len(R) /\ p + (Len(R) - j) <= Len(q)
    /\ r = IF j = 0 THEN <<>> ELSE R[1]
    /\ \A i \in DOMAIN q : IF p < i /\ i <= p + (Len(R) - j) THEN q[i] = R[j + i - p] ELSE Foreign(q[i], s)
Waiting(q, r, s, k) ==
    Spoilt(r, s) \/ \E j \in {0, 1}, p \in Nat : Pending(q, r, s, Replies(s, k), j, p)

\* The parts of a concatenation.
LEMMA Concatenated ==
  ASSUME NEW S, NEW a \in Seq(S), NEW c \in Seq(S)
  PROVE  /\ a \o c \in Seq(S) /\ Len(a \o c) = Len(a) + Len(c) /\ Len(a) \in Nat /\ Len(c) \in Nat
         /\ DOMAIN (a \o c) = 1 .. Len(a) + Len(c) /\ DOMAIN a = 1 .. Len(a) /\ DOMAIN c = 1 .. Len(c)
         /\ \A i \in 1 .. Len(a) : (a \o c)[i] = a[i]
         /\ \A i \in Len(a) + 1 .. Len(a) + Len(c) : i - Len(a) \in DOMAIN c /\ (a \o c)[i] = c[i - Len(a)]
         /\ \A i \in 1 .. Len(c) : (a \o c)[Len(a) + i] = c[i]
  OBVIOUS

\* The request is answered.
LEMMA AnswerQueued ==
  ASSUME NEW q \in Seq(Datagrams), NEW s \in Nat, NEW k \in ReplyKinds, \A i \in DOMAIN q : Foreign(q[i], s)
  PROVE  Waiting(q \o Replies(s, k), <<>>, s, k)
<1>1. PICK R \in Seq(Datagrams) : R = Replies(s, k) /\ Len(R) \in {1, 2}
  BY Zenon, RepliesAre
<1>2. PICK t \in Seq(Datagrams) : t = q \o R
  BY ZenonT(30), Concatenated
<1>3. /\ DOMAIN t = 1 .. Len(q) + Len(R) /\ Len(t) = Len(q) + Len(R) /\ Len(q) \in Nat
      /\ DOMAIN q = 1 .. Len(q)
      /\ \A i \in 1 .. Len(q) : t[i] = q[i]
      /\ \A i \in Len(q) + 1 .. Len(q) + Len(R) : t[i] = R[i - Len(q)]
  BY <1>2, Concatenated
<1>4. PICK n \in Nat : n = Len(q)
  BY Zenon, <1>3
<1>5. ASSUME NEW i \in DOMAIN t
      PROVE  IF n < i /\ i <= n + (Len(R) - 0) THEN t[i] = R[0 + i - n] ELSE Foreign(t[i], s)
  <2>1. i \in Nat /\ 1 <= i /\ i <= n + Len(R) /\ Len(R) \in Nat
    BY <1>1, <1>3, <1>4
  <2>2. CASE i <= n
    <3>1. i \in DOMAIN q /\ t[i] = q[i]
      BY <1>3, <1>4, <2>1, <2>2
    <3> QED
      BY <2>1, <2>2, <3>1
  <2>3. CASE n < i
    <3>0. i \in n + 1 .. n + Len(R)
      BY <2>1, <2>3
    <3>1. t[i] = R[i - n]
      BY Zenon, <1>3, <1>4, <3>0
    <3>2. 0 + i - n = i - n /\ n + (Len(R) - 0) = n + Len(R)
      BY <2>1
    <3> QED
      BY Zenon, <2>1, <2>3, <3>1, <3>2
  <2> QED
    BY <2>1, <2>2, <2>3
<1>6. 0 < Len(R) /\ n + (Len(R) - 0) <= Len(t)
  <2>1. PICK k2 \in {1, 2} : Len(R) = k2
    BY Zenon, <1>1
  <2>2. Len(t) = n + k2
    BY <1>3, <1>4, <2>1
  <2>3. 0 < k2 /\ n + (k2 - 0) <= n + k2
    OBVIOUS
  <2> QED
    BY Zenon, <2>1, <2>2, <2>3
<1>7. Pending(t, <<>>, s, R, 0, n)
  BY Zenon, <1>5, <1>6 DEF Pending
<1> QED
  BY Zenon, <1>1, <1>2, <1>7 DEF Waiting

\* Datagrams with other numbers are queued behind it.
LEMMA MoreQueued ==
  ASSUME NEW q \in Seq(Datagrams), NEW r, NEW s \in Nat, NEW k \in ReplyKinds, Waiting(q, r, s, k),
         NEW ds \in Seq(Datagrams), \A i \in DOMAIN ds : Foreign(ds[i], s)
  PROVE  Waiting(q \o ds, r, s, k)
<1>1. CASE Spoilt(r, s)
  BY Zenon, <1>1 DEF Waiting
<1>2. ASSUME NEW j \in {0, 1}, NEW p \in Nat, Pending(q, r, s, Replies(s, k), j, p)
      PROVE  Waiting(q \o ds, r, s, k)
  <2>1. PICK R \in Seq(Datagrams) : R = Replies(s, k) /\ Len(R) \in {1, 2}
    BY Zenon, RepliesAre
  <2>2. PICK t \in Seq(Datagrams) : t = q \o ds
    BY Zenon, Concatenated
  <2>3. /\ DOMAIN t = 1 .. Len(q) + Len(ds) /\ Len(t) = Len(q) + Len(ds) /\ Len(q) \in Nat /\ Len(ds) \in Nat
        /\ DOMAIN q = 1 .. Len(q)
        /\ \A i \in 1 .. Len(q) : t[i] = q[i]
        /\ \A i \in Len(q) + 1 .. Len(q) + Len(ds) : i - Len(q) \in DOMAIN ds /\ t[i] = ds[i - Len(q)]
    BY <2>2, Concatenated
  <2>4. j < Len(R) /\ p + (Len(R) - j) <= Len(q) /\ r = (IF j = 0 THEN <<>> ELSE R[1])
    BY Zenon, <1>2, <2>1 DEF Pending
  <2>5. ASSUME NEW i \in DOMAIN t
        PROVE  IF p < i /\ i <= p + (Len(R) - j) THEN t[i] = R[j + i - p] ELSE Foreign(t[i], s)
    <3>1. CASE i \in DOMAIN q
      BY Zenon, <1>2, <2>1, <2>3, <3>1 DEF Pending
    <3>2. CASE i \in Len(q) + 1 .. Len(q) + Len(ds)
      <4>1. ~(i <= p + (Len(R) - j))
        BY <2>1, <2>3, <2>4, <3>2
      <4>2. Foreign(t[i], s)
        BY Zenon, <2>3, <3>2
      <4> QED
        BY Zenon, <4>1, <4>2
    <3> QED
      BY <2>3, <3>1, <3>2
  <2>6. Pending(t, r, s, R, j, p)
    BY <2>1, <2>3, <2>4, <2>5 DEF Pending
  <2> QED
    BY Zenon, <2>1, <2>2, <2>6 DEF Waiting
<1> QED
  BY Zenon, <1>1, <1>2 DEF Waiting

\* Validate refuses what holds a message with another number.
LEMMA SpoiltStays ==
  ASSUME NEW r \in Seq(Messages), NEW s \in Nat, s # 0, NEW ms \in Seq(Messages),
         Spoilt(r, s) \/ (ms \in Datagrams /\ Foreign(ms, s))
  PROVE  Spoilt(r \o ms, s) /\ ~Validate(s, Trim(r \o ms))
<1>1. PICK all \in Seq(Messages) : all = r \o ms
  BY Zenon, Concatenated
<1>2. /\ DOMAIN all = 1 .. Len(r) + Len(ms) /\ Len(all) = Len(r) + Len(ms) /\ Len(r) \in Nat /\ Len(ms) \in Nat
      /\ DOMAIN r = 1 .. Len(r) /\ DOMAIN ms = 1 .. Len(ms)
      /\ \A i \in 1 .. Len(r) : all[i] = r[i]
      /\ \A i \in 1 .. Len(ms) : all[Len(r) + i] = ms[i]
  BY <1>1, Concatenated
<1>3. PICK m \in DOMAIN all : all[m].seq # s /\ all[m].kind # "done"
  <2>1. CASE Spoilt(r, s)
    BY <1>2, <2>1 DEF Spoilt
  <2>2. CASE ms \in Datagrams /\ Foreign(ms, s)
    <3>1. 1 \in DOMAIN ms /\ ms[1].seq # s /\ ms[1].kind # "done"
      BY <2>2 DEF Datagrams, Foreign
    <3>2. Len(r) + 1 \in DOMAIN all /\ all[Len(r) + 1] = ms[1]
      BY <1>2, <3>1
    <3> QED
      BY Zenon, <3>1, <3>2
  <2> QED
    BY Zenon, <2>1, <2>2
<1>4. m \in DOMAIN Trim(all) /\ Trim(all)[m] = all[m]
  <2>1. CASE all[Len(all)].kind = "done"
    <3>1. Trim(all) = SubSeq(all, 1, Len(all) - 1)
      BY <1>2, <1>3, <2>1 DEF Trim
    <3>2. m \in 1 .. Len(all) - 1
      BY <1>2, <1>3, <2>1
    <3> QED
      BY <1>2, <3>1, <3>2
  <2>2. CASE all[Len(all)].kind # "done"
    BY Zenon, <2>2 DEF Trim
  <2> QED
    BY Zenon, <2>1, <2>2
<1>5. ~Validate(s, Trim(all))
  BY Zenon, <1>3, <1>4 DEF Validate
<1> QED
  BY Zenon, <1>1, <1>3, <1>5 DEF Spoilt

\* The answers, as receive reads them.
LEMMA ReplyParts ==
  ASSUME NEW s \in Nat, NEW k \in ReplyKinds, NEW j \in {0, 1}, j < Len(Replies(s, k)),
         checkMessage(Replies(s, k)[j + 1])
  PROVE  \/ /\ Len(Replies(s, k)) = j + 1 /\ ~More(Replies(s, k)[j + 1])
            /\ Whole(Replies(s, k)) = IF j = 0 THEN Replies(s, k)[1] ELSE Replies(s, k)[1] \o Replies(s, k)[2]
         \/ j = 0 /\ Len(Replies(s, k)) = 2 /\ More(Replies(s, k)[1])
<1>1. CASE k \in {"ack", "big", "error"}
  <2>1. Replies(s, k) = << <<Msg(s, k)>> >>
    BY Zenon, <1>1 DEF Replies
  <2>2. j = 0 /\ Len(Replies(s, k)) = 1 /\ Replies(s, k)[1] = <<Msg(s, k)>>
    BY <2>1
  <2>3. k # "error"
    BY <2>2 DEF checkMessage, Msg
  <2>4. ~More(<<Msg(s, k)>>)
    BY <1>1, <2>3 DEF More, Multi, Msg
  <2> QED
    BY <2>2, <2>4 DEF Whole
<1>2. CASE k = "dump"
  <2>1. Replies(s, k) = << <<Msg(s, "part")>>, <<Msg(s, "part"), Msg(s, "done")>> >>
    BY Zenon, <1>2 DEF Replies
  <2>2. /\ Len(Replies(s, k)) = 2 /\ Replies(s, k)[1] = <<Msg(s, "part")>>
        /\ Replies(s, k)[2] = <<Msg(s, "part"), Msg(s, "done")>>
    BY <2>1
  <2>3. CASE j = 0
    BY <2>2, <2>3 DEF More, Multi, Msg
  <2>4. CASE j = 1
    <3>1. ~More(<<Msg(s, "part"), Msg(s, "done")>>)
      BY DEF More, Multi, Msg
    <3> QED
      BY <2>2, <2>4, <3>1 DEF Whole
  <2> QED
    BY Zenon, <2>3, <2>4
<1> QED
  BY Zenon, <1>1, <1>2 DEF ReplyKinds

\* A datagram is read.
LEMMA DatagramRead ==
  ASSUME NEW q \in Seq(Datagrams), q # <<>>, NEW r \in Seq(Messages), NEW s \in Nat, s # 0,
         NEW k \in ReplyKinds, Waiting(q, r, s, k), checkMessage(Head(q))
  PROVE  /\ More(Head(q)) => Waiting(Tail(q), r \o Head(q), s, k)
         /\ ~More(Head(q)) /\ Validate(s, Trim(r \o Head(q))) =>
                Trim(r \o Head(q)) = Trim(Whole(Replies(s, k)))
<1>1. PICK ms \in Datagrams : ms = Head(q) /\ ms = q[1]
  OBVIOUS
<1>2. ms \in Seq(Messages)
  BY Zenon DEF Datagrams
<1>3. CASE Spoilt(r, s) \/ Foreign(ms, s)
  <2>1. Spoilt(r \o ms, s) /\ ~Validate(s, Trim(r \o ms))
    BY Zenon, <1>2, <1>3, SpoiltStays
  <2> QED
    BY Zenon, <1>1, <2>1 DEF Waiting
<1>4. ASSUME NEW j \in {0, 1}, NEW p \in Nat, Pending(q, r, s, Replies(s, k), j, p), ~Foreign(ms, s)
      PROVE  /\ More(ms) => Waiting(Tail(q), r \o ms, s, k)
             /\ ~More(ms) => r \o ms = Whole(Replies(s, k))
  <2>1. PICK R \in Seq(Datagrams) : R = Replies(s, k) /\ Len(R) \in {1, 2}
    BY Zenon, RepliesAre
  <2>2. /\ j < Len(R) /\ p + (Len(R) - j) <= Len(q) /\ r = (IF j = 0 THEN <<>> ELSE R[1])
        /\ \A i \in DOMAIN q : IF p < i /\ i <= p + (Len(R) - j) THEN q[i] = R[j + i - p] ELSE Foreign(q[i], s)
    BY Zenon, <1>4, <2>1 DEF Pending
  <2>3. 1 \in DOMAIN q
    OBVIOUS
  <2>4. p = 0 /\ ms = R[j + 1]
    <3>1. p < 1 /\ 1 <= p + (Len(R) - j) /\ q[1] = R[j + 1 - p]
      BY Zenon, <1>1, <1>4, <2>2, <2>3
    <3>2. p = 0 /\ j + 1 - p = j + 1
      BY <3>1
    <3> QED
      BY Zenon, <1>1, <3>1, <3>2
  <2>5. \/ /\ Len(R) = j + 1 /\ ~More(ms)
           /\ Whole(R) = IF j = 0 THEN R[1] ELSE R[1] \o R[2]
        \/ j = 0 /\ Len(R) = 2 /\ More(ms)
    <3>1. checkMessage(R[j + 1])
      BY Zenon, <1>1, <2>4
    <3>2. \/ /\ Len(R) = j + 1 /\ ~More(R[j + 1])
             /\ Whole(R) = IF j = 0 THEN R[1] ELSE R[1] \o R[2]
          \/ j = 0 /\ Len(R) = 2 /\ More(R[1])
      BY Zenon, <2>1, <2>2, <3>1, ReplyParts
    <3>3. j = 0 => R[j + 1] = R[1]
      OBVIOUS
    <3> QED
      BY Zenon, <2>4, <3>2, <3>3
  <2>6. CASE ~More(ms)
    <3>1. CASE j = 0
      BY <1>2, <2>1, <2>2, <2>4, <2>5, <2>6, <3>1
    <3>2. CASE j = 1
      BY <2>1, <2>2, <2>4, <2>5, <2>6, <3>2
    <3> QED
      BY Zenon, <2>6, <3>1, <3>2
  <2>7. CASE More(ms)
    <3>1. j = 0 /\ Len(R) = 2 /\ r = <<>> /\ ms = R[1] /\ r \o ms = R[1]
      BY <1>2, <2>2, <2>4, <2>5, <2>7
    <3>0. Tail(q) \in Seq(Datagrams)
      OBVIOUS
    <3>2. PICK t \in Seq(Datagrams) : t = Tail(q)
      BY Zenon, <3>0
    <3>3. Len(t) = Len(q) - 1 /\ Len(q) \in Nat /\ DOMAIN t = 1 .. Len(t) /\ \A i \in DOMAIN t : i + 1 \in DOMAIN q /\ t[i] = q[i + 1]
      BY <3>2
    <3>4. ASSUME NEW i \in DOMAIN t
          PROVE  IF 0 < i /\ i <= 0 + (Len(R) - 1) THEN t[i] = R[1 + i - 0] ELSE Foreign(t[i], s)
      BY <2>2, <2>4, <3>1, <3>3
    <3>5. 1 < Len(R) /\ 0 + (Len(R) - 1) <= Len(t)
      BY <2>2, <2>4, <3>1, <3>3
    <3>6. Pending(t, R[1], s, R, 1, 0)
      BY <3>4, <3>5 DEF Pending
    <3> QED
      BY Zenon, <2>1, <2>7, <3>1, <3>2, <3>6 DEF Waiting
  <2> QED
    BY Zenon, <2>6, <2>7
<1> QED
  BY Zenon, <1>1, <1>3, <1>4 DEF Waiting

\* Execute in its system calls, and what it has returned.
Unread(u) == pc[u] # "done" /\ ~(InCall(u) /\ sys[u] \in Reading) => res[u] = <<>>
Executing(u) ==
    connW = u /\ InCall(u) /\ issued <= SeqWrap /\ req[u] # 0 =>
        /\ sys[u] = "send" => \A i \in DOMAIN inq : Foreign(inq[i], req[u])
        /\ sys[u] \in Reading => /\ req[u] \in Nat /\ kind[u] \in ReplyKinds
                                 /\ overrun \/ Waiting(inq, res[u], req[u], kind[u])
Returned(u) ==
    op[u] = "execute" /\ result[u] = "ok" /\ req[u] # 0 /\ issued <= SeqWrap =>
        res[u] = Trim(Whole(Replies(req[u], kind[u])))
AnswerInv == \A u \in Users : Unread(u) /\ Executing(u) /\ Returned(u)

\* Numbers are only given out.
LEMMA IssuedGrows ==
  ASSUME UsersAssumption, Sorts, Values, [Next]_vars PROVE issued' \in Nat /\ issued <= issued'
<1>1. ASSUME NEW u \in Users, UserStep(u) PROVE issued' \in {issued, issued + 1, issued + 2}
  <2>1. CASE Send(u) \/ SendMessages(u) \/ Execute(u)
    BY Zenon, <2>1 DEF Send, SendMessages, Execute, lockedSend, numbers
  <2>2. CASE ~Send(u) /\ ~SendMessages(u) /\ ~Execute(u)
    BY Zenon, <1>1, <2>2, SendingStarts DEF numbers
  <2> QED
    BY Zenon, <2>1, <2>2
<1>2. UNCHANGED vars \/ newLockedNetNSGoroutine \/ Socket \/ bind \/ WorkerStop \/ Multicast => issued' = issued
  BY Zenon DEF newLockedNetNSGoroutine, Socket, bind, WorkerStop, Multicast, vars, numbers
<1>3. issued' \in {issued, issued + 1, issued + 2}
  BY Zenon, <1>1, <1>2 DEF Next
<1> QED
  BY <1>3 DEF Values

\* Others leave Execute alone: they may not draw, send or read.
LEMMA OthersAnswer ==
  ASSUME UsersAssumption, LockInv, Values, AnswerInv, NEW u \in Users, NEW v \in Users \ {u}, UserStep(v),
         issued' \in Nat, issued <= issued'
  PROVE  Unread(u)' /\ Executing(u)' /\ Returned(u)'
<1>1. Untouched(u)
  BY Zenon, Alone DEF LockInv
<1>2. Unread(u) /\ Executing(u) /\ Returned(u)
  BY Zenon DEF AnswerInv
<1>3. Unread(u)'
  BY Zenon, <1>1, <1>2 DEF Unread, Untouched, InCall
<1>4. issued' <= SeqWrap => issued <= SeqWrap
  BY DEF Values, UsersAssumption
<1>5. Returned(u)'
  BY Zenon, <1>1, <1>2, <1>4 DEF Returned, Untouched
<1>6. connW' = u => connW = u
  <2>1. LockInv'
    BY Zenon, LockStep DEF Next
  <2> QED
    BY Zenon, <1>1, <2>1 DEF LockInv, Holding, Untouched, InCall
<1>7. Executing(u)'
  <2> SUFFICES ASSUME connW' = u, InCall(u)' PROVE Executing(u)'
    BY Zenon DEF Executing
  <2>1. connW = u /\ InCall(u)
    BY Zenon, <1>1, <1>6 DEF Untouched, InCall
  <2>2. UNCHANGED <<seq, issued, inq, overrun>>
    BY Zenon, <2>1, Exclusive
  <2> QED
    BY Zenon, <1>1, <1>2, <2>1, <2>2 DEF Executing, Untouched, InCall
<1> QED
  BY Zenon, <1>3, <1>5, <1>7

\* A multicast is none of the answer.
LEMMA MulticastAnswer ==
  ASSUME UsersAssumption, LockInv, Values, AnswerInv, NEW u \in Users, Multicast
  PROVE  Unread(u)' /\ Executing(u)' /\ Returned(u)'
<1>1. PICK k \in ReplyKinds : Queue(Replies(0, k)) /\ UNCHANGED <<numbers, locks, pc, locals>>
  BY Zenon DEF Multicast, ReplyKinds
<1>2. UNCHANGED <<issued, connW, pc, op, sys, req, kind, res, result>>
  BY Zenon, <1>1 DEF numbers, locks, locals
<1>3. Unread(u) /\ Executing(u) /\ Returned(u)
  BY Zenon DEF AnswerInv
<1>4. Unread(u)' /\ Returned(u)'
  BY Zenon, <1>2, <1>3 DEF Unread, Returned, InCall
<1>5. PICK ds \in Seq(Datagrams) : ds = Replies(0, k)
  BY Zenon, RepliesAre
<1>6. \A i \in DOMAIN ds : \A j \in DOMAIN ds[i] : ds[i][j].seq = 0
  BY <1>5, RepliesAre
<1>7. /\ \A i \in DOMAIN inq' : \/ i \in DOMAIN inq /\ inq'[i] = inq[i]
                                \/ \E j \in DOMAIN ds : inq'[i] = ds[j]
      /\ ~overrun' => inq' = inq \o ds
  BY Zenon, <1>1, <1>5, Queued DEF Values, UsersAssumption
<1>8. overrun => overrun'
  BY Zenon, <1>1 DEF Queue
<1>9. ASSUME connW = u, InCall(u), issued <= SeqWrap, req[u] # 0
      PROVE  /\ sys[u] = "send" => \A i \in DOMAIN inq' : Foreign(inq'[i], req[u])
             /\ sys[u] \in Reading => /\ req[u] \in Nat /\ kind[u] \in ReplyKinds
                                      /\ overrun' \/ Waiting(inq', res[u], req[u], kind[u])
  <2>1. \A i \in DOMAIN ds : Foreign(ds[i], req[u])
    BY Zenon, <1>6, <1>9 DEF Foreign
  <2>2. sys[u] = "send" => \A i \in DOMAIN inq' : Foreign(inq'[i], req[u])
    BY Zenon, <1>3, <1>7, <1>9, <2>1 DEF Executing
  <2>3. ASSUME sys[u] \in Reading, ~overrun' PROVE Waiting(inq', res[u], req[u], kind[u])
    <3>1. Waiting(inq, res[u], req[u], kind[u]) /\ req[u] \in Nat /\ kind[u] \in ReplyKinds
      BY Zenon, <1>3, <1>8, <1>9, <2>3 DEF Executing
    <3>2. inq \in Seq(Datagrams)
      BY Zenon DEF Values
    <3> QED
      BY Zenon, <1>7, <2>1, <2>3, <3>1, <3>2, MoreQueued
  <2> QED
    BY Zenon, <1>3, <1>9, <2>2, <2>3 DEF Executing
<1>10. Executing(u)'
  BY Zenon, <1>2, <1>9 DEF Executing, InCall
<1> QED
  BY Zenon, <1>4, <1>10

\* Execute draws a number no datagram of the queue has.
LEMMA DrawAnswer ==
  ASSUME UsersAssumption, LockInv, Values, AnswerInv, NEW b \in 0 .. SeqWrap - 1, NumberInv(b), NEW u \in Users,
         Send(u) \/ SendMessages(u) \/ Execute(u)
  PROVE  Unread(u)' /\ Executing(u)' /\ Returned(u)'
<1>0. /\ Sorts /\ pc \in [Users -> Places] /\ sys \in [Users -> Reading \cup {"send", "opt", None}]
      /\ b \in Nat /\ issued \in Nat /\ SeqWrap \in Nat /\ req \in [Users -> Nat \cup {None}]
      /\ result \in [Users -> {"ok", "error", "truncated", None}] /\ "send" \notin Reading
      /\ "ok" # None
  <2>1. b \in Nat /\ "send" \notin Reading
    BY DEF UsersAssumption, Reading
  <2> QED
    BY Zenon, <2>1 DEF LockInv, Sorts, UsersAssumption, Values
<1>1. pc[u] \in {"rlock", "locking"} /\ UNCHANGED <<res, op, inq>> /\ res[u] = <<>> /\ result[u] = None
  <2>1. pc[u] \in {"rlock", "locking"} /\ UNCHANGED <<res, op, inq>>
    BY Zenon DEF Send, SendMessages, Execute, lockedSend, kernel
  <2>2. Unread(u) /\ Fitting(u)
    BY Zenon DEF AnswerInv, LockInv
  <2> QED
    BY Zenon, <2>1, <2>2 DEF Unread, InCall, Fitting
<1>2. ASSUME Return(u, "error") PROVE Unread(u)' /\ Executing(u)' /\ Returned(u)'
  BY Zenon, <1>0, <1>2 DEF Return, Goto, Unread, Executing, Returned, InCall
<1>3. ASSUME Syscall(u, "send"), UNCHANGED result PROVE sys'[u] = "send" /\ Unread(u)' /\ Returned(u)'
  BY Zenon, <1>0, <1>1, <1>3 DEF Syscall, Goto, Unread, Returned, InCall
<1>4. CASE Execute(u) /\ ~Return(u, "error")
  <2>1. /\ seq' = nextSequence(seq) /\ issued' = issued + 1 /\ req' = [req EXCEPT ![u] = seq']
        /\ Syscall(u, "send") /\ UNCHANGED result
    BY Zenon, <1>4 DEF Execute, lockedSend
  <2>2. req'[u] = nextSequence(seq)
    BY Zenon, <1>0, <2>1
  <2>3. ASSUME issued + 1 <= SeqWrap, nextSequence(seq) # 0
        PROVE  \A i \in DOMAIN inq : Foreign(inq[i], nextSequence(seq))
    <3>1. issued <= SeqWrap
      BY <1>0, <2>3
    <3>2. nextSequence(seq) \notin Drawn(b, issued) /\ \A i \in DOMAIN inq : Numbered(inq[i], b, issued)
      BY <1>0, <2>3, <3>1, NextNumber DEF NumberInv
    <3> QED
      BY Zenon, <2>3, <3>2 DEF Foreign, Numbered
  <2>4. Executing(u)'
    BY Zenon, <1>0, <1>1, <1>3, <2>1, <2>2, <2>3 DEF Executing
  <2> QED
    BY Zenon, <1>3, <2>1, <2>4
<1>5. CASE (Send(u) \/ SendMessages(u)) /\ ~Return(u, "error")
  <2>1. Syscall(u, "send") /\ UNCHANGED <<connW, result>> /\ connW = None
    BY ZenonT(30), <1>5 DEF Send, SendMessages, lockedSend
  <2>2. connW' # u
    BY Zenon, <2>1 DEF UsersAssumption
  <2> QED
    BY Zenon, <1>3, <2>1, <2>2 DEF Executing
<1> QED
  BY Zenon, <1>2, <1>4, <1>5

\* The request goes out, and its answer into the queue.
LEMMA SendmsgAnswer ==
  ASSUME UsersAssumption, LockInv, Values, AnswerInv, NEW u \in Users, Sendmsg(u), op[u] = "execute",
         ~Return(u, "error")
  PROVE  Unread(u)' /\ Executing(u)' /\ Returned(u)'
<1>0. /\ pc \in [Users -> Places] /\ sys \in [Users -> Reading \cup {"send", "opt", None}]
      /\ result \in [Users -> {"ok", "error", "truncated", None}] /\ "ok" # None
      /\ kind \in [Users -> ReplyKinds \cup {None}] /\ inq \in Seq(Datagrams) /\ Len(inq) <= QueueMax
      /\ QueueMax \in Nat
  BY Zenon DEF LockInv, Sorts, UsersAssumption, Values
<1>1. Sending(u) /\ UNCHANGED <<numbers, req, res, op>>
  BY Zenon DEF Sendmsg, Sending, InCall
<1>2. PICK k \in ReplyKinds : /\ Queue(Answers(u, k)) /\ kind' = [kind EXCEPT ![u] = k]
                              /\ Syscall(u, "peek") /\ UNCHANGED <<connW, connR, result>>
  BY Zenon DEF Sendmsg
<1>3. pc'[u] = "enter" /\ sys'[u] = "peek" /\ kind'[u] = k /\ UNCHANGED issued
  BY Zenon, <1>0, <1>1, <1>2 DEF Syscall, Goto, numbers
<1>4. res[u] = <<>> /\ Executing(u) /\ result[u] = None
  BY Zenon, <1>1 DEF AnswerInv, Unread, Sending, Reading, InCall, LockInv, Fitting
<1>5. Unread(u)' /\ Returned(u)'
  BY Zenon, <1>0, <1>2, <1>3, <1>4 DEF Unread, Returned, InCall, Reading
<1>6. PICK s \in Nat : s = req[u]
  BY <1>1 DEF Values
<1>7. Answers(u, k) = Replies(s, k) /\ Replies(s, k) \in Seq(Datagrams)
  BY Zenon, <1>1, <1>6, AnswersAre, RepliesAre
<1>8. ASSUME connW = u, issued <= SeqWrap, s # 0, ~overrun' PROVE Waiting(inq', res[u], s, k)
  <2>1. \A i \in DOMAIN inq : Foreign(inq[i], s)
    BY Zenon, <1>1, <1>4, <1>6, <1>8 DEF Executing, Sending
  <2>2. inq' = inq \o Replies(s, k)
    BY ZenonT(30), <1>0, <1>2, <1>7, <1>8, Queued
  <2> QED
    BY Zenon, <1>0, <1>4, <2>1, <2>2, AnswerQueued
<1>9. Executing(u)'
  BY Zenon, <1>1, <1>2, <1>3, <1>6, <1>8 DEF Executing
<1> QED
  BY Zenon, <1>5, <1>9

\* A datagram is read.
LEMMA RecvAnswer ==
  ASSUME UsersAssumption, LockInv, Values, AnswerInv, NEW u \in Users, Recv(u)
  PROVE  Unread(u)' /\ Executing(u)' /\ Returned(u)'
<1>0. /\ pc \in [Users -> Places] /\ sys \in [Users -> Reading \cup {"send", "opt", None}]
      /\ result \in [Users -> {"ok", "error", "truncated", None}] /\ "ok" # None
      /\ inq \in Seq(Datagrams) /\ res \in [Users -> Seq(Messages)] /\ issued' = issued
  BY Zenon DEF LockInv, Sorts, UsersAssumption, Values, Recv, numbers
<1>1. /\ InCall(u) /\ sys[u] = "recv" /\ ~overrun /\ inq # <<>> /\ inq' = Tail(inq)
      /\ UNCHANGED <<overrun, op, req, kind>>
  BY Zenon DEF Recv, InCall
<1>2. Executing(u) /\ result[u] = None /\ Holding(u)
  BY Zenon, <1>1 DEF AnswerInv, LockInv, Fitting, InCall
<1>3. ASSUME Return(u, "error") \/ Return(u, "truncated") PROVE Unread(u)' /\ Executing(u)' /\ Returned(u)'
  BY Zenon, <1>0, <1>3 DEF Return, Goto, Unread, Executing, Returned, InCall
<1>4. PICK all \in Seq(Messages) : all = res[u] \o Head(inq)
  <2>1. Head(inq) \in Seq(Messages) /\ res[u] \in Seq(Messages)
    BY <1>0, <1>1 DEF Datagrams
  <2>2. \A a, c \in Seq(Messages) : a \o c \in Seq(Messages)
    OBVIOUS
  <2> QED
    BY Zenon, <2>1, <2>2
<1>5. ASSUME connW = u, issued <= SeqWrap, req[u] # 0, checkMessage(Head(inq))
      PROVE  /\ req[u] \in Nat /\ kind[u] \in ReplyKinds
             /\ More(Head(inq)) => Waiting(Tail(inq), all, req[u], kind[u])
             /\ ~More(Head(inq)) /\ Validate(req[u], Trim(all)) =>
                    Trim(all) = Trim(Whole(Replies(req[u], kind[u])))
  <2>1. req[u] \in Nat /\ kind[u] \in ReplyKinds /\ Waiting(inq, res[u], req[u], kind[u])
    BY Zenon, <1>1, <1>2, <1>5 DEF Executing, Reading
  <2> QED
    BY ZenonT(30), <1>0, <1>1, <1>4, <1>5, <2>1, DatagramRead
<1>6. CASE /\ checkMessage(Head(inq)) /\ More(Head(inq)) /\ Syscall(u, "peek")
           /\ res' = [res EXCEPT ![u] = all] /\ UNCHANGED <<connW, connR, result>>
  <2>1. pc'[u] = "enter" /\ sys'[u] = "peek" /\ res'[u] = all
    BY Zenon, <1>0, <1>6 DEF Syscall, Goto
  <2>2. Unread(u)' /\ Returned(u)'
    BY Zenon, <1>0, <1>2, <1>6, <2>1 DEF Unread, Returned, InCall, Reading
  <2>3. Executing(u)'
    BY ZenonT(30), <1>0, <1>1, <1>5, <1>6, <2>1 DEF Executing, Reading
  <2> QED
    BY Zenon, <2>2, <2>3
<1>7. CASE /\ checkMessage(Head(inq)) /\ ~More(Head(inq)) /\ res' = [res EXCEPT ![u] = Trim(all)]
           /\ Return(u, IF op[u] = "execute" /\ ~Validate(req[u], Trim(all)) THEN "error" ELSE "ok")
  <2>1. CASE op[u] = "execute" /\ ~Validate(req[u], Trim(all))
    BY Zenon, <1>3, <1>7, <2>1
  <2>2. CASE ~(op[u] = "execute" /\ ~Validate(req[u], Trim(all)))
    <3>1. Return(u, "ok")
      BY Zenon, <1>7, <2>2
    <3>2. pc'[u] = "done" /\ res'[u] = Trim(all)
      BY Zenon, <1>0, <1>7, <3>1 DEF Return, Goto
    <3>3. op[u] = "execute" => connW = u
      BY Zenon, <1>1, <1>2 DEF Holding
    <3>4. Returned(u)'
      BY ZenonT(30), <1>0, <1>1, <1>5, <1>7, <2>2, <3>2, <3>3 DEF Returned
    <3> QED
      BY Zenon, <3>2, <3>4 DEF Unread, Executing, InCall
  <2> QED
    BY Zenon, <2>1, <2>2
<1> QED
  BY ZenonT(30), <1>3, <1>4, <1>6, <1>7 DEF Recv

\* The other steps of a goroutine.
LEMMA OwnAnswer ==
  ASSUME UsersAssumption, LockInv, Values, AnswerInv, NEW u \in Users, UserStep(u),
         ~Send(u), ~SendMessages(u), ~Execute(u)
  PROVE  Unread(u)' /\ Executing(u)' /\ Returned(u)'
<1>0. /\ pc \in [Users -> Places] /\ sys \in [Users -> Reading \cup {"send", "opt", None}]
      /\ result \in [Users -> {"ok", "error", "truncated", None}] /\ "ok" # None
      /\ None \notin Users /\ op \in [Users -> Calls \cup {None}] /\ Sorts
  BY Zenon DEF LockInv, Sorts, UsersAssumption
<1>1. Unread(u) /\ Executing(u) /\ Returned(u) /\ Fitting(u) /\ Holding(u)
  BY Zenon DEF AnswerInv, LockInv
<1>2. UNCHANGED <<issued, req>>
  BY Zenon, <1>0, SendingStarts DEF numbers
<1>3. ASSUME NEW r, Return(u, r), r = "ok" => op'[u] # "execute"
      PROVE  Unread(u)' /\ Executing(u)' /\ Returned(u)'
  BY Zenon, <1>0, <1>3 DEF Return, Goto, Unread, Executing, Returned, InCall
<1>4. CASE MarshalFails(u) \/ RecvmsgFails(u) \/ (Enter(u) /\ closed)
  BY ZenonT(30), <1>3, <1>4 DEF MarshalFails, RecvmsgFails, Enter
<1>5. CASE Setsockopt(u)
  <2>1. op[u] # "execute" /\ op' = op
    BY ZenonT(30), <1>1, <1>5 DEF Setsockopt, Fitting, InCall, SockOps, GroupOps, Reading
  <2> QED
    BY ZenonT(30), <1>3, <1>5, <2>1 DEF Setsockopt
<1>6. CASE Sendmsg(u)
  <2>1. CASE op[u] = "execute" /\ ~Return(u, "error")
    BY Zenon, <1>6, <2>1, SendmsgAnswer
  <2>2. CASE Return(u, "error")
    BY Zenon, <1>3, <2>2
  <2>3. CASE op[u] # "execute" /\ Return(u, "ok") /\ op' = op
    BY Zenon, <1>3, <2>3
  <2> QED
    BY Zenon, <1>6, <2>1, <2>2, <2>3 DEF Sendmsg
<1>7. CASE run(u) \/ (Enter(u) /\ ~closed)
  <2>1. UNCHANGED <<connW, op, sys, kind, res, result, inq, overrun>> /\ InCall(u) /\ InCall(u)' /\ pc'[u] # "done" /\ pc[u] # "done"
    BY Zenon, <1>0, <1>7 DEF run, Enter, Goto, InCall, locks, locals, kernel
  <2> QED
    BY Zenon, <1>1, <1>2, <2>1 DEF Unread, Executing, Returned
<1>8. CASE Peek(u)
  <2>1. UNCHANGED <<connW, op, kind, res, result, inq, overrun>> /\ InCall(u) /\ InCall(u)'
    BY Zenon, <1>0, <1>8 DEF Peek, Goto, InCall, kernel
  <2>2. sys[u] \in Reading /\ sys'[u] \in Reading /\ sys'[u] # "send"
    BY Zenon, <1>0, <1>8 DEF Peek, Reading
  <2> QED
    BY Zenon, <1>1, <1>2, <2>1, <2>2 DEF Unread, Executing, Returned
<1>9. CASE Begin(u) \/ Lock(u) \/ CloseLock(u) \/ Close(u)
  <2>1. /\ UNCHANGED <<res, result>> /\ result[u] = None /\ pc[u] # "done" /\ ~InCall(u) /\ res[u] = <<>>
        /\ connW' = u => ~InCall(u)'
    <3>1. /\ UNCHANGED <<res, result>> /\ pc[u] \in {"start", "lock", "closeLock", "closing"}
      BY Zenon, <1>9 DEF Begin, Lock, CloseLock, Close, locals
    <3>2. result[u] = None /\ pc[u] # "done" /\ ~InCall(u) /\ res[u] = <<>>
      BY Zenon, <1>1, <3>1 DEF Fitting, InCall, Unread
    <3>3. connW' = u => ~InCall(u)'
      <4>1. CASE Lock(u)
        BY Zenon, <1>0, <4>1 DEF Lock, Goto, InCall
      <4>2. CASE Begin(u) \/ CloseLock(u) \/ Close(u)
        <5>1. UNCHANGED connW /\ pc[u] \in {"start", "closeLock", "closing"}
          BY Zenon, <4>2 DEF Begin, CloseLock, Close, locks
        <5> QED
          BY Zenon, <1>1, <5>1 DEF Holding, InCall
      <4> QED
        BY Zenon, <1>9, <4>1, <4>2
    <3> QED
      BY Zenon, <3>1, <3>2, <3>3
  <2> QED
    BY ZenonT(30), <1>0, <2>1 DEF Unread, Executing, Returned
<1>10. CASE Stopped(u)
  <2>1. op'[u] # "execute" /\ pc'[u] = "done"
    BY ZenonT(30), <1>0, <1>1, <1>10 DEF Stopped, Goto, Fitting
  <2> QED
    BY Zenon, <2>1 DEF Unread, Executing, Returned, InCall
<1>11. CASE Receive(u)
  <2>1. /\ connW' # u /\ UNCHANGED <<res, result>> /\ sys'[u] = "peek" /\ pc'[u] = "enter"
        /\ pc[u] = "rlock" /\ "peek" \in Reading
    BY Zenon, <1>0, <1>11 DEF Receive, Syscall, Goto, Reading
  <2>2. result[u] = None
    BY Zenon, <1>1, <2>1 DEF Fitting
  <2> QED
    BY Zenon, <1>0, <2>1, <2>2 DEF Unread, Executing, Returned, InCall
<1> QED
  BY Zenon, <1>4, <1>5, <1>6, <1>7, <1>8, <1>9, <1>10, <1>11, RecvAnswer DEF UserStep

\* Every step keeps what a goroutine has received the answer to its request.
LEMMA AnswerStep ==
  ASSUME UsersAssumption, LockInv, Values, AnswerInv, NEW b \in 0 .. SeqWrap - 1, NumberInv(b), [Next]_vars
  PROVE  AnswerInv'
<1> SUFFICES ASSUME NEW u \in Users PROVE Unread(u)' /\ Executing(u)' /\ Returned(u)'
  BY Zenon DEF AnswerInv
<1>1. issued' \in Nat /\ issued <= issued'
  BY Zenon, IssuedGrows DEF LockInv
<1>2. CASE UNCHANGED <<numbers, inq, overrun, locks, pc, locals>>
  <2>1. Unread(u) /\ Executing(u) /\ Returned(u)
    BY Zenon DEF AnswerInv
  <2> QED
    BY Zenon, <1>2, <2>1 DEF numbers, locks, locals, Unread, Executing, Returned, InCall
<1>3. UNCHANGED vars \/ newLockedNetNSGoroutine \/ Socket \/ bind \/ WorkerStop
        => UNCHANGED <<numbers, inq, overrun, locks, pc, locals>>
  BY Zenon DEF newLockedNetNSGoroutine, Socket, bind, WorkerStop, vars, kernel, locals, locks, numbers
<1> QED
  BY Zenon, <1>1, <1>2, <1>3, OthersAnswer, MulticastAnswer, DrawAnswer, OwnAnswer DEF Next

----------------------------------------------------------------------------
\* The rest of the types: the thread, the worker and the writer of the socket's lock.
RestInv ==
    threadNS \in {"own", "set"} /\ worker \in Users \cup {None, "idle", "gone"} /\ sockW \in Users \cup {None}

\* Every step keeps what TypeOK says of the rest of the state.
LEMMA RestStep == ASSUME RestInv, [Next]_vars PROVE RestInv'
<1>1. CASE newLockedNetNSGoroutine \/ Socket \/ bind \/ WorkerStop \/ Multicast \/ UNCHANGED vars
  BY Zenon, <1>1 DEF RestInv, newLockedNetNSGoroutine, Socket, bind, WorkerStop, WorkerReturns, Multicast, vars, locks
<1>2. ASSUME NEW u \in Users, UserStep(u) PROVE RestInv'
  <2>1. CASE Begin(u) \/ Send(u) \/ SendMessages(u) \/ Receive(u) \/ Lock(u) \/ Execute(u) \/ MarshalFails(u)
               \/ Enter(u) \/ run(u)
    BY Zenon, <2>1 DEF RestInv, Begin, Send, SendMessages, Receive, Lock, Execute, MarshalFails, Enter, run, locks
  <2>2. CASE Sendmsg(u) \/ RecvmsgFails(u) \/ Peek(u) \/ Recv(u) \/ Setsockopt(u)
    BY Zenon, <2>2 DEF RestInv, Sendmsg, RecvmsgFails, Peek, Recv, Setsockopt, Ran
  <2>3. CASE CloseLock(u) \/ Close(u) \/ Stopped(u)
    BY Zenon, <2>3 DEF RestInv, CloseLock, Close, Stopped
  <2> QED
    BY Zenon, <1>2, <2>1, <2>2, <2>3 DEF UserStep
<1> QED
  BY Zenon, <1>1, <1>2 DEF Next

\* The inductive invariant of the connection.
ConnInv ==
    /\ IInv /\ LockInv /\ Values /\ SizeInv /\ AnswerInv /\ RestInv
    /\ \E b \in 0 .. SeqWrap - 1 : NumberInv(b)

\* The connection starts in the invariant.
LEMMA ConnInit == ASSUME UsersAssumption PROVE Init => ConnInv
<1> SUFFICES ASSUME Init PROVE ConnInv
  BY Zenon
<1> USE DEF Init
<1>1. None \notin Users /\ None \notin Calls /\ None \notin {"truncated", "ok"}
  BY Zenon DEF UsersAssumption
<1>2. IInv
  BY Zenon DEF IInv, Places
<1>3. /\ \A u \in Users : pc[u] = "start" /\ op[u] = None /\ result[u] = None /\ res[u] = <<>>
      /\ \A u \in Users : ~InCall(u)
  BY Zenon DEF InCall
<1>4. LockInv
  <2>1. Sorts
    BY Zenon DEF Sorts, Places
  <2>2. \A u \in Users : Fitting(u) /\ Holding(u)
    BY Zenon, <1>1, <1>3 DEF Fitting, Holding, InCall, Calls, Shared
  <2> QED
    BY Zenon, <2>1, <2>2 DEF LockInv
<1>5. Values
  <2>1. seq \in 0 .. SeqWrap - 1 /\ issued \in Nat /\ inq \in Seq(Datagrams) /\ Len(inq) <= QueueMax
    BY DEF UsersAssumption
  <2> QED
    BY <1>3, <2>1 DEF Values, Sending
<1>6. SizeInv
  BY Zenon, <1>1, <1>3 DEF SizeInv, Peeked
<1>7. AnswerInv
  BY Zenon, <1>1, <1>3 DEF AnswerInv, Unread, Executing, Returned
<1>8. RestInv
  BY Zenon DEF RestInv
<1>9. \E b \in 0 .. SeqWrap - 1 : NumberInv(b)
  <2>1. PICK b \in 0 .. SeqWrap - 1 : seq = b
    BY Zenon DEF UsersAssumption
  <2>2. Number(b, 0) = b
    BY DEF Number, UsersAssumption
  <2>3. DOMAIN inq = {}
    OBVIOUS
  <2>4. NumberInv(b)
    BY Zenon, <1>3, <2>1, <2>2, <2>3 DEF NumberInv, Sending
  <2> QED
    BY Zenon, <2>4
<1> QED
  BY Zenon, <1>2, <1>4, <1>5, <1>6, <1>7, <1>8, <1>9 DEF ConnInv

\* Every step preserves the invariant.
LEMMA ConnStep ==
  ASSUME UsersAssumption, OneReceiver, ConnInv, [Next]_vars PROVE ConnInv'
<1>1. PICK b \in 0 .. SeqWrap - 1 : NumberInv(b)
  BY Zenon DEF ConnInv
<1>2. IInv /\ LockInv /\ Values /\ SizeInv /\ AnswerInv /\ RestInv
  BY Zenon DEF ConnInv
<1>3. NumberInv(b)'
  BY Zenon, <1>1, <1>2, NumberStep
<1>4. IInv' /\ LockInv' /\ Values' /\ SizeInv' /\ AnswerInv' /\ RestInv'
  BY Zenon, <1>1, <1>2, IInvStep, LockStep, ValuesStep, SizeStep, AnswerStep, RestStep
<1>5. (\E c \in 0 .. SeqWrap - 1 : NumberInv(c))'
  BY Zenon, <1>3
<1> QED
  BY Zenon, <1>4, <1>5 DEF ConnInv

\* What the invariant says of the connection.
LEMMA ConnIsSound ==
  ASSUME ConnInv
  PROVE  TypeOK /\ ExecuteReturnsItsReply /\ NothingTruncated /\ NoCallAfterStop /\ NothingLeftBehind
<1>1. IInv /\ LockInv /\ Values /\ SizeInv /\ AnswerInv /\ RestInv
  BY Zenon DEF ConnInv
<1>2. NothingTruncated /\ ExecuteReturnsItsReply
  BY Zenon, <1>1 DEF SizeInv, NothingTruncated, AnswerInv, Returned, ExecuteReturnsItsReply
<1>3. NoCallAfterStop /\ NothingLeftBehind
  BY Zenon, <1>1 DEF IInv, NoCallAfterStop, NothingLeftBehind
<1>4. inq \in Seq(Seq(Messages))
  <2>1. inq \in Seq(Datagrams)
    BY Zenon, <1>1 DEF Values
  <2>2. Datagrams \subseteq Seq(Messages)
    BY ZenonT(30) DEF Datagrams
  <2> QED
    BY <2>1, <2>2
<1>5. TypeOK
  BY Zenon, <1>1, <1>4 DEF TypeOK, IInv, LockInv, Sorts, Values, RestInv
<1> QED
  BY Zenon, <1>2, <1>3, <1>5

(***************************************************************************)
(* Execute returns the whole answer to its own request and nothing else,   *)
(* although others send, receive, join groups and close, the queue         *)
(* overruns and the kernel sends multicasts; no datagram is cut when one   *)
(* goroutine receives; no function is offered to a worker that has gone;   *)
(* and a Dial that fails leaves nothing behind.                            *)
(***************************************************************************)
THEOREM Sound ==
  ASSUME UsersAssumption, OneReceiver
  PROVE  Init /\ [][Next]_vars => []NetlinkIsSound
<1>1. Init => ConnInv
  BY Zenon, ConnInit
<1>2. ConnInv /\ [Next]_vars => ConnInv'
  BY Zenon, ConnStep
<1>3. ConnInv => NetlinkIsSound
  BY Zenon, ConnIsSound DEF NetlinkIsSound
<1> QED
  BY <1>1, <1>2, <1>3, PTL
=============================================================================
