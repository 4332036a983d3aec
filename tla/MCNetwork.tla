----------------------------- MODULE MCNetwork -----------------------------
(***************************************************************************)
(* The connections of the repository for TLC: a netlink connection, calls  *)
(* of the RPC client over the connection pool and the HTTP transport, the  *)
(* server's side of it, the memory transport and a websocket.  The initial *)
(* state picks one of them (part), which moves while the others stay as    *)
(* they were made.  The bounds, from the configuration: one call that may  *)
(* try again and one that may not, with a pool of one connection for two;  *)
(* two goroutines that share the client's end of a memory connection and   *)
(* one at the server's; three requests, of which the first goes by the     *)
(* channel, and two answers around a Close; three frames of a websocket's  *)
(* peer and one sender besides Close.                                      *)
(***************************************************************************)
EXTENDS NetlinkConn, Channels, TLC

CONSTANTS c1, c2,      \* two calls
          u1, u2, u3   \* goroutines that use a connection

VARIABLE part

mcVars == <<part, vars, callVars, memVars, httpVars, wsVars>>

\* Netlink: two requests in flight, receivers, and a Close against all of them.  The
\* sequence number wraps in two requests, the queue overruns, and a read deadline is set.
NetlinkOps ==
  (u1 :> {"execute", "receive"}) @@ (u2 :> {"execute", "send", "sendMessages", "close"})
    @@ (u3 :> {"close", "join", "setopt"})

RetriesOf == (c1 :> 1) @@ (c2 :> 0)

\* Of the two goroutines on the client's end one closes it under the other.
EndOfUser == (u1 :> "client") @@ (u2 :> "client") @@ (u3 :> "server")
MemoryOps ==
  (u1 :> {"recv"}) @@ (u2 :> {"send", "close"}) @@ (u3 :> {"recv", "send", "close"})

\* What the modules assume of their constants.
ASSUME Legal ==
  /\ Call!CallAssumption /\ Memory!EndsAssumption /\ Http!DataAssumption /\ Web!SocketAssumption
  /\ UsersAssumption /\ OneReceiver

MCInit ==
  /\ part \in {"call", "memory", "netlink", "http", "websocket"}
  /\ Call!Init /\ Memory!Init /\ Init /\ Http!Init /\ Web!Init
  /\ part # "http" => hProto = 1 /\ hReads
  /\ part # "websocket" => wRole = "client" /\ wCallbacks

CallNext == part = "call" /\ Call!Next /\ UNCHANGED <<part, memVars, vars, httpVars, wsVars>>
MemoryNext == part = "memory" /\ Memory!Next /\ UNCHANGED <<part, callVars, vars, httpVars, wsVars>>
NetlinkNext == part = "netlink" /\ Next /\ UNCHANGED <<part, callVars, memVars, httpVars, wsVars>>
HttpNext == part = "http" /\ Http!Next /\ UNCHANGED <<part, callVars, memVars, vars, wsVars>>
WebNext == part = "websocket" /\ Web!Next /\ UNCHANGED <<part, callVars, memVars, vars, httpVars>>
MCNext == CallNext \/ MemoryNext \/ NetlinkNext \/ HttpNext \/ WebNext

\* The fairness of the modules.
MCFairness ==
  /\ \A c \in Caller :
       /\ WF_callVars(part = "call" /\ Call!CallStep(c))
       /\ WF_callVars(part = "call" /\ Call!Deadline(c))
  /\ \A a \in {<<c1, 0>>, <<c1, 1>>, <<c2, 0>>} :
       /\ WF_callVars(part = "call" /\ Call!AttemptStep(a))
       /\ WF_callVars(part = "call" /\ Call!IoStep(a))
  /\ WF_memVars(part = "memory" /\ Memory!Accept)
  /\ \A u \in MemUsers : WF_memVars(part = "memory" /\ Memory!UserStep(u))
  /\ WF_vars(part = "netlink" /\ WorkerStop)
  /\ \A u \in Users : WF_vars(part = "netlink" /\ UserStep(u))
  /\ WF_httpVars(part = "http" /\ Http!Recv)
  /\ WF_httpVars(part = "http" /\ Http!Send)
  /\ WF_httpVars(part = "http" /\ Http!Close)
  /\ WF_wsVars(part = "websocket" /\ Web!Close)
  /\ \A i \in Readers : WF_wsVars(part = "websocket" /\ Web!Read(i))
  /\ \A u \in Senders \cup {"closer"} : WF_wsVars(part = "websocket" /\ Web!Write(u))

MCSpec == MCInit /\ [][MCNext]_mcVars /\ MCFairness

-----------------------------------------------------------------------------
(***************************************************************************)
(* Whatever was called ends, made of what the modules explain: an attempt  *)
(* of the RPC client, although its call has timed out; with a timeout, or  *)
(* a read deadline, a call on a memory or a netlink connection, Close      *)
(* included; a Recv of the HTTP server that waits when Close is called;    *)
(* and the reader of a websocket that is closed or lost.                   *)
(***************************************************************************)
EveryCallEnds ==
  /\ Call!AttemptsEnd /\ Memory!CallsReturn /\ CallsEnd
  /\ Http!CloseUnblocksRecv /\ Web!ReaderEnds
=============================================================================
