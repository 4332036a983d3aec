------------------------------ MODULE Channels ------------------------------
(***************************************************************************)
(* The calls of the RPC client over pooled connections, the memory         *)
(* transport, the server's side of the HTTP transport and a websocket,     *)
(* each with variables of its own, for the runs and the proofs about them. *)
(* They do not interact.                                                   *)
(***************************************************************************)
EXTENDS Integers, Sequences, Functions

CONSTANTS Nobody,
          Caller, Conn, NoConn, Retries, PoolSize,       \* ClientCall
          MemUsers, EndOf, MemOps, Timeout, MemCalls,    \* MemTransport
          MaxData, HttpSends,                            \* HttpSocket
          Readers, Senders, MaxFrames, WebSends          \* WSocket

VARIABLES
  cCpc, cTries, cDone, cCh, cApc, cConn, cFailed, cClosed, cAch, cIpc,
  cOpen, cLock, cWire, cRsp, cConns,
  mListener, mAcceptor, mDial, mRelisten, mSendOf, mRecvOf, mExit, mReaders, mWriter,
  mSt, mCalls, mSent, mGot, mLate,
  hProto, hReads, hHandler, hSent, hEnded, hFirst, hInput, hOpen, hClosed,
  hRpc, hSpc, hCpc, hSends, hGot, hLate, hOvertaken,
  wRole, wCallbacks, wConn, wIsConnected, wInbox, wFrames, wCloseSent, wReceiveMu,
  wRpc, wHand, wSendMu, wSpc, wSends, wCloser, wDelivered, wTold

callVars == <<cCpc, cTries, cDone, cCh, cApc, cConn, cFailed, cClosed, cAch, cIpc,
              cOpen, cLock, cWire, cRsp, cConns>>
memVars == <<mListener, mAcceptor, mDial, mRelisten, mSendOf, mRecvOf, mExit, mReaders,
             mWriter, mSt, mCalls, mSent, mGot, mLate>>
httpVars == <<hProto, hReads, hHandler, hSent, hEnded, hFirst, hInput, hOpen, hClosed,
              hRpc, hSpc, hCpc, hSends, hGot, hLate, hOvertaken>>
wsVars == <<wRole, wCallbacks, wConn, wIsConnected, wInbox, wFrames, wCloseSent, wReceiveMu,
            wRpc, wHand, wSendMu, wSpc, wSends, wCloser, wDelivered, wTold>>

Call == INSTANCE ClientCall WITH
  Size <- PoolSize, None <- NoConn,
  cpc <- cCpc, tries <- cTries, ctxDone <- cDone, ch <- cCh, apc <- cApc,
  conn <- cConn, failed <- cFailed, closed <- cClosed, ach <- cAch, ipc <- cIpc,
  isOpen <- cOpen, hlock <- cLock, wire <- cWire, rsp <- cRsp, conns <- cConns

Memory == INSTANCE MemTransport WITH
  Users <- MemUsers, None <- Nobody, OpsOf <- MemOps, MaxCalls <- MemCalls,
  listener <- mListener, acceptor <- mAcceptor, dial <- mDial, relisten <- mRelisten,
  sendOf <- mSendOf, recvOf <- mRecvOf, exit <- mExit, readers <- mReaders,
  writer <- mWriter, st <- mSt, calls <- mCalls, sent <- mSent, got <- mGot, late <- mLate

Http == INSTANCE HttpSocket WITH
  MaxSends <- HttpSends,
  proto <- hProto, reads <- hReads, handler <- hHandler, sent <- hSent, ended <- hEnded,
  first <- hFirst, input <- hInput, open <- hOpen, closed <- hClosed, rpc <- hRpc,
  spc <- hSpc, cpc <- hCpc, sends <- hSends, got <- hGot, late <- hLate,
  overtaken <- hOvertaken

Web == INSTANCE WSocket WITH
  None <- Nobody, MaxSends <- WebSends,
  role <- wRole, callbacks <- wCallbacks, conn <- wConn, isConnected <- wIsConnected,
  inbox <- wInbox, frames <- wFrames, closeSent <- wCloseSent, receiveMu <- wReceiveMu,
  rpc <- wRpc, hand <- wHand, sendMu <- wSendMu, spc <- wSpc, sends <- wSends,
  closer <- wCloser, delivered <- wDelivered, told <- wTold

-----------------------------------------------------------------------------
(***************************************************************************)
(* client, transport/pool: an attempt reads the answer to its own request; *)
(* a pooled connection is open, free and quiet; every open one is pooled   *)
(* or will be released by exactly one attempt.                             *)
(***************************************************************************)
ConnsAreSound ==
  Call!TypeOK /\ Call!AnswerIsForRequest /\ Call!PoolIsClean /\ Call!NoConnIsLeaked

(***************************************************************************)
(* transport/memory: what one end receives is what the other sent, in      *)
(* order and once, and nothing passes after a Close.                       *)
(***************************************************************************)
MemoryDelivers == Memory!TypeOK /\ Memory!InOrderOnce /\ Memory!NothingAfterClose

(***************************************************************************)
(* transport/http: Recv gives the requests in order and once, and a Send   *)
(* after Close writes nothing.                                             *)
(***************************************************************************)
HttpSocketOrders == Http!TypeOK /\ Http!RequestsInOrder /\ Http!ClosedMeansClosed

(***************************************************************************)
(* web: one message is written to the websocket at a time, and             *)
(* OnTextMessage gets the peer's in order and once.                        *)
(***************************************************************************)
WebSocketOrders == Web!TypeOK /\ Web!OneWriter /\ Web!TextsInOrder
=============================================================================
