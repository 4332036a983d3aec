---------------------------- MODULE MCServices -----------------------------
(***************************************************************************)
(* The services of the repository for TLC: the RabbitMQ broker and what    *)
(* becomes of its messages, the Apollo client, the file-backed cache, the  *)
(* two logs, promises and the ring buffer with its streams.  They do not   *)
(* interact: the initial state picks one of them (part), which moves while *)
(* the others stay as they were made.  The bounds of the broker and of the *)
(* rotating log are in the configuration: one subscriber; events for four  *)
(* files of two where three are kept, and two failures.                    *)
(***************************************************************************)
EXTENDS Backends, TLC

CONSTANTS s1, s2,      \* subscribers, senders, streams
          a, b, c, d,  \* messages, keys, events
          None

VARIABLES
  part,
  dMode, dReady, dSent, dUnacked, dSettled, dChannel, dAlive, dHand, dGos, dWg, dClosing,
  dCalled, dDrops, dErrs,
  cRelease, cConf, cNotif, cRelKey, cCache, cPc, cFirst, cNext, cChan, cView, cFile,
  cWrites, cDirect, cDown, cFaults, cRestarts, cMissed, cExpired,
  fUp, fData, fIdx, fItems, fClock, fPc, fKey, fBorn, fExp, fTodo, fKept, fStray, fToLoad,
  fCrashes,
  oMu, oFile, oOpened, oClosed, oCurrent, oQueue, oBuffer, oBufLen, oPc, oEv, oProc,
  oHandle, oNext, oUnsent, oAccepted, oDisk, oLost, oPooled,
  pPending, pResult, pErr, pWg, pMutex, pTodo, pHeld, pResolutions, pErrors, pCollected,
  bVals, bPuts, bTodo, bStreams, bEntries, bStop, bClosed, bFrom, bRead

deliveryVars == <<dMode, dReady, dSent, dUnacked, dSettled, dChannel, dAlive, dHand, dGos,
                  dWg, dClosing, dCalled, dDrops, dErrs>>
apolloVars == <<cRelease, cConf, cNotif, cRelKey, cCache, cPc, cFirst, cNext, cChan, cView,
                cFile, cWrites, cDirect, cDown, cFaults, cRestarts, cMissed, cExpired>>
itemsVars == <<fUp, fData, fIdx, fItems, fClock, fPc, fKey, fBorn, fExp, fTodo, fKept,
               fStray, fToLoad, fCrashes>>
asyncVars == <<oMu, oFile, oOpened, oClosed, oCurrent, oQueue, oBuffer, oBufLen, oPc, oEv,
               oProc, oHandle, oNext, oUnsent, oAccepted, oDisk, oLost, oPooled>>
futureVars == <<pPending, pResult, pErr, pWg, pMutex, pTodo, pHeld, pResolutions, pErrors,
                pCollected>>
ringVars == <<bVals, bPuts, bTodo, bStreams, bEntries, bStop, bClosed, bFrom, bRead>>
vars == <<part, rabbitVars, deliveryVars, apolloVars, itemsVars, rotateVars, asyncVars,
                futureVars, ringVars>>

\* Of a its executor resolves and rejects, of b it resolves with c and panics.
Script == [x \in {"a", "b", "c"} |->
             IF x = "b" THEN << <<"promise", "c">>, <<"panic">> >>
             ELSE << <<"resolve">>, <<"reject">> >>]

\* One Connect and two faults, or two Connects: two reconnect loops.
ConnectsAndFaults == {<<1, 2>>, <<2, 0>>}

\* Two messages, a lost channel and a handler that fails.
Delivery == INSTANCE RabbitDelivery WITH
  Msgs <- {a, b}, Modes <- {"auto", "ackSuccess"}, MaxDrops <- 1, MaxErrors <- 1,
  mode <- dMode, ready <- dReady, sent <- dSent, unacked <- dUnacked, settled <- dSettled,
  channel <- dChannel, alive <- dAlive, hand <- dHand, gos <- dGos, wg <- dWg,
  closing <- dClosing, called <- dCalled, drops <- dDrops, errs <- dErrs

\* Two releases that add and remove keys, two failed requests and a restart.
Apollo == INSTANCE ApolloConfig WITH
  Keys <- {a, b}, Values <- {1}, Nodes <- {s1}, MaxReleases <- 2, MaxFaults <- 2, MaxRestarts <- 1,
  release <- cRelease, conf <- cConf, notif <- cNotif, relKey <- cRelKey, cache <- cCache,
  pc <- cPc, first <- cFirst, next <- cNext, chan <- cChan, view <- cView, file <- cFile,
  writes <- cWrites, direct <- cDirect, down <- cDown, faults <- cFaults,
  restarts <- cRestarts, missed <- cMissed, expired <- cExpired

\* An item that is added, expires and is added again, around a crash and a reload.
Items == INSTANCE FileItems WITH
  Keys <- {a}, LifeSpan <- 1, MaxTime <- 2, MaxCrashes <- 1,
  up <- fUp, data <- fData, idx <- fIdx, items <- fItems, clock <- fClock, pc <- fPc,
  key <- fKey, born <- fBorn, exp <- fExp, todo <- fTodo, kept <- fKept, stray <- fStray,
  toLoad <- fToLoad, crashes <- fCrashes

\* A queue and a buffer of two for four events; a file of two, so that it rotates.
Async == INSTANCE AsyncLog WITH
  Senders <- {s1, s2}, Events <- {a, b, c, d}, PoolSize <- 2, BufferSize <- 2, FileSize <- 2,
  mu <- oMu, file <- oFile, opened <- oOpened, closed <- oClosed, current <- oCurrent,
  queue <- oQueue, buffer <- oBuffer, bufLen <- oBufLen, pc <- oPc, ev <- oEv,
  proc <- oProc, handle <- oHandle, next <- oNext, unsent <- oUnsent, accepted <- oAccepted,
  disk <- oDisk, lost <- oLost, pooled <- oPooled

\* Executors that settle twice, one of them with a promise; All over two of them.
Future == INSTANCE Promise WITH
  Base <- {"a", "b", "c"}, Script <- Script, Args <- <<"a", "b">>,
  pending <- pPending, result <- pResult, err <- pErr, wg <- pWg, mutex <- pMutex,
  todo <- pTodo, held <- pHeld, resolutions <- pResolutions, errors <- pErrors,
  collected <- pCollected

\* A ring of two, two streams with room for one entry, four values.
Ring == INSTANCE RingBuffer WITH
  Size <- 2, StreamCap <- 1, Streams <- {s1, s2}, MaxPuts <- 4,
  vals <- bVals, puts <- bPuts, todo <- bTodo, streams <- bStreams, entries <- bEntries,
  stop <- bStop, closed <- bClosed, from <- bFrom, read <- bRead

\* What the modules assume of their constants.
ASSUME Legal == Rabbit!IdsAssumption /\ Rotate!FilesAssumption

Init ==
  /\ part \in {"rabbit", "delivery", "apollo", "items", "rotate", "async", "future", "ring"}
  /\ Rabbit!Init /\ Delivery!Init /\ Apollo!Init /\ Items!Init
  /\ Rotate!Init /\ Async!Init /\ Future!Init /\ Ring!Init
  /\ part # "rabbit" => rBudget = <<1, 2>>
  /\ part # "delivery" => dMode = "auto"

RabbitNext ==
  /\ part = "rabbit" /\ Rabbit!Next
  /\ UNCHANGED <<part, deliveryVars, apolloVars, itemsVars, rotateVars, asyncVars,
                 futureVars, ringVars>>
DeliveryNext ==
  /\ part = "delivery" /\ Delivery!Next
  /\ UNCHANGED <<part, rabbitVars, apolloVars, itemsVars, rotateVars, asyncVars, futureVars,
                 ringVars>>
ApolloNext ==
  /\ part = "apollo" /\ Apollo!Next
  /\ UNCHANGED <<part, rabbitVars, deliveryVars, itemsVars, rotateVars, asyncVars,
                 futureVars, ringVars>>
ItemsNext ==
  /\ part = "items" /\ Items!Next
  /\ UNCHANGED <<part, rabbitVars, deliveryVars, apolloVars, rotateVars, asyncVars,
                 futureVars, ringVars>>
RotateNext ==
  /\ part = "rotate" /\ Rotate!Next
  /\ UNCHANGED <<part, rabbitVars, deliveryVars, apolloVars, itemsVars, asyncVars,
                 futureVars, ringVars>>
AsyncNext ==
  /\ part = "async" /\ Async!Next
  /\ UNCHANGED <<part, rabbitVars, deliveryVars, apolloVars, itemsVars, rotateVars,
                 futureVars, ringVars>>
FutureNext ==
  /\ part = "future" /\ Future!Next
  /\ UNCHANGED <<part, rabbitVars, deliveryVars, apolloVars, itemsVars, rotateVars,
                 asyncVars, ringVars>>
RingNext ==
  /\ part = "ring" /\ Ring!Next
  /\ UNCHANGED <<part, rabbitVars, deliveryVars, apolloVars, itemsVars, rotateVars,
                 asyncVars, futureVars>>

Next ==
  \/ RabbitNext \/ DeliveryNext \/ ApolloNext \/ ItemsNext
  \/ RotateNext \/ AsyncNext \/ FutureNext \/ RingNext

\* The fairness of the modules.
Fairness ==
  /\ WF_rabbitVars(part = "rabbit" /\ ~rPanicked /\ Rabbit!UserStep)
  /\ \A i \in 1..2 : WF_rabbitVars(part = "rabbit" /\ ~rPanicked /\ Rabbit!LoopStep(i))
  /\ SF_rabbitVars(part = "rabbit" /\ ~rPanicked /\ Rabbit!SubStep(s1))
  /\ \A m \in {a, b} :
       /\ SF_deliveryVars(part = "delivery" /\ Delivery!Send(m))
       /\ SF_deliveryVars(part = "delivery" /\ Delivery!Receive(m))
  /\ WF_deliveryVars(part = "delivery" /\ \E x \in dGos : Delivery!Goroutine(x))
  /\ WF_deliveryVars(part = "delivery" /\ Delivery!Resubscribe)
  /\ WF_deliveryVars(part = "delivery" /\ Delivery!Wait)
  /\ WF_deliveryVars(part = "delivery" /\ Delivery!Go)
  /\ WF_apolloVars(part = "apollo" /\ Apollo!PollStep)
  /\ WF_apolloVars(part = "apollo" /\ Apollo!NextTry)
  /\ WF_apolloVars(part = "apollo" /\ Apollo!Write)
  /\ WF_apolloVars(part = "apollo" /\ Apollo!Listen)
  /\ WF_itemsVars(part = "items" /\ Items!Check)
  /\ WF_itemsVars(part = "items" /\ Items!Caller)
  /\ WF_itemsVars(part = "items" /\ Items!Load)
  /\ WF_asyncVars(part = "async" /\ Async!Process)
  /\ \A s \in {s1, s2} : WF_asyncVars(part = "async" /\ Async!SendStep(s))
  /\ WF_futureVars(part = "future" /\ Future!Step)
  /\ WF_ringVars(part = "ring" /\ Ring!ServeStep)
  /\ \A s \in {s1, s2} : WF_ringVars(part = "ring" /\ Ring!Read(s))

Spec == Init /\ [][Next]_vars /\ Fairness

-----------------------------------------------------------------------------
(* Properties of the services, made of those the modules explain. *)

(***************************************************************************)
(* rabbitmq: a subscriber consumes again after every failure, and Close    *)
(* ends the reconnect loops; without AutoAck every message gets to a       *)
(* handler however often the channel is lost, and Disconnect returns after *)
(* the handlers, but for one delivery in hand.                             *)
(***************************************************************************)
MessagesAreHandled ==
  /\ Rabbit!SubscribersComeBack /\ Rabbit!LoopsEnd
  /\ [](Delivery!TypeOK /\ Delivery!DisconnectWaits) /\ Delivery!EveryMessageHandled

(***************************************************************************)
(* apollo-config: the changes pushed to the listener add up to the cache,  *)
(* release key and cache belong together, and the client ends up with the  *)
(* last release, unless a notified fetch failed.                           *)
(***************************************************************************)
ConfigIsTracked ==
  /\ [](Apollo!TypeOK /\ Apollo!ListenerTracksCache /\ Apollo!KeyMatchesCache)
  /\ <>[](part = "apollo" => Apollo!UpToDate)

(***************************************************************************)
(* mem/cache: a restart after a crash anywhere loads only whole items,     *)
(* leaves no files but theirs, and outdated items leave table and disk.    *)
(***************************************************************************)
FilesFollowTable ==
  /\ [](Items!TypeOK /\ Items!DirectoryMatchesTable)
  /\ Items!LoadedIsWhole /\ Items!OutdatedItemsGo

(***************************************************************************)
(* newlog: an accepted event is in one place, pooled events reach the disk *)
(* in their order, and without rotation or Close each is written.          *)
(***************************************************************************)
PoolIsWritten ==
  /\ [](Async!TypeOK /\ Async!NoEventTwice /\ Async!PoolKeepsOrder)
  /\ Async!AcceptedIsWritten

(***************************************************************************)
(* promise: what Await returns never changes, and All settles once its     *)
(* arguments have, with the results in the order of the arguments.         *)
(***************************************************************************)
PromisesSettle ==
  [](Future!TypeOK /\ Future!AllCollects) /\ Future!AwaitIsFinal /\ Future!AllSettles

(***************************************************************************)
(* mem/ring: Get and Since return the last values, a stream delivers every *)
(* value put since it was opened, and Put returns while readers read or    *)
(* stop.                                                                   *)
(***************************************************************************)
StreamsFollow ==
  [](Ring!TypeOK /\ Ring!LastValues /\ Ring!StreamHasNoGap) /\ Ring!PutReturns
=============================================================================
