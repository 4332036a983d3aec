---------------------------- MODULE MCContainers ----------------------------
(***************************************************************************)
(* The structures of the repository for TLC: the two arrays of idle        *)
(* workers of gpool, the scavengers of a pool over the slice they share,   *)
(* mem.Deque, the slab buffer, the netlink attributes, the state machine   *)
(* and the event manager.  They do not interact: the initial state picks   *)
(* one of them (part), which moves while the others stay as made.          *)
(***************************************************************************)
EXTENDS EventManager, Structures, TLC

CONSTANT Elem

VARIABLES
  part,
  sNow, sTime, sWhere, sItems, sExpiry,
  dBuf, dHead, dTail, dCount, dMin, dResult,
  bCells, bLen, bOff, bOn, bAlign, bWritten, bUnread, bOut,
  aPhase, aAttrs, aAeErr, aBytes, aEncErr, aDec, aI, aAdErr, aOut

stackVars == <<sNow, sTime, sWhere, sItems, sExpiry>>
bufferVars == <<dBuf, dHead, dTail, dCount, dMin, dResult>>
slabVars == <<bCells, bLen, bOff, bOn, bAlign, bWritten, bUnread, bOut>>
attrVars == <<aPhase, aAttrs, aAeErr, aBytes, aEncErr, aDec, aI, aAdErr, aOut>>
arrayVars == <<stackVars, ringVars, purgeVars>>
mcVars == <<part, arrayVars, bufferVars, slabVars, attrVars, fsmVars, vars>>

\* workerStack: the clock is long enough for stamps that differ, expire and invert.
Stack == INSTANCE WorkerStack WITH
  Duration <- 2, MaxTime <- 4,
  now <- sNow, recycleTime <- sTime, where <- sWhere, items <- sItems, expiry <- sExpiry

\* New(), New(3) and New(0, 3): capacities 0, 2, 4 and 8, growing, shrinking, wrapping.
Buffer == INSTANCE Deque WITH
  MinCapacity <- 2, Sizes <- {<<0, 0>>, <<3, 0>>, <<0, 3>>},
  MinExps <- {0, 2}, Rotations <- {-3, -1, 1, 2, 6}, MaxLen <- 5,
  buf <- dBuf, head <- dHead, tail <- dTail, count <- dCount, minCap <- dMin,
  result <- dResult

\* Blocks of two bytes, so that a write of three takes two and a read of one leaves a hole.
Slab == INSTANCE SlabBuffer WITH
  InitSizes <- {0, 2, 3}, BlockSize <- 2, Writes <- {1, 3}, Reads <- {1, 2},
  MaxCap <- 9, Modulus <- 4,
  cells <- bCells, len <- bLen, off <- bOff, on <- bOn, align <- bAlign,
  written <- bWritten, unread <- bUnread, out <- bOut

\* Bytes of four values: a length has 16, and an attribute of 16 bytes overflows it.
Attr == INSTANCE NetlinkAttr WITH
  Base <- 4, MaxAttrs <- 2, MaxData <- 16, Types <- {5},
  phase <- aPhase, attrs <- aAttrs, aeErr <- aAeErr, bytes <- aBytes, encErr <- aEncErr,
  dec <- aDec, i <- aI, adErr <- aAdErr, out <- aOut

\* Two events; a is listed from one state and from any, with different destinations.
TwoEvents == << [event |-> "a", src |-> 0, dst |-> 1],
                [event |-> "b", src |-> 1, dst |-> 2],
                [event |-> "a", src |-> 9, dst |-> 0] >>

\* Four additions of listeners, so that an array grows and has room left, or two and a
\* removal.
AddOrRemove == {<<4, 0, 1>>, <<2, 1, 2>>}

\* What the modules assume of their constants; of two scavengers the second is started
\* after the first has stopped.
ASSUME Legal ==
  /\ Stack!TimesAreNatural /\ Ring!QueueAssumption /\ Buffer!DequeAssumption
  /\ Purge!PurgeAssumption /\ RebootWaits /\ Fsm!FSMAssumption /\ EventAssumption

\* Listeners and goroutines are interchangeable.
Symmetry == Permutations(Listeners) \cup Permutations(Procs)

MCInit ==
  /\ part \in {"stack", "ring", "purge", "buffer", "slab", "attr", "fsm", "events"}
  /\ Stack!Init /\ Ring!Init /\ Purge!Init /\ Buffer!Init
  /\ Slab!Init /\ Attr!Init /\ Fsm!Init /\ Init
  /\ part # "buffer" => dMin = 0
  /\ part # "slab" => bAlign /\ bLen = 2
  /\ part # "fsm" => fChecks = <<0, 1>>
  /\ part # "events" => enableLock /\ adds = 4

othersOfArrays == <<part, bufferVars, slabVars, attrVars, fsmVars, vars>>
StackNext == part = "stack" /\ Stack!Next /\ UNCHANGED <<ringVars, purgeVars, othersOfArrays>>
RingNext == part = "ring" /\ Ring!Next /\ UNCHANGED <<stackVars, purgeVars, othersOfArrays>>
PurgeNext == part = "purge" /\ Purge!Next /\ UNCHANGED <<stackVars, ringVars, othersOfArrays>>

BufferNext ==
  part = "buffer" /\ Buffer!Next /\ UNCHANGED <<part, arrayVars, slabVars, attrVars, fsmVars, vars>>
SlabNext ==
  part = "slab" /\ Slab!Next /\ UNCHANGED <<part, arrayVars, bufferVars, attrVars, fsmVars, vars>>
AttrNext ==
  part = "attr" /\ Attr!Next /\ UNCHANGED <<part, arrayVars, bufferVars, slabVars, fsmVars, vars>>
FsmNext ==
  part = "fsm" /\ Fsm!Next /\ UNCHANGED <<part, arrayVars, bufferVars, slabVars, attrVars, vars>>
EventsNext ==
  part = "events" /\ Next /\ UNCHANGED <<part, arrayVars, bufferVars, slabVars, attrVars, fsmVars>>

MCNext ==
  \/ StackNext \/ RingNext \/ PurgeNext \/ BufferNext
  \/ SlabNext \/ AttrNext \/ FsmNext \/ EventsNext

MCSpec == MCInit /\ [][MCNext]_mcVars

-----------------------------------------------------------------------------
(* Properties: one for each structure, made of those its module explains. *)

(***************************************************************************)
(* workerStack holds each idle worker once; retrieveExpiry splits it       *)
(* without losing or repeating one, stamps out of order included, and on a *)
(* sorted stack its binary search takes exactly the expired workers.       *)
(***************************************************************************)
StackIsExact ==
  [](Stack!TypeOK /\ Stack!StackHoldsIdleOnce) /\ Stack!PurgeSplits /\ Stack!PurgeIsExact

(***************************************************************************)
(* Deque implements DequeSeq, a sequence, through growing, shrinking,      *)
(* wrapping and rotation, and its indices agree with its count.            *)
(***************************************************************************)
DequeIsSequence == [](Buffer!TypeOK /\ Buffer!IndicesAgree) /\ Buffer!IsSequence

(***************************************************************************)
(* SlabBuffer: what is unread is what was written and not read, wherever   *)
(* growing and sliding have put it, and reads return the oldest of it.     *)
(***************************************************************************)
SlabIsStream == [](Slab!TypeOK /\ Slab!UnreadIsWritten) /\ Slab!ReadsInOrder

(***************************************************************************)
(* netlink: decoding what AttributeEncoder encoded gives the same          *)
(* attributes, or the encoder failed; an error of the decoder stays.       *)
(***************************************************************************)
AttributesRoundTrip == [](Attr!TypeOK /\ Attr!RoundTrip) /\ Attr!ErrorSticks

=============================================================================
