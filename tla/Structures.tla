----------------------------- MODULE Structures -----------------------------
(***************************************************************************)
(* The ring of idle workers, the scavengers of a pool and the state        *)
(* machine side by side, each with variables of its own, for the runs and  *)
(* the proofs about them.  They do not interact.                           *)
(***************************************************************************)
EXTENDS Naturals, Sequences, FiniteSets, Functions

CONSTANTS Worker, Nil,
          RingSize, RingExpiry, RingChanCap, RingTime,  \* LoopQueue
          Scavengers, RebootWaits,   \* PoolPurge
          Callers, States, statusAny, Transitions, Checked, Entered, MaxCalls  \* FSM

VARIABLES
  rNow, rTime, rWhere, rArgs, rItems, rHead, rTail, rFull, rVictim,
  pState, pItems, pWhere, pArrays, pExpiry, pSpc, pSlice, pI,
  fCurrent, fChecks, fMu, fPc, fCall, fCalls, fDisturbed, fMoves

ringVars == <<rNow, rTime, rWhere, rArgs, rItems, rHead, rTail, rFull, rVictim>>
purgeVars == <<pState, pItems, pWhere, pArrays, pExpiry, pSpc, pSlice, pI>>
fsmVars == <<fCurrent, fChecks, fMu, fPc, fCall, fCalls, fDisturbed, fMoves>>

Ring == INSTANCE LoopQueue WITH
  None <- Nil, Size <- RingSize, Duration <- RingExpiry, ChanCap <- RingChanCap,
  MaxTime <- RingTime,
  now <- rNow, recycleTime <- rTime, where <- rWhere, args <- rArgs, items <- rItems,
  head <- rHead, tail <- rTail, isFull <- rFull, victim <- rVictim

Purge == INSTANCE PoolPurge WITH
  None <- Nil,
  state <- pState, items <- pItems, where <- pWhere, arrays <- pArrays,
  expiry <- pExpiry, spc <- pSpc, slice <- pSlice, i <- pI

Fsm == INSTANCE FSM WITH
  Procs <- Callers, None <- Nil,
  current <- fCurrent, checks <- fChecks, eventMu <- fMu, pc <- fPc, call <- fCall,
  calls <- fCalls, disturbed <- fDisturbed, moves <- fMoves

-----------------------------------------------------------------------------
(***************************************************************************)
(* loopQueue implements IdleQueue, a bounded FIFO queue, although it       *)
(* wraps and fills; retrieveExpiry takes expired workers only.             *)
(***************************************************************************)
RingIsQueue ==
  [](Ring!TypeOK /\ Ring!RingHoldsIdleOnce) /\ Ring!IsFifo /\ Ring!OnlyExpiredLeave

(***************************************************************************)
(* purgePeriodically: a worker taken off the stack is told to stop by the  *)
(* scavenger that took it, although every purge fills the same slice.      *)
(***************************************************************************)
PurgedWorkersAreTold == Purge!TypeOK /\ Purge!PurgedWorkersAreTold

(***************************************************************************)
(* fsm: an Event that no SetState, Reset or EventNoArgs gets between moves *)
(* along a listed transition, and the enter callback runs in its state.    *)
(***************************************************************************)
EventsAreAtomic == Fsm!TypeOK /\ Fsm!MovesAreListed /\ Fsm!EntersItsState
=============================================================================
