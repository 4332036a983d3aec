------------------------------ MODULE Backends ------------------------------
(***************************************************************************)
(* The RabbitMQ broker and the rotating log side by side, each with        *)
(* variables of its own, for the runs and the proofs about them.  They do  *)
(* not interact.                                                           *)
(***************************************************************************)
EXTENDS Integers, Sequences, Functions

CONSTANTS Nobody, Subscribers, Ids, Budgets,              \* RabbitMQ
          FileMaxNum, FileSize, MaxEvents, MaxFaults      \* LogRotate

VARIABLES
  rConnection, rOpen, rConnected, rCloseCh, rCloseOpen, rWaitCh, rWaitOpen, rCaller, rCalls,
  rLoop, rWatch, rStop, rSpc, rMayRun, rRmtx, rSclose, rSwait, rCh, rStored, rBudget,
  rFaults, rPanicked, rOverlapped,
  lFiles, lF, lPc, lSeqs, lEvent, lWritten, lFaults, lBroken

rabbitVars == <<rConnection, rOpen, rConnected, rCloseCh, rCloseOpen, rWaitCh, rWaitOpen,
                rCaller, rCalls, rLoop, rWatch, rStop, rSpc, rMayRun, rRmtx, rSclose,
                rSwait, rCh, rStored, rBudget, rFaults, rPanicked, rOverlapped>>
rotateVars == <<lFiles, lF, lPc, lSeqs, lEvent, lWritten, lFaults, lBroken>>

Rabbit == INSTANCE RabbitMQ WITH
  None <- Nobody,
  connection <- rConnection, open <- rOpen, connected <- rConnected, closeCh <- rCloseCh,
  closeOpen <- rCloseOpen, waitCh <- rWaitCh, waitOpen <- rWaitOpen, caller <- rCaller,
  calls <- rCalls, loop <- rLoop, watch <- rWatch, stop <- rStop, spc <- rSpc,
  mayRun <- rMayRun, rmtx <- rRmtx, sclose <- rSclose, swait <- rSwait, ch <- rCh,
  stored <- rStored, budget <- rBudget, faults <- rFaults, panicked <- rPanicked,
  overlapped <- rOverlapped

Rotate == INSTANCE LogRotate WITH
  files <- lFiles, f <- lF, pc <- lPc, seqs <- lSeqs, event <- lEvent, written <- lWritten,
  faults <- lFaults, broken <- lBroken

-----------------------------------------------------------------------------
(***************************************************************************)
(* rabbitmq: a subscriber that waits for a connection waits on a channel   *)
(* that the next connection closes, or on one that is closed.              *)
(***************************************************************************)
RabbitWakes == Rabbit!TypeOK /\ Rabbit!NoMissedWakeup

(***************************************************************************)
(* log: whatever step of a rotation fails or is cut short, the files hold  *)
(* the newest events in the order of Send, within their size.              *)
(***************************************************************************)
LogIsOrdered ==
  Rotate!TypeOK /\ Rotate!LogInOrder /\ Rotate!NewestKept /\ Rotate!FilesBounded
=============================================================================
