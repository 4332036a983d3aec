------------------------------ MODULE MCGPool ------------------------------
(***************************************************************************)
(* Two pools for TLC: the one the configuration describes, and one with a  *)
(* pre-allocated array, nonblocking, on a single processor (workerChanCap  *)
(* is 0).  Which of the two it is, the initial state says.                 *)
(***************************************************************************)
EXTENDS GPool, TLC

VARIABLE preAlloc

Fixed == INSTANCE GPool WITH
  Size <- 2, PreAlloc <- TRUE, Nonblocking <- TRUE, MaxBlockingTasks <- 0,
  ChanCap <- 0, TuneSizes <- {}, MaxReleases <- 0

MCInit == preAlloc \in BOOLEAN /\ IF preAlloc THEN Fixed!Init ELSE Init
MCNext == UNCHANGED preAlloc /\ IF preAlloc THEN Fixed!Next ELSE Next
MCSpec == MCInit /\ [][MCNext]_<<vars, preAlloc>>

Symmetric == Permutations(Caller) \cup Permutations(Worker)
=============================================================================
