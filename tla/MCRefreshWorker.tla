-------------------------- MODULE MCRefreshWorker --------------------------
(***************************************************************************)
(* Model checking of RefreshWorker.                                        *)
(***************************************************************************)
EXTENDS RefreshWorker, TLC

WorkerSymmetry == Permutations(Workers)
=============================================================================
