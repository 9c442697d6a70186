------------------------- MODULE MCRefreshEndpoint -------------------------
(***************************************************************************)
(* Model checking of RefreshEndpoint over CoinCache.                       *)
(***************************************************************************)
EXTENDS RefreshEndpoint, TLC

TaskSymmetry == Permutations(Tasks)
=============================================================================
