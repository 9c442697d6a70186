---------------------------- MODULE MCWatchlist ----------------------------
(***************************************************************************)
(* Model checking of Watchlist: two adds of one key, the second a retry or *)
(* a duplicate of the first, one without a key, and the removes.           *)
(***************************************************************************)
EXTENDS Watchlist, TLC

CONSTANTS a1, a2, a3, k

OneRetryAndOneOther == a1 :> k @@ a2 :> k @@ a3 :> NoKey
=============================================================================
