----------------------------- MODULE MCProvider -----------------------------
(***************************************************************************)
(* Model checking of Provider with CoinGecko's numbers and exceptions.     *)
(***************************************************************************)
EXTENDS Provider

HttpExceptions == {"HTTPStatusError", "HTTPError", "CancelledError", "NotFoundError"}
IgnoredByCoinGecko == {"NotFoundError"}
=============================================================================
