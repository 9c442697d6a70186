------------------------- MODULE MCCircuitBreaker -------------------------
(***************************************************************************)
(* Model checking of CircuitBreaker.  NotFoundError is what the CoinGecko  *)
(* breaker ignores; ExternalServiceError stands for every exception that   *)
(* is not ignored, among them CancelledError.                              *)
(***************************************************************************)
EXTENDS CircuitBreaker

CoinGeckoExceptions == {"NotFoundError", "ExternalServiceError"}
CoinGeckoIgnored == {"NotFoundError"}
=============================================================================
