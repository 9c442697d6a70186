---------------------------- MODULE MCAuthTokens ----------------------------
(***************************************************************************)
(* Model checking of AuthTokens.                                           *)
(***************************************************************************)
EXTENDS AuthTokens
=============================================================================
