----------------------------- MODULE MCInsight -----------------------------
(***************************************************************************)
(* Model checking of Insight.                                              *)
(***************************************************************************)
EXTENDS Insight
=============================================================================
