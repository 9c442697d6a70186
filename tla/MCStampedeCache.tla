-------------------------- MODULE MCStampedeCache --------------------------
(***************************************************************************)
(* Model checking of StampedeCache.  The cfgs shrink lock_timeout from 100 *)
(* polls to two or three: enough for a lock to expire under its holder, a  *)
(* waiter to poll on both sides of the store, and a last poll to miss.     *)
(***************************************************************************)
EXTENDS StampedeCache

AllFaults == {"raise", "crash", "others"}
NoFaults == {}
=============================================================================
