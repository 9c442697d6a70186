---------------------------- MODULE SingleFlight ----------------------------
(***************************************************************************)
(* What the docstring of cache_get_or_set promises for one key: however    *)
(* many requests miss it together, one of them computes the value, the     *)
(* others use what it stored, and nobody computes a value that is there.   *)
(***************************************************************************)
CONSTANT Callers

VARIABLES flying,   \* callers between the start of factory() and the SETEX
          cached    \* whether the key has a value

vars == <<flying, cached>>

Init == flying = {} /\ cached = FALSE

\* A computation starts for a value that is missing, and only one at a time.
Start(c) == /\ flying = {}
            /\ ~cached
            /\ flying' = {c}
            /\ UNCHANGED cached

\* It ends by storing what it computed.
Finish(c) == /\ c \in flying
             /\ flying' = flying \ {c}
             /\ cached' = TRUE

\* The stored value expires.
Expire == cached /\ cached' = FALSE /\ UNCHANGED flying

Next == \/ \E c \in Callers : Start(c) \/ Finish(c)
        \/ Expire

Spec == Init /\ [][Next]_vars
=============================================================================
