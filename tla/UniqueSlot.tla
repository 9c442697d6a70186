----------------------------- MODULE UniqueSlot -----------------------------
(***************************************************************************)
(* What a unique column promises the transactions that INSERT into it, for *)
(* one of its values: the value is taken by one transaction at a time, and *)
(* only while no row has it; the transaction leaves its row or nothing;    *)
(* and a row gives way to nothing but its own removal.  The watchlist      *)
(* entry (uq_user_crypto, models/watchlist.py line 19) and the e-mail      *)
(* address (models/user.py line 20) are such values.                       *)
(***************************************************************************)
CONSTANT Claimants

VARIABLES claims,    \* those whose INSERT is waiting for its commit
          entries    \* those whose row is committed

vars == <<claims, entries>>

Init == claims = {} /\ entries = {}

Claim(c) == /\ claims = {} /\ entries = {}
            /\ claims' = {c}
            /\ UNCHANGED entries

\* The commit.
Keep(c) == /\ c \in claims
           /\ claims' = claims \ {c}
           /\ entries' = {c}

\* The rollback.
Drop(c) == /\ c \in claims
           /\ claims' = claims \ {c}
           /\ UNCHANGED entries

Free(c) == /\ c \in entries
           /\ entries' = {}
           /\ UNCHANGED claims

Next == \E c \in Claimants : Claim(c) \/ Keep(c) \/ Drop(c) \/ Free(c)

Spec == Init /\ [][Next]_vars
=============================================================================
