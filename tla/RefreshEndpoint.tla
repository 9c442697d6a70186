--------------------------- MODULE RefreshEndpoint ---------------------------
(***************************************************************************)
(* POST /cryptocurrencies/refresh (app/api/v1/endpoints/cryptocurrencies.py*)
(* with app/core/idempotency.py) over CoinCache: requests that carry one   *)
(* Idempotency-Key, each of which may start the on-demand refresh that     *)
(* CoinCache numbers by the request.  Requests may arrive again once they  *)
(* are over (a client that retries).                                       *)
(***************************************************************************)
EXTENDS CoinCache

VARIABLES
    marker,   \* idempotency:<key> in Redis
    request,  \* where each request is
    promise,  \* history: a request was answered 202 and the marker still lives
    late      \* history: requests that arrived while there was a promise

requestVars == <<marker, request, promise, late>>
vars == <<coinVars, requestVars>>

Markers == {"none", "pending", "completed", "failed"}
Requests == {"none", "arrived", "missed", "background"}

Init == /\ CoinInit
        /\ marker = "none"
        /\ request = [q \in Tasks |-> "none"]
        /\ promise = FALSE /\ late = {}

At(q, place) == request' = [request EXCEPT ![q] = place]
Leave(q, place) == At(q, place) /\ late' = late \ {q}

Arrive(q) == /\ request[q] = "none"
             /\ At(q, "arrived")
             /\ late' = IF promise THEN late \cup {q} ELSE late
             /\ UNCHANGED <<coinVars, marker, promise>>

\* check_idempotency finds a marker, whatever it says: 202 and nothing to do.
Replay(q) == /\ request[q] = "arrived" /\ marker # "none"
             /\ Leave(q, "none")
             /\ UNCHANGED <<coinVars, marker, promise>>

\* The mutant that creates the task before it stores the pending marker.
CheckMissSpawning(q) == /\ request[q] = "arrived" /\ marker = "none"
                        /\ Begin(q)
                        /\ At(q, "missed")
                        /\ UNCHANGED <<marker, promise, late>>

CheckMiss(q) == /\ request[q] = "arrived" /\ marker = "none"
                /\ At(q, "missed")
                /\ UNCHANGED <<coinVars, marker, promise, late>>

\* The mutant that answers without having stored the pending marker.
SpawnUnmarked(q) == /\ request[q] = "missed"
                    /\ promise' = TRUE
                    /\ Begin(q)
                    /\ Leave(q, "background")
                    /\ UNCHANGED marker

\* The pending marker is stored, the task created and the request answered.
Spawn(q) == /\ request[q] = "missed"
            /\ marker' = "pending" /\ promise' = TRUE
            /\ Begin(q)
            /\ Leave(q, "background")

\* Redis fails under the request or the process dies, whether the marker was
\* stored or not.
RequestFails(q) == /\ request[q] \in {"arrived", "missed"}
                   /\ marker' \in IF request[q] = "missed" THEN {marker, "pending"} ELSE {marker}
                   /\ Leave(q, "none")
                   /\ UNCHANGED <<coinVars, promise>>

\* The mutant whose except clause falls through to the "completed" marker.
OutcomeIgnored(result) == "completed"

Outcome(result) == IF result = "saved" THEN "completed" ELSE "failed"

\* The task ends and records how, unless Redis fails or the process dies.
Finish(q) == /\ request[q] = "background"
             /\ marker' \in {marker, Outcome(pc[q])}
             /\ promise' = (promise \/ marker' # marker)
             /\ End(q)
             /\ At(q, "none")
             /\ UNCHANGED late

\* The marker's 30 s (or those of the outcome) are over.
MarkerExpires == /\ marker # "none"
                 /\ marker' = "none" /\ promise' = FALSE /\ late' = {}
                 /\ UNCHANGED <<coinVars, request>>

Handle(q) == Replay(q) \/ CheckMiss(q) \/ Spawn(q) \/ RequestFails(q) \/ Finish(q)

Next == \/ \E q \in Tasks : Arrive(q) \/ Handle(q)
        \/ MarkerExpires
        \/ Others /\ UNCHANGED requestVars

Spec == Init /\ [][Next]_vars
-----------------------------------------------------------------------------
\* Every variable keeps its type; only a background request runs a refresh.
TypeOK == /\ CoinTypeOK
          /\ marker \in Markers
          /\ request \in [Tasks -> Requests]
          /\ \A q \in Tasks : (request[q] = "background") = (pc[q] # "idle")
          /\ promise \in BOOLEAN /\ late \subseteq Tasks

\* "safely retry without triggering duplicate CoinGecko refreshes within 30
\* seconds" (cryptocurrencies.py lines 85-86): a request that arrives after
\* another with its key was answered starts no refresh while the marker lives.
RetryStartsNothing == [][\A q \in late : pc'[q] = "fetch" => pc[q] = "fetch"]_vars

\* "a failed refresh doesn't masquerade as a successful one" (lines 92-95): a
\* task replaces the marker by completed only after its rows were committed.
CompletedIsCommitted ==
    [][\A q \in Tasks : Finish(q) /\ marker # "completed" /\ marker' = "completed"
           => got[q] = 0]_vars

\* "Invalidate every derived cache so the next read reflects fresh data"
\* (crypto_service.py lines 93-95): when a refresh has committed, and the worker
\* has no entry left to renew, every entry is gone or has the new prices.
NextReadIsFresh ==
    [][\A q \in Tasks : Commit(q) /\ Ahead(Worker) = {}
           => \A k \in Keys : cache'[k] \in {0, rows'}]_vars
=============================================================================
