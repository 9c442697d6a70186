------------------------------ MODULE Provider ------------------------------
(***************************************************************************)
(* CoinGeckoProvider (app/providers/coingecko.py) over its breaker: what   *)
(* an answer of CoinGecko means to the breaker, which sees the exception   *)
(* that leaves the `async with`, and to the caller, who gets what the      *)
(* except clauses around it make of that.                                  *)
(***************************************************************************)
EXTENDS CircuitBreaker

VARIABLES
    operation,  \* what each caller asked for, "markets" or "history"
    answer      \* what each caller got last

providerVars == <<vars, operation, answer>>

Operations == {"markets", "history"}
Responses == {"ok", "bad_body", "not_found", "bad_status", "no_answer", "cancelled"}
Answers == {"data", "ValueError", "NotFoundError", "ExternalServiceError",
            "CancelledError", "CircuitOpenError"}

\* The mutant that forgets raise_for_status().
RaisedByTransport(resp) == CASE resp = "no_answer" -> "HTTPError"
                             [] resp = "cancelled" -> "CancelledError"
                             [] OTHER -> "none"

\* raise_for_status() is inside the block, resp.json() and the except clauses
\* are outside: the breaker meets httpx's exceptions only.
Raised(resp) == CASE resp \in {"not_found", "bad_status"} -> "HTTPStatusError"
                  [] resp = "no_answer" -> "HTTPError"
                  [] resp = "cancelled" -> "CancelledError"
                  [] OTHER -> "none"

Answered(op, resp) ==
    CASE resp = "ok" -> "data"
      [] resp = "bad_body" -> "ValueError"
      [] resp = "cancelled" -> "CancelledError"
      [] resp = "not_found" /\ op = "history" -> "NotFoundError"
      [] OTHER -> "ExternalServiceError"

ProviderInit == /\ Init
                /\ operation = [c \in Callers |-> "markets"]
                /\ answer = [c \in Callers |-> "data"]

\* The breaker lets the call through, or CircuitOpenError goes to the caller
\* as it is: no except clause names it.
Ask(c, op) == /\ Admit(c)
              /\ operation' = [operation EXCEPT ![c] = op]
              /\ UNCHANGED answer

TurnAway(c) == /\ Reject(c)
               /\ answer' = [answer EXCEPT ![c] = "CircuitOpenError"]
               /\ UNCHANGED operation

Respond(c, resp) == /\ Exit(c, Raised(resp))
                    /\ answer' = [answer EXCEPT ![c] = Answered(operation[c], resp)]
                    /\ UNCHANGED operation

ProviderNext == \/ \E c \in Callers : TurnAway(c) \/ \E op \in Operations : Ask(c, op)
                \/ \E c \in Callers, resp \in Responses : Respond(c, resp)
                \/ Tick /\ UNCHANGED <<operation, answer>>
                \/ Stabilise /\ UNCHANGED <<operation, answer>>

ProviderSpec == ProviderInit /\ [][ProviderNext]_providerVars

\* Requests keep coming, time passes, and the client gives up after 30 s at most.
ProviderFairSpec ==
    /\ ProviderSpec
    /\ WF_providerVars(Tick /\ UNCHANGED <<operation, answer>>)
    /\ \A c \in Callers : /\ WF_providerVars(\E op \in Operations : Ask(c, op))
                          /\ WF_providerVars(\E resp \in Responses : Respond(c, resp))
-----------------------------------------------------------------------------
\* An outage trips the breaker, whatever kinds of error it consists of and
\* whichever operations meet it: callers that get nothing but errors do not go
\* on calling CoinGecko (coingecko.py lines 32-55 and 63-80).
OutageTrips ==
    \A c \in Callers : <>[](answer[c] \in {"ExternalServiceError", "CircuitOpenError"})
                       => []<>(state = "open")

\* "These must not count as failures, otherwise repeated 404s would trip the
\* breaker and block all traffic to a healthy upstream" (circuit_breaker.py lines
\* 50-53): as long as CoinGecko answers, with data or with 404 for a coin it does
\* not know, the breaker stays closed.
MissingCoinsDoNotTrip ==
    [](\A c \in Callers : answer[c] \in {"data", "NotFoundError", "CircuitOpenError"})
    => [](state = "closed")
=============================================================================
