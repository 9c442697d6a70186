------------------------------- MODULE Insight -------------------------------
(***************************************************************************)
(* The insight of one coin, asked for over REST (endpoints/insights.py) and *)
(* gRPC (grpc_server/insight_servicer.py) in one process: the pool of      *)
(* connections of app/db/database.py, AIInsightService.get_insight, and    *)
(* the two components it puts around the Claude call, cache_get_or_set     *)
(* (StampedeCache) and claude_breaker (CircuitBreaker).                    *)
(*                                                                         *)
(* The breaker's and the cache's clocks tick independently.  upstream is   *)
(* "healthy" once every new call to Claude succeeds, Redis and PostgreSQL  *)
(* answer, gRPC clients cancel no new call, and requests come from known   *)
(* users and for a coin that has prices.  The text of an insight, and what *)
(* it was made from (generate() takes the last 30 prices it is given), are *)
(* data: the cache has one key per coin, whatever was asked.               *)
(***************************************************************************)
EXTENDS Integers, FiniteSets

CONSTANTS
    Rest, Grpc,   \* the requests of either kind
    PoolSize,     \* pool_size + max_overflow
    LockTimeout, ValueTtl, FailureThreshold, RecoveryTimeout, CountCap

ASSUME RequestsAssumption == Rest \cap Grpc = {} /\ IsFiniteSet(Rest) /\ IsFiniteSet(Grpc)
ASSUME PoolSizeAssumption == PoolSize \in Nat \ {0}
ASSUME CacheAssumption == LockTimeout \in Nat \ {0} /\ ValueTtl \in Nat \ {0}
ASSUME BreakerAssumption == /\ FailureThreshold \in Nat \ {0} /\ RecoveryTimeout \in Nat
                            /\ CountCap \in Nat /\ CountCap >= FailureThreshold

VARIABLES
    stage,   \* where each request is in its handler
    conn,    \* the requests that hold a connection of the pool
    place, polls, age, lockTtl, cacheTtl,                          \* the cache
    state, failureCount, sinceFailure, gauge, call, upstream, old   \* the breaker

Requests == Rest \cup Grpc

S == INSTANCE StampedeCache WITH Callers <- Requests, pc <- place, Prompt <- FALSE,
                                 HoldMax <- LockTimeout, Faults <- {"raise", "crash"}
B == INSTANCE CircuitBreaker WITH Callers <- Requests, pc <- call, Ignored <- {},
                                  Exceptions <- {"ExternalServiceError", "CancelledError"}

ownVars == <<stage, conn>>
cacheVars == <<place, polls, age, lockTtl, cacheTtl>>
breakerVars == <<state, failureCount, sinceFailure, gauge, call, upstream, old>>
vars == <<ownVars, cacheVars, breakerVars>>

At(c, step) == stage' = [stage EXCEPT ![c] = step]

Init == /\ S!Init /\ B!Init
        /\ stage = [c \in Requests |-> "none"]
        /\ conn = {}
-----------------------------------------------------------------------------
(* The handlers.                                                           *)

\* A request arrives and needs a connection: over REST for get_current_user's
\* query, in the session the handler goes on with, over gRPC for the prices.
Arrive(c) == /\ stage[c] = "none"
             /\ At(c, "pool")
             /\ UNCHANGED <<conn, cacheVars, breakerVars>>

CheckOut(c) == /\ stage[c] = "pool"
               /\ Cardinality(conn) < PoolSize
               /\ conn' = conn \cup {c}
               /\ At(c, "history")
               /\ UNCHANGED <<cacheVars, breakerVars>>

\* No connection came back in time.
PoolTimeout(c) == /\ stage[c] = "pool"
                  /\ Cardinality(conn) >= PoolSize
                  /\ At(c, "none")
                  /\ UNCHANGED <<conn, cacheVars, breakerVars>>

\* 401 before any query: get_current_user over REST, the interceptor over gRPC.
Unauthenticated(c) == /\ upstream = "flaky"
                      /\ stage[c] = "pool"
                      /\ At(c, "none")
                      /\ UNCHANGED <<conn, cacheVars, breakerVars>>

\* An error between the connection and get_insight: the session is closed.
Turned(c) == /\ upstream = "flaky"
             /\ stage[c] = "history"
             /\ conn' = conn \ {c}
             /\ At(c, "none")
             /\ UNCHANGED <<cacheVars, breakerVars>>

\* 401: the token's user is not there.  The interceptor does not look.
UnknownUser(c) == c \in Rest /\ Turned(c)

\* 404: the coin has no prices yet.
NoHistory(c) == Turned(c)

\* The mutant of a gRPC handler whose `async with` spans get_insight too.
HistoryKeepingConnection(c) == /\ stage[c] = "history"
                               /\ At(c, "insight")
                               /\ UNCHANGED <<conn, cacheVars, breakerVars>>

\* The prices are read; gRPC gives its connection back, REST keeps it.
History(c) == /\ stage[c] = "history"
              /\ conn' = IF c \in Grpc THEN conn \ {c} ELSE conn
              /\ At(c, "insight")
              /\ UNCHANGED <<cacheVars, breakerVars>>

\* get_insight finds an insight in the cache, of whichever kind of request.
Hit(c) == /\ stage[c] = "insight"
          /\ cacheTtl > 0
          /\ At(c, "compute")
          /\ UNCHANGED <<conn, cacheVars, breakerVars>>

Miss(c) == /\ stage[c] = "insight"
           /\ S!Miss(c)
           /\ At(c, "compute")
           /\ UNCHANGED <<conn, breakerVars>>

\* The mutant that answers without returning its connection to the pool.
EndWithoutClosing(c) == /\ stage[c] = "compute" /\ place[c] = "idle"
                        /\ At(c, "none")
                        /\ UNCHANGED <<conn, cacheVars, breakerVars>>

\* The answer or the error is sent and get_db closes the session.
End(c) == /\ stage[c] = "compute" /\ place[c] = "idle"
          /\ conn' = conn \ {c}
          /\ At(c, "none")
          /\ UNCHANGED <<cacheVars, breakerVars>>
-----------------------------------------------------------------------------
(* cache_get_or_set(insight:<coin>, _generate, ttl=3600)                   *)

CacheStep(c) == /\ \/ S!Acquire(c) \/ S!Contended(c)
                   \/ S!RecheckHit(c) \/ S!RecheckMiss(c) \/ S!Release(c)
                   \/ S!PollHit(c) \/ S!PollMiss(c)
                /\ UNCHANGED <<ownVars, breakerVars>>

\* The mutant that stores nothing, as if json.dumps had dropped the text.
StoreNothing(c) == /\ place[c] = "store"
                   /\ S!Raise(c)
                   /\ UNCHANGED <<ownVars, breakerVars>>

Store(c) == /\ S!Store(c) \/ S!OwnStore(c)
            /\ UNCHANGED <<stage, conn, breakerVars>>

\* _generate raises: under the lock the finally clause runs, outside it the
\* exception just leaves.
Generating(c) == place[c] \in {"factory", "ownFactory"}
GenerateRaises(c) == IF place[c] = "factory" THEN S!Raise(c) ELSE S!Crash(c)

\* The breaker lets the call through to a thread of the executor.
CallClaude(c) == /\ Generating(c)
                 /\ B!Admit(c)
                 /\ UNCHANGED <<ownVars, cacheVars>>

\* CircuitOpenError.
Rejected(c) == /\ Generating(c)
               /\ B!Reject(c)
               /\ GenerateRaises(c)
               /\ UNCHANGED ownVars

\* The call ends.  A cancellation passes through __aexit__ as a failure.
CallEnds(c, exc) == /\ B!Exit(c, exc)
                    /\ exc = "CancelledError" => c \in Grpc
                    /\ IF exc = "none" THEN S!FactoryDone(c) \/ S!OwnFactoryDone(c)
                                       ELSE GenerateRaises(c)
                    /\ UNCHANGED ownVars

\* Redis fails, or a gRPC client cancels, while no call to Claude is out: under
\* the lock the finally clause runs.  A SET whose answer is lost may have created
\* the lock key all the same.
Interrupt(c) == /\ upstream = "flaky"
                /\ place[c] # "idle" /\ call[c] = "idle"
                /\ \/ S!Raise(c)
                   \/ place[c] \notin {"recheck", "factory", "store"} /\ S!Crash(c)
                   \/ S!LostReply(c)
                /\ UNCHANGED <<ownVars, breakerVars>>
-----------------------------------------------------------------------------
CacheTick == /\ S!Tick
             /\ UNCHANGED <<stage, conn, breakerVars>>

BreakerTick == B!Tick /\ UNCHANGED <<ownVars, cacheVars>>

Recover == B!Stabilise /\ UNCHANGED <<ownVars, cacheVars>>

Serve(c) == \/ CheckOut(c) \/ PoolTimeout(c) \/ History(c) \/ Hit(c) \/ Miss(c) \/ End(c)
            \/ Unauthenticated(c) \/ UnknownUser(c) \/ NoHistory(c)
            \/ CacheStep(c) \/ Store(c) \/ CallClaude(c) \/ Rejected(c)
            \/ \E exc \in B!Outcomes : CallEnds(c, exc)

Next == \/ \E c \in Requests : Arrive(c) \/ Serve(c) \/ Interrupt(c)
        \/ CacheTick \/ BreakerTick \/ Recover

Spec == Init /\ [][Next]_vars

\* Time passes, requests keep coming, and the pool, Redis, PostgreSQL and Claude
\* answer or time out.
FairSpec == /\ Spec
            /\ WF_vars(CacheTick) /\ WF_vars(BreakerTick)
            /\ \A c \in Requests : WF_vars(Arrive(c)) /\ WF_vars(Serve(c))
-----------------------------------------------------------------------------
\* Every variable keeps its type; a REST request holds a connection from its
\* first query to its answer, a gRPC request only for the query.
TypeOK == /\ stage \in [Requests -> {"none", "pool", "history", "insight", "compute"}]
          /\ conn = {c \in Rest : stage[c] \in {"history", "insight", "compute"}}
                    \cup {c \in Grpc : stage[c] = "history"}
          /\ Cardinality(conn) <= PoolSize
          /\ S!TypeOK /\ B!TypeOK

\* Every request ends and gives its connection back, whatever it waits for: the
\* pool, the lock of another request, Claude, the breaker's cool-down.
RequestsEnd == \A c \in Requests : (stage[c] # "none") ~> (stage[c] = "none" /\ c \notin conn)

\* After an outage, insights come back by themselves: the breaker lets a probe
\* through and its text is stored, whoever held the lock or died with it.
InsightsComeBack == (upstream = "healthy") ~> (cacheTtl > 0)
=============================================================================
