--------------------------- MODULE CircuitBreaker ---------------------------
(***************************************************************************)
(* One CircuitBreaker of app/core/circuit_breaker.py, as the coroutines of *)
(* one process use it: `async with breaker: <call upstream>`.  __aenter__  *)
(* and __aexit__ hold an asyncio.Lock over code without an await, so each  *)
(* is one step; the upstream call between them is where others run.        *)
(*                                                                         *)
(* time.monotonic() - _last_failure_time is counted in ticks and saturates *)
(* at RecoveryTimeout, _failure_count at CountCap: the code only asks      *)
(* whether they have reached the timeout and the threshold.                *)
(***************************************************************************)
EXTENDS Integers, FiniteSets

CONSTANTS
    Callers,           \* coroutines that call the upstream through the breaker
    FailureThreshold,  \* failure_threshold
    RecoveryTimeout,   \* recovery_timeout, in ticks
    CountCap,          \* where the model stops counting failures
    Exceptions,        \* classes of exception an upstream call may end with
    Ignored            \* ignored_exceptions

ASSUME CallersAssumption == IsFiniteSet(Callers)
ASSUME FailureThresholdAssumption == FailureThreshold \in Nat \ {0}
ASSUME RecoveryTimeoutAssumption == RecoveryTimeout \in Nat
ASSUME CountCapAssumption == CountCap \in Nat /\ CountCap >= FailureThreshold
ASSUME ExceptionsAssumption == Ignored \subseteq Exceptions /\ "none" \notin Exceptions

VARIABLES
    state,         \* _state
    failureCount,  \* _failure_count
    sinceFailure,  \* time since _last_failure_time
    gauge,         \* crypto_circuit_breaker_state, -1 before the first set()
    pc,            \* "idle", "calling", or "probing": let in while half open
    upstream,      \* external: "flaky", or "healthy" once new calls succeed
    old            \* the calls in flight that were let in before it was healthy

vars == <<state, failureCount, sinceFailure, gauge, pc, upstream, old>>

States == {"closed", "open", "half_open"}
InFlight == {c \in Callers : pc[c] # "idle"}

\* The values the gauge's help text gives the states.
GaugeOf(s) == CASE s = "closed" -> 0 [] s = "half_open" -> 1 [] s = "open" -> 2

Init == /\ state = "closed"
        /\ failureCount = 0
        /\ sinceFailure = RecoveryTimeout
        /\ gauge = -1
        /\ pc = [c \in Callers |-> "idle"]
        /\ upstream = "flaky"
        /\ old = {}
-----------------------------------------------------------------------------
(* __aenter__                                                              *)

ShouldAttemptReset == state = "open" /\ sinceFailure >= RecoveryTimeout

\* The mutant that forgets the count when it starts probing.
AdmitForgettingCount(c) ==
    /\ pc[c] = "idle"
    /\ \/ /\ ShouldAttemptReset
          /\ state' = "half_open"
          /\ gauge' = 1
          /\ failureCount' = 0
          /\ pc' = [pc EXCEPT ![c] = "probing"]
       \/ /\ state # "open"
          /\ pc' = [pc EXCEPT ![c] = IF state = "half_open" THEN "probing" ELSE "calling"]
          /\ UNCHANGED <<state, gauge, failureCount>>
    /\ UNCHANGED <<sinceFailure, upstream, old>>

\* The mutant that starts probing without setting the gauge.
AdmitSilently(c) ==
    /\ pc[c] = "idle"
    /\ \/ /\ ShouldAttemptReset
          /\ state' = "half_open"
          /\ pc' = [pc EXCEPT ![c] = "probing"]
       \/ /\ state # "open"
          /\ pc' = [pc EXCEPT ![c] = IF state = "half_open" THEN "probing" ELSE "calling"]
          /\ UNCHANGED state
    /\ UNCHANGED <<failureCount, sinceFailure, gauge, upstream, old>>

\* A call is let in, as the first one after the cool-down or because the
\* breaker is not open.  Nothing counts the calls let in while half open.
Admit(c) ==
    /\ pc[c] = "idle"
    /\ \/ /\ ShouldAttemptReset
          /\ state' = "half_open"
          /\ gauge' = 1
          /\ pc' = [pc EXCEPT ![c] = "probing"]
       \/ /\ state # "open"
          /\ pc' = [pc EXCEPT ![c] = IF state = "half_open" THEN "probing" ELSE "calling"]
          /\ UNCHANGED <<state, gauge>>
    /\ UNCHANGED <<failureCount, sinceFailure, upstream, old>>

\* The mutant that counts a rejection as one more failure.
RejectAsFailure(c) ==
    /\ pc[c] = "idle"
    /\ state = "open" /\ ~ShouldAttemptReset
    /\ sinceFailure' = 0
    /\ UNCHANGED <<state, failureCount, gauge, pc, upstream, old>>

\* CircuitOpenError: the call is turned away and the breaker is left as it is.
Reject(c) == /\ pc[c] = "idle"
             /\ state = "open" /\ ~ShouldAttemptReset
             /\ UNCHANGED vars
-----------------------------------------------------------------------------
(* __aexit__                                                               *)

\* The mutant that closes without resetting the count.
RecordSuccessKeepingCount == /\ state' = "closed"
                             /\ gauge' = 0
                             /\ UNCHANGED <<failureCount, sinceFailure>>

\* The mutant that resets the count and forgets to close.
RecordSuccessWithoutClosing == /\ failureCount' = 0
                               /\ UNCHANGED <<state, sinceFailure, gauge>>

RecordSuccess == /\ failureCount' = 0
                 /\ state' = "closed"
                 /\ gauge' = 0
                 /\ UNCHANGED sinceFailure

\* The mutant that trips one failure late.
RecordFailureLate ==
    /\ failureCount' = IF failureCount < CountCap THEN failureCount + 1 ELSE CountCap
    /\ sinceFailure' = 0
    /\ IF failureCount >= FailureThreshold
         THEN state' = "open" /\ gauge' = 2
         ELSE UNCHANGED <<state, gauge>>

\* The mutant that trips one failure early.
RecordFailureEarly ==
    /\ failureCount' = IF failureCount < CountCap THEN failureCount + 1 ELSE CountCap
    /\ sinceFailure' = 0
    /\ IF failureCount + 2 >= FailureThreshold
         THEN state' = "open" /\ gauge' = 2
         ELSE UNCHANGED <<state, gauge>>

RecordFailure ==
    /\ failureCount' = IF failureCount < CountCap THEN failureCount + 1 ELSE CountCap
    /\ sinceFailure' = 0
    /\ IF failureCount + 1 >= FailureThreshold
         THEN state' = "open" /\ gauge' = 2
         ELSE UNCHANGED <<state, gauge>>

LeaveCall(c) == /\ c \in InFlight
                /\ pc' = [pc EXCEPT ![c] = "idle"]
                /\ old' = old \ {c}
                /\ UNCHANGED upstream

\* The call ends with exception exc, or with "none".  A call that began in the
\* outage may still come back as a failure after it.
Exit(c, exc) == /\ LeaveCall(c)
                /\ upstream = "healthy" /\ c \notin old => exc = "none"
                /\ \/ exc = "none" /\ RecordSuccess
                   \/ exc \in Ignored /\ UNCHANGED <<state, failureCount, sinceFailure, gauge>>
                   \/ exc \in Exceptions \ Ignored /\ RecordFailure

Outcomes == Exceptions \cup {"none"}
-----------------------------------------------------------------------------
(* The environment.                                                        *)

Tick == /\ sinceFailure < RecoveryTimeout
        /\ sinceFailure' = sinceFailure + 1
        /\ UNCHANGED <<state, failureCount, gauge, pc, upstream, old>>

\* The outage ends: every call that is let in from now on succeeds.
Stabilise == /\ upstream = "flaky"
             /\ upstream' = "healthy"
             /\ old' = InFlight
             /\ UNCHANGED <<state, failureCount, sinceFailure, gauge, pc>>

Next == \/ \E c \in Callers : Admit(c) \/ Reject(c)
        \/ \E c \in Callers, exc \in Outcomes : Exit(c, exc)
        \/ Tick
        \/ Stabilise

Spec == Init /\ [][Next]_vars

\* Time passes, upstream calls end (each client has a timeout), and requests
\* keep coming: the worker's job calls CoinGecko every five minutes.
FairSpec == /\ Spec
            /\ WF_vars(Tick)
            /\ \A c \in Callers : /\ WF_vars(Admit(c))
                                  /\ WF_vars(\E exc \in Outcomes : Exit(c, exc))
-----------------------------------------------------------------------------
TypeOK == /\ state \in States
          /\ failureCount \in 0..CountCap
          /\ sinceFailure \in 0..RecoveryTimeout
          /\ gauge \in -1..2
          /\ pc \in [Callers -> {"idle", "calling", "probing"}]
          /\ upstream \in {"flaky", "healthy"}
          /\ old \subseteq InFlight
          /\ upstream = "flaky" => old = {}

\* The breaker is closed exactly while fewer than failure_threshold failures
\* have been counted.  That the count survives half open is what makes one
\* failed probe enough to open it again (lines 65-83).
CountMatchesState == (state = "closed") <=> (failureCount < FailureThreshold)

\* The exported gauge tells the state the breaker is in, whatever overlaps; only
\* a breaker that never had a result has not exported one (lines 26-30).
GaugeMatchesState == gauge = GaugeOf(state) \/ (gauge = -1 /\ state = "closed")

\* The inductive invariant of the proofs.
IInv == TypeOK /\ CountMatchesState /\ GaugeMatchesState

\* Calls may come back in any order, but a failure that comes back while the
\* breaker is not closed leaves it open, with a whole cool-down ahead.
FailedCall == \E c \in Callers, exc \in Exceptions \ Ignored : Exit(c, exc)
FailureReopens ==
    [][state # "closed" /\ FailedCall => state' = "open" /\ sinceFailure' = 0]_vars

\* With calls one at a time the breaker is the one ADR-0004 decides on.
Abstract == INSTANCE ThreeStateBreaker
            WITH mode <- state,
                 fails <- IF state = "closed" THEN failureCount ELSE 0,
                 open <- IF state = "open" THEN sinceFailure ELSE 0,
                 probe <- \E c \in Callers : pc[c] = "probing"
ThreeStateSpec == Abstract!Spec

\* An open breaker ends up probing: late failures of the calls that were in
\* flight prolong the cool-down, rejected calls do not.
NotStuckOpen == (state = "open") ~> (state = "half_open" \/ state = "closed")

\* After the outage the breaker closes and stays closed.
Recovers == (upstream = "healthy") ~> [](state = "closed")

\* After the outage a breaker that is closed stays closed as soon as the calls
\* that are left of the outage are too few to reach the threshold, even if all of
\* them fail late and nothing succeeds in between (lines 72-83 and 103-113).
ClosedForGood ==
    [](/\ upstream = "healthy" /\ state = "closed"
       /\ failureCount + Cardinality(old) < FailureThreshold
       => [](state = "closed"))
=============================================================================
