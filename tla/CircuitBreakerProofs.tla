------------------------ MODULE CircuitBreakerProofs ------------------------
(***************************************************************************)
(* Proofs about CircuitBreaker, for every set of callers, threshold,       *)
(* timeout and set of ignored exceptions:                                  *)
(*   - the inductive invariant IInv, and from it the type invariant, the   *)
(*     agreement of state, count and gauge, and an action property;        *)
(*   - with at most one caller, the breaker implements ThreeStateBreaker;  *)
(*   - what NotStuckOpen and Recovers rest on: an open breaker winds down, *)
(*     and the failures left of an outage that are too few do not open a   *)
(*     closed one again.                                                   *)
(***************************************************************************)
EXTENDS CircuitBreaker, FiniteSetTheorems, TLAPS

ConstantsOK == /\ FailureThreshold \in Nat \ {0}
               /\ RecoveryTimeout \in Nat
               /\ CountCap \in Nat /\ CountCap >= FailureThreshold
               /\ Ignored \subseteq Exceptions /\ "none" \notin Exceptions

\* The assumptions of the module in one fact.
LEMMA ConstantsFact == ConstantsOK
  BY FailureThresholdAssumption, RecoveryTimeoutAssumption, CountCapAssumption,
     ExceptionsAssumption DEF ConstantsOK

\* IInv is inductive: a failure that does not trip the breaker leaves the count
\* below the threshold, so the breaker was and stays closed.
THEOREM BreakerInvariant == Spec => []IInv
<1> USE ConstantsFact DEF ConstantsOK, IInv, TypeOK, CountMatchesState,
                          GaugeMatchesState, GaugeOf, States, InFlight
<1>1. Init => IInv
  BY DEF Init
<1>2. IInv /\ [Next]_vars => IInv'
  <2> SUFFICES ASSUME IInv, [Next]_vars PROVE IInv'
    OBVIOUS
  <2>1. ASSUME NEW c \in Callers, Admit(c) PROVE IInv'
    BY <2>1 DEF Admit, ShouldAttemptReset
  <2>2. ASSUME NEW c \in Callers, NEW exc \in Outcomes, Exit(c, exc) PROVE IInv'
    <3>1. /\ pc' \in [Callers -> {"idle", "calling", "probing"}] /\ upstream' = upstream
          /\ old' \subseteq InFlight' /\ (upstream = "flaky" => old' = {})
      BY <2>2 DEF Exit, LeaveCall
    <3>2. CASE RecordSuccess
      BY <3>1, <3>2 DEF RecordSuccess
    <3>3. CASE UNCHANGED <<state, failureCount, sinceFailure, gauge>>
      BY <3>1, <3>3
    <3>4. CASE RecordFailure
      BY <3>1, <3>4 DEF RecordFailure
    <3>5. QED
      BY <2>2, <3>2, <3>3, <3>4 DEF Exit
  <2>3. CASE Tick
    BY <2>3 DEF Tick
  <2>4. CASE Stabilise
    BY <2>4 DEF Stabilise
  <2>5. ASSUME UNCHANGED vars PROVE IInv'
    BY <2>5 DEF vars
  <2>6. QED
    BY <2>1, <2>2, <2>3, <2>4, <2>5 DEF Next, Reject
<1>3. QED
  BY <1>1, <1>2, PTL DEF Spec

\* The breaker is closed exactly while fewer than FailureThreshold failures
\* have been counted, in every interleaving of calls.
THEOREM CountDecidesState == Spec => []CountMatchesState
<1>1. IInv => CountMatchesState
  BY DEF IInv
<1>2. QED
  BY <1>1, BreakerInvariant, PTL

\* What Prometheus is told is the state the breaker is in.
THEOREM GaugeTellsState == Spec => []GaugeMatchesState
<1>1. IInv => GaugeMatchesState
  BY DEF IInv
<1>2. QED
  BY <1>1, BreakerInvariant, PTL

\* Whenever it was admitted, a call that fails while the breaker is not closed
\* leaves it open, with a whole cool-down ahead.
THEOREM FailureAlwaysReopens == Spec => FailureReopens
<1>1. IInv /\ [Next]_vars
      => [state # "closed" /\ FailedCall => state' = "open" /\ sinceFailure' = 0]_vars
  <2> SUFFICES ASSUME IInv, state # "closed", NEW c \in Callers,
                      NEW exc \in Exceptions \ Ignored, Exit(c, exc)
               PROVE  state' = "open" /\ sinceFailure' = 0
    BY DEF FailedCall
  <2>1. RecordFailure
    BY ConstantsFact DEF ConstantsOK, Exit
  <2>2. failureCount + 1 >= FailureThreshold
    BY ConstantsFact DEF ConstantsOK, IInv, TypeOK, CountMatchesState
  <2>3. QED
    BY <2>1, <2>2 DEF RecordFailure
<1>2. QED
  BY <1>1, BreakerInvariant, PTL DEF Spec, FailureReopens
-----------------------------------------------------------------------------
\* With calls one at a time, where a caller is goes with the state.
CallMatchesState == \A c \in Callers : /\ state = "closed" => pc[c] # "probing"
                                       /\ state = "half_open" => pc[c] # "calling"
                                       /\ state = "open" => pc[c] = "idle"

OneCaller == \A c, d \in Callers : c = d

\* A single caller is out only with a call of the state it was let in.
LEMMA OneCallInvariant == ASSUME OneCaller PROVE Spec => []CallMatchesState
<1> USE DEF CallMatchesState, States
<1>1. Init => CallMatchesState
  BY DEF Init
<1>2. IInv /\ CallMatchesState /\ [Next]_vars => CallMatchesState'
  <2> SUFFICES ASSUME IInv, CallMatchesState, [Next]_vars PROVE CallMatchesState'
    OBVIOUS
  <2> USE DEF IInv, TypeOK
  <2>1. ASSUME NEW c \in Callers, Admit(c) PROVE CallMatchesState'
    BY <2>1, OneCaller DEF Admit, ShouldAttemptReset, OneCaller
  <2>2. ASSUME NEW c \in Callers, NEW exc \in Outcomes, Exit(c, exc)
        PROVE CallMatchesState'
    <3>1. \A d \in Callers : pc'[d] = "idle"
      BY <2>2, OneCaller DEF Exit, LeaveCall, OneCaller
    <3>2. QED
      BY <3>1
  <2>3. CASE Tick
    BY <2>3 DEF Tick
  <2>4. CASE Stabilise
    BY <2>4 DEF Stabilise
  <2>5. ASSUME UNCHANGED vars PROVE CallMatchesState'
    BY <2>5 DEF vars
  <2>6. QED
    BY <2>1, <2>2, <2>3, <2>4, <2>5 DEF Next, Reject
<1>3. QED
  BY <1>1, <1>2, BreakerInvariant, PTL DEF Spec

probeOut == \E c \in Callers : pc[c] = "probing"

\* A step of a breaker with one caller is a step of ThreeStateBreaker or leaves
\* what ThreeStateBreaker sees alone.
LEMMA OneCallStep ==
  ASSUME OneCaller, IInv, CallMatchesState, [Next]_vars
  PROVE  [Abstract!Next]_(Abstract!vars)
<1> USE ConstantsFact DEF ConstantsOK, IInv, TypeOK, CountMatchesState, CallMatchesState,
                          States
<1> DEFINE Unmoved == UNCHANGED Abstract!vars
<1>1. ASSUME NEW c \in Callers, Admit(c) PROVE Abstract!StartProbe \/ Unmoved
  <2>1. ~probeOut
    BY <1>1, OneCaller DEF Admit, OneCaller, probeOut
  <2>2. CASE state = "closed"
    <3>1. ~probeOut'
      BY <1>1, <2>1, <2>2 DEF Admit, ShouldAttemptReset, probeOut
    <3>2. QED
      BY <1>1, <2>1, <2>2, <3>1 DEF Admit, ShouldAttemptReset, Abstract!vars, probeOut
  <2>3. CASE state # "closed"
    <3>1. state' = "half_open" /\ probeOut'
      BY <1>1, <2>3 DEF Admit, ShouldAttemptReset, probeOut
    <3>2. state = "open" => sinceFailure = RecoveryTimeout
      BY <1>1 DEF Admit, ShouldAttemptReset
    <3>3. QED
      BY <2>1, <2>3, <3>1, <3>2 DEF Abstract!StartProbe, probeOut
  <2>4. QED
    BY <2>2, <2>3
<1>2. ASSUME NEW c \in Callers, NEW exc \in Outcomes, Exit(c, exc)
      PROVE Abstract!Next \/ Unmoved
  <2>1. ~probeOut'
    BY <1>2, OneCaller DEF Exit, LeaveCall, OneCaller, probeOut
  <2>2. CASE state = "closed"
    <3>1. ~probeOut
      BY <2>2 DEF probeOut
    <3>2. CASE RecordSuccess
      BY <2>1, <2>2, <3>1, <3>2 DEF RecordSuccess, Abstract!CallSucceeds, Abstract!Next, probeOut
    <3>3. CASE UNCHANGED <<state, failureCount, sinceFailure, gauge>>
      BY <2>1, <2>2, <3>1, <3>3 DEF Abstract!vars, probeOut
    <3>4. CASE RecordFailure
      <4>1. failureCount' = failureCount + 1
        BY <2>2, <3>4 DEF RecordFailure
      <4>2. CASE failureCount + 1 >= FailureThreshold
        <5>1. Abstract!Trip
          BY <2>1, <2>2, <3>1, <3>4, <4>2 DEF RecordFailure, Abstract!Trip, probeOut
        <5>2. QED
          BY <5>1 DEF Abstract!Next
      <4>3. CASE failureCount + 1 < FailureThreshold
        <5>1. Abstract!CallFails
          BY <2>1, <2>2, <3>1, <3>4, <4>1, <4>3
          DEF RecordFailure, Abstract!CallFails, probeOut
        <5>2. QED
          BY <5>1 DEF Abstract!Next
      <4>4. QED
        BY <4>2, <4>3
    <3>5. QED
      BY <1>2, <3>2, <3>3, <3>4 DEF Exit
  <2>3. CASE state = "half_open"
    <3>1. probeOut
      BY <1>2, <2>3 DEF Exit, LeaveCall, InFlight, probeOut
    <3>2. CASE RecordSuccess
      BY <2>1, <2>3, <3>1, <3>2 DEF RecordSuccess, Abstract!ProbeSucceeds, Abstract!Next, probeOut
    <3>3. CASE UNCHANGED <<state, failureCount, sinceFailure, gauge>>
      BY <2>1, <2>3, <3>1, <3>3 DEF Abstract!ProbeIgnored, Abstract!Next, probeOut
    <3>4. CASE RecordFailure
      BY <2>1, <2>3, <3>1, <3>4 DEF RecordFailure, Abstract!ProbeFails, Abstract!Next, probeOut
    <3>5. QED
      BY <1>2, <3>2, <3>3, <3>4 DEF Exit
  <2>4. state # "open"
    BY <1>2 DEF Exit, LeaveCall, InFlight
  <2>5. QED
    BY <2>2, <2>3, <2>4
<1>3. ASSUME Tick PROVE Abstract!CoolDown \/ Unmoved
  <2>1. CASE state = "open"
    BY <1>3, <2>1 DEF Tick, Abstract!CoolDown
  <2>2. CASE state # "open"
    BY <1>3, <2>2 DEF Tick, Abstract!vars
  <2>3. QED
    BY <2>1, <2>2
<1>4. ASSUME Stabilise \/ UNCHANGED vars PROVE Unmoved
  BY <1>4 DEF Stabilise, vars, Abstract!vars
<1>5. QED
  BY <1>1, <1>2, <1>3, <1>4 DEF Next, Reject, Abstract!Next

\* Used by one caller at a time, the breaker is the three-state machine of
\* ADR-0004: one probe, a full cool-down, a failed probe opens it again.
THEOREM OneCallImplementsADR == ASSUME OneCaller PROVE Spec => ThreeStateSpec
<1>1. Init => Abstract!Init
  BY DEF Init, Abstract!Init
<1>2. OneCaller
  OBVIOUS
<1>3. IInv /\ CallMatchesState /\ [Next]_vars => [Abstract!Next]_(Abstract!vars)
  BY <1>2, OneCallStep
<1>4. Spec => []CallMatchesState
  BY <1>2, OneCallInvariant
<1>5. QED
  BY <1>1, <1>3, <1>4, BreakerInvariant, PTL DEF Spec, ThreeStateSpec, Abstract!Spec
-----------------------------------------------------------------------------
(* What the liveness properties rest on.  NotStuckOpen and Recovers need   *)
(* fairness and are left to TLC; these two need none.                      *)

\* While the breaker is open and the cool-down is not over, nobody gets in, and
\* the cool-down starts again only when one of the calls that were in flight comes
\* back: it is prolonged at most as often as there were calls in flight.
WindsDown ==
    [][state = "open" /\ sinceFailure < RecoveryTimeout =>
           /\ InFlight' \subseteq InFlight
           /\ sinceFailure' < sinceFailure => InFlight' # InFlight]_vars

\* For any number of calls, threshold, timeout and ignored exceptions.
THEOREM OpenWindsDown == Spec => WindsDown
<1> DEFINE Down == state = "open" /\ sinceFailure < RecoveryTimeout =>
                       /\ InFlight' \subseteq InFlight
                       /\ sinceFailure' < sinceFailure => InFlight' # InFlight
<1>1. IInv /\ [Next]_vars => [Down]_vars
  <2> SUFFICES ASSUME IInv, Next, state = "open", sinceFailure < RecoveryTimeout
               PROVE  /\ InFlight' \subseteq InFlight
                      /\ sinceFailure' < sinceFailure => InFlight' # InFlight
    OBVIOUS
  <2> USE ConstantsFact DEF ConstantsOK, IInv, TypeOK
  <2>1. ASSUME NEW c \in Callers PROVE ~Admit(c)
    BY DEF Admit, ShouldAttemptReset
  <2>2. ASSUME NEW c \in Callers, NEW exc \in Outcomes, Exit(c, exc)
        PROVE  InFlight' \subseteq InFlight /\ c \in InFlight /\ c \notin InFlight'
    BY <2>2 DEF Exit, LeaveCall, InFlight
  <2>3. ASSUME Tick \/ Stabilise \/ UNCHANGED vars
        PROVE  InFlight' = InFlight /\ ~(sinceFailure' < sinceFailure)
    BY <2>3 DEF Tick, Stabilise, vars, InFlight
  <2>4. QED
    BY <2>1, <2>2, <2>3 DEF Next, Reject
<1>2. QED
  BY <1>1, BreakerInvariant, PTL DEF Spec, WindsDown

\* The calls left of the outage cannot reach the threshold any more.
TooFewLeft == /\ upstream = "healthy" /\ state = "closed"
              /\ failureCount + Cardinality(old) < FailureThreshold

\* A late failure moves one from old to the count, a success only takes away.
LEMMA TooFewLeftStep == IInv /\ TooFewLeft /\ [Next]_vars => TooFewLeft'
<1> SUFFICES ASSUME IInv, TooFewLeft, [Next]_vars PROVE TooFewLeft'
  OBVIOUS
<1> USE ConstantsFact DEF ConstantsOK, IInv, TypeOK, TooFewLeft
<1>1. IsFiniteSet(old) /\ Cardinality(old) \in Nat
  BY CallersAssumption, FS_Subset, FS_CardinalityType DEF InFlight
<1>2. ASSUME NEW c \in Callers, Admit(c) PROVE TooFewLeft'
  BY <1>2 DEF Admit, ShouldAttemptReset
<1>3. ASSUME NEW c \in Callers, NEW exc \in Outcomes, Exit(c, exc) PROVE TooFewLeft'
  <2>1. upstream' = "healthy" /\ old' = old \ {c}
    BY <1>3 DEF Exit, LeaveCall
  <2>2. /\ Cardinality(old') \in Nat /\ Cardinality(old') <= Cardinality(old)
        /\ c \in old => Cardinality(old') = Cardinality(old) - 1
    <3> HIDE DEF ConstantsOK, IInv, TypeOK, TooFewLeft
    <3>1. /\ IsFiniteSet(old \ {c})
          /\ Cardinality(old \ {c}) = IF c \in old THEN Cardinality(old) - 1
                                                   ELSE Cardinality(old)
      BY <1>1, FS_RemoveElement, Zenon
    <3>2. Cardinality(old \ {c}) \in Nat
      BY <3>1, FS_CardinalityType, Zenon
    <3>3. QED
      BY <1>1, <2>1, <3>1, <3>2
  <2>3. CASE RecordSuccess
    BY <1>1, <2>1, <2>2, <2>3 DEF RecordSuccess
  <2>4. CASE UNCHANGED <<state, failureCount, sinceFailure, gauge>>
    BY <1>1, <2>1, <2>2, <2>4
  <2>5. CASE RecordFailure /\ exc \in Exceptions
    <3>1. c \in old
      BY <1>3, <2>5 DEF Exit
    <3>2. failureCount + 1 < FailureThreshold
      BY <1>1, <2>2, <3>1
    <3>3. state' = "closed" /\ failureCount' = failureCount + 1
      BY <2>5, <3>2 DEF RecordFailure
    <3>4. QED
      BY <1>1, <2>1, <2>2, <3>1, <3>3
  <2>6. QED
    BY <1>3, <2>3, <2>4, <2>5 DEF Exit
<1>4. CASE Tick \/ UNCHANGED vars
  BY <1>4 DEF Tick, vars
<1>5. ~Stabilise
  BY DEF Stabilise
<1>6. QED
  BY <1>2, <1>3, <1>4, <1>5 DEF Next, Reject

\* After the outage a closed breaker stays closed once the calls left of it cannot
\* reach the threshold, however late and in whatever order they fail; for any
\* number of calls, threshold, timeout and ignored exceptions.
THEOREM HealedForGood == Spec => ClosedForGood
<1>1. TooFewLeft => state = "closed"
  BY DEF TooFewLeft
<1>2. Spec => [](TooFewLeft => [](state = "closed"))
  BY <1>1, TooFewLeftStep, BreakerInvariant, PTL DEF Spec
<1>3. QED
  BY <1>2 DEF ClosedForGood, TooFewLeft
=============================================================================
