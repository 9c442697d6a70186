---------------------------- MODULE InsightProofs ----------------------------
(***************************************************************************)
(* Proofs about Insight, for any number of requests of either kind, any    *)
(* pool and any timeouts: its steps are steps of the cache and of the      *)
(* breaker it is composed of, so that what is proved of them holds here;   *)
(* its own variables keep their types, connections included; and a request *)
(* takes a bounded number of steps.                                        *)
(***************************************************************************)
EXTENDS Insight, FiniteSetTheorems, TLAPS

\* The components with what is proved about them.
SP == INSTANCE StampedeCacheProofs
      WITH Callers <- Requests, pc <- place, Prompt <- FALSE,
           HoldMax <- LockTimeout, Faults <- {"raise", "crash"}
BP == INSTANCE CircuitBreakerProofs
      WITH Callers <- Requests, pc <- call, Ignored <- {},
           Exceptions <- {"ExternalServiceError", "CancelledError"}

\* Either name of an instance stands for the same steps.
LEMMA SameCache == (S!Next <=> SP!Next) /\ (S!Init <=> SP!Init)
  BY DEF S!Next, SP!Next, S!Progress, SP!Progress, S!Fault, SP!Fault, S!Miss, SP!Miss,
         S!Acquire, SP!Acquire, S!Contended, SP!Contended, S!RecheckHit, SP!RecheckHit,
         S!RecheckMiss, SP!RecheckMiss, S!FactoryDone, SP!FactoryDone, S!Store, SP!Store,
         S!Release, SP!Release, S!PollHit, SP!PollHit, S!PollMiss, SP!PollMiss,
         S!OwnFactoryDone, SP!OwnFactoryDone, S!OwnStore, SP!OwnStore, S!Raise, SP!Raise,
         S!Crash, SP!Crash, S!LostReply, SP!LostReply, S!WriteThrough, SP!WriteThrough,
         S!Invalidate, SP!Invalidate, S!Tick, SP!Tick, S!Goto, SP!Goto, S!AfterTick,
         SP!AfterTick, S!Older, SP!Older, S!holders, SP!holders, S!Section, SP!Section,
         S!Init, SP!Init

LEMMA SameBreaker == (B!Next <=> BP!Next) /\ (B!Init <=> BP!Init)
  BY DEF B!Next, BP!Next, B!Admit, BP!Admit, B!Reject, BP!Reject, B!Exit, BP!Exit,
         B!LeaveCall, BP!LeaveCall, B!InFlight, BP!InFlight, B!RecordSuccess, BP!RecordSuccess,
         B!RecordFailure, BP!RecordFailure, B!Outcomes, BP!Outcomes, B!Tick, BP!Tick,
         B!Stabilise, BP!Stabilise, B!ShouldAttemptReset, BP!ShouldAttemptReset,
         B!vars, BP!vars, B!Init, BP!Init

\* Every step moves the cache as cache_get_or_set does, or leaves it alone.
LEMMA CacheMoves == [Next]_vars => S!Next \/ UNCHANGED cacheVars
<1> SUFFICES ASSUME Next, UNCHANGED cacheVars => FALSE PROVE S!Next
  BY DEF vars
<1>1. ASSUME NEW c \in Requests, Serve(c) PROVE S!Next
  <2> USE DEF S!Next, S!Progress, S!Fault
  <2>1. CASE \/ CheckOut(c) \/ PoolTimeout(c) \/ History(c) \/ Hit(c) \/ End(c)
             \/ Unauthenticated(c) \/ UnknownUser(c) \/ NoHistory(c) \/ CallClaude(c)
    BY <2>1 DEF CheckOut, PoolTimeout, History, Hit, End, Unauthenticated, UnknownUser,
                NoHistory, Turned, CallClaude
  <2>2. CASE Miss(c) \/ CacheStep(c) \/ Store(c)
    BY <2>2 DEF Miss, CacheStep, Store
  <2>3. CASE Rejected(c) \/ \E exc \in B!Outcomes : CallEnds(c, exc)
    BY <2>3 DEF Rejected, CallEnds, GenerateRaises
  <2>4. QED
    BY <1>1, <2>1, <2>2, <2>3 DEF Serve
<1>2. ASSUME NEW c \in Requests, Interrupt(c) PROVE S!Next
  BY <1>2 DEF Interrupt, S!Next, S!Fault
<1>3. ASSUME NEW c \in Requests, Arrive(c) PROVE S!Next
  BY <1>3 DEF Arrive
<1>4. CASE CacheTick \/ BreakerTick \/ Recover
  BY <1>4 DEF CacheTick, BreakerTick, Recover, S!Next
<1>5. QED
  BY <1>1, <1>2, <1>3, <1>4 DEF Next

\* Every step moves the breaker as CircuitBreaker does, or leaves it alone.
LEMMA BreakerMoves == [Next]_vars => B!Next \/ UNCHANGED breakerVars
<1> SUFFICES ASSUME Next, UNCHANGED breakerVars => FALSE PROVE B!Next
  BY DEF vars
<1>1. ASSUME NEW c \in Requests, Serve(c) PROVE B!Next
  <2>1. CASE \/ CheckOut(c) \/ PoolTimeout(c) \/ History(c) \/ Hit(c) \/ Miss(c) \/ End(c)
             \/ Unauthenticated(c) \/ UnknownUser(c) \/ NoHistory(c)
             \/ CacheStep(c) \/ Store(c)
    BY <2>1 DEF CheckOut, PoolTimeout, History, Hit, Miss, End, Unauthenticated, UnknownUser,
                NoHistory, Turned, CacheStep, Store
  <2>2. CASE CallClaude(c) \/ Rejected(c)
    BY <2>2 DEF CallClaude, Rejected, B!Next
  <2>3. CASE \E exc \in B!Outcomes : CallEnds(c, exc)
    BY <2>3 DEF CallEnds, B!Next
  <2>4. QED
    BY <1>1, <2>1, <2>2, <2>3 DEF Serve
<1>2. ASSUME NEW c \in Requests, Interrupt(c) \/ Arrive(c) PROVE B!Next
  BY <1>2 DEF Interrupt, Arrive
<1>3. CASE CacheTick \/ BreakerTick \/ Recover
  BY <1>3 DEF CacheTick, BreakerTick, Recover, B!Next
<1>4. QED
  BY <1>1, <1>2, <1>3 DEF Next

\* The insights' cache is a StampedeCache, and Claude's breaker a CircuitBreaker:
\* the handlers, the pool and the failures around them add no other step.
THEOREM CacheIsStampedeCache == Spec => SP!Spec
<1>1. Init => SP!Init
  BY SameCache DEF Init
<1>2. [Next]_vars => [SP!Next]_(SP!vars)
  BY CacheMoves, SameCache DEF cacheVars, SP!vars
<1>3. QED
  BY <1>1, <1>2, PTL DEF Spec, SP!Spec

THEOREM BreakerIsCircuitBreaker == Spec => BP!Spec
<1>1. Init => BP!Init
  BY SameBreaker DEF Init
<1>2. [Next]_vars => [BP!Next]_(BP!vars)
  BY BreakerMoves, SameBreaker DEF breakerVars, BP!vars
<1>3. QED
  BY <1>1, <1>2, PTL DEF Spec, BP!Spec
-----------------------------------------------------------------------------
\* The assumptions of the components, for these instances.
LEMMA PartsAssumptions ==
  /\ LockTimeout \in Nat \ {0} /\ ValueTtl \in Nat \ {0} /\ LockTimeout \in 0..LockTimeout
  /\ {"raise", "crash"} \subseteq {"raise", "crash", "others"} /\ FALSE \in BOOLEAN
  /\ FailureThreshold \in Nat \ {0} /\ RecoveryTimeout \in Nat
  /\ CountCap \in Nat /\ CountCap >= FailureThreshold
  /\ {} \subseteq {"ExternalServiceError", "CancelledError"}
  /\ "none" \notin {"ExternalServiceError", "CancelledError"}
  /\ BP!IsFiniteSet(Requests)
<1>1. IsFiniteSet(Rest) /\ IsFiniteSet(Grpc)
  BY RequestsAssumption
<1>2. IsFiniteSet(Requests)
  BY <1>1, FS_Union, Zenon DEF Requests
<1>3. BP!IsFiniteSet(Requests)
  BY <1>2, Zenon DEF IsFiniteSet, BP!IsFiniteSet
<1>4. QED
  BY <1>3, CacheAssumption, BreakerAssumption

\* What is proved of the components holds of them here.
PartsInv == S!TypeOK /\ S!WaitsBeforeComputing /\ B!TypeOK

LEMMA PartsHold == Spec => []PartsInv
<1>1. SP!Spec => []SP!IInv
  BY PartsAssumptions, SP!CacheInvariant
<1>2. BP!Spec => []BP!IInv
  BY PartsAssumptions, BP!BreakerInvariant
<1>3. SP!IInv => S!TypeOK /\ S!WaitsBeforeComputing
  BY DEF SP!IInv, SP!TypeOK, S!TypeOK, SP!WaitsBeforeComputing, S!WaitsBeforeComputing,
         SP!PC, S!PC, SP!Section, S!Section, SP!Waiting, S!Waiting
<1>4. BP!IInv => B!TypeOK
  BY DEF BP!IInv, BP!TypeOK, B!TypeOK, BP!States, B!States, BP!InFlight, B!InFlight
<1>5. QED
  BY <1>1, <1>2, <1>3, <1>4, CacheIsStampedeCache, BreakerIsCircuitBreaker, PTL DEF PartsInv

\* What is proved of the breaker and of the lock holds of Claude's breaker and of
\* the coin's lock, whichever handlers use them and whatever cuts them short.
THEOREM PartsKeepPromises ==
    Spec => /\ []BP!CountMatchesState /\ BP!FailureReopens /\ BP!ClosedForGood
            /\ SP!LockSpec
<1>1. BP!Spec => []BP!CountMatchesState
  BY PartsAssumptions, BP!CountDecidesState
<1>2. BP!Spec => BP!FailureReopens
  BY PartsAssumptions, BP!FailureAlwaysReopens
<1>3. BP!Spec => BP!ClosedForGood
  BY PartsAssumptions, BP!HealedForGood
<1>4. SP!Spec => SP!LockSpec
  BY PartsAssumptions, SP!CacheImplementsLock
<1>5. QED
  BY <1>1, <1>2, <1>3, <1>4, CacheIsStampedeCache, BreakerIsCircuitBreaker
-----------------------------------------------------------------------------
\* A connection is held from the first query to the last; there are no more of
\* them than the pool has.
ConnHeld == /\ stage \in [Requests -> {"none", "pool", "history", "insight", "compute"}]
            /\ conn = {c \in Rest : stage[c] \in {"history", "insight", "compute"}}
                      \cup {c \in Grpc : stage[c] = "history"}
            /\ IsFiniteSet(conn) /\ Cardinality(conn) <= PoolSize

\* Claude is called from inside _generate.
CalledInside == \A c \in Requests : call[c] # "idle" => Generating(c)

OwnInv == ConnHeld /\ CalledInside

LEMMA ConnHeldStep == ConnHeld /\ [Next]_vars => ConnHeld'
<1> SUFFICES ASSUME ConnHeld, [Next]_vars PROVE ConnHeld'
  OBVIOUS
<1> USE RequestsAssumption, PoolSizeAssumption DEF ConnHeld, Requests, At
<1>1. CASE UNCHANGED <<stage, conn>>
  BY <1>1
<1>2. ASSUME NEW c \in Requests, Arrive(c) PROVE ConnHeld'
  BY <1>2 DEF Arrive
<1>3. ASSUME NEW c \in Requests, CheckOut(c) PROVE ConnHeld'
  <2>1. c \notin conn /\ conn' = conn \cup {c} /\ Cardinality(conn) < PoolSize
    BY <1>3 DEF CheckOut
  <2>2. IsFiniteSet(conn') /\ Cardinality(conn') = Cardinality(conn) + 1
    BY <2>1, FS_AddElement
  <2>3. Cardinality(conn) \in Nat
    BY FS_CardinalityType
  <2>4. conn' = {d \in Rest : stage'[d] \in {"history", "insight", "compute"}}
                \cup {d \in Grpc : stage'[d] = "history"}
    BY <1>3 DEF CheckOut
  <2>5. stage' \in [Requests -> {"none", "pool", "history", "insight", "compute"}]
    BY <1>3 DEF CheckOut
  <2>6. QED
    BY <2>1, <2>2, <2>3, <2>4, <2>5
<1>4. ASSUME NEW c \in Requests,
             \/ PoolTimeout(c) \/ Unauthenticated(c) \/ Hit(c) \/ Miss(c)
      PROVE  ConnHeld'
  BY <1>4 DEF PoolTimeout, Unauthenticated, Hit, Miss
<1>5. ASSUME NEW c \in Requests,
             UnknownUser(c) \/ NoHistory(c) \/ History(c) \/ End(c)
      PROVE  ConnHeld'
  <2>1. conn' = conn \ {c} \/ conn' = conn
    BY <1>5 DEF UnknownUser, NoHistory, Turned, History, End
  <2>2. IsFiniteSet(conn') /\ Cardinality(conn') <= Cardinality(conn)
    BY <2>1, FS_Subset, FS_CardinalityType
  <2>3. Cardinality(conn) \in Nat /\ Cardinality(conn') \in Nat
    BY <2>2, FS_CardinalityType
  <2>4. stage' \in [Requests -> {"none", "pool", "history", "insight", "compute"}]
    BY <1>5 DEF UnknownUser, NoHistory, Turned, History, End
  <2>5. conn' = {d \in Rest : stage'[d] \in {"history", "insight", "compute"}}
                \cup {d \in Grpc : stage'[d] = "history"}
    BY <1>5 DEF UnknownUser, NoHistory, Turned, History, End
  <2>6. QED
    BY <2>2, <2>3, <2>4, <2>5
<1>6. ASSUME NEW c \in Requests, Serve(c) PROVE ConnHeld'
  <2>1. CASE \/ CacheStep(c) \/ Store(c) \/ CallClaude(c) \/ Rejected(c)
             \/ \E exc \in B!Outcomes : CallEnds(c, exc)
    BY <1>1, <2>1 DEF CacheStep, Store, CallClaude, Rejected, CallEnds, ownVars
  <2>2. QED
    BY <1>3, <1>4, <1>5, <1>6, <2>1 DEF Serve
<1>7. ASSUME NEW c \in Requests, Interrupt(c) PROVE ConnHeld'
  BY <1>1, <1>7 DEF Interrupt, ownVars
<1>8. CASE CacheTick \/ BreakerTick \/ Recover \/ UNCHANGED vars
  BY <1>1, <1>8 DEF CacheTick, BreakerTick, Recover, vars, ownVars
<1>9. QED
  BY <1>2, <1>6, <1>7, <1>8 DEF Next

\* Only the handler that is in _generate calls, and it stays there until the
\* call has ended.
LEMMA CalledInsideStep == CalledInside /\ PartsInv /\ [Next]_vars => CalledInside'
<1> SUFFICES ASSUME CalledInside, PartsInv, [Next]_vars PROVE CalledInside'
  OBVIOUS
<1>0. /\ place \in [Requests -> S!PC]
      /\ call \in [Requests -> {"idle", "calling", "probing"}]
  BY DEF PartsInv, S!TypeOK, B!TypeOK
<1> USE <1>0 DEF CalledInside, Generating
<1>1. CASE UNCHANGED <<place, call>>
  BY <1>1
<1>2. ASSUME NEW c \in Requests, Miss(c) \/ CacheStep(c) \/ Store(c) PROVE CalledInside'
  <2>1. call' = call /\ ~Generating(c) /\ \E p : place' = [place EXCEPT ![c] = p]
    BY <1>2 DEF Miss, CacheStep, Store, breakerVars, S!Miss, S!Acquire, S!Contended,
                S!RecheckHit, S!RecheckMiss, S!Release, S!PollHit, S!PollMiss, S!Store,
                S!OwnStore, S!Goto
  <2>2. QED
    BY <2>1
<1>3. ASSUME NEW c \in Requests, CallClaude(c) PROVE CalledInside'
  BY <1>3 DEF CallClaude, cacheVars, B!Admit
<1>4. ASSUME NEW c \in Requests, Rejected(c) \/ Interrupt(c) PROVE CalledInside'
  <2>1. call' = call /\ call[c] = "idle" /\ \E p : place' = [place EXCEPT ![c] = p]
    BY <1>4 DEF Rejected, Interrupt, GenerateRaises, breakerVars, B!Reject, B!vars, S!Raise,
                S!Crash, S!LostReply, S!Goto
  <2>2. QED
    BY <2>1
<1>5. ASSUME NEW c \in Requests, NEW exc \in B!Outcomes, CallEnds(c, exc) PROVE CalledInside'
  <2>1. call' = [call EXCEPT ![c] = "idle"] /\ \E p : place' = [place EXCEPT ![c] = p]
    BY <1>5 DEF CallEnds, B!Exit, B!LeaveCall, GenerateRaises, S!Raise, S!Crash,
                S!FactoryDone, S!OwnFactoryDone, S!Goto
  <2>2. QED
    BY <2>1
<1>6. ASSUME NEW c \in Requests,
             \/ Arrive(c) \/ CheckOut(c) \/ PoolTimeout(c) \/ History(c) \/ Hit(c) \/ End(c)
             \/ Unauthenticated(c) \/ UnknownUser(c) \/ NoHistory(c)
      PROVE  CalledInside'
  BY <1>1, <1>6 DEF Arrive, CheckOut, PoolTimeout, History, Hit, End, Unauthenticated,
                    UnknownUser, NoHistory, Turned, cacheVars, breakerVars
<1>7. CASE CacheTick
  BY <1>7 DEF CacheTick, breakerVars, S!Tick
<1>8. CASE BreakerTick \/ Recover \/ UNCHANGED vars
  BY <1>1, <1>8 DEF BreakerTick, Recover, vars, cacheVars, breakerVars, B!Tick, B!Stabilise
<1>9. QED
  BY <1>2, <1>3, <1>4, <1>5, <1>6, <1>7, <1>8 DEF Next, Serve

LEMMA OwnInvHolds == Spec => []OwnInv
<1>1. Init => OwnInv
  <2> SUFFICES ASSUME Init PROVE OwnInv
    OBVIOUS
  <2>1. IsFiniteSet({}) /\ Cardinality({}) = 0
    BY FS_EmptySet
  <2>2. ConnHeld
    BY <2>1, PoolSizeAssumption DEF Init, ConnHeld, Requests
  <2>3. CalledInside
    BY DEF Init, S!Init, B!Init, CalledInside
  <2>4. QED
    BY <2>2, <2>3 DEF OwnInv
<1>2. OwnInv /\ PartsInv /\ [Next]_vars => OwnInv'
  BY ConnHeldStep, CalledInsideStep DEF OwnInv
<1>3. QED
  BY <1>1, <1>2, PartsHold, PTL DEF Spec
-----------------------------------------------------------------------------
\* Every variable keeps its type; connections are held as the handlers say, and
\* never more of them than the pool has.
THEOREM InsightTyped == Spec => []TypeOK
<1>1. OwnInv /\ PartsInv => TypeOK
  BY DEF OwnInv, ConnHeld, PartsInv, TypeOK
<1>2. QED
  BY <1>1, OwnInvHolds, PartsHold, PTL

-----------------------------------------------------------------------------
(* Termination.  RequestsEnd needs fairness and is left to TLC; a request  *)
(* has only so many steps left, whatever the pool, the lock, the breaker   *)
(* and the other requests do.                                              *)

\* The cache is entered from get_insight only.
LookedUpInside == \A c \in Requests : place[c] # "idle" => stage[c] = "compute"

\* The most steps a request takes once it asks the cache.
Lookup == 2 * (2 * LockTimeout + 5) + 2

\* An upper bound on the steps a request still takes.
StepsLeft(c) ==
    IF stage[c] = "compute"
    THEN 2 * SP!StepsLeft(c) + IF call[c] = "idle" THEN 2 ELSE 1
    ELSE [none |-> 0, insight |-> Lookup + 1, history |-> Lookup + 2,
          pool |-> Lookup + 3][stage[c]]

Still(c) == stage'[c] = stage[c] /\ place'[c] = place[c] /\ call'[c] = call[c]

\* A request that moves gets nearer to its answer; nothing sends it back.
Advance == \A c \in Requests : stage[c] # "none" =>
               IF Still(c) THEN StepsLeft(c)' = StepsLeft(c)
                           ELSE StepsLeft(c)' < StepsLeft(c)

RequestBounded == \A c \in Requests : StepsLeft(c) \in 0..(Lookup + 3)

RequestAdvances == [][Advance]_vars

LEMMA LookedUpInsideStep ==
  LookedUpInside /\ OwnInv /\ PartsInv /\ [Next]_vars => LookedUpInside'
<1> SUFFICES ASSUME LookedUpInside, OwnInv, PartsInv, [Next]_vars PROVE LookedUpInside'
  OBVIOUS
<1>0. /\ stage \in [Requests -> {"none", "pool", "history", "insight", "compute"}]
      /\ place \in [Requests -> S!PC]
  BY DEF OwnInv, ConnHeld, PartsInv, S!TypeOK
<1> USE <1>0 DEF LookedUpInside, At
<1>1. CASE UNCHANGED <<stage, place>>
  BY <1>1
<1>2. ASSUME NEW c \in Requests,
             \/ Arrive(c) \/ CheckOut(c) \/ PoolTimeout(c) \/ History(c) \/ Hit(c) \/ End(c)
             \/ Unauthenticated(c) \/ UnknownUser(c) \/ NoHistory(c)
      PROVE  LookedUpInside'
  BY <1>2 DEF Arrive, CheckOut, PoolTimeout, History, Hit, End, Unauthenticated,
              UnknownUser, NoHistory, Turned, cacheVars
<1>3. ASSUME NEW c \in Requests, Miss(c) PROVE LookedUpInside'
  BY <1>3 DEF Miss, S!Miss, S!Goto
<1>4. ASSUME NEW c \in Requests, NEW exc \in B!Outcomes,
             \/ CacheStep(c) \/ Store(c) \/ CallClaude(c) \/ Rejected(c) \/ Interrupt(c)
             \/ CallEnds(c, exc)
      PROVE  LookedUpInside'
  <2>1. stage' = stage
    BY <1>4 DEF CacheStep, Store, CallClaude, Rejected, Interrupt, CallEnds, ownVars
  <2>2. place' = place \/ (place[c] # "idle" /\ \E p : place' = [place EXCEPT ![c] = p])
    BY <1>4 DEF CacheStep, Store, CallClaude, Rejected, Interrupt, CallEnds, cacheVars,
                GenerateRaises, Generating, S!Acquire, S!Contended, S!RecheckHit, S!RecheckMiss,
                S!Release, S!PollHit, S!PollMiss, S!Store, S!OwnStore, S!Raise, S!Crash,
                S!LostReply, S!FactoryDone, S!OwnFactoryDone, S!Goto
  <2>3. QED
    BY <2>1, <2>2
<1>5. CASE CacheTick
  BY <1>5 DEF CacheTick, S!Tick
<1>6. CASE BreakerTick \/ Recover \/ UNCHANGED vars
  BY <1>1, <1>6 DEF BreakerTick, Recover, vars, ownVars, cacheVars
<1>7. QED
  BY <1>2, <1>3, <1>4, <1>5, <1>6 DEF Next, Serve, B!Outcomes

LEMMA LookedUpInsideHolds == Spec => []LookedUpInside
<1>1. Init => LookedUpInside
  BY DEF Init, S!Init, LookedUpInside
<1>2. QED
  BY <1>1, LookedUpInsideStep, OwnInvHolds, PartsHold, PTL DEF Spec

LEMMA RequestStep ==
  ASSUME LookedUpInside, OwnInv, PartsInv, LookedUpInside', OwnInv', PartsInv', [Next]_vars,
         [SP!Advance]_(SP!vars), SP!CallBounded, SP!CallBounded', NEW c \in Requests
  PROVE  /\ StepsLeft(c) \in 0..(Lookup + 3)
         /\ stage[c] # "none" => IF Still(c) THEN StepsLeft(c)' = StepsLeft(c)
                                             ELSE StepsLeft(c)' < StepsLeft(c)
<1> DEFINE left == SP!StepsLeft(c)
<1> DEFINE After(step, n, called) ==
        IF step = "compute" THEN 2 * n + IF called = "idle" THEN 2 ELSE 1
        ELSE IF step = "none" THEN 0
        ELSE IF step = "insight" THEN Lookup + 1
        ELSE IF step = "history" THEN Lookup + 2 ELSE Lookup + 3
<1> USE DEF At
<1>1. /\ LockTimeout \in Nat
      /\ left \in 0..(2 * LockTimeout + 5)
      /\ left' \in 0..(2 * LockTimeout + 5)
  BY CacheAssumption DEF SP!CallBounded
<1>2. Lookup \in Nat /\ 2 * left + 2 <= Lookup /\ 2 * left' + 2 <= Lookup
  BY <1>1 DEF Lookup
<1>3. /\ stage \in [Requests -> {"none", "pool", "history", "insight", "compute"}]
      /\ stage' \in [Requests -> {"none", "pool", "history", "insight", "compute"}]
      /\ place \in [Requests -> S!PC]
      /\ call \in [Requests -> {"idle", "calling", "probing"}]
      /\ call' \in [Requests -> {"idle", "calling", "probing"}]
  BY DEF OwnInv, ConnHeld, PartsInv, S!TypeOK, B!TypeOK
<1>4. /\ StepsLeft(c) = After(stage[c], left, call[c])
      /\ StepsLeft(c)' = After(stage'[c], left', call'[c])
  BY <1>3 DEF StepsLeft
<1>5. place[c] = "idle" => left = 0
  BY DEF SP!StepsLeft, SP!Waiting
<1>6. place[c] # "idle" => IF place'[c] = place[c] THEN left' = left ELSE left' < left
  BY <1>1 DEF SP!Advance, SP!vars, SP!StepsLeft
<1>7. place[c] = "idle" /\ place'[c] = place[c] => left' = left
  BY <1>5 DEF SP!StepsLeft, SP!Waiting
<1>8. StepsLeft(c) \in 0..(Lookup + 3)
  BY <1>1, <1>2, <1>4
<1> DEFINE Nearer == IF Still(c) THEN StepsLeft(c)' = StepsLeft(c)
                                 ELSE StepsLeft(c)' < StepsLeft(c)
<1>9. Still(c) => Nearer
  BY <1>4, <1>6, <1>7 DEF Still
<1>10. stage[c] = "compute" /\ stage'[c] = "none" => Nearer
  BY <1>1, <1>4 DEF Still
<1>11. \/ stage[c] = "pool" /\ stage'[c] \in {"none", "history"}
       \/ stage[c] = "history" /\ stage'[c] \in {"none", "insight"}
       \/ stage[c] = "insight" /\ stage'[c] = "compute"
       => Nearer
  BY <1>1, <1>2, <1>4 DEF Still
<1>12. /\ stage[c] = "compute" /\ stage'[c] = "compute"
       /\ place[c] # "idle" /\ place'[c] # place[c]
       => Nearer
  BY <1>1, <1>3, <1>4, <1>6 DEF Still
<1>13. /\ stage[c] = "compute" /\ stage'[c] = "compute"
       /\ place'[c] = place[c] /\ call[c] = "idle" /\ call'[c] # "idle"
       => Nearer
  BY <1>1, <1>4, <1>6, <1>7 DEF Still
<1>14. ASSUME NEW d \in Requests,
              \/ Arrive(d) \/ CheckOut(d) \/ PoolTimeout(d) \/ History(d) \/ Hit(d) \/ Miss(d)
              \/ End(d) \/ Unauthenticated(d) \/ UnknownUser(d) \/ NoHistory(d)
       PROVE  stage[c] # "none" => Nearer
  <2>1. CASE d # c
    BY <1>3, <1>9, <1>14, <2>1
    DEF Arrive, CheckOut, PoolTimeout, History, Hit, Miss, S!Miss, S!Goto, End,
        Unauthenticated, UnknownUser, NoHistory, Turned, cacheVars, breakerVars, Still
  <2>2. CASE d = c
    BY <1>3, <1>10, <1>11, <1>14, <2>2
    DEF Arrive, CheckOut, PoolTimeout, History, Hit, Miss, End, Unauthenticated,
        UnknownUser, NoHistory, Turned
  <2>3. QED
    BY <2>1, <2>2
<1>15. ASSUME NEW d \in Requests, CacheStep(d) \/ Store(d) \/ Interrupt(d) \/ Rejected(d)
       PROVE  stage[c] # "none" => Nearer
  <2>1. /\ stage' = stage /\ call' = call
        /\ place[d] # "idle"
        /\ \E p : place' = [place EXCEPT ![d] = p] /\ p # place[d]
    BY <1>15 DEF CacheStep, Store, Interrupt, Rejected, ownVars, breakerVars, GenerateRaises,
                 Generating, B!Reject, B!vars, S!Acquire, S!Contended, S!RecheckHit,
                 S!RecheckMiss, S!Release, S!PollHit, S!PollMiss, S!Store, S!OwnStore,
                 S!Raise, S!Crash, S!LostReply, S!Goto
  <2>2. CASE d # c
    BY <1>3, <1>9, <2>1, <2>2 DEF Still
  <2>3. CASE d = c
    BY <1>3, <1>12, <2>1, <2>3 DEF LookedUpInside
  <2>4. QED
    BY <2>2, <2>3
<1>16. ASSUME NEW d \in Requests, CallClaude(d) PROVE stage[c] # "none" => Nearer
  <2>1. /\ stage' = stage /\ place' = place
        /\ place[d] # "idle" /\ call[d] = "idle"
        /\ \E p : call' = [call EXCEPT ![d] = p] /\ p # "idle"
    BY <1>16 DEF CallClaude, Generating, ownVars, cacheVars, B!Admit
  <2>2. CASE d # c
    BY <1>3, <1>9, <2>1, <2>2 DEF Still
  <2>3. CASE d = c
    BY <1>3, <1>13, <2>1, <2>3 DEF LookedUpInside
  <2>4. QED
    BY <2>2, <2>3
<1>17. ASSUME NEW d \in Requests, NEW exc \in B!Outcomes, CallEnds(d, exc)
       PROVE  stage[c] # "none" => Nearer
  <2>1. /\ stage' = stage /\ call' = [call EXCEPT ![d] = "idle"]
        /\ place[d] # "idle"
        /\ \E p : place' = [place EXCEPT ![d] = p] /\ p # place[d]
    BY <1>17 DEF CallEnds, ownVars, B!Exit, B!LeaveCall, B!InFlight, OwnInv, CalledInside,
                 Generating, GenerateRaises, S!Raise, S!Crash, S!FactoryDone,
                 S!OwnFactoryDone, S!Goto
  <2>2. CASE d # c
    BY <1>3, <1>9, <2>1, <2>2 DEF Still
  <2>3. CASE d = c
    BY <1>3, <1>12, <2>1, <2>3 DEF LookedUpInside
  <2>4. QED
    BY <2>2, <2>3
<1>18. ASSUME CacheTick PROVE stage[c] # "none" => Nearer
  <2>1. /\ stage' = stage /\ call' = call
        /\ place'[c] # place[c] => place[c] # "idle"
    BY <1>18 DEF CacheTick, breakerVars, S!Tick
  <2>2. QED
    BY <1>9, <1>12, <2>1 DEF Still, LookedUpInside
<1>19. ASSUME BreakerTick \/ Recover \/ UNCHANGED vars PROVE Nearer
  BY <1>9, <1>19 DEF BreakerTick, Recover, vars, ownVars, cacheVars, breakerVars, B!Tick,
                     B!Stabilise, Still
<1>20. stage[c] # "none" => Nearer
  BY <1>14, <1>15, <1>16, <1>17, <1>18, <1>19 DEF Next, Serve
<1>21. QED
  BY <1>8, <1>20

\* No request takes more than 4 * LockTimeout + 15 steps, whatever the number of
\* requests, the pool, the failures and the timeouts.
THEOREM RequestsAreBounded == Spec => []RequestBounded /\ RequestAdvances
<1>1. SP!Spec => []SP!CallBounded /\ SP!CallAdvances
  BY PartsAssumptions, SP!CallsAreBounded
<1>2. LookedUpInside /\ OwnInv /\ PartsInv /\ LookedUpInside' /\ OwnInv' /\ PartsInv'
      /\ [Next]_vars /\ [SP!Advance]_(SP!vars) /\ SP!CallBounded /\ SP!CallBounded'
      => RequestBounded /\ Advance
  BY RequestStep DEF RequestBounded, Advance
<1>3. QED
  BY <1>1, <1>2, CacheIsStampedeCache, LookedUpInsideHolds, OwnInvHolds, PartsHold, PTL
  DEF Spec, RequestAdvances, SP!CallAdvances
=============================================================================
