------------------------ MODULE StampedeCacheProofs ------------------------
(***************************************************************************)
(* Proofs about StampedeCache, for every set of callers, every TTL and     *)
(* every combination of faults:                                            *)
(*   - TypeOK and WaitsBeforeComputing, from the inductive invariant IInv; *)
(*   - the lock key follows the protocol of LockedSection;                 *)
(*   - mutual exclusion, from that refinement and LockedSection's theorem; *)
(*   - the promise of the docstring, SingleFlight, under the conditions    *)
(*     named in PromptAndQuick;                                            *)
(*   - a bound on the steps of a call.                                     *)
(***************************************************************************)
EXTENDS StampedeCache, TLAPS

ConstantsOK == /\ LockTimeout \in Nat \ {0}
               /\ ValueTtl \in Nat \ {0}
               /\ HoldMax \in 0..LockTimeout

\* The assumptions of the module in one fact.
LEMMA ConstantsFact == ConstantsOK
  BY LockTimeoutAssumption, ValueTtlAssumption, HoldMaxAssumption DEF ConstantsOK

\* IInv is inductive.  WaitsBeforeComputing is part of it because the bound of
\* polls in TypeOK needs a waiter to be strictly below LockTimeout.
THEOREM CacheInvariant == Spec => []IInv
<1> USE ConstantsFact DEF ConstantsOK, PC, Section, Waiting, holders, Goto
<1>1. Init => IInv
  BY DEF Init, IInv, TypeOK, WaitsBeforeComputing, AgeOnlyInside
<1>2. IInv /\ [Next]_vars => IInv'
  <2> SUFFICES ASSUME IInv, [Next]_vars PROVE IInv'
    OBVIOUS
  <2> USE DEF IInv, TypeOK, WaitsBeforeComputing, AgeOnlyInside
  <2>1. ASSUME NEW c \in Callers, Miss(c) PROVE IInv'
    BY <2>1 DEF Miss
  <2>2. ASSUME NEW c \in Callers, Acquire(c) \/ Contended(c) PROVE IInv'
    BY <2>2 DEF Acquire, Contended
  <2>3. ASSUME NEW c \in Callers, RecheckHit(c) \/ RecheckMiss(c) \/ FactoryDone(c)
        PROVE IInv'
    BY <2>3 DEF RecheckHit, RecheckMiss, FactoryDone
  <2>4. ASSUME NEW c \in Callers, Store(c) \/ Release(c) PROVE IInv'
    BY <2>4 DEF Store, Release
  <2>5. ASSUME NEW c \in Callers, PollHit(c) PROVE IInv'
    BY <2>5 DEF PollHit
  <2>6. ASSUME NEW c \in Callers, PollMiss(c) PROVE IInv'
    BY <2>6 DEF PollMiss
  <2>7. ASSUME NEW c \in Callers, OwnFactoryDone(c) \/ OwnStore(c) PROVE IInv'
    BY <2>7 DEF OwnFactoryDone, OwnStore
  <2>8. ASSUME NEW c \in Callers, Fault(c) PROVE IInv'
    BY <2>8 DEF Fault, Raise, Crash, LostReply
  <2>9. CASE WriteThrough \/ Invalidate
    BY <2>9 DEF WriteThrough, Invalidate
  <2>10. CASE Tick
    BY <2>10 DEF Tick, Older, AfterTick
  <2>11. CASE UNCHANGED vars
    BY <2>11 DEF vars
  <2>12. QED
    BY <2>1, <2>2, <2>3, <2>4, <2>5, <2>6, <2>7, <2>8, <2>9, <2>10, <2>11
    DEF Next, Progress
<1>3. QED
  BY <1>1, <1>2, PTL DEF Spec

\* The variables keep their types; in particular a waiter never polls more than
\* LockTimeout times.
THEOREM CacheTyped == Spec => []TypeOK
<1>1. IInv => TypeOK
  BY DEF IInv
<1>2. QED
  BY <1>1, CacheInvariant, PTL

\* Nobody computes without the lock before having waited LockTimeout polls.
THEOREM ComputesAfterWaiting == Spec => []WaitsBeforeComputing
<1>1. IInv => WaitsBeforeComputing
  BY DEF IInv
<1>2. QED
  BY <1>1, CacheInvariant, PTL
-----------------------------------------------------------------------------
\* Every step of cache_get_or_set, faults included, is a step of the lock
\* protocol or leaves the lock, its holders and their ages alone.
LEMMA LockStep == IInv /\ [Next]_vars => [L!Next]_(L!vars)
<1> SUFFICES ASSUME IInv, [Next]_vars PROVE [L!Next]_(L!vars)
  OBVIOUS
<1> USE ConstantsFact DEF ConstantsOK, IInv, TypeOK, AgeOnlyInside, Section, Waiting, Goto
<1> DEFINE Unmoved == lockTtl' = lockTtl /\ holders' = holders /\ age' = age
<1>0. Unmoved => UNCHANGED L!vars
  BY DEF L!vars
<1>1. ASSUME NEW c \in Callers, Acquire(c) PROVE L!Acquire(c)
  BY <1>1 DEF Acquire, L!Acquire, holders
<1>2. ASSUME NEW c \in Callers, Release(c) PROVE L!Release(c)
  BY <1>2 DEF Release, L!Release, holders
<1>3. ASSUME NEW c \in Callers, LostReply(c) PROVE L!Orphan
  BY <1>3 DEF LostReply, L!Orphan, holders
<1>4. ASSUME NEW c \in Callers, Crash(c) PROVE L!Vanish(c) \/ Unmoved
  <2>1. CASE c \in holders
    BY <1>4, <2>1 DEF Crash, L!Vanish, holders
  <2>2. CASE c \notin holders
    <3>1. age' = age
      BY <1>4, <2>2 DEF Crash
    <3>2. QED
      BY <1>4, <2>2, <3>1 DEF Crash, holders
  <2>3. QED
    BY <2>1, <2>2
<1>5. ASSUME Tick PROVE L!Tick
  <2>1. holders' = holders
    BY <1>5 DEF Tick, holders
  <2>2. L!MayTick
    BY <1>5 DEF Tick, L!MayTick
  <2>3. age' = [c \in Callers |-> IF c \in holders THEN L!Older(age[c]) ELSE age[c]]
    BY <1>5 DEF Tick, Older, L!Older
  <2>4. QED
    BY <1>5, <2>1, <2>2, <2>3 DEF Tick, AfterTick, L!Tick
<1>6. ASSUME NEW c \in Callers,
             Miss(c) \/ Contended(c) \/ PollHit(c) \/ PollMiss(c)
             \/ OwnFactoryDone(c) \/ OwnStore(c)
      PROVE Unmoved
  BY <1>6 DEF Miss, Contended, PollHit, PollMiss, OwnFactoryDone, OwnStore, holders
<1>7. ASSUME NEW c \in Callers,
             RecheckHit(c) \/ RecheckMiss(c) \/ FactoryDone(c) \/ Store(c) \/ Raise(c)
      PROVE Unmoved
  BY <1>7 DEF RecheckHit, RecheckMiss, FactoryDone, Store, Raise, holders
<1>8. ASSUME WriteThrough \/ Invalidate \/ UNCHANGED vars PROVE Unmoved
  BY <1>8 DEF WriteThrough, Invalidate, vars, holders
<1>9. QED
  BY <1>0, <1>1, <1>2, <1>3, <1>4, <1>5, <1>6, <1>7, <1>8
  DEF Next, Progress, Fault, L!Next

\* cache_get_or_set implements the lock protocol.
THEOREM CacheImplementsLock == Spec => LockSpec
<1>1. Init => L!Init
  BY DEF Init, L!Init, holders, Section
<1>2. QED
  BY <1>1, LockStep, CacheInvariant, PTL DEF Spec, LockSpec, L!Spec

\* While no holder outlives the TTL, one caller at a time is in the section
\* that calls factory() under the lock, however callers fail or are killed.
THEOREM CacheMutexHolds == ASSUME HoldMax < LockTimeout PROVE Spec => []CacheMutex
<1>1. L!ConstantsOK
  BY ConstantsFact DEF ConstantsOK, L!ConstantsOK
<1>2. L!Spec => []L!IInv
  BY L!LockMutex, <1>1, HoldMax < LockTimeout
<1>3. L!IInv => CacheMutex
  BY DEF L!IInv, L!MutualExclusion, CacheMutex
<1>4. QED
  BY <1>2, <1>3, CacheImplementsLock, PTL DEF LockSpec
-----------------------------------------------------------------------------
(* Single flight.  The refinement needs to know why nobody ever computes   *)
(* without the lock: whoever finds no value while waiting has a holder     *)
(* that has been inside for as long as it has waited.                      *)

\* Nobody fails, callers poll on time, every holder leaves before the lock and
\* the value would expire, and a value outlives a poll interval.
PromptAndQuick == /\ Faults = {}
                  /\ Prompt
                  /\ HoldMax < LockTimeout
                  /\ HoldMax < ValueTtl
                  /\ 1 < ValueTtl

NoOrphan == lockTtl > 0 => holders # {}

\* A caller that has missed, or missed again, did so in this tick: a value that
\* is there was stored since.  A poll is due one tick later.
FreshMiss ==
    \A c \in Callers : /\ pc[c] \in {"acquire", "sleep"} => cacheTtl \in {0, ValueTtl}
                       /\ pc[c] = "poll" => cacheTtl \in {0, ValueTtl - 1, ValueTtl}

\* A value that is there while a caller holds the lock is no older than its stay.
HolderValue ==
    \A c \in holders : /\ cacheTtl > 0 => cacheTtl + age[c] >= ValueTtl
                       /\ pc[c] = "release" => cacheTtl > 0

\* The ticks a waiter has waited.
Waited(c) == IF pc[c] = "poll" THEN polls[c] + 1 ELSE polls[c]

Computing(c) == pc[c] \in {"recheck", "factory", "store"}

\* A waiter without a value waits for a holder that will bring it.
WaiterHasHolder ==
    \A c \in Callers : pc[c] \in Waiting /\ cacheTtl = 0
        => \E d \in Callers : Computing(d) /\ Waited(c) <= age[d]

NobodyAlone == \A c \in Callers : pc[c] \notin {"ownFactory", "ownStore"}

SFInv == NoOrphan /\ FreshMiss /\ HolderValue /\ WaiterHasHolder /\ NobodyAlone

\* What mutual exclusion adds: one holder at most, younger than its lock.
LInv == CacheMutex /\ \A c \in holders : age[c] <= HoldMax

LEMMA LInvHolds == ASSUME HoldMax < LockTimeout PROVE Spec => []LInv
<1>1. L!ConstantsOK
  BY ConstantsFact DEF ConstantsOK, L!ConstantsOK
<1>2. L!Spec => []L!IInv
  BY L!LockMutex, <1>1, HoldMax < LockTimeout
<1>3. L!IInv => LInv
  BY DEF L!IInv, L!MutualExclusion, L!KeyOutlivesHolder, CacheMutex, LInv
<1>4. QED
  BY <1>2, <1>3, CacheImplementsLock, PTL DEF LockSpec

LEMMA SFInvHolds == ASSUME PromptAndQuick PROVE Spec => []SFInv
<1> USE ConstantsFact DEF ConstantsOK, PromptAndQuick, Section, Waiting, Goto, SFInv
<1>1. Init => SFInv
  BY DEF Init, holders, NoOrphan, FreshMiss, HolderValue, WaiterHasHolder, NobodyAlone
<1>2. IInv /\ LInv /\ SFInv /\ [Next]_vars => SFInv'
  <2> SUFFICES ASSUME IInv, LInv, SFInv, [Next]_vars PROVE SFInv'
    OBVIOUS
  <2> USE DEF IInv, TypeOK, AgeOnlyInside, WaitsBeforeComputing
  <2> USE DEF LInv, CacheMutex, holders, Computing, Waited
  <2> USE DEF NoOrphan, FreshMiss, HolderValue, WaiterHasHolder, NobodyAlone
  <2>1. ASSUME NEW c \in Callers, Miss(c) PROVE SFInv'
    BY <2>1 DEF Miss
  <2>2. ASSUME NEW c \in Callers, Acquire(c) PROVE SFInv'
    BY <2>2 DEF Acquire
  <2>3. ASSUME NEW c \in Callers, Contended(c) PROVE SFInv'
    BY <2>3 DEF Contended
  <2>4. ASSUME NEW c \in Callers, RecheckHit(c) PROVE SFInv'
    BY <2>4 DEF RecheckHit
  <2>5. ASSUME NEW c \in Callers, RecheckMiss(c) \/ FactoryDone(c) PROVE SFInv'
    BY <2>5 DEF RecheckMiss, FactoryDone
  <2>6. ASSUME NEW c \in Callers, Store(c) PROVE SFInv'
    BY <2>6 DEF Store
  <2>7. ASSUME NEW c \in Callers, Release(c) PROVE SFInv'
    BY <2>7 DEF Release
  <2>8. ASSUME NEW c \in Callers, PollHit(c) PROVE SFInv'
    BY <2>8 DEF PollHit
  <2>9. ASSUME NEW c \in Callers, PollMiss(c) PROVE SFInv'
    BY <2>9 DEF PollMiss
  <2>10. ASSUME NEW c \in Callers, OwnFactoryDone(c) \/ OwnStore(c) PROVE FALSE
    BY <2>10 DEF OwnFactoryDone, OwnStore
  <2>11. ASSUME NEW c \in Callers, Fault(c) PROVE FALSE
    BY <2>11 DEF Fault, Raise, Crash, LostReply
  <2>12. ASSUME WriteThrough \/ Invalidate PROVE FALSE
    BY <2>12 DEF WriteThrough, Invalidate
  <2>13. CASE Tick
    BY <2>13 DEF Tick, Older, AfterTick
  <2>14. CASE UNCHANGED vars
    BY <2>14 DEF vars
  <2>15. QED
    BY <2>1, <2>2, <2>3, <2>4, <2>5, <2>6, <2>7, <2>8, <2>9, <2>10, <2>11, <2>12, <2>13, <2>14
    DEF Next, Progress
<1>3. QED
  BY <1>1, <1>2, CacheInvariant, LInvHolds, PTL DEF Spec

\* Every step starts a computation, ends one by storing it, lets the value
\* expire, or is invisible to the promise.
LEMMA SFStep ==
  ASSUME PromptAndQuick
  PROVE  IInv /\ LInv /\ SFInv /\ [Next]_vars => [SF!Next]_(SF!vars)
<1> SUFFICES ASSUME IInv, LInv, SFInv, [Next]_vars PROVE [SF!Next]_(SF!vars)
  OBVIOUS
<1> USE ConstantsFact DEF ConstantsOK, PromptAndQuick, Section, Waiting, Goto
<1> USE DEF IInv, TypeOK, LInv, CacheMutex, SFInv, NobodyAlone
<1> DEFINE Same == flying' = flying /\ (cacheTtl' > 0) = (cacheTtl > 0)
<1>0. Same => UNCHANGED SF!vars
  BY DEF SF!vars
<1>1. ASSUME NEW c \in Callers, RecheckMiss(c) PROVE SF!Start(c)
  <2>1. flying = {}
    BY <1>1 DEF RecheckMiss, flying, holders
  <2>2. flying' = {c}
    BY <1>1, <2>1 DEF RecheckMiss, flying
  <2>3. QED
    BY <1>1, <2>1, <2>2 DEF RecheckMiss, SF!Start
<1>2. ASSUME NEW c \in Callers, Store(c) PROVE SF!Finish(c)
  BY <1>2 DEF Store, flying, SF!Finish
<1>3. ASSUME Tick PROVE Same \/ SF!Expire
  <2>1. flying' = flying
    BY <1>3 DEF Tick, flying
  <2>2. QED
    BY <1>3, <2>1 DEF Tick, AfterTick, SF!Expire
<1>4. ASSUME NEW c \in Callers,
             Miss(c) \/ Acquire(c) \/ Contended(c) \/ RecheckHit(c) \/ FactoryDone(c)
             \/ Release(c) \/ PollHit(c)
      PROVE Same
  BY <1>4 DEF Miss, Acquire, Contended, RecheckHit, FactoryDone, Release, PollHit, flying
<1>5. ASSUME NEW c \in Callers, PollMiss(c) PROVE Same
  BY <1>5 DEF PollMiss, flying, WaiterHasHolder, Computing, Waited, holders
<1>6. ASSUME NEW c \in Callers, OwnFactoryDone(c) \/ OwnStore(c) \/ Fault(c) PROVE FALSE
  BY <1>6 DEF OwnFactoryDone, OwnStore, Fault, Raise, Crash, LostReply
<1>7. ASSUME WriteThrough \/ Invalidate PROVE FALSE
  BY <1>7 DEF WriteThrough, Invalidate
<1>8. CASE UNCHANGED vars
  BY <1>8 DEF vars, SF!vars, flying
<1>9. QED
  BY <1>0, <1>1, <1>2, <1>3, <1>4, <1>5, <1>6, <1>7, <1>8 DEF Next, Progress, SF!Next

\* The promise of the docstring, for any number of callers: when nobody fails,
\* polls late or overstays, one caller per miss calls factory(), and nobody does
\* while the value is there (cache.py lines 62-99).
THEOREM CacheIsSingleFlight == ASSUME PromptAndQuick PROVE Spec => SingleFlightSpec
<1>1. Init => SF!Init
  BY DEF Init, SF!Init, flying
<1>2. QED
  BY <1>1, SFStep, CacheInvariant, LInvHolds, SFInvHolds, PromptAndQuick, PTL
  DEF Spec, SingleFlightSpec, SF!Spec, PromptAndQuick
-----------------------------------------------------------------------------
(* Termination.  EveryCallReturns needs fairness and is left to TLC; what  *)
(* it rests on is proved: a call has only so many steps left, whatever the *)
(* other callers, the faults and the clock do.                             *)

\* An upper bound on the steps a call still takes, its naps included.
StepsLeft(c) ==
    IF pc[c] \in Waiting
    THEN 2 * (LockTimeout - polls[c]) + IF pc[c] = "sleep" THEN 2 ELSE 1
    ELSE [acquire |-> 2 * LockTimeout + 5, recheck |-> 4, factory |-> 3, store |-> 2,
          release |-> 1, ownFactory |-> 2, ownStore |-> 1, idle |-> 0][pc[c]]

\* A call that moves at all gets nearer to its end, and nothing that happens
\* elsewhere sends it back: the loop of polls is bounded (cache.py lines 91-99).
Advance == \A c \in Callers : pc[c] # "idle" =>
               IF pc'[c] = pc[c] THEN StepsLeft(c)' = StepsLeft(c)
                                 ELSE StepsLeft(c)' < StepsLeft(c)

CallAdvances == [][Advance]_vars

CallBounded == \A c \in Callers : StepsLeft(c) \in 0..(2 * LockTimeout + 5)

LEMMA CallStep == IInv /\ [Next]_vars => CallBounded /\ [Advance]_vars
<1> USE ConstantsFact DEF ConstantsOK, PC, Section, Waiting, Goto
<1> USE DEF IInv, TypeOK, WaitsBeforeComputing
<1>1. IInv => CallBounded
  <2> SUFFICES ASSUME IInv, NEW c \in Callers
               PROVE  StepsLeft(c) \in 0..(2 * LockTimeout + 5)
    BY DEF CallBounded
  <2>1. CASE pc[c] \in Waiting
    <3>1. polls[c] \in Nat /\ polls[c] < LockTimeout
      BY <2>1
    <3>2. StepsLeft(c) = 2 * (LockTimeout - polls[c]) + IF pc[c] = "sleep" THEN 2 ELSE 1
      BY <2>1 DEF StepsLeft
    <3>3. QED
      BY <3>1, <3>2
  <2>2. CASE pc[c] \notin Waiting
    BY <2>2 DEF StepsLeft
  <2>3. QED
    BY <2>1, <2>2
<1>2. IInv /\ [Next]_vars => [Advance]_vars
  <2> SUFFICES ASSUME IInv, Next PROVE Advance \/ UNCHANGED vars
    OBVIOUS
  <2> USE DEF StepsLeft, Advance
  <2>1. ASSUME NEW d \in Callers, Miss(d) PROVE Advance
    BY <2>1 DEF Miss
  <2>2. ASSUME NEW d \in Callers, Acquire(d) PROVE Advance
    BY <2>2 DEF Acquire
  <2>3. ASSUME NEW d \in Callers, Contended(d) PROVE Advance
    BY <2>3 DEF Contended
  <2>4. ASSUME NEW d \in Callers, RecheckHit(d) PROVE Advance
    BY <2>4 DEF RecheckHit
  <2>5. ASSUME NEW d \in Callers, RecheckMiss(d) PROVE Advance
    BY <2>5 DEF RecheckMiss
  <2>6. ASSUME NEW d \in Callers, FactoryDone(d) PROVE Advance
    BY <2>6 DEF FactoryDone
  <2>7. ASSUME NEW d \in Callers, Store(d) PROVE Advance
    BY <2>7 DEF Store
  <2>8. ASSUME NEW d \in Callers, Release(d) PROVE Advance
    BY <2>8 DEF Release
  <2>9. ASSUME NEW d \in Callers, PollHit(d) PROVE Advance
    BY <2>9 DEF PollHit
  <2>10. ASSUME NEW d \in Callers, PollMiss(d) PROVE Advance
    BY <2>10 DEF PollMiss
  <2>11. ASSUME NEW d \in Callers, OwnFactoryDone(d) \/ OwnStore(d) PROVE Advance
    BY <2>11 DEF OwnFactoryDone, OwnStore
  <2>12. ASSUME NEW d \in Callers, Fault(d) PROVE Advance
    BY <2>12 DEF Fault, Raise, Crash, LostReply
  <2>13. CASE WriteThrough \/ Invalidate
    BY <2>13 DEF WriteThrough, Invalidate
  <2>14. CASE Tick
    BY <2>14 DEF Tick
  <2>15. QED
    BY <2>1, <2>2, <2>3, <2>4, <2>5, <2>6, <2>7, <2>8, <2>9, <2>10, <2>11, <2>12, <2>13, <2>14
    DEF Next, Progress
<1>3. QED
  BY <1>1, <1>2

\* No call takes more than 2 * LockTimeout + 5 steps, for any set of callers and
\* any faults: StepsLeft is a natural number that every step of the call lowers.
THEOREM CallsAreBounded == Spec => []CallBounded /\ CallAdvances
<1>1. QED
  BY CallStep, CacheInvariant, PTL DEF Spec, CallAdvances
=============================================================================
