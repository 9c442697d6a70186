---------------------------- MODULE LockedSection ----------------------------
(***************************************************************************)
(* The locking protocol that app/core/cache.py (lock:<key>) and            *)
(* app/worker/refresh_job.py (worker:refresh:lock) both use:               *)
(*                                                                         *)
(*     acquired = redis.set(lock_key, "1", nx=True, px=TTL)                *)
(*     try: ... finally: redis.delete(lock_key)                            *)
(*                                                                         *)
(* The stored value is always "1", so nothing in Redis says who owns the   *)
(* lock: all the key carries is the time it has left.  A holder is a       *)
(* caller whose SET succeeded and whose DELETE has not run yet.            *)
(*                                                                         *)
(* Time is counted in ticks.  HoldMax bounds how long a holder may stay in *)
(* its section; HoldMax = LockTtl stands for "no bound" (ages saturate     *)
(* there, nothing ever compares them with a larger number).                *)
(***************************************************************************)
EXTENDS Integers, TLAPS

CONSTANTS Callers,   \* who competes for the lock
          LockTtl,   \* the PX argument, in ticks
          HoldMax    \* longest time a holder keeps the section, in ticks

\* What the users of this module assume of its constants, and its theorems too.
ConstantsOK == LockTtl \in Nat \ {0} /\ HoldMax \in 0..LockTtl

VARIABLES lockTtl,   \* time the lock key has left; 0: the key does not exist
          holders,   \* callers inside the section
          age        \* how long each holder has been inside

vars == <<lockTtl, holders, age>>

Init == /\ lockTtl = 0
        /\ holders = {}
        /\ age = [c \in Callers |-> 0]

\* SET key "1" NX PX LockTtl answers true: the key did not exist.
Acquire(c) == /\ c \notin holders
              /\ lockTtl = 0
              /\ lockTtl' = LockTtl
              /\ holders' = holders \cup {c}
              /\ age' = [age EXCEPT ![c] = 0]

\* The SET creates the key but its answer never arrives: nobody is inside.
Orphan == /\ lockTtl = 0
          /\ lockTtl' = LockTtl
          /\ UNCHANGED <<holders, age>>

\* DELETE key: unconditional, whoever's SET created the key.
Release(c) == /\ c \in holders
              /\ lockTtl' = 0
              /\ holders' = holders \ {c}
              /\ age' = [age EXCEPT ![c] = 0]

\* The holder dies, or its DELETE does not reach Redis.
Vanish(c) == /\ c \in holders
             /\ holders' = holders \ {c}
             /\ age' = [age EXCEPT ![c] = 0]
             /\ UNCHANGED lockTtl

\* Every bounded holder leaves its section before HoldMax is exceeded.
MayTick == HoldMax = LockTtl \/ \A c \in holders : age[c] < HoldMax

Older(a) == IF a < LockTtl THEN a + 1 ELSE a

Tick == /\ MayTick
        /\ lockTtl' = IF lockTtl > 0 THEN lockTtl - 1 ELSE 0
        /\ age' = [c \in Callers |-> IF c \in holders THEN Older(age[c]) ELSE age[c]]
        /\ UNCHANGED holders

Next == \/ \E c \in Callers : Acquire(c) \/ Release(c) \/ Vanish(c)
        \/ Orphan
        \/ Tick

Spec == Init /\ [][Next]_vars
-----------------------------------------------------------------------------
TypeOK == /\ lockTtl \in 0..LockTtl
          /\ holders \in SUBSET Callers
          /\ age \in [Callers -> 0..LockTtl]

\* No two callers are inside the section guarded by one lock key.  It is what
\* SET NX is used for in cache.py and refresh_job.py, and it holds only while
\* no holder outlives the TTL.
MutualExclusion == \A c, d \in holders : c = d

\* While a holder is inside, the key it created is still there: its remaining
\* time and the holder's age add up to the TTL.
KeyOutlivesHolder == \A c \in holders : /\ age[c] <= HoldMax
                                        /\ lockTtl = LockTtl - age[c]

IInv == TypeOK /\ MutualExclusion /\ KeyOutlivesHolder
-----------------------------------------------------------------------------
\* The variables keep their types in every reachable state, whatever HoldMax is.
LEMMA LockTyped == ASSUME ConstantsOK PROVE Spec => []TypeOK
<1> USE DEF TypeOK, ConstantsOK
<1>1. Init => TypeOK
  BY DEF Init
<1>2. TypeOK /\ [Next]_vars => TypeOK'
  <2> SUFFICES ASSUME TypeOK, [Next]_vars PROVE TypeOK'
    OBVIOUS
  <2>1. ASSUME NEW c \in Callers, Acquire(c) PROVE TypeOK'
    BY <2>1 DEF Acquire
  <2>2. ASSUME NEW c \in Callers, Release(c) PROVE TypeOK'
    BY <2>2 DEF Release
  <2>3. ASSUME NEW c \in Callers, Vanish(c) PROVE TypeOK'
    BY <2>3 DEF Vanish
  <2>4. CASE Tick
    BY <2>4 DEF Tick, Older
  <2>5. CASE Orphan
    BY <2>5 DEF Orphan
  <2>6. CASE UNCHANGED vars
    BY <2>6 DEF vars
  <2>7. QED
    BY <2>1, <2>2, <2>3, <2>4, <2>5, <2>6 DEF Next
<1>3. QED
  BY <1>1, <1>2, PTL DEF Spec

\* A holder that always leaves before the TTL is over excludes every other
\* caller: the key it created is still there, with exactly the time it has left.
THEOREM LockMutex == ASSUME ConstantsOK, HoldMax < LockTtl PROVE Spec => []IInv
<1> DEFINE Safe == MutualExclusion /\ KeyOutlivesHolder
<1> USE DEF ConstantsOK, MutualExclusion, KeyOutlivesHolder
<1>1. Init => Safe
  BY DEF Init
<1>2. TypeOK /\ Safe /\ [Next]_vars => Safe'
  <2> SUFFICES ASSUME TypeOK, Safe, [Next]_vars PROVE Safe'
    OBVIOUS
  <2> USE DEF TypeOK
  <2>1. ASSUME NEW c \in Callers, Acquire(c) PROVE Safe'
    <3>1. holders = {}
      BY <2>1 DEF Acquire
    <3>2. QED
      BY <2>1, <3>1 DEF Acquire
  <2>2. ASSUME NEW c \in Callers, Release(c) PROVE Safe'
    <3>1. holders' = {}
      BY <2>2 DEF Release
    <3>2. QED
      BY <3>1
  <2>3. ASSUME NEW c \in Callers, Vanish(c) PROVE Safe'
    <3>1. holders' = {}
      BY <2>3 DEF Vanish
    <3>2. QED
      BY <3>1
  <2>4. CASE Tick
    <3>1. \A c \in holders : age[c] < HoldMax /\ age'[c] = age[c] + 1
      BY <2>4, HoldMax < LockTtl DEF Tick, MayTick, Older
    <3>2. \A c \in holders : lockTtl > 0 /\ lockTtl' = lockTtl - 1
      BY <2>4, <3>1 DEF Tick
    <3>3. QED
      BY <2>4, <3>1, <3>2 DEF Tick
  <2>5. CASE Orphan
    <3>1. holders = {} /\ holders' = {}
      BY <2>5 DEF Orphan
    <3>2. QED
      BY <3>1
  <2>6. CASE UNCHANGED vars
    BY <2>6 DEF vars
  <2>7. QED
    BY <2>1, <2>2, <2>3, <2>4, <2>5, <2>6 DEF Next
<1>3. QED
  BY <1>1, <1>2, LockTyped, PTL DEF Spec, IInv
=============================================================================
