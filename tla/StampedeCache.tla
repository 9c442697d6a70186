--------------------------- MODULE StampedeCache ---------------------------
(***************************************************************************)
(* cache_get_or_set (app/core/cache.py) for one key: a read-through cache  *)
(* whose misses are serialised by a Redis lock, SET lock:<key> NX PX.      *)
(* Callers are coroutines of any API process; every step below ends at an  *)
(* await, where another caller may run.                                    *)
(*                                                                         *)
(* Time is discrete: a tick is one poll interval of 0.1 s, so a lock       *)
(* lives LockTimeout = lock_timeout*10 ticks and a waiter polls            *)
(* LockTimeout times.  The value itself is abstracted to the time its key  *)
(* has left.                                                               *)
(***************************************************************************)
EXTENDS Integers

CONSTANTS
    Callers,      \* coroutines that may call cache_get_or_set for this key
    LockTimeout,  \* lock_timeout, in polls
    ValueTtl,     \* ttl of the value, in polls
    HoldMax,      \* longest stay in the lock section; LockTimeout: no bound
    Faults,       \* which faults may happen, see below
    Prompt        \* whether a caller that missed takes its next Redis step (the
                  \* SET, a poll whose sleep is over) within the tick

ASSUME LockTimeoutAssumption == LockTimeout \in Nat \ {0}
ASSUME ValueTtlAssumption == ValueTtl \in Nat \ {0}
ASSUME HoldMaxAssumption == HoldMax \in 0..LockTimeout
\* raise:  factory() or a Redis call inside the lock section raises, or the
\*         request is cancelled there (the finally clause runs)
\* crash:  the process dies or Redis cannot be reached (no finally, or a
\*         DELETE that fails), or a request outside the section is abandoned
\* others: the worker or the refresh endpoint sets or deletes the same key
ASSUME FaultsAssumption == Faults \subseteq {"raise", "crash", "others"}
ASSUME PromptAssumption == Prompt \in BOOLEAN

VARIABLES
    pc,        \* where each caller is in cache_get_or_set
    polls,     \* how many times a waiter has polled
    age,       \* how long a lock holder has been in its section
    lockTtl,   \* time lock:<key> has left, 0: it does not exist
    cacheTtl   \* time the key has left, 0: it does not exist

vars == <<pc, polls, age, lockTtl, cacheTtl>>

\* The section guarded by the lock: from the SET that succeeded to the DELETE.
Section == {"recheck", "factory", "store", "release"}
Waiting == {"sleep", "poll"}
PC == {"idle", "acquire", "ownFactory", "ownStore"} \cup Section \cup Waiting

holders == {c \in Callers : pc[c] \in Section}

\* Callers computing the value, with the lock or without it.
flying == {c \in Callers : pc[c] \in {"factory", "store", "ownFactory", "ownStore"}}

Goto(c, label) == pc' = [pc EXCEPT ![c] = label]

Init == /\ pc = [c \in Callers |-> "idle"]
        /\ polls = [c \in Callers |-> 0]
        /\ age = [c \in Callers |-> 0]
        /\ lockTtl = 0
        /\ cacheTtl = 0
-----------------------------------------------------------------------------
(* A request arrives.  A hit returns at once and changes nothing.          *)
Miss(c) == /\ pc[c] = "idle"
           /\ cacheTtl = 0
           /\ Goto(c, "acquire")
           /\ UNCHANGED <<polls, age, lockTtl, cacheTtl>>

\* The mutant of Acquire that forgets NX.
AcquireWithoutNX(c) == /\ pc[c] = "acquire"
                       /\ lockTtl' = LockTimeout
                       /\ age' = [age EXCEPT ![c] = 0]
                       /\ Goto(c, "recheck")
                       /\ UNCHANGED <<polls, cacheTtl>>

\* SET lock:<key> NX PX finds no key and creates it.
Acquire(c) == /\ pc[c] = "acquire"
              /\ lockTtl = 0
              /\ lockTtl' = LockTimeout
              /\ age' = [age EXCEPT ![c] = 0]
              /\ Goto(c, "recheck")
              /\ UNCHANGED <<polls, cacheTtl>>

\* SET lock:<key> NX PX finds the key of another caller.
Contended(c) == /\ pc[c] = "acquire"
                /\ lockTtl > 0
                /\ polls' = [polls EXCEPT ![c] = 0]
                /\ Goto(c, "sleep")
                /\ UNCHANGED <<age, lockTtl, cacheTtl>>
-----------------------------------------------------------------------------
(* The lock section.                                                       *)

RecheckHit(c) == /\ pc[c] = "recheck"
                 /\ cacheTtl > 0
                 /\ Goto(c, "release")
                 /\ UNCHANGED <<polls, age, lockTtl, cacheTtl>>

\* The mutant that drops the double check.
NoRecheck(c) == /\ pc[c] = "recheck"
                /\ Goto(c, "factory")
                /\ UNCHANGED <<polls, age, lockTtl, cacheTtl>>

RecheckMiss(c) == /\ pc[c] = "recheck"
                  /\ cacheTtl = 0
                  /\ Goto(c, "factory")
                  /\ UNCHANGED <<polls, age, lockTtl, cacheTtl>>

FactoryDone(c) == /\ pc[c] = "factory"
                  /\ Goto(c, "store")
                  /\ UNCHANGED <<polls, age, lockTtl, cacheTtl>>

\* The mutant that returns the value without storing it.
StoreNothing(c) == /\ pc[c] = "store"
                   /\ Goto(c, "release")
                   /\ UNCHANGED <<polls, age, lockTtl, cacheTtl>>

Store(c) == /\ pc[c] = "store"
            /\ cacheTtl' = ValueTtl
            /\ Goto(c, "release")
            /\ UNCHANGED <<polls, age, lockTtl>>

\* finally: DELETE lock:<key>, whoever created the key that is there now.
Release(c) == /\ pc[c] = "release"
              /\ lockTtl' = 0
              /\ age' = [age EXCEPT ![c] = 0]
              /\ Goto(c, "idle")
              /\ UNCHANGED <<polls, cacheTtl>>

\* An exception in the section: the value is not stored, the finally runs.
Raise(c) == /\ "raise" \in Faults
            /\ pc[c] \in {"recheck", "factory", "store"}
            /\ Goto(c, "release")
            /\ UNCHANGED <<polls, age, lockTtl, cacheTtl>>
-----------------------------------------------------------------------------
(* The waiters.                                                            *)

PollHit(c) == /\ pc[c] = "poll"
              /\ cacheTtl > 0
              /\ Goto(c, "idle")
              /\ UNCHANGED <<polls, age, lockTtl, cacheTtl>>

\* The mutant whose poll counter never advances.
PollMissUncounted(c) == /\ pc[c] = "poll"
                        /\ cacheTtl = 0
                        /\ Goto(c, "sleep")
                        /\ UNCHANGED <<polls, age, lockTtl, cacheTtl>>

\* The mutant that stops waiting as soon as the lock is gone.
PollMissImpatient(c) ==
    /\ pc[c] = "poll"
    /\ cacheTtl = 0
    /\ polls' = [polls EXCEPT ![c] = @ + 1]
    /\ Goto(c, IF polls'[c] = LockTimeout \/ lockTtl = 0 THEN "ownFactory" ELSE "sleep")
    /\ UNCHANGED <<age, lockTtl, cacheTtl>>

\* After the last poll the waiter stops waiting and computes for itself.
PollMiss(c) == /\ pc[c] = "poll"
               /\ cacheTtl = 0
               /\ polls' = [polls EXCEPT ![c] = @ + 1]
               /\ Goto(c, IF polls'[c] = LockTimeout THEN "ownFactory" ELSE "sleep")
               /\ UNCHANGED <<age, lockTtl, cacheTtl>>

OwnFactoryDone(c) == /\ pc[c] = "ownFactory"
                     /\ Goto(c, "ownStore")
                     /\ UNCHANGED <<polls, age, lockTtl, cacheTtl>>

OwnStore(c) == /\ pc[c] = "ownStore"
               /\ cacheTtl' = ValueTtl
               /\ Goto(c, "idle")
               /\ UNCHANGED <<polls, age, lockTtl>>
-----------------------------------------------------------------------------
(* The environment.                                                        *)

\* Outside the finally clause an exception or the end of the process leaves
\* Redis as it is, a lock key included.
Crash(c) == /\ "crash" \in Faults
            /\ pc[c] # "idle"
            /\ age' = [age EXCEPT ![c] = 0]
            /\ Goto(c, "idle")
            /\ UNCHANGED <<polls, lockTtl, cacheTtl>>

\* The SET created the key, but its answer was lost: nobody holds the lock.
LostReply(c) == /\ "crash" \in Faults
                /\ pc[c] = "acquire"
                /\ lockTtl = 0
                /\ lockTtl' = LockTimeout
                /\ Goto(c, "idle")
                /\ UNCHANGED <<polls, age, cacheTtl>>

\* The worker's write-through sets the key; a refresh deletes it.
WriteThrough == /\ "others" \in Faults
                /\ cacheTtl' = ValueTtl
                /\ UNCHANGED <<pc, polls, age, lockTtl>>

Invalidate == /\ "others" \in Faults
              /\ cacheTtl > 0
              /\ cacheTtl' = 0
              /\ UNCHANGED <<pc, polls, age, lockTtl>>

\* The mutant of a lock SET without PX: the key never expires.
NeverExpires(t) == t

\* The px argument of the SET: Redis counts the TTL down from it and drops the
\* key when nothing is left.
AfterTick(t) == IF t > 0 THEN t - 1 ELSE 0

Older(a) == IF a < LockTimeout THEN a + 1 ELSE a

\* Time passes while nobody overstays: a bounded holder leaves its section in
\* time, and prompt callers have taken the steps that were due.
Tick == /\ HoldMax = LockTimeout \/ \A c \in holders : age[c] < HoldMax
        /\ Prompt => \A c \in Callers : pc[c] \notin {"acquire", "poll"}
        /\ lockTtl' = AfterTick(lockTtl)
        /\ cacheTtl' = AfterTick(cacheTtl)
        /\ pc' = [c \in Callers |-> IF pc[c] = "sleep" THEN "poll" ELSE pc[c]]
        /\ age' = [c \in Callers |-> IF c \in holders THEN Older(age[c]) ELSE age[c]]
        /\ UNCHANGED polls
-----------------------------------------------------------------------------
\* The steps of a call that has started, faults aside.
Progress(c) == \/ Acquire(c) \/ Contended(c)
               \/ RecheckHit(c) \/ RecheckMiss(c)
               \/ FactoryDone(c) \/ Store(c) \/ Release(c)
               \/ PollHit(c) \/ PollMiss(c)
               \/ OwnFactoryDone(c) \/ OwnStore(c)

Fault(c) == Raise(c) \/ Crash(c) \/ LostReply(c)

Next == \/ \E c \in Callers : Miss(c) \/ Progress(c) \/ Fault(c)
        \/ WriteThrough
        \/ Invalidate
        \/ Tick

Spec == Init /\ [][Next]_vars

\* Time passes and a call that has started is given the processor: factory()
\* awaits calls that have timeouts, so it ends or raises.
FairSpec == /\ Spec
            /\ WF_vars(Tick)
            /\ \A c \in Callers : WF_vars(Progress(c))
-----------------------------------------------------------------------------
\* Every variable keeps its type; a waiter polls at most LockTimeout times.
TypeOK == /\ pc \in [Callers -> PC]
          /\ polls \in [Callers -> 0..LockTimeout]
          /\ age \in [Callers -> 0..LockTimeout]
          /\ lockTtl \in 0..LockTimeout
          /\ cacheTtl \in 0..ValueTtl

\* A caller that computes without the lock has waited for the whole lock_timeout
\* first: the lock it met has expired by then (cache.py lines 91-98).
WaitsBeforeComputing ==
    \A c \in Callers : /\ pc[c] \in Waiting => polls[c] < LockTimeout
                       /\ pc[c] \in {"ownFactory", "ownStore"} => polls[c] = LockTimeout

\* Only a holder has an age.
AgeOnlyInside == \A c \in Callers : c \notin holders => age[c] = 0

\* The inductive invariant of the type and refinement proofs.
IInv == TypeOK /\ WaitsBeforeComputing /\ AgeOnlyInside

\* The lock key follows the SET NX PX / DELETE protocol of LockedSection,
\* whatever faults happen: no path of cache_get_or_set touches it otherwise.
L == INSTANCE LockedSection WITH LockTtl <- LockTimeout
LockSpec == L!Spec

\* Only one coroutine at a time is in the section that calls factory() under
\* the lock, as long as none outlives the lock's TTL (cache.py lines 75-88).
CacheMutex == \A c, d \in holders : c = d

\* The promise of the docstring, which the code keeps when factory() succeeds
\* within the TTL and waiters poll on time: the value is computed by one caller
\* per miss, and never while it is there.
SF == INSTANCE SingleFlight WITH cached <- cacheTtl > 0
SingleFlightSpec == SF!Spec

\* Every call returns: the wait is bounded, whoever held the lock and however
\* that holder ended (cache.py lines 90-99).
EveryCallReturns == \A c \in Callers : (pc[c] # "idle") ~> (pc[c] = "idle")

\* No lock key stays for ever, even when its holder died before the DELETE.
LockGoesAway == (lockTtl > 0) ~> (lockTtl = 0)

\* A miss is followed by the key having a value: the caller that missed, or
\* the one it waited for, stores it.
MissIsFilled == \A c \in Callers : (pc[c] = "acquire") ~> (cacheTtl > 0)
=============================================================================
