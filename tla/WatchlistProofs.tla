--------------------------- MODULE WatchlistProofs ---------------------------
(***************************************************************************)
(* Proofs about Watchlist, for any number of adds, removes and keys: the   *)
(* variables keep their types, the entry behaves as UniqueSlot and so is   *)
(* there at most once, a retry inserts nothing, and a replay reports a row *)
(* that was there.                                                         *)
(***************************************************************************)
EXTENDS Watchlist, FiniteSetTheorems, TLAPS

\* The rows of the entry, committed or waiting for their commit.
occupied == rows \cup (open \cap Adds)
AtMostOne == \A a, b \in occupied : a = b

\* While an add of k has been answered, its response is stored, and the adds that
\* arrived since have the key.
PromiseKept == \A k \in promise : stored[k] # {}
LateHasKey == \A a \in late : KeyOf[a] \in promise

IInv == /\ TypeOK /\ AtMostOne
        /\ PromiseKept /\ LateHasKey /\ RetryInsertsNothing
        /\ ReplayIsExplained

LEMMA ConstantsFact == /\ Adds \cap Removes = {}
                       /\ NoKey \notin Keys
                       /\ KeyOf \in [Adds -> Keys \cup {NoKey}]
  BY RequestsAssumption, NoKeyAssumption, KeyOfAssumption

LEMMA InitIInv == Init => IInv
  BY ConstantsFact
  DEF Init, IInv, TypeOK, AtMostOne, occupied, open, PromiseKept, LateHasKey,
      RetryInsertsNothing, ReplayIsExplained, Requests

LEMMA TypeStep == IInv /\ [Next]_vars => TypeOK'
<1> SUFFICES ASSUME IInv, [Next]_vars PROVE TypeOK'
  OBVIOUS
<1> USE ConstantsFact DEF IInv, TypeOK, Requests, Goto
<1>1. ASSUME NEW a \in Adds, Arrive(a) \/ Check(a) \/ Select(a) \/ Insert(a) PROVE TypeOK'
  BY <1>1 DEF Arrive, Check, Select, Insert
<1>2. ASSUME NEW a \in Adds, Answer(a) \/ StoreFails(a) PROVE TypeOK'
  BY <1>2 DEF Answer, StoreFails
<1>3. ASSUME NEW d \in Removes, Find(d) \/ Delete(d) PROVE TypeOK'
  BY <1>3 DEF Find, Delete
<1>4. ASSUME NEW q \in Requests, Commit(q) \/ CommitFails(q) \/ Fail(q) PROVE TypeOK'
  BY <1>4 DEF Commit, CommitFails, Fail, Written
<1>5. ASSUME NEW k \in Keys, Expire(k) PROVE TypeOK'
  BY <1>5 DEF Expire
<1>6. CASE UNCHANGED vars
  BY <1>6 DEF vars
<1>7. QED
  BY <1>1, <1>2, <1>3, <1>4, <1>5, <1>6 DEF Next, Serve

\* Only Insert lets an add in, and only while there is neither a row nor another
\* transaction that holds the entry.
LEMMA OccupiedStep == IInv /\ [Next]_vars => AtMostOne'
<1> SUFFICES ASSUME IInv, [Next]_vars PROVE AtMostOne'
  OBVIOUS
<1> USE ConstantsFact DEF IInv, TypeOK, Requests, Goto
<1> DEFINE Shrinks == occupied' \subseteq occupied
<1>0. Shrinks => AtMostOne'
  BY DEF AtMostOne
<1>1. ASSUME NEW a \in Adds, Arrive(a) \/ Check(a) \/ Select(a) PROVE Shrinks
  BY <1>1 DEF Arrive, Check, Select, occupied, open
<1>2. ASSUME NEW a \in Adds, Insert(a) PROVE AtMostOne'
  <2>1. CASE rows # {}
    BY <1>2, <2>1 DEF Insert, occupied, open, AtMostOne
  <2>2. CASE rows = {}
    <3>1. occupied' \subseteq {a}
      BY <1>2, <2>2 DEF Insert, occupied, open
    <3>2. QED
      BY <3>1 DEF AtMostOne
  <2>3. QED
    BY <2>1, <2>2
<1>3. ASSUME NEW a \in Adds, Answer(a) \/ StoreFails(a) PROVE Shrinks
  BY <1>3 DEF Answer, StoreFails, occupied, open
<1>4. ASSUME NEW d \in Removes, Find(d) \/ Delete(d) PROVE Shrinks
  BY <1>4 DEF Find, Delete, occupied, open
<1>5. ASSUME NEW q \in Requests, Commit(q) \/ CommitFails(q) \/ Fail(q) PROVE Shrinks
  BY <1>5 DEF Commit, CommitFails, Fail, Written, occupied, open
<1>6. ASSUME NEW k \in Keys, Expire(k) PROVE Shrinks
  BY <1>6 DEF Expire, occupied, open
<1>7. CASE UNCHANGED vars
  BY <1>7 DEF vars, occupied, open, AtMostOne
<1>8. QED
  BY <1>0, <1>1, <1>2, <1>3, <1>4, <1>5, <1>6, <1>7 DEF Next, Serve

\* An add that arrived after the answer finds the stored response: nobody but
\* Expire takes it away, and Expire ends the promise.
LEMMA RetryStep ==
  IInv /\ [Next]_vars => PromiseKept' /\ LateHasKey' /\ RetryInsertsNothing'
<1> SUFFICES ASSUME IInv, [Next]_vars
             PROVE PromiseKept' /\ LateHasKey' /\ RetryInsertsNothing'
  OBVIOUS
<1> DEFINE Kept == PromiseKept' /\ LateHasKey' /\ RetryInsertsNothing'
<1> USE ConstantsFact
    DEF IInv, TypeOK, Requests, Goto, PromiseKept, LateHasKey, RetryInsertsNothing
<1>1. ASSUME NEW a \in Adds, Arrive(a) PROVE Kept
  BY <1>1 DEF Arrive
<1>2. ASSUME NEW a \in Adds, Check(a) PROVE Kept
  BY <1>2 DEF Check
<1>3. ASSUME NEW a \in Adds, Select(a) \/ Insert(a) PROVE Kept
  BY <1>3 DEF Select, Insert
<1>4. ASSUME NEW a \in Adds, Answer(a) PROVE Kept
  BY <1>4 DEF Answer
<1>5. ASSUME NEW a \in Adds, StoreFails(a) PROVE Kept
  BY <1>5 DEF StoreFails
<1>6. ASSUME NEW d \in Removes, Find(d) \/ Delete(d) PROVE Kept
  BY <1>6 DEF Find, Delete
<1>7. ASSUME NEW q \in Requests, Commit(q) \/ CommitFails(q) \/ Fail(q) PROVE Kept
  BY <1>7 DEF Commit, CommitFails, Fail
<1>8. ASSUME NEW k \in Keys, Expire(k) PROVE Kept
  BY <1>8 DEF Expire
<1>9. CASE UNCHANGED vars
  BY <1>9 DEF vars
<1>10. QED
  BY <1>1, <1>2, <1>3, <1>4, <1>5, <1>6, <1>7, <1>8, <1>9 DEF Next, Serve

\* What a stored response reports stays explained: the row is committed by the
\* add that is still open, and what leaves the rows is gone.
LEMMA ReplayStep == IInv /\ [Next]_vars => ReplayIsExplained'
<1> SUFFICES ASSUME IInv, [Next]_vars PROVE ReplayIsExplained'
  OBVIOUS
<1> USE ConstantsFact DEF IInv, TypeOK, Requests, Goto, ReplayIsExplained
<1>1. ASSUME NEW a \in Adds, Arrive(a) \/ Check(a) \/ Select(a) \/ Insert(a)
      PROVE ReplayIsExplained'
  BY <1>1 DEF Arrive, Check, Select, Insert, open
<1>2. ASSUME NEW a \in Adds, Answer(a) PROVE ReplayIsExplained'
  BY <1>2 DEF Answer, open
<1>3. ASSUME NEW a \in Adds, StoreFails(a) PROVE ReplayIsExplained'
  BY <1>3 DEF StoreFails, open
<1>4. ASSUME NEW d \in Removes, Find(d) \/ Delete(d) PROVE ReplayIsExplained'
  BY <1>4 DEF Find, Delete, open
<1>5. ASSUME NEW q \in Requests, Commit(q) PROVE ReplayIsExplained'
  BY <1>5 DEF Commit, Written, open
<1>6. ASSUME NEW q \in Requests, CommitFails(q) PROVE ReplayIsExplained'
  BY <1>6 DEF CommitFails, Written, open
<1>7. ASSUME NEW q \in Requests, Fail(q) PROVE ReplayIsExplained'
  BY <1>7 DEF Fail, open
<1>8. ASSUME NEW k \in Keys, Expire(k) PROVE ReplayIsExplained'
  BY <1>8 DEF Expire, open
<1>9. CASE UNCHANGED vars
  BY <1>9 DEF vars, open
<1>10. QED
  BY <1>1, <1>2, <1>3, <1>4, <1>5, <1>6, <1>7, <1>8, <1>9 DEF Next, Serve

\* IInv is inductive.
THEOREM WatchlistInvariant == Spec => []IInv
<1>1. IInv /\ [Next]_vars => IInv'
  BY TypeStep, OccupiedStep, RetryStep, ReplayStep DEF IInv
<1>2. QED
  BY InitIInv, <1>1, PTL DEF Spec

\* Every variable keeps its type; a remove goes on only with a row it has read.
THEOREM WatchlistTyped == Spec => []TypeOK
<1>1. IInv => TypeOK
  BY DEF IInv
<1>2. QED
  BY WatchlistInvariant, <1>1, PTL

\* A step of the two endpoints is a step of the slot or leaves it alone: an INSERT
\* claims it, the end of its transaction keeps or drops it, and only the commit of
\* a DELETE that has read the row frees it.
LEMMA SlotStep == IInv /\ [Next]_vars => [Slot!Next]_(Slot!vars)
<1> SUFFICES ASSUME IInv, [Next]_vars PROVE [Slot!Next]_(Slot!vars)
  OBVIOUS
<1> DEFINE claims == open \cap Adds
           Step == [Slot!Next]_(Slot!vars)
           Same == claims' = claims /\ rows' = rows
<1> USE ConstantsFact
<1>0. Same => Step
  BY DEF Slot!vars
<1>1. ASSUME NEW a \in Adds, Arrive(a) \/ Check(a) \/ Select(a) \/ Answer(a) PROVE Same
  BY <1>1 DEF Arrive, Check, Select, Answer, open, IInv, TypeOK, Requests, Goto
<1>2. ASSUME NEW a \in Adds, Insert(a) PROVE Step
  <2>1. CASE rows # {}
    <3>1. Same
      BY <1>2, <2>1 DEF Insert, open, IInv, TypeOK, Requests, Goto
    <3>2. QED
      BY <3>1, <1>0
  <2>2. CASE rows = {}
    <3>1. claims = {} /\ claims' = {a} /\ rows' = rows
      BY <1>2, <2>2 DEF Insert, open, IInv, TypeOK, Requests, Goto
    <3>2. Slot!Claim(a)
      BY <3>1, <2>2 DEF Slot!Claim
    <3>3. QED
      BY <3>2 DEF Slot!Next
  <2>3. QED
    BY <2>1, <2>2
<1>3. ASSUME NEW a \in Adds, StoreFails(a) PROVE Step
  <2>1. a \in claims /\ claims' = claims \ {a} /\ rows' = rows
    BY <1>3 DEF StoreFails, open, IInv, TypeOK, Requests, Goto
  <2>2. Slot!Drop(a)
    BY <2>1 DEF Slot!Drop
  <2>3. QED
    BY <2>2 DEF Slot!Next
<1>4. ASSUME NEW d \in Removes, Find(d) \/ Delete(d) PROVE Same
  BY <1>4 DEF Find, Delete, open, IInv, TypeOK, Requests, Goto
<1>5. ASSUME NEW a \in Adds, Commit(a) \/ CommitFails(a) PROVE Step
  <2>1. a \in claims /\ claims' = claims \ {a}
    BY <1>5 DEF Commit, CommitFails, open, IInv, TypeOK, Requests, Goto
  <2>2. rows = {} \/ rows = {a}
    BY <2>1 DEF IInv, AtMostOne, occupied
  <2>3. rows' = rows \/ rows' = rows \cup {a}
    BY <1>5 DEF Commit, CommitFails, Written
  <2>4. Slot!Keep(a) \/ Slot!Drop(a)
    BY <2>1, <2>2, <2>3 DEF Slot!Keep, Slot!Drop
  <2>5. QED
    BY <2>4 DEF Slot!Next
<1>6. ASSUME NEW d \in Removes, Commit(d) \/ CommitFails(d) PROVE Step
  <2>1. claims' = claims
    BY <1>6 DEF Commit, CommitFails, open, IInv, TypeOK, Requests, Goto
  <2>2. rows' = rows \/ rows' = rows \ found[d]
    BY <1>6 DEF Commit, CommitFails, Written
  <2>3. CASE rows' = rows
    BY <2>1, <2>3, <1>0
  <2>4. CASE rows' # rows
    <3>1. PICK a \in rows : a \in found[d]
      BY <2>2, <2>4
    <3>2. rows = {a} /\ a \in Adds
      BY <3>1 DEF IInv, TypeOK, AtMostOne, occupied
    <3>3. Slot!Free(a)
      BY <2>1, <2>2, <2>4, <3>1, <3>2 DEF Slot!Free
    <3>4. QED
      BY <3>2, <3>3 DEF Slot!Next
  <2>5. QED
    BY <2>3, <2>4
<1>7. ASSUME NEW q \in Requests, Fail(q) PROVE Same
  BY <1>7 DEF Fail, open, IInv, TypeOK, Requests, Goto
<1>8. ASSUME NEW k \in Keys, Expire(k) PROVE Same
  BY <1>8 DEF Expire, open
<1>9. CASE UNCHANGED vars
  <2>1. Same
    BY <1>9 DEF vars, open
  <2>2. QED
    BY <2>1, <1>0
<1>10. QED
  BY <1>0, <1>1, <1>2, <1>3, <1>4, <1>5, <1>6, <1>7, <1>8, <1>9 DEF Next, Serve, Requests

\* The entry behaves as the value of a unique column, in every interleaving of
\* adds and removes and whatever fails: it is taken only while it is free, and a
\* row is never replaced by another.
THEOREM EntryIsASlot == Spec => SlotSpec
<1>1. Init => Slot!Init
  BY DEF Init, Slot!Init, open
<1>2. QED
  BY <1>1, SlotStep, WatchlistInvariant, PTL DEF Spec, SlotSpec, Slot!Spec

\* A user has a coin at most once in the watchlist, whatever overlaps or fails.
THEOREM EntryIsUnique == Spec => []NoDuplicates
<1>1. IInv => NoDuplicates
  <2> SUFFICES ASSUME AtMostOne PROVE Cardinality(occupied) <= 1
    BY DEF IInv, NoDuplicates, occupied
  <2>1. CASE occupied = {}
    <3>1. Cardinality(occupied) = 0
      BY <2>1, FS_EmptySet
    <3>2. QED
      BY <3>1
  <2>2. CASE occupied # {}
    <3>1. PICK a \in occupied : TRUE
      BY <2>2
    <3>2. occupied = {a}
      BY <3>1 DEF AtMostOne
    <3>3. Cardinality(occupied) = 1
      BY <3>2, FS_Singleton
    <3>4. QED
      BY <3>3
  <2>3. QED
    BY <2>1, <2>2
<1>2. QED
  BY WatchlistInvariant, <1>1, PTL

\* An add that arrives after another of its key was answered inserts nothing
\* while that response is stored.
THEOREM RetriesAreSafe == Spec => []RetryInsertsNothing
<1>1. IInv => RetryInsertsNothing
  BY DEF IInv
<1>2. QED
  BY WatchlistInvariant, <1>1, PTL

\* A stored response reports a row that is there, about to be, or gone.
THEOREM ReplaysAreExplained == Spec => []ReplayIsExplained
<1>1. IInv => ReplayIsExplained
  BY DEF IInv
<1>2. QED
  BY WatchlistInvariant, <1>1, PTL
=============================================================================
