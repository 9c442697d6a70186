-------------------------- MODULE AuthTokensProofs --------------------------
(***************************************************************************)
(* Proofs about AuthTokens, for any number of requests and any stretch of  *)
(* time: the variables keep their types, the address behaves as UniqueSlot *)
(* and so has one account, rotation refuses a replaced token unless two    *)
(* sessions were given the same one, and the token that is accepted is one *)
(* a client was given.                                                     *)
(***************************************************************************)
EXTENDS AuthTokens, FiniteSetTheorems, TLAPS

\* The accounts of the address, committed or waiting for their commit.
taken == accounts \cup (open \cap Registers)
AtMostOne == \A g, h \in taken : g = h

\* A token is of the second its session was served in, or was not made yet.
TokenMade == \A s \in Sessions :
    pc[s] \in {"update", "respond", "commit"} => token[s] # 0

\* Every token that is or was the stored one is that of a session that is over,
\* and one that was replaced and is stored again is that of two.
Over(s, t) == s \in Sessions /\ pc[s] = "done" /\ token[s] = t
HasSession == \A t \in Tokens : t = stored \/ t \in dead => \E s \in Sessions : Over(s, t)
TwiceHasTwo == \A t \in Tokens : t = stored /\ t \in dead
                   => \E p, q \in Sessions : p # q /\ Over(p, t) /\ Over(q, t)

IInv == TypeOK /\ AtMostOne /\ TokenMade /\ HasSession /\ TwiceHasTwo

LEMMA ConstantsFact == /\ Registers \cap Sessions = {}
                       /\ Logins \cap Refreshes = {}
                       /\ MaxSecond \in Nat \ {0}
  BY KindsAssumption, MaxSecondAssumption DEF Sessions

LEMMA InitIInv == Init => IInv
  BY ConstantsFact
  DEF Init, IInv, TypeOK, AtMostOne, taken, open, TokenMade, HasSession, TwiceHasTwo,
      Tokens, Requests, Changed

LEMMA TypeStep == IInv /\ [Next]_vars => TypeOK' /\ TokenMade'
<1> SUFFICES ASSUME IInv, [Next]_vars PROVE TypeOK' /\ TokenMade'
  OBVIOUS
<1> USE ConstantsFact DEF IInv, TypeOK, TokenMade, Requests, Tokens, Goto
<1>1. ASSUME NEW g \in Registers, FindFree(g) \/ Create(g) PROVE TypeOK' /\ TokenMade'
  BY <1>1 DEF FindFree, Create
<1>2. ASSUME NEW s \in Sessions, Issue(s) PROVE TypeOK' /\ TokenMade'
  BY <1>2 DEF Issue
<1>3. ASSUME NEW s \in Sessions, NEW t \in Tokens, Refuse(s, t) PROVE TypeOK' /\ TokenMade'
  BY <1>3 DEF Refuse
<1>4. ASSUME NEW s \in Sessions, Update(s) PROVE TypeOK' /\ TokenMade'
  BY <1>4 DEF Update
<1>5. ASSUME NEW q \in Requests, Respond(q) PROVE TypeOK' /\ TokenMade'
  <2>1. pc[q] = "respond" /\ (q \in Sessions => token[q] \in 1..second)
    BY <1>5 DEF Respond
  <2>2. sent' \subseteq 1..second
    BY <1>5, <2>1 DEF Respond
  <2>3. QED
    BY <1>5, <2>1, <2>2 DEF Respond
<1>6. ASSUME NEW q \in Requests, Commit(q) PROVE TypeOK' /\ TokenMade'
  BY <1>6 DEF Commit, Effect
<1>7. ASSUME NEW q \in Requests, Fail(q) PROVE TypeOK' /\ TokenMade'
  BY <1>7 DEF Fail
<1>8. CASE Tick
  BY <1>8 DEF Tick
<1>9. CASE UNCHANGED vars
  BY <1>9 DEF vars
<1>10. QED
  BY <1>1, <1>2, <1>3, <1>4, <1>5, <1>6, <1>7, <1>8, <1>9
  DEF Next, Serve, Login, Refresh

\* Only Create takes the address, and only while nobody has it.
LEMMA TakenStep == IInv /\ [Next]_vars => AtMostOne'
<1> SUFFICES ASSUME IInv, [Next]_vars PROVE AtMostOne'
  OBVIOUS
<1> DEFINE Shrinks == taken' \subseteq taken
<1> USE ConstantsFact DEF IInv, TypeOK, Requests, Goto
<1>0. Shrinks => AtMostOne'
  BY DEF AtMostOne
<1>1. ASSUME NEW g \in Registers, FindFree(g) PROVE Shrinks
  BY <1>1 DEF FindFree, taken, open
<1>2. ASSUME NEW g \in Registers, Create(g) PROVE AtMostOne'
  <2>1. CASE accounts # {}
    <3>1. Shrinks
      BY <1>2, <2>1 DEF Create, taken, open
    <3>2. QED
      BY <3>1, <1>0
  <2>2. CASE accounts = {}
    <3>1. taken' \subseteq {g}
      BY <1>2, <2>2 DEF Create, taken, open
    <3>2. QED
      BY <3>1 DEF AtMostOne
  <2>3. QED
    BY <2>1, <2>2
<1>3. ASSUME NEW s \in Sessions, NEW t \in Tokens, Issue(s) \/ Refuse(s, t) \/ Update(s)
      PROVE Shrinks
  BY <1>3 DEF Issue, Refuse, Update, taken, open
<1>4. ASSUME NEW q \in Requests, Respond(q) PROVE Shrinks
  BY <1>4 DEF Respond, taken, open
<1>5. ASSUME NEW q \in Requests, Commit(q) PROVE Shrinks
  BY <1>5 DEF Commit, Effect, taken, open
<1>6. ASSUME NEW q \in Requests, Fail(q) PROVE Shrinks
  BY <1>6 DEF Fail, taken, open
<1>7. ASSUME Tick \/ UNCHANGED vars PROVE Shrinks
  BY <1>7 DEF Tick, vars, taken, open, Changed
<1>8. QED
  <2>1. 1 \in Tokens
    BY DEF Tokens
  <2>2. QED
    BY <1>0, <1>1, <1>2, <1>3, <1>4, <1>5, <1>6, <1>7, <2>1
    DEF Next, Serve, Login, Refresh

\* A commit that stores a token replaces another; the session whose token was
\* stored before is over, so it is not the one that commits.
LEMMA RotationStep == IInv /\ [Next]_vars => HasSession' /\ TwiceHasTwo'
<1> SUFFICES ASSUME IInv, [Next]_vars PROVE HasSession' /\ TwiceHasTwo'
  OBVIOUS
<1> DEFINE Stays == /\ UNCHANGED <<stored, dead>>
                    /\ \A s \in Sessions, t \in Tokens : Over(s, t) => Over(s, t)'
<1> USE ConstantsFact DEF IInv, TypeOK, Requests, Goto
<1>0. Stays => HasSession' /\ TwiceHasTwo'
  BY DEF HasSession, TwiceHasTwo
<1>1. ASSUME NEW g \in Registers, FindFree(g) \/ Create(g) PROVE Stays
  BY <1>1 DEF FindFree, Create, Over
<1>2. ASSUME NEW s \in Sessions, NEW t \in Tokens, Issue(s) \/ Refuse(s, t) \/ Update(s)
      PROVE Stays
  BY <1>2 DEF Issue, Refuse, Update, Over
<1>3. ASSUME NEW q \in Requests, Respond(q) \/ Fail(q) PROVE Stays
  BY <1>3 DEF Respond, Fail, Over
<1>4. ASSUME Tick \/ UNCHANGED vars PROVE Stays
  BY <1>4 DEF Tick, vars, Over
<1>5. ASSUME NEW q \in Requests, Commit(q) PROVE HasSession' /\ TwiceHasTwo'
  <2>1. \A s \in Sessions, t \in Tokens : Over(s, t) => Over(s, t)'
    BY <1>5 DEF Commit, Over
  <2>2. CASE stored' = stored
    BY <1>5, <2>1, <2>2 DEF Commit, Effect, HasSession, TwiceHasTwo
  <2>3. CASE stored' # stored
    <3>1. /\ q \in Sessions /\ stored' = token[q] /\ dead' = dead \cup {stored}
          /\ pc[q] = "commit"
      BY <1>5, <2>3 DEF Commit, Effect
    <3>2. \A t \in Tokens : t = stored' => Over(q, t)'
      BY <1>5, <3>1 DEF Commit, Over
    <3>3. HasSession'
      BY <2>1, <3>1, <3>2 DEF HasSession
    <3>4. ASSUME NEW t \in Tokens, t = stored', t \in dead'
          PROVE \E p, r \in Sessions : p # r /\ Over(p, t)' /\ Over(r, t)'
      <4>1. t \in dead
        BY <3>1, <3>4, <2>3
      <4>2. PICK p \in Sessions : Over(p, t)
        BY <4>1 DEF HasSession
      <4>3. p # q
        BY <4>2, <3>1 DEF Over
      <4>4. QED
        BY <4>2, <4>3, <2>1, <3>1, <3>2, <3>4
    <3>5. QED
      BY <3>3, <3>4 DEF TwiceHasTwo
  <2>4. QED
    BY <2>2, <2>3
<1>6. QED
  <2>1. 1 \in Tokens
    BY DEF Tokens
  <2>2. QED
    BY <1>0, <1>1, <1>2, <1>3, <1>4, <1>5, <2>1 DEF Next, Serve, Login, Refresh

\* IInv is inductive.
THEOREM TokensInvariant == Spec => []IInv
<1>1. IInv /\ [Next]_vars => IInv'
  BY TypeStep, TakenStep, RotationStep DEF IInv
<1>2. QED
  BY InitIInv, <1>1, PTL DEF Spec

\* Every variable keeps its type; no token is from the future.
THEOREM TokensTyped == Spec => []TypeOK
<1>1. IInv => TypeOK
  BY DEF IInv
<1>2. QED
  BY TokensInvariant, <1>1, PTL

\* A step of the three endpoints is a step of the slot or leaves it alone: an
\* INSERT claims it, the end of its transaction keeps or drops it, and sessions
\* never touch it.
LEMMA SlotStep == IInv /\ [Next]_vars => [Slot!Next]_(Slot!vars)
<1> SUFFICES ASSUME IInv, [Next]_vars PROVE [Slot!Next]_(Slot!vars)
  OBVIOUS
<1> DEFINE claims == open \cap Registers
           Step == [Slot!Next]_(Slot!vars)
           Same == claims' = claims /\ accounts' = accounts
<1> USE ConstantsFact DEF Requests
<1>0. Same => Step
  BY DEF Slot!vars
<1>1. ASSUME NEW g \in Registers, FindFree(g) PROVE Same
  BY <1>1 DEF FindFree, open, IInv, TypeOK, Goto
<1>2. ASSUME NEW g \in Registers, Create(g) PROVE Step
  <2>1. CASE accounts # {}
    <3>1. Same
      BY <1>2, <2>1 DEF Create, open, IInv, TypeOK, Goto
    <3>2. QED
      BY <3>1, <1>0
  <2>2. CASE accounts = {}
    <3>1. claims = {} /\ claims' = {g} /\ accounts' = accounts
      BY <1>2, <2>2 DEF Create, open, IInv, TypeOK, Goto
    <3>2. Slot!Claim(g)
      BY <3>1, <2>2 DEF Slot!Claim
    <3>3. QED
      BY <3>2 DEF Slot!Next
  <2>3. QED
    BY <2>1, <2>2
<1>3. ASSUME NEW s \in Sessions, NEW t \in Tokens, Issue(s) \/ Refuse(s, t) \/ Update(s)
      PROVE Same
  BY <1>3 DEF Issue, Refuse, Update, open, IInv, TypeOK, Goto
<1>4. ASSUME NEW q \in Requests, Respond(q) PROVE Same
  BY <1>4 DEF Respond, open, IInv, TypeOK, Goto
<1>5. ASSUME NEW g \in Registers, Commit(g) PROVE Step
  <2>1. g \in claims /\ claims' = claims \ {g}
    BY <1>5 DEF Commit, Effect, open, Changed, IInv, TypeOK, Goto
  <2>2. accounts \subseteq {g}
    BY <2>1 DEF IInv, AtMostOne, taken
  <2>3. accounts' = {g}
    BY <1>5, <2>2 DEF Commit, Effect
  <2>4. Slot!Keep(g)
    BY <2>1, <2>3 DEF Slot!Keep
  <2>5. QED
    BY <2>4 DEF Slot!Next
<1>6. ASSUME NEW s \in Sessions, Commit(s) PROVE Same
  BY <1>6 DEF Commit, Effect, open, IInv, TypeOK, Goto
<1>7. ASSUME NEW q \in Requests, Fail(q) PROVE Step
  <2>1. CASE q \in claims
    <3>1. claims' = claims \ {q} /\ accounts' = accounts
      BY <1>7, <2>1 DEF Fail, open, IInv, TypeOK, Goto
    <3>2. Slot!Drop(q)
      BY <2>1, <3>1 DEF Slot!Drop
    <3>3. QED
      BY <2>1, <3>2 DEF Slot!Next
  <2>2. CASE q \notin claims
    <3>1. Same
      BY <1>7, <2>2 DEF Fail, open, IInv, TypeOK, Goto
    <3>2. QED
      BY <3>1, <1>0
  <2>3. QED
    BY <2>1, <2>2
<1>8. ASSUME Tick \/ UNCHANGED vars PROVE Same
  BY <1>8 DEF Tick, vars, open, Changed
<1>9. QED
  <2>1. 1 \in Tokens
    BY DEF Tokens
  <2>2. QED
    BY <1>0, <1>1, <1>2, <1>3, <1>4, <1>5, <1>6, <1>7, <1>8, <2>1
    DEF Next, Serve, Login, Refresh

\* The address behaves as the value of a unique column, however registrations
\* interleave with each other and with sessions, and whatever fails.
THEOREM AddressIsASlot == Spec => SlotSpec
<1>1. Init => Slot!Init
  BY DEF Init, Slot!Init, open, Requests
<1>2. QED
  BY <1>1, SlotStep, TokensInvariant, PTL DEF Spec, SlotSpec, Slot!Spec

\* One account per address, however registrations interleave or fail.
THEOREM AccountIsUnique == Spec => []OneAccount
<1>1. IInv => OneAccount
  <2> SUFFICES ASSUME AtMostOne PROVE Cardinality(taken) <= 1
    BY DEF IInv, OneAccount, taken
  <2>1. CASE taken = {}
    <3>1. Cardinality(taken) = 0
      BY <2>1, FS_EmptySet
    <3>2. QED
      BY <3>1
  <2>2. CASE taken # {}
    <3>1. PICK g \in taken : TRUE
      BY <2>2
    <3>2. taken = {g}
      BY <3>1 DEF AtMostOne
    <3>3. Cardinality(taken) = 1
      BY <3>2, FS_Singleton
    <3>4. QED
      BY <3>3
  <2>3. QED
    BY <2>1, <2>2
<1>2. QED
  BY TokensInvariant, <1>1, PTL

\* Rotation: a replaced token is never accepted again, unless two sessions were
\* given the same token.
THEOREM RotationHolds == Spec => ReplacedIsRefused
<1> DEFINE Refused ==
      \A s \in Refreshes, t \in Tokens : Refresh(s, t) =>
          \/ t \notin dead
          \/ \E p, q \in Sessions : p # q /\ token[p] = t /\ token[q] = t
<1>1. IInv => Refused
  BY DEF IInv, TwiceHasTwo, Over, Refresh
<1>2. IInv => [Refused]_vars
  BY <1>1
<1>3. QED
  BY TokensInvariant, <1>2, PTL DEF ReplacedIsRefused
-----------------------------------------------------------------------------
\* What a transaction is about to store, or has stored, has been sent.
SentFirst == /\ StoredIsSent
             /\ \A s \in Sessions : pc[s] = "commit" => token[s] \in sent

LEMMA SentFirstStep == SentFirst /\ IInv /\ [Next]_vars => SentFirst'
<1> SUFFICES ASSUME SentFirst, IInv, [Next]_vars PROVE SentFirst'
  OBVIOUS
<1> DEFINE Kept == /\ UNCHANGED <<stored, sent>>
                   /\ \A s \in Sessions : pc'[s] = "commit"
                                            => pc[s] = "commit" /\ token'[s] = token[s]
<1> USE ConstantsFact DEF IInv, TypeOK, Requests, Goto
<1>0. Kept => SentFirst'
  BY DEF SentFirst, StoredIsSent
<1>1. ASSUME NEW g \in Registers, FindFree(g) \/ Create(g) PROVE Kept
  BY <1>1 DEF FindFree, Create
<1>2. ASSUME NEW s \in Sessions, NEW t \in Tokens, Issue(s) \/ Refuse(s, t) \/ Update(s)
      PROVE Kept
  BY <1>2 DEF Issue, Refuse, Update
<1>3. ASSUME NEW q \in Requests, Respond(q) PROVE SentFirst'
  <2>1. sent \subseteq sent' /\ (q \in Sessions => token[q] \in sent')
    BY <1>3 DEF Respond
  <2>2. \A s \in Sessions : pc'[s] = "commit" => s = q \/ pc[s] = "commit"
    BY <1>3 DEF Respond
  <2>3. QED
    BY <1>3, <2>1, <2>2 DEF Respond, SentFirst, StoredIsSent
<1>4. ASSUME NEW q \in Requests, Commit(q) PROVE SentFirst'
  <2>1. q \in Sessions => token[q] \in sent
    BY <1>4 DEF Commit, SentFirst
  <2>2. StoredIsSent'
    BY <1>4, <2>1 DEF Commit, Effect, SentFirst, StoredIsSent
  <2>3. \A s \in Sessions : pc'[s] = "commit" => pc[s] = "commit" /\ token'[s] = token[s]
    BY <1>4 DEF Commit
  <2>4. QED
    BY <1>4, <2>2, <2>3 DEF Commit, SentFirst
<1>5. ASSUME NEW q \in Requests, Fail(q) PROVE Kept
  BY <1>5 DEF Fail
<1>6. ASSUME Tick \/ UNCHANGED vars PROVE Kept
  BY <1>6 DEF Tick, vars
<1>7. QED
  <2>1. 1 \in Tokens
    BY DEF Tokens
  <2>2. QED
    BY <1>0, <1>1, <1>2, <1>3, <1>4, <1>5, <1>6, <2>1 DEF Next, Serve, Login, Refresh

\* The token that is accepted is always one a client has been given, whichever of
\* the sessions that overlap fails between its answer and its commit.
THEOREM AcceptedWasSent == Spec => []StoredIsSent
<1>1. Init => SentFirst
  BY ConstantsFact DEF Init, SentFirst, StoredIsSent, Requests
<1>2. SentFirst => StoredIsSent
  BY DEF SentFirst
<1>3. QED
  BY <1>1, <1>2, SentFirstStep, TokensInvariant, PTL DEF Spec
=============================================================================
