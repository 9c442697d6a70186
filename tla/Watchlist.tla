------------------------------ MODULE Watchlist ------------------------------
(***************************************************************************)
(* The entry of one coin in one user's watchlist: POST and DELETE          *)
(* (app/api/v1/endpoints/watchlist.py) over PostgreSQL, which keeps a row  *)
(* per entry, and over the stored responses of app/core/idempotency.py.    *)
(* A session sees committed rows only; get_db (app/db/database.py) commits *)
(* it after the response has been sent, or rolls it back.                  *)
(*                                                                         *)
(* An add is also the name of the row it creates (its UUID).               *)
(***************************************************************************)
EXTENDS Integers, FiniteSets

CONSTANTS
    Adds,      \* the POST requests
    Removes,   \* the DELETE requests
    Keys,      \* Idempotency-Key values
    NoKey,     \* a request without the header
    KeyOf      \* the header of each add

ASSUME RequestsAssumption == Adds \cap Removes = {}
ASSUME NoKeyAssumption == NoKey \notin Keys
ASSUME KeyOfAssumption == KeyOf \in [Adds -> Keys \cup {NoKey}]

VARIABLES
    pc,       \* where each request is
    rows,     \* the committed rows of the entry
    found,    \* the rows each remove has read
    stored,   \* the rows the response stored for each key reports, {}: none
    promise,  \* history: keys one of whose adds was answered, while that is stored
    late,     \* history: adds that arrived while there was such a promise
    gone      \* history: rows that were removed, or lost when their add failed

vars == <<pc, rows, found, stored, promise, late, gone>>

Requests == Adds \cup Removes

\* The mutant of a session that is never rolled back after a failure.
openUnlessCommitted ==
    {q \in Requests : pc[q] \in {"store", "commit"} \/ (q \in gone /\ pc[q] = "done")}

\* Requests that hold the entry: an INSERT, or the DELETE of a row that was
\* there, whose transaction has not ended.
open == {q \in Requests : \/ q \in Adds /\ pc[q] \in {"store", "commit"}
                          \/ q \in Removes /\ pc[q] = "commit" /\ found[q] \subseteq rows}

Goto(q, place) == pc' = [pc EXCEPT ![q] = place]

Init == /\ pc = [q \in Requests |-> "new"]
        /\ rows = {}
        /\ found = [d \in Removes |-> {}]
        /\ stored = [k \in Keys |-> {}]
        /\ promise = {} /\ late = {} /\ gone = {}
-----------------------------------------------------------------------------
(* POST.                                                                   *)

Arrive(a) == /\ pc[a] = "new"
             /\ Goto(a, "check")
             /\ late' = IF KeyOf[a] \in promise THEN late \cup {a} ELSE late
             /\ UNCHANGED <<rows, found, stored, promise, gone>>

\* check_idempotency: a stored response is the answer.
Check(a) == /\ pc[a] = "check"
            /\ Goto(a, IF \E k \in Keys : k = KeyOf[a] /\ stored[k] # {} THEN "done"
                                                                     ELSE "select")
            /\ UNCHANGED <<rows, found, stored, promise, late, gone>>

\* The mutant that stores the response before the row is inserted.
SelectStoring(a) == /\ pc[a] = "select"
                    /\ Goto(a, IF rows # {} THEN "done" ELSE "insert")
                    /\ stored' = [k \in Keys |-> IF k = KeyOf[a] /\ rows = {} THEN {a}
                                                 ELSE stored[k]]
                    /\ UNCHANGED <<rows, found, promise, late, gone>>

\* get_item: 409 for an entry that is there.
Select(a) == /\ pc[a] = "select"
             /\ Goto(a, IF rows # {} THEN "done" ELSE "insert")
             /\ UNCHANGED <<rows, found, stored, promise, late, gone>>

\* The mutant of a table without uq_user_crypto.
InsertUnconstrained(a) == /\ pc[a] = "insert"
                          /\ Goto(a, "store")
                          /\ UNCHANGED <<rows, found, stored, promise, late, gone>>

\* The INSERT waits for a transaction that has inserted or deleted the entry;
\* then uq_user_crypto refuses a second row: IntegrityError, 500.
Insert(a) == /\ pc[a] = "insert"
             /\ open = {}
             /\ Goto(a, IF rows # {} THEN "done" ELSE "store")
             /\ UNCHANGED <<rows, found, stored, promise, late, gone>>

\* The mutant that answers before it has stored the response.
AnswerFirst(a) == /\ pc[a] = "store"
                  /\ promise' = promise \cup {KeyOf[a]}
                  /\ Goto(a, "commit")
                  /\ UNCHANGED <<rows, found, stored, late, gone>>

\* store_idempotency, then 201.
Answer(a) == /\ pc[a] = "store"
             /\ IF KeyOf[a] \in Keys
                THEN /\ stored' = [stored EXCEPT ![KeyOf[a]] = {a}]
                     /\ promise' = promise \cup {KeyOf[a]}
                ELSE UNCHANGED <<stored, promise>>
             /\ Goto(a, "commit")
             /\ UNCHANGED <<rows, found, late, gone>>

\* Redis fails under store_idempotency, which may have taken effect: rollback.
StoreFails(a) == /\ pc[a] = "store"
                 /\ \/ UNCHANGED stored
                    \/ KeyOf[a] \in Keys /\ stored' = [stored EXCEPT ![KeyOf[a]] = {a}]
                 /\ gone' = gone \cup {a}
                 /\ Goto(a, "done")
                 /\ UNCHANGED <<rows, found, promise, late>>
-----------------------------------------------------------------------------
(* DELETE.                                                                 *)

\* The mutant that deletes without looking whether there is a row.
FindUnchecked(d) == /\ pc[d] = "new"
                    /\ found' = [found EXCEPT ![d] = rows]
                    /\ Goto(d, "delete")
                    /\ UNCHANGED <<rows, stored, promise, late, gone>>

\* get_item: 404 when there is no row.
Find(d) == /\ pc[d] = "new"
           /\ found' = [found EXCEPT ![d] = rows]
           /\ Goto(d, IF rows = {} THEN "done" ELSE "delete")
           /\ UNCHANGED <<rows, stored, promise, late, gone>>

\* The DELETE waits for another that has deleted the row, and is content when
\* the row is gone then.
Delete(d) == /\ pc[d] = "delete"
             /\ \A e \in open \cap Removes : found[e] # found[d]
             /\ Goto(d, "commit")
             /\ UNCHANGED <<rows, found, stored, promise, late, gone>>
-----------------------------------------------------------------------------
Written(q) == IF q \in Adds THEN rows \cup {q} ELSE rows \ found[q]

Commit(q) == /\ pc[q] = "commit"
             /\ rows' = Written(q)
             /\ gone' = gone \cup (rows \ rows')
             /\ Goto(q, "done")
             /\ UNCHANGED <<found, stored, promise, late>>

\* The COMMIT fails or its answer is lost: the client has its 201 or 204.
CommitFails(q) == /\ pc[q] = "commit"
                  /\ rows' \in {rows, Written(q)}
                  /\ gone' = gone \cup (rows \ rows') \cup (({q} \cap Adds) \ rows')
                  /\ Goto(q, "done")
                  /\ UNCHANGED <<found, stored, promise, late>>

\* Redis or PostgreSQL fails under a request that has written nothing yet, or
\* the client goes away.
Fail(q) == /\ pc[q] \in {"check", "select", "insert", "delete"}
           /\ Goto(q, "done")
           /\ UNCHANGED <<rows, found, stored, promise, late, gone>>

\* The stored response's 24 hours are over.
Expire(k) == /\ stored[k] # {}
             /\ stored' = [stored EXCEPT ![k] = {}]
             /\ promise' = promise \ {k}
             /\ late' = {a \in late : KeyOf[a] # k}
             /\ UNCHANGED <<pc, rows, found, gone>>

Serve(q) == \/ q \in Adds /\ (Check(q) \/ Select(q) \/ Insert(q) \/ Answer(q) \/ StoreFails(q))
            \/ q \in Removes /\ Delete(q)
            \/ Commit(q) \/ CommitFails(q)

Next == \/ \E a \in Adds : Arrive(a)
        \/ \E d \in Removes : Find(d)
        \/ \E q \in Requests : Serve(q) \/ Fail(q)
        \/ \E k \in Keys : Expire(k)

Spec == Init /\ [][Next]_vars

\* A request that has arrived is served: PostgreSQL and Redis answer or fail.
FairSpec == Spec /\ \A q \in Requests : WF_vars(Serve(q))
-----------------------------------------------------------------------------
\* Every variable keeps its type; a remove goes on only with a row it has read.
TypeOK == /\ pc \in [Requests -> {"new", "check", "select", "insert", "delete",
                                  "store", "commit", "done"}]
          /\ rows \subseteq Adds
          /\ found \in [Removes -> SUBSET Adds]
          /\ \A d \in Removes : pc[d] \in {"delete", "commit"} => found[d] # {}
          /\ stored \in [Keys -> SUBSET Adds]
          /\ promise \subseteq Keys
          /\ late \subseteq Adds /\ gone \subseteq Adds

\* A user has a coin at most once in the watchlist, however adds that have all
\* found no entry interleave with each other and with removes, and an add that
\* was answered 201 keeps its place until it is committed (watchlist.py lines
\* 54-66, models/watchlist.py line 19).
NoDuplicates == Cardinality(rows \cup (open \cap Adds)) <= 1

\* What uq_user_crypto promises of the entry, step by step (UniqueSlot).
Slot == INSTANCE UniqueSlot WITH Claimants <- Adds, claims <- open \cap Adds, entries <- rows
SlotSpec == Slot!Spec

\* "safely retry without creating duplicate watchlist entries" (watchlist.py
\* lines 42-43): an add that arrives after another of its key was answered
\* inserts nothing while that response is stored.
RetryInsertsNothing == \A a \in late : pc[a] \in {"check", "done"}

\* A stored response reports a row that is there or about to be committed,
\* or one that a remove took or a failure lost; never one that uq_user_crypto
\* refused (lines 59-65, database.py lines 31-36).
ReplayIsExplained ==
    \A k \in Keys : stored[k] \subseteq rows \cup gone \cup open

\* Every request ends, whichever transaction it waits for.
RequestsEnd == \A q \in Requests : (pc[q] \notin {"new", "done"}) ~> (pc[q] = "done")
=============================================================================
