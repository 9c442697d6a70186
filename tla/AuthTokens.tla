------------------------------ MODULE AuthTokens ------------------------------
(***************************************************************************)
(* One user's account and refresh token: AuthService (app/services/        *)
(* auth_service.py) over UserRepository, whose sessions get_db commits     *)
(* after the response has been sent.  A session sees committed rows only.  *)
(*                                                                         *)
(* A refresh token is the second it was issued in: its claims are the      *)
(* user, the type and an expiry without fractions, so that two tokens of   *)
(* one second are the same string.  Seconds are bounded by MaxSecond, well *)
(* within the token's seven days.                                          *)
(***************************************************************************)
EXTENDS Integers, FiniteSets

CONSTANTS
    Registers,   \* POST /auth/register for one e-mail address
    Logins,      \* POST /auth/login with its password
    Refreshes,   \* POST /auth/refresh with one of its tokens
    MaxSecond

ASSUME KindsAssumption == /\ Registers \cap (Logins \cup Refreshes) = {}
                          /\ Logins \cap Refreshes = {}
ASSUME MaxSecondAssumption == MaxSecond \in Nat \ {0}

VARIABLES
    second,     \* the clock
    pc,         \* where each request is
    accounts,   \* the committed rows of users with the address, by register
    stored,     \* users.refresh_token, committed; 0: NULL
    seen,       \* the refresh_token each request has loaded with the user
    token,      \* the refresh token each request has created
    sent,       \* the refresh tokens clients have been given
    dead        \* history: tokens that a committed one has replaced

vars == <<second, pc, accounts, stored, seen, token, sent, dead>>

Tokens == 1..MaxSecond
Sessions == Logins \cup Refreshes
Requests == Registers \cup Sessions

Goto(q, place) == pc' = [pc EXCEPT ![q] = place]

\* SQLAlchemy emits no UPDATE when the token equals the one it has loaded.
Changed(s) == token[s] # seen[s]

\* Requests that hold the user's row until their transaction ends.
open == {q \in Requests : pc[q] \in {"respond", "commit"} /\ (q \in Sessions => Changed(q))}

Init == /\ second = 1
        /\ pc = [q \in Requests |-> "new"]
        /\ accounts = {}
        /\ stored = 0
        /\ seen = [s \in Sessions |-> 0] /\ token = [s \in Sessions |-> 0]
        /\ sent = {} /\ dead = {}
-----------------------------------------------------------------------------
(* register                                                                *)

\* 409 when get_by_email finds a row.
FindFree(g) == /\ pc[g] = "new"
               /\ Goto(g, IF accounts = {} THEN "insert" ELSE "done")
               /\ UNCHANGED <<second, accounts, stored, seen, token, sent, dead>>

\* The mutant of a column that is not unique.
CreateAnyway(g) == /\ pc[g] = "insert"
                   /\ Goto(g, "respond")
                   /\ UNCHANGED <<second, accounts, stored, seen, token, sent, dead>>

\* create: the INSERT waits for that of another register, and fails when the
\* address is taken by then.
Create(g) == /\ pc[g] = "insert"
             /\ open \cap Registers = {}
             /\ Goto(g, IF accounts = {} THEN "respond" ELSE "done")
             /\ UNCHANGED <<second, accounts, stored, seen, token, sent, dead>>
-----------------------------------------------------------------------------
(* login and refresh                                                       *)

\* The mutant whose expiry is rounded up instead of cut.
IssueRounded(s) == /\ pc[s] = "new"
                   /\ accounts # {}
                   /\ seen' = [seen EXCEPT ![s] = stored]
                   /\ token' = [token EXCEPT ![s] = second + 1]
                   /\ Goto(s, "update")
                   /\ UNCHANGED <<second, accounts, stored, sent, dead>>

\* The user is loaded and a token of this second made.
Issue(s) == /\ pc[s] = "new"
            /\ accounts # {}
            /\ seen' = [seen EXCEPT ![s] = stored]
            /\ token' = [token EXCEPT ![s] = second]
            /\ Goto(s, "update")
            /\ UNCHANGED <<second, accounts, stored, sent, dead>>

Login(s) == s \in Logins /\ Issue(s)

\* The mutant that trusts the signature and the type alone.
RefreshUnchecked(s, t) == s \in Refreshes /\ t \in sent /\ Issue(s)

\* The token presented is the stored one; any other is refused (Refuse).
Refresh(s, t) == /\ s \in Refreshes
                 /\ t \in sent /\ t = stored
                 /\ Issue(s)

Refuse(s, t) == /\ s \in Refreshes
                /\ pc[s] = "new"
                /\ t \in sent /\ t # stored
                /\ Goto(s, "done")
                /\ UNCHANGED <<second, accounts, stored, seen, token, sent, dead>>

\* The mutant that takes the row's lock and waits for it at the same time.
UpdateTwice(s) == /\ pc[s] = "update"
                  /\ \A q \in Sessions \ {s} : pc[q] \notin {"update", "respond", "commit"}
                  /\ Goto(s, "respond")
                  /\ UNCHANGED <<second, accounts, stored, seen, token, sent, dead>>

\* The mutant that commits the UPDATE before the response is sent.
UpdateCommitting(s) == /\ pc[s] = "update"
                       /\ Changed(s) => open \cap Sessions = {}
                       /\ Goto(s, "commit")
                       /\ UNCHANGED <<second, accounts, stored, seen, token, sent, dead>>

\* update_refresh_token: the UPDATE waits for the lock of the user's row.
Update(s) == /\ pc[s] = "update"
             /\ Changed(s) => open \cap Sessions = {}
             /\ Goto(s, "respond")
             /\ UNCHANGED <<second, accounts, stored, seen, token, sent, dead>>
-----------------------------------------------------------------------------
(* All three: the response, then the commit.                               *)

Respond(q) == /\ pc[q] = "respond"
              /\ sent' = IF q \in Sessions THEN sent \cup {token[q]} ELSE sent
              /\ Goto(q, "commit")
              /\ UNCHANGED <<second, accounts, stored, seen, token, dead>>

Effect(q) ==
    /\ accounts' = IF q \in Registers THEN accounts \cup {q} ELSE accounts
    /\ stored' = IF q \in Sessions /\ Changed(q) THEN token[q] ELSE stored
    /\ dead' = IF stored' # stored THEN dead \cup {stored} ELSE dead

Commit(q) == /\ pc[q] = "commit"
             /\ Effect(q)
             /\ Goto(q, "done")
             /\ UNCHANGED <<second, seen, token, sent>>

\* PostgreSQL fails, or the process dies: rollback.  A COMMIT whose answer is
\* lost has taken effect; that is a Commit.
Fail(q) == /\ pc[q] \in {"insert", "update", "respond", "commit"}
           /\ Goto(q, "done")
           /\ UNCHANGED <<second, accounts, stored, seen, token, sent, dead>>

Tick == /\ second < MaxSecond
        /\ second' = second + 1
        /\ UNCHANGED <<pc, accounts, stored, seen, token, sent, dead>>

Serve(q) == \/ q \in Registers /\ Create(q)
            \/ q \in Sessions /\ Update(q)
            \/ Respond(q) \/ Commit(q)

Next == \/ \E g \in Registers : FindFree(g)
        \/ \E s \in Sessions : Login(s) \/ \E t \in Tokens : Refresh(s, t) \/ Refuse(s, t)
        \/ \E q \in Requests : Serve(q) \/ Fail(q)
        \/ Tick

Spec == Init /\ [][Next]_vars

\* A request that has arrived is served: PostgreSQL answers or fails.
FairSpec == Spec /\ \A q \in Requests : WF_vars(Serve(q))
-----------------------------------------------------------------------------
\* Every variable keeps its type; no token is from the future.
TypeOK == /\ second \in Tokens
          /\ pc \in [Requests -> {"new", "insert", "update", "respond", "commit", "done"}]
          /\ accounts \subseteq Registers
          /\ stored \in 0..second
          /\ seen \in [Sessions -> 0..second] /\ token \in [Sessions -> 0..second]
          /\ sent \subseteq 1..second /\ dead \subseteq 0..second

\* One account per address, however registrations that have all found it free
\* interleave; one that was answered 201 keeps the address (auth_service.py
\* lines 25-27, models/user.py line 20).
OneAccount == Cardinality(accounts \cup (open \cap Registers)) <= 1

\* What the unique column promises of the address, step by step (UniqueSlot).
Slot == INSTANCE UniqueSlot
        WITH Claimants <- Registers, claims <- open \cap Registers, entries <- accounts
SlotSpec == Slot!Spec

\* The token that is accepted is one a client has been given, whichever of the
\* requests that overlap fails, and when: no session is ended by a token nobody
\* has (auth_service.py lines 48-62; get_db commits after the response).
StoredIsSent == stored # 0 => stored \in sent

\* Rotation (auth_service.py lines 54-62): a token that a later login or refresh
\* has replaced is never accepted again, whatever overlaps and whatever fails,
\* unless two sessions were given the same token within one second.
ReplacedIsRefused ==
    [][\A s \in Refreshes, t \in Tokens : Refresh(s, t) =>
           \/ t \notin dead
           \/ \E p, q \in Sessions : p # q /\ token[p] = t /\ token[q] = t]_vars

\* Every request ends, whichever transaction it waits for.
RequestsEnd == \A q \in Requests : (pc[q] \notin {"new", "done"}) ~> (pc[q] = "done")
=============================================================================
