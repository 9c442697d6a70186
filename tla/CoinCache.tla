------------------------------ MODULE CoinCache ------------------------------
(***************************************************************************)
(* The coins in PostgreSQL and the entries Redis keeps of them: API reads  *)
(* (CryptoService), the on-demand refresh (CryptoService.refresh, called   *)
(* and committed by the refresh endpoint) and the scheduled worker         *)
(* (_fetch_and_store_page), none of which waits for the others' Redis      *)
(* steps.                                                                  *)
(*                                                                         *)
(* Prices are abstracted to the version of CoinGecko's market they came    *)
(* from: 1 is the first, 0 stands for no entry.  A time to live runs out   *)
(* at any moment.  The entries "list", "detail" and "movers" stand for     *)
(* coins:list:*, coins:detail:* and coins:top_movers:*.                    *)
(***************************************************************************)
EXTENDS Integers

CONSTANTS
    Readers,    \* API requests that may read at once
    Tasks,      \* on-demand refreshes that may run at once
    Worker,     \* the scheduled worker, which runs one at a time
    MaxMarket   \* bound on how often CoinGecko's prices change

ASSUME WorkerAssumption == Worker \notin Tasks
ASSUME MaxMarketAssumption == MaxMarket \in Nat \ {0}

VARIABLES
    market,   \* the prices CoinGecko has now
    rows,     \* the committed prices in PostgreSQL
    cache,    \* the entry of each key, 0: none
    pc,       \* what each writer does next
    got,      \* the prices each writer fetched, 0 once a task has committed
    reading,  \* the entry each reader is filling, and what it selected
    excused   \* history: entries that were stored behind a writer's back

coinVars == <<market, rows, cache, pc, got, reading, excused>>

Writers == Tasks \cup {Worker}
Versions == 1..MaxMarket
Keys == {"list", "detail", "movers"}
NotReading == [key |-> "none", seen |-> 0]
Steps == {"fetch", "upsert", "commit"} \cup Keys

\* The mutant of a refresh that leaves the detail entries alone.
TaskStepsButDetail == [fetch |-> "upsert", upsert |-> "list", list |-> "movers",
                       movers |-> "commit", commit |-> "saved"]

\* refresh() deletes every entry before its caller commits.
TaskSteps == [fetch |-> "upsert", upsert |-> "list", list |-> "detail",
              detail |-> "movers", movers |-> "commit", commit |-> "saved"]

\* The worker commits first, writes the details through and deletes the lists.
WorkerSteps == [fetch |-> "upsert", upsert |-> "commit", commit |-> "detail",
                detail |-> "list", list |-> "movers", movers |-> "fetch"]

After(w, step) == IF w = Worker THEN WorkerSteps[step] ELSE TaskSteps[step]

\* What a writer has yet to do once it has upserted, the current step included.
Ahead(w) == LET order == IF w = Worker THEN <<"commit", "detail", "list", "movers">>
                                       ELSE <<"list", "detail", "movers", "commit">>
            IN {order[j] : j \in {j \in 1..4 : \E i \in 1..j : order[i] = pc[w]}}

\* Writers with an upsert that is not committed: they hold the rows' locks.
open == {w \in Writers : "commit" \in Ahead(w)}

\* What w fetched is not needed any more.
Forget(w) == [got EXCEPT ![w] = 1]

Goto(w, step) == pc' = [pc EXCEPT ![w] = step]

\* An entry is stored.  It may be behind the rows from now on if it is already,
\* or if a transaction that is still open has passed the point where it
\* deletes the key.
Put(k, v) ==
    /\ cache' = [cache EXCEPT ![k] = v]
    /\ excused' = IF v # rows \/ \E w \in open : k \notin Ahead(w)
                  THEN excused \cup {k} ELSE excused \ {k}

Drop(k) == /\ cache' = [cache EXCEPT ![k] = 0]
           /\ excused' = excused \ {k}

CoinInit == /\ market = 1 /\ rows = 1
            /\ cache = [k \in Keys |-> 0]
            /\ pc = [w \in Writers |-> IF w = Worker THEN "fetch" ELSE "idle"]
            /\ got = [w \in Writers |-> 1]
            /\ reading = [r \in Readers |-> NotReading]
            /\ excused = {}
-----------------------------------------------------------------------------
(* A read: get_all, get_by_id, get_top_movers.  A hit changes nothing.     *)

Miss(r, k) == /\ reading[r] = NotReading
              /\ cache[k] = 0
              /\ reading' = [reading EXCEPT ![r] = [key |-> k, seen |-> 0]]
              /\ UNCHANGED <<market, rows, cache, pc, got, excused>>

Select(r) == /\ reading[r].key # "none" /\ reading[r].seen = 0
             /\ reading' = [reading EXCEPT ![r].seen = rows]
             /\ UNCHANGED <<market, rows, cache, pc, got, excused>>

Store(r) == /\ reading[r].seen # 0
            /\ Put(reading[r].key, reading[r].seen)
            /\ reading' = [reading EXCEPT ![r] = NotReading]
            /\ UNCHANGED <<market, rows, pc, got>>

\* NotFoundError, an error of PostgreSQL or Redis, or the process dies.
Abandon(r) == /\ reading[r] # NotReading
              /\ reading' = [reading EXCEPT ![r] = NotReading]
              /\ UNCHANGED <<market, rows, cache, pc, got, excused>>
-----------------------------------------------------------------------------
(* The writers.  The worker goes from one attempt, page or run to the next; *)
(* a task is begun and ended by the endpoint.                              *)

Begin(t) == /\ pc[t] = "idle"
            /\ Goto(t, "fetch")
            /\ UNCHANGED <<market, rows, cache, got, reading, excused>>

End(t) == /\ pc[t] \in {"saved", "raised"}
          /\ Goto(t, "idle")
          /\ got' = Forget(t)
          /\ UNCHANGED <<market, rows, cache, reading, excused>>

Fetch(w) == /\ pc[w] = "fetch"
            /\ got' = [got EXCEPT ![w] = market]
            /\ Goto(w, After(w, "fetch"))
            /\ UNCHANGED <<market, rows, cache, reading, excused>>

\* INSERT ... ON CONFLICT DO UPDATE waits for the locks of the rows.
UpsertMany(w) == /\ pc[w] = "upsert"
                 /\ open = {}
                 /\ Goto(w, After(w, "upsert"))
                 /\ UNCHANGED <<market, rows, cache, got, reading, excused>>

Commit(w) == /\ pc[w] = "commit"
             /\ rows' = got[w]
             /\ Goto(w, After(w, "commit"))
             /\ got' = IF w = Worker THEN got ELSE [got EXCEPT ![w] = 0]
             /\ UNCHANGED <<market, cache, reading, excused>>

\* cache_delete_pattern and _scan_delete, one pattern at a time.
DeletePattern(w, k) == /\ pc[w] = k
                       /\ w # Worker \/ k # "detail"
                       /\ Drop(k)
                       /\ Goto(w, After(w, k))
                       /\ UNCHANGED <<market, rows, got, reading>>

\* The worker stores what it fetched, whatever the rows hold by now.
WriteThrough == /\ pc[Worker] = "detail"
                /\ Put("detail", got[Worker])
                /\ Goto(Worker, After(Worker, "detail"))
                /\ got' = Forget(Worker)
                /\ UNCHANGED <<market, rows, reading>>

\* A call fails: what is not committed is rolled back.  A COMMIT may have taken
\* effect although its answer was lost.  A worker that stops after its commit
\* leaves the entries it had not come to.
Raise(w) == /\ pc[w] \in Steps
            /\ rows' \in IF pc[w] = "commit" THEN {rows, got[w]} ELSE {rows}
            /\ excused' = IF w = Worker THEN excused \cup (Ahead(w) \cap Keys) ELSE excused
            /\ Goto(w, IF w = Worker THEN "fetch" ELSE "raised")
            /\ got' = Forget(w)
            /\ UNCHANGED <<market, cache, reading>>
-----------------------------------------------------------------------------
(* The environment.                                                        *)

PricesMove == /\ market < MaxMarket
              /\ market' = market + 1
              /\ UNCHANGED <<rows, cache, pc, got, reading, excused>>

Expire(k) == /\ cache[k] # 0
             /\ Drop(k)
             /\ UNCHANGED <<market, rows, pc, got, reading>>
-----------------------------------------------------------------------------
WriterStep(w) == \/ Fetch(w) \/ UpsertMany(w) \/ Commit(w)
                 \/ \E k \in Keys : DeletePattern(w, k)
                 \/ w = Worker /\ WriteThrough

\* What happens besides the tasks, which the refresh endpoint starts and ends.
Others == \/ \E r \in Readers : Store(r) \/ Select(r) \/ Abandon(r) \/ \E k \in Keys : Miss(r, k)
          \/ \E w \in Writers : WriterStep(w) \/ Raise(w)
          \/ \E k \in Keys : Expire(k)
          \/ PricesMove
-----------------------------------------------------------------------------
\* Every variable keeps its type.
CoinTypeOK == /\ market \in Versions /\ rows \in Versions
              /\ cache \in [Keys -> 0..MaxMarket]
              /\ pc \in [Writers -> Steps \cup {"idle", "saved", "raised"}]
              /\ got \in [Writers -> 0..MaxMarket]
              /\ reading \in [Readers -> [key : Keys \cup {"none"}, seen : 0..MaxMarket]]
              /\ excused \subseteq Keys

\* Redis answers with prices PostgreSQL no longer has only for an entry that a
\* reader (or the write-through) filled while a refresh was past deleting it,
\* and for entries a worker that has committed comes to next
\* (crypto_service.py lines 96-98, refresh_job.py lines 101-138).
StaleIsExplained ==
    \A k \in Keys : cache[k] \notin {0, rows}
        => k \in excused \/ (Worker \notin open /\ k \in Ahead(Worker))
=============================================================================
