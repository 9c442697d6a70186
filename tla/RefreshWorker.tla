--------------------------- MODULE RefreshWorker ---------------------------
(***************************************************************************)
(* app/worker/refresh_job.py: worker processes (one in steady state, two   *)
(* during a rolling deploy) that run _run_refresh under one Redis lock.  A *)
(* run fetches every page from CoinGecko, upserts it and appends its price *)
(* snapshots in one transaction, then writes it through to Redis; a page   *)
(* is tried MaxRetries times and then recorded in the dead-letter table.   *)
(*                                                                         *)
(* A run is known by its number, which stands for its `now`: the rows and  *)
(* the cache entries of a page carry the number of the run that wrote      *)
(* them.  A step ends at an await that leaves something others can see.    *)
(*                                                                         *)
(* The API processes are environment here: an on-demand refresh commits    *)
(* the same rows outside the lock, and readers fill the same entries.      *)
(* CoinCache has these steps in full; 0 stands for prices of no run.       *)
(***************************************************************************)
EXTENDS Integers

CONSTANTS
    Workers,     \* worker processes
    TotalPages,  \* TOTAL_PAGES
    MaxRetries,  \* MAX_RETRIES
    LockTtl,     \* DISTRIBUTED_LOCK_TTL_MS, in ticks
    HoldMax,     \* longest a run may take, in ticks; LockTtl: no bound
    MaxRuns      \* how many runs the model starts

ASSUME TotalPagesAssumption == TotalPages \in Nat \ {0}
ASSUME MaxRetriesAssumption == MaxRetries \in Nat \ {0}
ASSUME LockTtlAssumption == LockTtl \in Nat \ {0}
ASSUME HoldMaxAssumption == HoldMax \in 0..LockTtl
ASSUME MaxRunsAssumption == MaxRuns \in Nat

VARIABLES
    pc, page, attempt,  \* where each worker is in its run
    run,                \* the number of the worker's run, 0: none
    runs,               \* runs started
    age,                \* how long each run has had the lock
    lockTtl,            \* time worker:refresh:lock has left, 0: absent
    stored,             \* PostgreSQL: the run whose prices each page has, 0: of no run
    snapshots,          \* PostgreSQL: price_history rows per coin, by run and page
    deadLetters,        \* PostgreSQL: refresh_dead_letter, <<run, page>>
    cached,             \* Redis: the run of each page's coins:detail:* entries
    empties,            \* <<run, page>> for which CoinGecko had no coins
    lastSuccess         \* refresh_last_success_timestamp of each worker

local == <<pc, page, attempt, run, runs>>
lock == <<age, lockTtl>>
database == <<stored, snapshots, deadLetters>>
vars == <<local, lock, database, cached, empties, lastSuccess>>

Pages == 1..TotalPages
Runs == 1..MaxRuns

\* From the SET that succeeded to the DELETE in the finally clause.
Running == {"fetch", "store", "writeThrough", "failed", "backoff", "deadLetter",
            "publish", "purge", "release"}
holders == {w \in Workers : pc[w] \in Running}

Goto(w, label) == pc' = [pc EXCEPT ![w] = label]
InRun(w, label) == /\ pc[w] = label
                   /\ UNCHANGED <<run, runs, lock>>

Init == /\ pc = [w \in Workers |-> "idle"]
        /\ page = [w \in Workers |-> 1]
        /\ attempt = [w \in Workers |-> 1]
        /\ run = [w \in Workers |-> 0]
        /\ runs = 0
        /\ age = [w \in Workers |-> 0]
        /\ lockTtl = 0
        /\ stored = [p \in Pages |-> 0]
        /\ snapshots = [r \in Runs |-> [p \in Pages |-> 0]]
        /\ deadLetters = {}
        /\ cached = [p \in Pages |-> 0]
        /\ empties = {}
        /\ lastSuccess = [w \in Workers |-> 0]
-----------------------------------------------------------------------------
(* The schedule and the lock.                                              *)

\* The mutant of Start that forgets NX.
StartWithoutNX(w) == /\ pc[w] = "idle"
                     /\ runs < MaxRuns
                     /\ lockTtl' = LockTtl
                     /\ age' = [age EXCEPT ![w] = 0]
                     /\ runs' = runs + 1
                     /\ run' = [run EXCEPT ![w] = runs + 1]
                     /\ page' = [page EXCEPT ![w] = 1]
                     /\ attempt' = [attempt EXCEPT ![w] = 1]
                     /\ Goto(w, "fetch")
                     /\ UNCHANGED <<database, cached, empties, lastSuccess>>

\* The scheduler fires and SET NX PX creates the lock: a run starts.
Start(w) == /\ pc[w] = "idle"
            /\ runs < MaxRuns
            /\ lockTtl = 0
            /\ lockTtl' = LockTtl
            /\ age' = [age EXCEPT ![w] = 0]
            /\ runs' = runs + 1
            /\ run' = [run EXCEPT ![w] = runs + 1]
            /\ page' = [page EXCEPT ![w] = 1]
            /\ attempt' = [attempt EXCEPT ![w] = 1]
            /\ Goto(w, "fetch")
            /\ UNCHANGED <<database, cached, empties, lastSuccess>>

\* The scheduler fires and the lock is there: the run is skipped.
Skip(w) == /\ pc[w] = "idle"
           /\ lockTtl > 0
           /\ UNCHANGED vars

\* SET creates the lock but its answer is lost: nobody holds it.
LostReply(w) == /\ pc[w] = "idle"
                /\ lockTtl = 0
                /\ lockTtl' = LockTtl
                /\ UNCHANGED <<local, age, database, cached, empties, lastSuccess>>

\* The locals of a run are gone when it is.
EndRun(w) == /\ page' = [page EXCEPT ![w] = 1]
             /\ attempt' = [attempt EXCEPT ![w] = 1]
             /\ run' = [run EXCEPT ![w] = 0]
             /\ age' = [age EXCEPT ![w] = 0]
             /\ UNCHANGED runs

\* finally: DELETE worker:refresh:lock, whoever's SET created it.
Release(w) == /\ pc[w] = "release"
              /\ lockTtl' = 0
              /\ EndRun(w)
              /\ Goto(w, "idle")
              /\ UNCHANGED <<database, cached, empties, lastSuccess>>

\* The DELETE fails: the key stays until its TTL is over.
ReleaseFails(w) == /\ pc[w] = "release"
                   /\ EndRun(w)
                   /\ Goto(w, "idle")
                   /\ UNCHANGED <<lockTtl, database, cached, empties, lastSuccess>>
-----------------------------------------------------------------------------
(* One page: _fetch_and_store_page and the retries around it.              *)

\* The loop goes on to the next page, or leaves after the last one.
NextPage(w) == /\ Goto(w, IF page[w] = TotalPages THEN "publish" ELSE "fetch")
               /\ page' = [page EXCEPT ![w] = IF @ = TotalPages THEN @ ELSE @ + 1]
               /\ attempt' = [attempt EXCEPT ![w] = 1]

FetchOk(w) == /\ InRun(w, "fetch")
              /\ Goto(w, "store")
              /\ UNCHANGED <<page, attempt, database, cached, empties, lastSuccess>>

\* `if not raw: return 0`: nothing to store is a success.
FetchEmpty(w) == /\ InRun(w, "fetch")
                 /\ empties' = empties \cup {<<run[w], page[w]>>}
                 /\ NextPage(w)
                 /\ UNCHANGED <<database, cached, lastSuccess>>

\* The call fails, or the breaker turns it away.
FetchFails(w) == /\ InRun(w, "fetch")
                 /\ Goto(w, "failed")
                 /\ UNCHANGED <<page, attempt, database, cached, empties, lastSuccess>>

\* The rows of the page's coins get the run's prices.
UpsertMany(w) == stored' = [stored EXCEPT ![page[w]] = run[w]]

\* One more history row for each coin of the page.
AppendPriceSnapshots(w) == snapshots' = [snapshots EXCEPT ![run[w]][page[w]] = @ + 1]

\* The mutant that writes through before the commit has succeeded.
StoreAfterCaching(w) ==
    /\ InRun(w, "store")
    /\ cached' = [cached EXCEPT ![page[w]] = run[w]]
    /\ \/ UpsertMany(w) /\ AppendPriceSnapshots(w) /\ Goto(w, "writeThrough")
       \/ UNCHANGED <<stored, snapshots>> /\ Goto(w, "failed")
    /\ UNCHANGED <<page, attempt, deadLetters, empties, lastSuccess>>

\* Upsert and snapshots are one transaction: both or, after an error, none.
Store(w) ==
    /\ InRun(w, "store")
    /\ \/ UpsertMany(w) /\ AppendPriceSnapshots(w) /\ Goto(w, "writeThrough")
       \/ UNCHANGED <<stored, snapshots>> /\ Goto(w, "failed")
    /\ UNCHANGED <<page, attempt, deadLetters, cached, empties, lastSuccess>>

\* The SETEX calls and the two scans that delete the list caches succeed.
WriteThrough(w) == /\ InRun(w, "writeThrough")
                   /\ cached' = [cached EXCEPT ![page[w]] = run[w]]
                   /\ NextPage(w)
                   /\ UNCHANGED <<database, empties, lastSuccess>>

\* One of them fails, before or after the page's entries were set.
WriteThroughFails(w) ==
    /\ InRun(w, "writeThrough")
    /\ \E entry \in {cached[page[w]], run[w]} : cached' = [cached EXCEPT ![page[w]] = entry]
    /\ Goto(w, "failed")
    /\ UNCHANGED <<page, attempt, database, empties, lastSuccess>>

\* The mutant that makes one attempt more than MaxRetries.
FailedOnceMore(w) == /\ InRun(w, "failed")
                     /\ Goto(w, IF attempt[w] > MaxRetries THEN "deadLetter" ELSE "backoff")
                     /\ UNCHANGED <<page, attempt, database, cached, empties, lastSuccess>>

\* except Exception: the last attempt is recorded, another one is made after a
\* pause.
Failed(w) == /\ InRun(w, "failed")
             /\ Goto(w, IF attempt[w] = MaxRetries THEN "deadLetter" ELSE "backoff")
             /\ UNCHANGED <<page, attempt, database, cached, empties, lastSuccess>>

\* The mutant that makes the same attempt again.
BackoffUncounted(w) == /\ InRun(w, "backoff")
                       /\ Goto(w, "fetch")
                       /\ UNCHANGED <<page, attempt, database, cached, empties, lastSuccess>>

\* The mutant that frees the lock while it pauses.
BackoffUnlocked(w) == /\ pc[w] = "backoff"
                      /\ attempt' = [attempt EXCEPT ![w] = @ + 1]
                      /\ lockTtl' = 0
                      /\ Goto(w, "fetch")
                      /\ UNCHANGED <<page, run, runs, age, database, cached, empties,
                                     lastSuccess>>

Backoff(w) == /\ InRun(w, "backoff")
              /\ attempt' = [attempt EXCEPT ![w] = @ + 1]
              /\ Goto(w, "fetch")
              /\ UNCHANGED <<page, database, cached, empties, lastSuccess>>

\* The mutant that gives a page up without a trace.
DropPage(w) == /\ InRun(w, "deadLetter")
               /\ NextPage(w)
               /\ UNCHANGED <<database, cached, empties, lastSuccess>>

WriteDeadLetter(w) == deadLetters' = deadLetters \cup {<<run[w], page[w]>>}

DeadLetter(w) == /\ InRun(w, "deadLetter")
                 /\ WriteDeadLetter(w)
                 /\ NextPage(w)
                 /\ UNCHANGED <<stored, snapshots, cached, empties, lastSuccess>>

\* Recording it fails: the exception leaves both loops, the other pages are not
\* fetched and the metrics are not set.
DeadLetterFails(w) == /\ InRun(w, "deadLetter")
                      /\ Goto(w, "release")
                      /\ UNCHANGED <<page, attempt, database, cached, empties, lastSuccess>>
-----------------------------------------------------------------------------
(* The end of a run.                                                       *)

Publish(w) == /\ InRun(w, "publish")
              /\ lastSuccess' = [lastSuccess EXCEPT ![w] = run[w]]
              /\ Goto(w, "purge")
              /\ UNCHANGED <<page, attempt, database, cached, empties>>

\* Price history older than 90 days is deleted, or the transaction fails: the rows
\* of some of the earliest runs, which were over long ago.
Purge(w) == /\ InRun(w, "purge")
            /\ \E cut \in 0..(run[w] - 1) :
                 /\ \A v \in holders : run[v] > cut
                 /\ snapshots' = [r \in Runs |-> IF r <= cut THEN [p \in Pages |-> 0]
                                                            ELSE snapshots[r]]
            /\ Goto(w, "release")
            /\ UNCHANGED <<page, attempt, stored, deadLetters, cached, empties, lastSuccess>>
-----------------------------------------------------------------------------
(* The environment.                                                        *)

\* The process dies, whatever it was doing; the lock key stays.  Its gauges are
\* lost with it.
Crash(w) == /\ pc[w] # "down"
            /\ EndRun(w)
            /\ lastSuccess' = [lastSuccess EXCEPT ![w] = 0]
            /\ Goto(w, "down")
            /\ UNCHANGED <<lockTtl, database, cached, empties>>

\* The run is cancelled (SIGINT ends the event loop, which cancels its tasks) or
\* closing the HTTP client raises: `except Exception` is passed by, the finally
\* clause runs.
Cancel(w) == /\ pc[w] \in Running \ {"release"}
             /\ Goto(w, "release")
             /\ UNCHANGED <<page, attempt, run, runs, lock, database, cached, empties,
                            lastSuccess>>

Restart(w) == /\ pc[w] = "down"
              /\ Goto(w, "idle")
              /\ UNCHANGED <<page, attempt, run, runs, lock, database, cached, empties,
                             lastSuccess>>

\* A background task of the API commits its own prices of the 100 coins that come
\* first (crypto_service.py lines 76-91, cryptocurrencies.py line 108); it takes no
\* lock.
OnDemand == /\ stored' = [stored EXCEPT ![1] = 0]
            /\ UNCHANGED <<local, lock, snapshots, deadLetters, cached, empties, lastSuccess>>

\* A reader stores rows it selected some time ago (crypto_service.py lines 53-67):
\* of a run that has stored them, or of no run.
ReaderFill(p) == /\ \E r \in {q \in Runs : snapshots[q][p] > 0} \cup {0, stored[p]} :
                        cached' = [cached EXCEPT ![p] = r]
                 /\ UNCHANGED <<local, lock, database, empties, lastSuccess>>

\* CACHE_TTL is over for the entries of a page, or an on-demand refresh deletes them.
Expire(p) == /\ cached[p] > 0
             /\ cached' = [cached EXCEPT ![p] = 0]
             /\ UNCHANGED <<local, lock, database, empties, lastSuccess>>

\* The mutant of a lock SET without PX: the key never expires.
NeverExpires(t) == t

\* The px argument of the lock SET: the TTL counts down and the key is dropped.
AfterTick(t) == IF t > 0 THEN t - 1 ELSE 0

Older(a) == IF a < LockTtl THEN a + 1 ELSE a

Tick == /\ HoldMax = LockTtl \/ \A w \in holders : age[w] < HoldMax
        /\ lockTtl' = AfterTick(lockTtl)
        /\ age' = [w \in Workers |-> IF w \in holders THEN Older(age[w]) ELSE age[w]]
        /\ UNCHANGED <<local, database, cached, empties, lastSuccess>>
-----------------------------------------------------------------------------
\* The steps of a run that has started, its failures included.
Progress(w) == \/ FetchOk(w) \/ FetchEmpty(w) \/ FetchFails(w) \/ Store(w)
               \/ WriteThrough(w) \/ WriteThroughFails(w)
               \/ Failed(w) \/ Backoff(w) \/ DeadLetter(w) \/ DeadLetterFails(w)
               \/ Publish(w) \/ Purge(w) \/ Release(w) \/ ReleaseFails(w)

Next == \/ \E w \in Workers : \/ Start(w) \/ Skip(w) \/ LostReply(w)
                              \/ Progress(w)
                              \/ Crash(w) \/ Cancel(w) \/ Restart(w)
        \/ \E p \in Pages : ReaderFill(p) \/ Expire(p)
        \/ OnDemand \/ Tick

Spec == Init /\ [][Next]_vars

\* Time passes and a run that has started goes on: every await in it is a call
\* with a timeout or a sleep.
FairSpec == /\ Spec
            /\ WF_vars(Tick)
            /\ \A w \in Workers : WF_vars(Progress(w))
-----------------------------------------------------------------------------
TypeOK == /\ pc \in [Workers -> {"idle", "down"} \cup Running]
          /\ page \in [Workers -> Pages]
          /\ attempt \in [Workers -> 1..MaxRetries]
          /\ run \in [Workers -> 0..MaxRuns]
          /\ runs \in 0..MaxRuns
          /\ age \in [Workers -> 0..LockTtl]
          /\ lockTtl \in 0..LockTtl
          /\ stored \in [Pages -> 0..MaxRuns]
          /\ snapshots \in [Runs -> [Pages -> 0..MaxRetries]]
          /\ deadLetters \subseteq Runs \X Pages
          /\ cached \in [Pages -> 0..MaxRuns]
          /\ empties \subseteq Runs \X Pages
          /\ lastSuccess \in [Workers -> 0..MaxRuns]

\* The lock key follows the SET NX PX / DELETE protocol of LockedSection.
L == INSTANCE LockedSection WITH Callers <- Workers
LockSpec == L!Spec

\* Two workers never refresh at the same time, as long as no run outlives the
\* lock (line 50: "prevents overlap on slow runs").
RunsExclusive == \A v, w \in holders : v = w

\* The rows of a page hold the prices of the last run that has stored it, unless an
\* on-demand refresh has replaced them: an earlier run never puts its prices over
\* those of a later one.  That is what excluding the other worker is for.
PricesNeverGoBack ==
    \A p \in Pages, r \in Runs : stored[p] # 0 /\ snapshots[r][p] > 0 => r <= stored[p]

\* Redis never serves the prices of a later run than PostgreSQL, the system of
\* record, has: the write-through follows the commit (lines 101-132).  Rows of an
\* on-demand refresh have no place in the order of runs.
CacheNeverAhead == \A p \in Pages : stored[p] # 0 => cached[p] <= stored[p]

\* A run that reaches its end has accounted for every page: stored, and replaced by
\* nothing but an on-demand refresh, or empty, or recorded as a dead letter (lines
\* 174-205).
Settled(r, p) == \/ <<r, p>> \in deadLetters \cup empties
                 \/ snapshots[r][p] > 0 /\ stored[p] \in {0, r}
PagesAccounted == \A w \in Workers : pc[w] \in {"publish", "purge"}
                                     => \A p \in Pages : Settled(run[w], p)

\* Every run ends, however many of its calls fail.
RunEnds == \A w \in Workers : (pc[w] \in Running) ~> (pc[w] \notin Running)

\* No lock outlives its run for ever: the worker that restarts after a crash is
\* not kept from refreshing.
LockGoesAway == (lockTtl > 0) ~> (lockTtl = 0)
=============================================================================
