# TLA+ models of the crypto dashboard backend

These modules model the parts of the backend under `app/` whose correctness depends
on the order in which several actors act: API coroutines in several processes,
worker processes, Redis, PostgreSQL and two external APIs.  Each module is
translated from the Python code; `PROJECT.json` names the lines every definition
stands for, the runs, the mutants that show each property can fail, the findings
and the hazards.

Run a model with `tlc -config <run>.cfg <module>.tla`, check proofs with
`tlapm <module>.tla`.

## 1. Inventory

| Component | State | Operations | Meets | What makes it correct |
|---|---|---|---|---|
| Stampede-safe cache (`core/cache.py`) | the key, `lock:<key>` in Redis, each with a TTL; the position of every caller | `cache_get_or_set`, `cache_delete_pattern` | every read endpoint and the insight service call it; the worker and the on-demand refresh set and delete its keys | one computation per miss, exclusive lock section, bounded wait, no lock left behind |
| Circuit breaker (`core/circuit_breaker.py`) | state, failure count, time of the last failure, gauge; per process | `__aenter__`, `__aexit__` | CoinGecko provider, insight service | state, count and gauge agree; a failure reopens; it recovers, and late results of the outage do not open it again without need |
| Refresh worker (`worker/refresh_job.py`, two repositories) | Redis lock, rows, price history, dead letters, `coins:detail:*` entries, success gauge | `_run_refresh` every 300 s | CoinGecko provider, PostgreSQL, Redis | runs exclude each other, no run undoes a later one, Redis not ahead of the run PostgreSQL has, each page accounted for, runs end |
| CoinGecko provider (`providers/coingecko.py`) | none but its breaker | `fetch_markets`, `fetch_history` | breaker, worker, refresh | every outage trips the breaker; a 404 should not count as one (it does, section 7) |
| Coin reads, on-demand refresh (`services/crypto_service.py`) | none of its own | list, detail, history, top movers, refresh | cache, PostgreSQL, provider | no stale entry outlives a refresh by more than its TTL |
| Refresh endpoint, idempotency (`endpoints/cryptocurrencies.py`, `core/idempotency.py`) | `idempotency:<key>` | check, store, background task | cache, service | one refresh per key; the marker tells the outcome |
| Watchlist (`endpoints/watchlist.py`) | watchlist rows, stored replies | add, remove, list | idempotency, DB session | a reply tells of a committed entry; no duplicates |
| Authentication (`services/auth_service.py`) | user rows, the one refresh token per user | register, login, refresh | DB session | one account per address; a replaced refresh token is refused; the accepted one was sent |
| AI insight, REST and gRPC (`services/ai_insight_service.py`, `grpc_server/`) | `insight:<coin>` | `get_insight` | cache, breaker, thread pool, DB pool | connections come back, insights come back after an outage |
| DB sessions (`db/database.py`) | pool of 10 + 20 connections | `get_db` | every endpoint | connections come back |

The other parts (start-up and health, rate limits, middleware, logging, metrics,
error mapping, schemas, configuration, generated gRPC code, migrations,
deployment) keep no state that interacts; section 8 says why they are left out.

Hard behaviours, each in `PROJECT.json` under `hazards` with its line:

- *locks that expire under their holder*, whose `DELETE` is unconditional
  (cache and worker alike);
- *holders that fail or die*, leaving waiters or a lock behind;
- *results that arrive late or out of order* at a breaker that has moved on;
- *steps that cannot be one transaction*: commit, then write-through, then
  metrics; invalidation before the commit; reply before the commit;
- *check-then-act across an await*: idempotency, watchlist, registration, token
  rotation;
- *retries of work that was partly done*.

## 2. Plan

Written, in dependency order:

1. `LockedSection`: the protocol `SET NX PX` ... `DELETE` both lock users share,
   and the theorem that it excludes while holders are fast.
2. `StampedeCache`, with `SingleFlight` as its abstract specification;
   `StampedeCacheProofs`.
3. `CircuitBreaker`, with `ThreeStateBreaker` (ADR-0004) as its abstract
   specification; `CircuitBreakerProofs`.
4. `Provider`, which extends `CircuitBreaker` with CoinGecko's answers.
5. `RefreshWorker`; `RefreshWorkerProofs`.
6. `CoinCache`: worker, on-demand refreshes and readers over the rows and Redis;
   `RefreshEndpoint`, which extends it with requests and the idempotency marker;
   `RefreshEndpointProofs`.
7. `UniqueSlot`, the abstract specification of a value of a unique column;
   `Watchlist`; `WatchlistProofs`.
8. `AuthTokens`; `AuthTokensProofs`, with the same abstract specification.
9. `Insight`: the pool, `StampedeCache` and `CircuitBreaker` composed around the
   Claude call; `InsightProofs`, which carries the theorems of both over.

Each has an `MC` module with the constants of its runs.

Left:

- a proof that in `Provider` the breaker is the `CircuitBreaker` of the other
  proofs (it extends it, so only `Respond` needs an argument);
- what a list page contains: the order it is cut from is not total, and a coin may
  change page between the worker's two fetches.

## 3. Modules and the code they model

### LockedSection

`core/cache.py` and `worker/refresh_job.py` use one protocol: `SET key "1" NX PX
ttl`, and `DELETE key` in a `finally`.  `lockTtl` is what the key carries: the
time it has left.  `holders` are the callers between their successful `SET` and
their `DELETE`, `age` is how long each has been there.  `Acquire`, `Release`
(unconditional, the value `"1"` names no owner), `Vanish` (the holder dies or its
`DELETE` fails), `Orphan` (the `SET` took effect, its answer was lost), `Tick`.

`HoldMax` bounds a holder's stay.  `HoldMax = LockTtl` means no bound: ages
saturate at the TTL and nothing compares them with a larger number.  The code
enforces no bound at all, so everything that needs `HoldMax < LockTtl` is
conditional, and every run or theorem that uses it says so.

### StampedeCache

`cache_get_or_set` for one key.  A step of the model goes from one await to the
next; `pc[c]` names the await a caller is at:

| `pc` | code |
|---|---|
| `acquire` | the first `cache_get` missed (68-73), the `SET NX` is next |
| `recheck`, `factory`, `store`, `release` | the lock section (78-88) |
| `sleep`, `poll` | the waiter's loop (91-95) |
| `ownFactory`, `ownStore` | a waiter that gave up (96-99) |

The stored value is abstracted to the time its key has left (`cacheTtl`): no
property here depends on what it is.  A tick is one poll interval, 0.1 s.
`Raise` is an exception or a cancellation inside the `try`, so the `finally`
runs; `Crash` everything that skips it; `LostReply` as above;
`WriteThrough`/`Invalidate` are the worker and the refresh endpoint writing the
same key.  `Prompt` says whether a caller that is due takes its Redis step within
the tick.  A cache hit on the first read changes nothing and is not an action.

`SingleFlight` says what the docstring promises: computations start only for a
missing value, one at a time, and each one ends by storing.

### CircuitBreaker

One breaker of one process.  `__aenter__` and `__aexit__` hold an `asyncio.Lock`
around code that never awaits, so each is one step (`Admit`/`Reject`,
`Exit`); overlapping calls are what happens between them.  `pc[c]` is `probing`
for a call let in while half open, which the code does not record; it is there
so that properties can speak of probes.  `sinceFailure` is
`time.monotonic() - _last_failure_time`, saturating at the timeout;
`failureCount` saturates at `CountCap`.  `upstream` is external: from
`Stabilise` on, every call that is let in succeeds; `old` are the calls that were in
flight then, which began in the outage and may still come back as failures, in any
order.  `CancelledError` counts as a failure in the
code (`__aexit__` receives it like any other), and so it is one of the exceptions
that are not ignored.

`ThreeStateBreaker` is the machine of ADR-0004, without a word about overlap, or about
which errors count as failures.

### RefreshWorker

`_run_refresh`, run by one worker or, in a rolling deploy, two.  A run is known by
a number that stands for its `now`; rows (`stored`), cache entries (`cached`) and
history rows (`snapshots`) of a page carry the run that wrote them.  `pc[w]`:
`fetch`, `store` (upsert, snapshots, commit: one transaction), `writeThrough` (SETEX
calls and the two scans), `failed` (the `except` clause), `backoff`, `deadLetter`,
`publish` (the success metrics), `purge`, `release` (the `finally` clause).  A
commit that took effect although its answer was lost is the case
`Store` then `WriteThroughFails` with the cache unchanged.  `Crash` loses the process, its gauges
with it; `Cancel` runs the `finally`; `DeadLetterFails` leaves both loops.  `Purge`
deletes the history of some of the earliest runs (none, if it fails), but of none that
is still going on: rows are 90 days old by then.

The API is environment to the worker.  `OnDemand` is the commit of a background
refresh, which takes no lock: the first page's rows get prices of no run
(`stored[1] = 0`).  `ReaderFill` is a reader that stores rows it selected some time
before, of any run that has been stored.  `CoinCache` has both step by step.  Because of
them `CacheNeverAhead` and `PagesAccounted` speak of rows that are the worker's; that a
worker writes its prices through to Redis after an on-demand refresh has replaced them
in PostgreSQL is possible, and `StaleIsExplained` of `CoinCache` accounts for it.

A page stands for its 250 coins: within a page the upsert is one statement and
the snapshots are one transaction.  That a coin may change page between two
fetches is not modelled.

### Provider

`fetch_markets` and `fetch_history` over the breaker.  `Raised` maps each kind of
answer to the exception that leaves the `async with` and so reaches the breaker;
`Answered` maps it to what the `except` clauses around it give the caller.  The two
differ: `resp.json()` runs after the block, and a 404 leaves the block as
`httpx.HTTPStatusError`, so the `NotFoundError` the breaker is told to ignore never
reaches it.  `TurnAway` is `CircuitOpenError`, which no clause catches.

### CoinCache

| Model | Code |
|---|---|
| `rows`, `got[w]`, `market` | prices in PostgreSQL, prices a writer fetched, prices CoinGecko has; each is the version of CoinGecko's market they come from |
| `cache["list"]`, `cache["detail"]`, `cache["movers"]` | `coins:list:*`, `coins:detail:*` and `coins:top_movers:*`; 0 is a miss |
| `Miss`, `Select`, `Store`, `Abandon` | a read of `CryptoService` that misses: the SELECT and the SETEX are steps of their own |
| `TaskSteps` | `refresh()`: fetch, upsert, delete lists, details and movers; its caller then commits (`endpoints/cryptocurrencies.py` 108) |
| `WorkerSteps` | `_fetch_and_store_page`: fetch, upsert, commit, write the details through, delete lists and movers |
| `UpsertMany` | waits while another transaction holds the rows (`open`) |
| `Raise` | the call that fails; an uncommitted upsert is rolled back, a COMMIT whose answer is lost may have happened |

`excused` is history: the entries stored by somebody a writer could not wait for.
`Put` adds to it when what is stored is not what PostgreSQL has, or an open
transaction is already past the key.  `StaleIsExplained` then says that there is
no other way for an entry to be stale.

### RefreshEndpoint

`POST /cryptocurrencies/refresh`.  `request[q]` is where a request is: `arrived`
(before `check_idempotency`), `missed` (before `store_idempotency`), `background` (its
task runs as writer `q` of `CoinCache`).  `marker` is `idempotency:<key>`.  `Finish` is
the end of the background task, with the marker it sets; Redis may fail there and
leave the pending marker.  A request returns to `none` and may arrive again, which
is the client's retry.  `promise` and `late` are history: somebody was answered 202
and the marker still lives, and who arrived since.

### Watchlist

One coin of one user.  An add is also the UUID of the row it creates.  `pc` goes
`check` (stored response), `select` (`get_item`), `insert` (waits for the unique
index, may be refused), `store` (the response is stored), `commit` (the answer
is out, `get_db` commits), `done`; a remove goes `new`, `delete`, `commit`.  `CommitFails`
is a rollback after the answer or a lost answer of the COMMIT.  `stored[k]` is the
row the stored response reports.  `promise`, `late` and `gone` are history.

`UniqueSlot` is what the unique column promises, for one value: claimed by one
transaction at a time and only while no row has it, kept or dropped at the end of
that transaction, freed by the removal of the row.  `SlotSpec` says that the
endpoints do no more than that to the entry, with the adds whose INSERT waits for
its commit as `claims` and the committed rows as `entries`.

### AuthTokens

One account.  A refresh token is the second it was issued in, because that is all
that distinguishes it: the expiry is the only claim that changes and it is in whole
seconds (`core/security.py`).  `Issue` loads the user and makes the token;
`Update` is the UPDATE with its row lock, which SQLAlchemy omits when nothing
changed (`Changed`); the answer and the commit follow.  `sent` are the tokens a
client has, `dead` is history: what a committed token has replaced.  `SlotSpec` is
`UniqueSlot` for the e-mail address, whose row nothing removes.

### Insight

Requests of either kind go `pool` (waiting for a connection), `history` (user and
price queries), `insight` (before `get_insight`), `compute` (inside
`cache_get_or_set`).  A REST request keeps its session until its answer, a gRPC
request closes it before `get_insight`.  `S` is `StampedeCache` with the requests as
callers, `B` is `CircuitBreaker`; `CallEnds` is one step of both: the breaker's
`__aexit__` and the factory's result.  A cancelled gRPC client is a
`CancelledError` through the breaker.  `Interrupt` is a failure of Redis or a
cancellation elsewhere in `cache_get_or_set`, a `SET` of the lock whose answer is lost
included.  `upstream = "healthy"` says that new calls to Claude succeed, Redis and
PostgreSQL answer, no client cancels a new call, and requests come from known users
for a coin with prices; calls of the outage may still fail or be cancelled.

The key of an insight omits the days, and REST (30) and gRPC callers share the entry:
here too there is one entry for all requests.  What the text is made from is not
modelled: `generate()` takes the last 30 prices it is given, whatever the days.

## 4. Runs

| Run | Expect | Question | Bounds |
|---|---|---|---|
| `cache_slow_holder` | pass | whatever fails and however long holders stay: no impatient waiter, `LockedSection` followed, every call returns, every lock goes away | 2 callers, 3 polls, no bound on holders |
| `cache_single_flight` | pass | is the docstring right on a good day, and is every miss filled? | 3 callers, 3 polls, `HoldMax` 2, no faults, `Prompt` |
| `breaker` | pass | state, count, gauge, reopening; does it leave OPEN, does it recover, do late failures open it again? | 3 calls, threshold 3, timeout 2, cap 5 |
| `provider` | pass | do the failures the breaker counts drive the machine of ADR-0004, and does an outage trip it? | 1 call, threshold 5, timeout 30, cap 6: CoinGecko's numbers |
| `provider_not_found` | violation | "otherwise repeated 404s would trip the breaker and block all traffic to a healthy upstream" | the same |
| `refresh` | pass | exclusion, no run undoes a later one, cache behind database, accounting | 2 workers, 2 pages, 2 attempts, 2 runs, TTL 2, `HoldMax` 1, symmetry |
| `refresh_slow_run` | pass | does the worker follow `LockedSection`, do runs end, does the lock go away? | 2 workers, 1 page, TTL 1, runs of any length |
| `coins` | pass | is a stale entry always explained, does a retry start nothing, does "completed" mean committed? | 1 reader, 2 requests, the worker, 2 versions, symmetry |
| `coins_stale` | violation | "so the next read reflects fresh data" | the same |
| `watchlist` | pass | one entry, safe retries, truthful replays, nobody waits for ever | 3 adds, two with one key and one without, 2 removes |
| `tokens` | pass | one account, rotation, is the accepted token one that was sent, nobody waits for ever | 2 registers, 2 logins, 2 refreshes, 3 seconds |
| `insight` | pass | connections come back, insights come back | 1 REST and 1 gRPC request, 1 connection, 2 polls, TTL 1, threshold 2, timeout 1, cap 2 |

`LockedSection` has no run of its own: it is the specification that `LockSpec`
checks the cache and the worker against, and what it guarantees is proved.  The
types of the cache and the breaker are proved rather than run (`CacheTyped`,
`BreakerInvariant`); the runs of the worker, the coins, the watchlist, the tokens
and the insights check theirs.

Why the bounds are enough.  In the cache the code compares times only with zero
and the number of polls only with `lock_timeout`.  Three polls let a waiter see
the lock before, during and after its holder's store, let a lock expire under a
holder, and let a last poll miss; three callers are a holder, a waiter and a
third that arrives after either.  In the breaker three calls are enough for one
that opens it, one that comes back late and one that probes; a threshold of three
leaves room for late failures that open it and for some that do not, and a timeout
of two has a state on each side of the comparison.  In the worker two
runs by two workers are one that is overtaken and one that overtakes; two pages
and two attempts have a first, a last and a next of each.  With two versions of
the market an entry can be older, newer or equal; a reader, two tasks and the
worker give every pair that can cross, and requests that have ended may come again.
In the watchlist a row can be added, removed, added by a retry and removed
again.  Three seconds have a token before, in and after the one compared, and two
refreshes after two logins replace a token that was itself a replacement.  With one
connection two requests already wait for each other, and a threshold of two lets
either request open the breaker for the other.

All bounds: `LockTimeout`, `ValueTtl`, `HoldMax` (cache, insights); `CountCap` (breaker,
insights); `MaxRuns`, `TotalPages`, `MaxRetries`, `LockTtl`, `HoldMax` (worker);
`MaxMarket` (coins); `MaxSecond` and the numbers of requests (tokens, watchlist);
`PoolSize` (insights).  Watchlist and token requests are spent once they are done, so
these two models really stop (`CHECK_DEADLOCK FALSE`); everywhere else a deadlock is
an error, and `RequestsEnd` says that the two that stop only do so with everyone done.

`HoldMax < ValueTtl` and `1 < ValueTtl` matter for `cache_single_flight`: a value that
is gone before its holder leaves, or before a waiter's next poll, is computed
again.  The code's smallest TTL is 60 s, against a `lock_timeout` of 10 s and a poll
interval of 0.1 s.

## 5. Fairness

- `Tick` is weakly fair: time passes.  Where `HoldMax` is the TTL no guard can stop
  it.  Where holders are bounded, `Tick` waits for them, which states the
  assumption that they are fast.  The cache's and the breaker's clock in `Insight`
  are fair separately.
- `Progress` of each cache caller and worker, and `Serve` of each watchlist, token
  and insight request, is weakly fair: every await in these functions is a sleep
  or a network call, and the event loop is not starved (the synchronous Claude
  SDK runs in a thread pool).  CoinGecko calls have a 30 s timeout.  For PostgreSQL
  and Redis it assumes that a broken connection is reported.  In the watchlist and
  the token model `Serve` includes the ways a step fails, so that a wait for
  another transaction's lock is what could keep it from happening.
- Breaker: upstream calls end (`Exit`, `Respond`), and requests keep coming (`Admit`,
  `Ask`): the worker calls CoinGecko every five minutes.  Which exception a call
  ends with is never assumed, except that a call which a healthy upstream was asked
  raises none.
- `Insight`'s `Arrive` is fair for the same reason: an insight can only come back
  when somebody asks for it.
- No fault is fair, nor are `Miss` and `Start` elsewhere: no other property needs a
  request or a scheduled run to come.

## 6. Proofs

All theorems hold for any constants that satisfy the named assumptions of the
modules (any number of callers, workers, requests, pages, any TTL and threshold).

**Lock.** `LockMutex` (`LockedSection`): if `HoldMax < LockTtl` then its `IInv` is
invariant.  `MutualExclusion` alone is not inductive: the key could expire while a
holder is inside.  `KeyOutlivesHolder` (remaining time plus age is the TTL) is what
carries it: a holder that may stay for another tick has a key that has another
tick, so nobody else's `SET NX` succeeds.

**Cache.** `CacheInvariant`: types, `WaitsBeforeComputing` and "only a holder has
an age" are inductive together.  `CacheImplementsLock`: each step maps to a step of
`LockedSection` or a stutter, under `holders <- {c : pc[c] \in Section}`.  Hence
`CacheMutexHolds`, by `LockMutex` of the instance, for `HoldMax < LockTimeout`.

`CacheIsSingleFlight`: the docstring's promise as a refinement of `SingleFlight`, under
`PromptAndQuick`: no faults, polls on time, `HoldMax < LockTimeout`,
`HoldMax < ValueTtl`, `1 < ValueTtl`.  With the code's numbers the last two follow from
the third; the others are what the docstring takes for granted.  Each is needed:
with any one of them dropped TLC finds a step that `SingleFlight` does not allow (a
second computation, one that ends without its value, or a value that comes or goes
otherwise).  Exclusion is not
enough, since a waiter that gives up computes outside the lock.  `SFInv` says why none
does: a key without a holder is never there (`NoOrphan`); a caller that has missed did so in this tick
(`FreshMiss`); a value that is there is no older than the stay of the holder
(`HolderValue`); and a waiter without a value has a holder that is still
computing and came no later than the waiter did (`WaiterHasHolder`), so that the
bound on the holder's stay is one on the waiter's polls.

`CallsAreBounded`: `StepsLeft` is at most `2 * LockTimeout + 5` and every step of a call
lowers it, with any faults and stalls.  It is what `EveryCallReturns` rests on;
that a call which can move does move is fairness, and is left to TLC.

**Breaker.** `BreakerInvariant`: types, count and gauge together; the case
of a failure while half open needs that the count is still at the threshold.
`FailureAlwaysReopens` is an action property over it.  `OneCallImplementsADR` assumes a single caller: its mapping hides the count while
open and the time while closed, and needs a strengthening that ties the call in
flight to the state it was let in by.  `OpenWindsDown`: in the cool-down
nobody gets in, and only a call that was in flight can start it again and is gone
then, so that it is prolonged at most once per such call: `NotStuckOpen` without its
fairness.  `HealedForGood` proves `ClosedForGood`: `failureCount + Cardinality(old)`
never grows once the upstream is healthy, since a late failure moves a call from one to
the other, a late success empties the first and new calls add to neither; below the
threshold it cannot reach it any more.  It needs that there are finitely many callers.

**Worker.** `WorkerInvariant`: types need bookkeeping, as snapshots are bounded by
the number of attempts: `AttemptsCounted` (fewer snapshots than attempts before
the store, at most as many after it) and `RunNumbers` (running workers
have distinct numbers).  `WorkerImplementsLock` is the step simulation into
`LockedSection`, and gives `RunsExclude` for `HoldMax < LockTtl`.  Under exclusion
`SInv` is inductive: the running worker's number is the latest one, no page is stored
for an earlier run than one that has stored it before, unless an on-demand refresh has
replaced its rows, what is cached is no newer than what is stored, and all pages
before the current one are settled.  It gives `CacheFollowsDatabase`,
`EveryPageAccounted` and `PricesOnlyAdvance`, whatever on-demand refreshes commit and
readers fill in meanwhile.

Two results need no bound on the length of a run, and so hold when runs overlap:
`EveryPageTraced` (a run that gets to its end has a snapshot, a dead letter or an empty
answer for every page: what is left of `PagesAccounted` when the lock may expire), for
which `Purge` must not reach the runs that go on; and `RunsAreBounded`, for `RunEnds`: every step of a run goes up in the order of exits,
pages, attempts and stages, whatever fails.

**Coins and refresh endpoint.** `RefreshInvariant`.  `StaleIsExplained` says nothing about
open transactions and is not inductive; `Explained` adds that an entry nobody
excuses is still ahead of every open transaction.  With `OneOpen` (row locks) it
follows that a task which commits finds every entry gone or excused, and that a
worker which commits has every entry ahead of it.  `FetchedOrSaved` makes what
is committed a version, and `CompletedIsCommitted` a consequence of the step the
task ended at.  `PromiseMarked` and `LateWaits` keep late requests from getting past
the marker, hence `RetriesStartNothing`.

**Watchlist.** `WatchlistInvariant`: one row is there or about to be committed
(`AtMostOne`: an INSERT waits for every open transaction on the entry and then
sees its result); an answered key has its response stored; and a stored response
names a row that is committed, open or gone.  `EntryIsASlot` is the step simulation into
`UniqueSlot`: beyond `NoDuplicates` it says that a row is never replaced by another and
leaves only by a remove that has read it.

**Tokens.** `TokensInvariant`: an account is `AtMostOne` as above.  `HasSession`: a
token that is or was stored belongs to a session that is over.  `TwiceHasTwo`: a token
that was replaced and is stored again belongs to two, which is why
`RotationHolds` can only excuse tokens of one second.  `AddressIsASlot` is the simulation
into `UniqueSlot`; that no session touches the slot is part of it.  `AcceptedWasSent`:
`StoredIsSent` is inductive together with "a session that is about to commit has sent
its token" (`SentFirst`).

**Insight.** `CacheIsStampedeCache` and `BreakerIsCircuitBreaker`: each step of the
composition maps to a step of either component or leaves it alone.  Through the
instances `SP` and `BP` of the components' proof modules their invariants hold
here.  To these `OwnInv` adds which stages hold a connection (and so that no more
than `PoolSize` are out) and `CalledInside`: a call to Claude is only out while its
request is in `_generate`.  `InsightTyped` is both together.

`PartsKeepPromises` states, for the composition, what is proved of the breaker (its
state and count, reopening, `ClosedForGood`) and of the lock; with it Claude's breaker
behaves as proved although a cancelled request counts as a failure.  `RequestsAreBounded`, for `RequestsEnd`: a request
takes at most `4 * LockTimeout + 15` steps, those in the cache and the breaker
included; it needs that a request is inside the cache only while its handler
waits for it (`LookedUpInside`).

Only model-checked:

- everything about liveness (`EveryCallReturns`, `LockGoesAway`, `MissIsFilled`,
  `NotStuckOpen`, `Recovers`, `OutageTrips`, `RunEnds`, `RequestsEnd`, `InsightsComeBack`):
  fairness and `ENABLED` are out of the prover's reach.  What is proved of the bounded
  steps above is their safety part;
- `ThreeStateSpec` of the provider: for the breaker with one caller it is proved, and
  `Provider` only restricts the exceptions a call ends with.

Only proved: `SlotSpec`, which the runs of the watchlist and of the tokens imply in the
part `NoDuplicates` and `OneAccount` state, and the bounds on steps.

## 7. What the checks found

Two runs show places where the code does not do what its comments say;
`PROJECT.json` quotes the lines.

- `coins_stale`: `refresh()` deletes the entries before its caller commits.  A read
  between the two stores the old rows, which are served for a whole TTL after the
  commit; so does a read that selected before and stores after.
- `provider_not_found`: the breaker is told to ignore `NotFoundError`, but a 404
  leaves the block as `httpx.HTTPStatusError` and is turned into `NotFoundError` only
  after it.  Five 404s in a row open the breaker of a CoinGecko that has answered every
  call.  Nothing calls `fetch_history` at this commit.

Further disagreements that the models contain as the code has them:

- A factory that raises leaves waiters that each wait out `lock_timeout` and then
  compute together (`core/cache.py` 63-66 says only one does): `PollMiss` with an
  absent lock.
- Half open lets every call through (`core/circuit_breaker.py` 7 says one probe):
  second disjunct of `Admit`.
- A late success closes an open breaker (ADR-0004, lines 23-24, says calls are
  rejected for `recovery_timeout` seconds): `RecordSuccess` has no guard on the state.
- A retry after the commit appends the snapshots again (the repository's `README.md` 153 says one row
  per coin per run): `Store` in `RefreshWorker` after a failed attempt.
- The last-success gauge is set for a run that refreshed nothing (`core/metrics.py`
  124): `Publish`.
- Two refresh tokens of one second are the same string, so that a session may
  present a token that another has replaced: the excuse of `ReplacedIsRefused`.
- A watchlist answer is stored for replay before the row is committed: a replay may
  report a row that a failed commit lost (`gone` in `ReplayIsExplained`).
- Two requests with one idempotency key that both arrive before either is answered
  each start a refresh; `RetryStartsNothing` is about those that come later.

- "based on 30 days of price data" (`endpoints/insights.py` 25): the prompt takes only the
  last 30 prices, and the key of the cache omits the days.  Both are data and in no run.

Two more follow from what `HoldMax` stands for.  Nothing in the code bounds a
holder's stay by the TTL of its lock: a Claude call may take longer than 10 s, and
a run of two pages with three attempts each, every one of which may wait 30 s and
more for CoinGecko, longer than 270 s.  `CacheMutex` and `RunsExclusive` fail as soon
as `HoldMax` is the TTL, and the late `DELETE` then removes the lock of the holder
that came next.

## 8. What is not modelled, and why

- Start-up, health, rate limiting (slowapi's), middleware, logging, most metrics,
  error mapping, schemas, configuration, generated code, migrations, deployment:
  no state of their own that another actor can disturb.
- Values: prices, names, JSON and the text of insights.
- `get_history` and its cache: snapshots are only appended, by the worker, and
  nothing invalidates the entry; it is stale for at most its TTL by design.
- What a page of the list contains.  Pages are cut by OFFSET from an order that is
  not total, and a coin may move between the worker's two pages.
- Deadlocks between upserts that lock the same rows in different orders: the rows
  are taken together, and PostgreSQL ends a deadlock with an error, which is a
  `Raise`.
- The data-age gauge.
- Passwords, signatures and access tokens: a request with a wrong one ends before
  it meets any state.
- Logout and revocation, which the code does not have.
- Redis and PostgreSQL are assumed to be linearizable for the operations used,
  and not to lose acknowledged writes.
