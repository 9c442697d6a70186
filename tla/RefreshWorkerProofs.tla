------------------------ MODULE RefreshWorkerProofs ------------------------
(***************************************************************************)
(* Proofs about RefreshWorker, for every number of workers, pages, retries *)
(* and runs:                                                               *)
(*   - IInv, which bounds what a page may commit, with or without stalls;  *)
(*   - the lock follows LockedSection, so runs that leave before the TTL   *)
(*     exclude one another;                                                *)
(*   - from that exclusion, whatever on-demand refreshes and readers do:   *)
(*     prices never go back to an earlier run's, Redis is never ahead of   *)
(*     PostgreSQL, and a run that ends has accounted for every page;       *)
(*   - with or without it: a run that ends has left a trace of every page, *)
(*     and its steps are bounded.                                          *)
(***************************************************************************)
EXTENDS RefreshWorker, TLAPS

ConstantsOK == /\ TotalPages \in Nat \ {0}
               /\ MaxRetries \in Nat \ {0}
               /\ LockTtl \in Nat \ {0}
               /\ HoldMax \in 0..LockTtl
               /\ MaxRuns \in Nat

\* The assumptions of the module in one fact.
LEMMA ConstantsFact == ConstantsOK
  BY TotalPagesAssumption, MaxRetriesAssumption, LockTtlAssumption, HoldMaxAssumption,
     MaxRunsAssumption DEF ConstantsOK

\* Where a page is being tried, before and after its commit.
Trying == {"fetch", "store"}
Tried == {"writeThrough", "failed", "backoff", "deadLetter"}

\* A worker has a run number exactly while it runs, and nobody else has it.
RunNumbers == /\ \A w \in Workers : /\ run[w] # 0 <=> pc[w] \in Running
                                    /\ run[w] <= runs
                                    /\ pc[w] \notin Running => age[w] = 0
              /\ \A v, w \in Workers : run[v] = run[w] => v = w \/ run[v] = 0

\* A page has committed at most once per attempt made so far.
AttemptsCounted ==
    /\ \A r \in Runs, p \in Pages : r > runs => snapshots[r][p] = 0
    /\ \A w \in Workers : /\ pc[w] = "backoff" => attempt[w] < MaxRetries
                          /\ pc[w] \in Trying => snapshots[run[w]][page[w]] < attempt[w]
                          /\ pc[w] \in Tried => snapshots[run[w]][page[w]] <= attempt[w]
                          /\ pc[w] \in Trying \cup Tried
                             => \A p \in Pages : p > page[w] => snapshots[run[w]][p] = 0

IInv == TypeOK /\ RunNumbers /\ AttemptsCounted

\* What the exclusion of runs adds.
Latest == /\ \A w \in Workers : pc[w] \in Running => run[w] = runs
          /\ \A w \in Workers : pc[w] = "writeThrough"
                => stored[page[w]] \in {0, run[w]} /\ snapshots[run[w]][page[w]] > 0

\* What a page's rows and entries may hold, seen from the run that writes next.
Ordered == \A p \in Pages :
    /\ stored[p] <= runs /\ cached[p] <= runs
    /\ stored[p] # 0 => /\ cached[p] <= stored[p]
                        /\ \A r \in Runs : snapshots[r][p] > 0 => r <= stored[p]

PagesSettled == \A w \in Workers :
    /\ pc[w] \in Trying \cup Tried => \A p \in 1..(page[w] - 1) : Settled(run[w], p)
    /\ pc[w] \in {"publish", "purge"} => \A p \in Pages : Settled(run[w], p)

SInv == Latest /\ Ordered /\ PagesSettled
-----------------------------------------------------------------------------
\* What Store does to the snapshots of one page, and to nothing else.
LEMMA StoreCounts ==
  ASSUME TypeOK, NEW w \in Workers, run[w] \in Runs,
         snapshots' = [snapshots EXCEPT ![run[w]][page[w]] = @ + 1]
  PROVE  /\ snapshots' \in [Runs -> [Pages -> Nat]]
         /\ snapshots'[run[w]][page[w]] = snapshots[run[w]][page[w]] + 1
         /\ \A r \in Runs, p \in Pages :
              r # run[w] \/ p # page[w] => snapshots'[r][p] = snapshots[r][p]
<1> DEFINE old == snapshots[run[w]]
           new == [old EXCEPT ![page[w]] = old[page[w]] + 1]
<1>1. snapshots \in [Runs -> [Pages -> 0..MaxRetries]] /\ page[w] \in Pages
  BY DEF TypeOK
<1>2. snapshots' = [snapshots EXCEPT ![run[w]] = new]
  OBVIOUS
<1>3. old \in [Pages -> 0..MaxRetries]
  BY <1>1
<1>4. /\ new \in [Pages -> Nat]
      /\ new[page[w]] = old[page[w]] + 1
      /\ \A p \in Pages : p # page[w] => new[p] = old[p]
  BY <1>1, <1>3, ConstantsFact DEF ConstantsOK
<1> HIDE DEF new
<1>5. /\ snapshots'[run[w]] = new
      /\ \A r \in Runs : r # run[w] => snapshots'[r] = snapshots[r]
  BY <1>1, <1>2
<1>6. \A r \in Runs : snapshots[r] \in [Pages -> Nat]
  BY <1>1, ConstantsFact DEF ConstantsOK
<1>7. snapshots' \in [Runs -> [Pages -> Nat]]
  BY <1>1, <1>2, <1>4, <1>6
<1>8. QED
  BY <1>4, <1>5, <1>7

\* What Purge does to the snapshots: those of a run that has not ended stay.
LEMMA PurgeCounts ==
  ASSUME TypeOK, NEW w \in Workers, Purge(w)
  PROVE  /\ snapshots' \in [Runs -> [Pages -> 0..MaxRetries]]
         /\ \A r \in Runs, p \in Pages : snapshots'[r][p] \in {0, snapshots[r][p]}
         /\ \A v \in holders, p \in Pages :
              run[v] \in Runs => snapshots'[run[v]][p] = snapshots[run[v]][p]
<1>1. PICK cut \in 0..(run[w] - 1) :
        /\ \A v \in holders : run[v] > cut
        /\ snapshots' = [r \in Runs |-> IF r <= cut THEN [p \in Pages |-> 0] ELSE snapshots[r]]
  BY DEF Purge
<1>2. snapshots \in [Runs -> [Pages -> 0..MaxRetries]] /\ 0 \in 0..MaxRetries
  BY ConstantsFact DEF ConstantsOK, TypeOK
<1>3. [p \in Pages |-> 0] \in [Pages -> 0..MaxRetries]
  BY <1>2
<1>4. run \in [Workers -> 0..MaxRuns] /\ holders \subseteq Workers
  BY DEF TypeOK, holders
<1>5. snapshots' \in [Runs -> [Pages -> 0..MaxRetries]]
  BY <1>1, <1>2, <1>3
<1>6. \A r \in Runs, p \in Pages : snapshots'[r][p] \in {0, snapshots[r][p]}
  BY <1>1, <1>2
<1>7. ASSUME NEW v \in holders, NEW p \in Pages, run[v] \in Runs
      PROVE  snapshots'[run[v]][p] = snapshots[run[v]][p]
  <2>1. ~(run[v] <= cut)
    BY <1>1, <1>4
  <2>2. QED
    BY <1>1, <1>7, <2>1
<1>8. QED
  BY <1>5, <1>6, <1>7

\* A run that goes on keeps its number.
LEMMA RunNumbersKept ==
  ASSUME IInv, NEW w \in Workers, pc[w] \in Running, NEW l \in Running,
         pc' = [pc EXCEPT ![w] = l], UNCHANGED <<run, runs, age>>
  PROVE  RunNumbers'
<1>1. ASSUME NEW v \in Workers, v # w PROVE pc'[v] = pc[v]
  BY <1>1 DEF IInv, TypeOK
<1>2. pc'[w] = l
  BY DEF IInv, TypeOK
<1>3. QED
  BY <1>1, <1>2 DEF IInv, RunNumbers

\* A run that goes on with the same attempt has the same count to respect.
LEMMA AttemptKept ==
  ASSUME IInv, NEW w \in Workers, NEW l \in Running,
         pc' = [pc EXCEPT ![w] = l], UNCHANGED <<page, attempt, run, runs, snapshots>>,
         l = "backoff" => attempt[w] < MaxRetries,
         l \in Trying => pc[w] \in Trying,
         l \in Tried => pc[w] \in Trying \cup Tried
  PROVE  AttemptsCounted'
<1> USE ConstantsFact DEF ConstantsOK, IInv, AttemptsCounted
<1>1. ASSUME NEW v \in Workers, v # w PROVE pc'[v] = pc[v]
  BY <1>1 DEF TypeOK
<1>2. pc'[w] = l
  BY DEF TypeOK
<1>3. pc[w] \in Trying \cup Tried => run[w] \in Runs
  BY DEF TypeOK, RunNumbers, Trying, Tried, Running, Runs
<1>4. l \in Tried => snapshots[run[w]][page[w]] <= attempt[w]
  BY <1>3 DEF TypeOK, Trying, Tried
<1>5. QED
  BY <1>1, <1>2, <1>4

\* The next page starts with no commit, whatever the last one did.
LEMMA NextPageCounted ==
  ASSUME IInv, NEW w \in Workers, pc[w] \in Trying \cup Tried, NextPage(w),
         UNCHANGED <<run, runs, age, snapshots>>
  PROVE  /\ RunNumbers' /\ AttemptsCounted'
         /\ pc' \in [Workers -> {"idle", "down"} \cup Running]
         /\ page' \in [Workers -> Pages]
         /\ attempt' \in [Workers -> 1..MaxRetries]
<1> USE ConstantsFact DEF ConstantsOK, IInv
<1>1. ASSUME NEW v \in Workers, v # w
      PROVE  pc'[v] = pc[v] /\ page'[v] = page[v] /\ attempt'[v] = attempt[v]
  BY <1>1 DEF TypeOK, NextPage, Goto
<1>2. /\ pc'[w] = IF page[w] = TotalPages THEN "publish" ELSE "fetch"
      /\ page'[w] = IF page[w] = TotalPages THEN page[w] ELSE page[w] + 1
      /\ attempt'[w] = 1
  BY DEF TypeOK, NextPage, Goto
<1>3. page[w] \in Pages /\ page'[w] \in Pages
  <2>1. page[w] \in Pages
    BY DEF TypeOK
  <2>2. QED
    BY <1>2, <2>1 DEF Pages
<1>4. /\ pc' \in [Workers -> {"idle", "down"} \cup Running]
      /\ page' \in [Workers -> Pages]
      /\ attempt' \in [Workers -> 1..MaxRetries]
  <2>1. pc' \in [Workers -> {"idle", "down"} \cup Running]
    BY DEF TypeOK, NextPage, Goto, Running
  <2>2. page' = [page EXCEPT ![w] = page'[w]]
    BY <1>2 DEF NextPage
  <2>3. page' \in [Workers -> Pages]
    BY <1>3, <2>2 DEF TypeOK
  <2>4. attempt' \in [Workers -> 1..MaxRetries]
    BY DEF TypeOK, NextPage
  <2>5. QED
    BY <2>1, <2>3, <2>4
<1>5. RunNumbers'
  <2>1. pc[w] \in Running /\ pc'[w] \in Running
    BY <1>2 DEF Trying, Tried, Running
  <2>2. QED
    BY <1>1, <2>1 DEF RunNumbers
<1>6. pc'[w] = "fetch" => \A p \in Pages : p >= page'[w] => snapshots[run[w]][p] = 0
  BY <1>2, <1>3 DEF AttemptsCounted, Pages
<1>7. AttemptsCounted'
  <2>1. ASSUME NEW v \in Workers, v # w
        PROVE  /\ pc'[v] = "backoff" => attempt'[v] < MaxRetries
               /\ pc'[v] \in Trying => snapshots'[run'[v]][page'[v]] < attempt'[v]
               /\ pc'[v] \in Tried => snapshots'[run'[v]][page'[v]] <= attempt'[v]
               /\ pc'[v] \in Trying \cup Tried
                  => \A p \in Pages : p > page'[v] => snapshots'[run'[v]][p] = 0
    BY <1>1, <2>1 DEF AttemptsCounted
  <2>2. /\ pc'[w] \notin Tried
        /\ pc'[w] \in Trying => pc'[w] = "fetch"
    BY <1>2 DEF Trying, Tried
  <2>3. pc'[w] \in Trying => snapshots'[run'[w]][page'[w]] < attempt'[w]
    BY <1>2, <1>3, <1>6, <2>2 DEF Pages
  <2>4. pc'[w] \in Trying
        => \A p \in Pages : p > page'[w] => snapshots'[run'[w]][p] = 0
    BY <1>3, <1>6, <2>2 DEF Pages
  <2>5. QED
    BY <2>1, <2>2, <2>3, <2>4 DEF AttemptsCounted, Tried
<1>8. QED
  BY <1>4, <1>5, <1>7

\* IInv is inductive, whether or not runs overlap: attempts are counted by each
\* run for itself, and no two runs have the same number.
THEOREM WorkerInvariant == Spec => []IInv
<1> USE ConstantsFact DEF ConstantsOK
<1>1. Init => IInv
  BY DEF Init, IInv, TypeOK, RunNumbers, AttemptsCounted, Running, Pages, Runs, Trying, Tried
<1>2. IInv /\ [Next]_vars => IInv'
  <2> SUFFICES ASSUME IInv, [Next]_vars PROVE IInv'
    OBVIOUS
  <2> USE DEF IInv, local, lock, database
  <2>0. ASSUME NEW w \in Workers PROVE /\ run[w] \in 0..MaxRuns /\ runs \in 0..MaxRuns
                                       /\ pc[w] \in Running => run[w] \in Runs
    <3>1. run[w] \in 0..MaxRuns /\ runs \in 0..MaxRuns /\ (pc[w] \in Running => run[w] # 0)
      BY DEF TypeOK, RunNumbers
    <3>2. QED
      BY <3>1 DEF Runs
  <2>1. ASSUME NEW w \in Workers, Start(w) PROVE IInv'
    <3>1. runs' \in Runs /\ runs' \in 0..MaxRuns /\ runs' = runs + 1 /\ runs \in 0..MaxRuns
      BY <2>0, <2>1 DEF Start, Runs
    <3>2. /\ pc'[w] = "fetch" /\ run'[w] = runs' /\ page'[w] = 1 /\ attempt'[w] = 1
          /\ \A v \in Workers : v # w => /\ pc'[v] = pc[v] /\ run'[v] = run[v]
                                        /\ page'[v] = page[v] /\ attempt'[v] = attempt[v]
                                        /\ age'[v] = age[v]
          /\ snapshots' = snapshots
      BY <2>1, <3>1 DEF Start, Goto, TypeOK
    <3>3. TypeOK'
      <4>1. 1 \in Pages /\ 1 \in 1..MaxRetries /\ 0 \in 0..LockTtl /\ LockTtl \in 0..LockTtl
        BY DEF Pages
      <4>2. QED
        BY <2>1, <3>1, <4>1 DEF Start, Goto, TypeOK, Running
    <3>4. RunNumbers'
      <4>1. "fetch" \in Running
        BY DEF Running
      <4>2. \A v \in Workers : v # w => run'[v] # run'[w]
        BY <2>0, <3>1, <3>2 DEF RunNumbers
      <4>3. \A v \in Workers : run'[v] <= runs'
        BY <2>0, <3>1, <3>2 DEF RunNumbers
      <4>4. QED
        BY <3>1, <3>2, <4>1, <4>2, <4>3 DEF RunNumbers
    <3>5. \A r \in Runs, p \in Pages : r > runs => snapshots'[r][p] = 0
      BY <3>2 DEF AttemptsCounted
    <3>6. \A p \in Pages : snapshots'[runs'][p] = 0
      BY <3>1, <3>5
    <3>7. \A r \in Runs, p \in Pages : r > runs' => snapshots'[r][p] = 0
      BY <3>1, <3>5 DEF Runs
    <3>8. AttemptsCounted'
      <4>1. 1 \in Pages
        BY DEF Pages
      <4>2. ASSUME NEW v \in Workers, v # w
            PROVE  /\ pc'[v] = "backoff" => attempt'[v] < MaxRetries
                   /\ pc'[v] \in Trying => snapshots'[run'[v]][page'[v]] < attempt'[v]
                   /\ pc'[v] \in Tried => snapshots'[run'[v]][page'[v]] <= attempt'[v]
                   /\ pc'[v] \in Trying \cup Tried
                      => \A p \in Pages : p > page'[v] => snapshots'[run'[v]][p] = 0
        BY <3>2, <4>2 DEF AttemptsCounted
      <4>3. QED
        BY <3>2, <3>6, <3>7, <4>1, <4>2 DEF AttemptsCounted, Trying, Tried
    <3>9. QED
      BY <3>3, <3>4, <3>8
  <2>2. ASSUME NEW w \in Workers, Release(w) \/ ReleaseFails(w) \/ Crash(w) \/ Restart(w)
        PROVE IInv'
    <3>1. /\ UNCHANGED <<runs, database, cached, empties>>
          /\ lockTtl' \in {0, lockTtl}
      BY <2>2 DEF Release, ReleaseFails, Crash, Restart, EndRun
    <3>2. (run[w] = 0 /\ age[w] = 0) \/ ~Restart(w)
      BY DEF Restart, RunNumbers, Running
    <3>3. /\ pc' \in [Workers -> {"idle", "down"} \cup Running]
          /\ page' \in [Workers -> Pages]
          /\ attempt' \in [Workers -> 1..MaxRetries]
          /\ run' \in [Workers -> 0..MaxRuns]
          /\ age' \in [Workers -> 0..LockTtl]
          /\ lastSuccess' \in [Workers -> 0..MaxRuns]
      <4>1. 0 \in 0..MaxRuns /\ 0 \in 0..LockTtl /\ 1 \in Pages /\ 1 \in 1..MaxRetries
        BY DEF Pages
      <4>2. pc' = [pc EXCEPT ![w] = "idle"] \/ pc' = [pc EXCEPT ![w] = "down"]
        BY <2>2 DEF Release, ReleaseFails, Crash, Restart, EndRun, Goto
      <4>3. /\ page' \in {page, [page EXCEPT ![w] = 1]}
            /\ attempt' \in {attempt, [attempt EXCEPT ![w] = 1]}
            /\ run' \in {run, [run EXCEPT ![w] = 0]}
            /\ age' \in {age, [age EXCEPT ![w] = 0]}
            /\ lastSuccess' \in {lastSuccess, [lastSuccess EXCEPT ![w] = 0]}
        BY <2>2 DEF Release, ReleaseFails, Crash, Restart, EndRun
      <4>4. QED
        BY <4>1, <4>2, <4>3 DEF TypeOK
    <3>4. /\ pc'[w] \in {"idle", "down"} /\ run'[w] = 0 /\ age'[w] = 0
          /\ \A v \in Workers : v # w => /\ pc'[v] = pc[v] /\ run'[v] = run[v] /\ age'[v] = age[v]
                                         /\ page'[v] = page[v] /\ attempt'[v] = attempt[v]
      BY <2>2, <3>2 DEF Release, ReleaseFails, Crash, Restart, EndRun, Goto, TypeOK
    <3>5. TypeOK'
      BY <3>1, <3>3 DEF TypeOK
    <3>6. RunNumbers'
      BY <2>0, <3>1, <3>4 DEF RunNumbers, Running
    <3>7. AttemptsCounted'
      BY <3>1, <3>4 DEF AttemptsCounted, Trying, Tried
    <3>8. QED
      BY <3>5, <3>6, <3>7
  <2>3. ASSUME NEW w \in Workers, pc[w] \in Running, NEW l \in Running,
               pc' = [pc EXCEPT ![w] = l], UNCHANGED <<page, attempt, run, runs, age>>,
               UNCHANGED <<lockTtl, snapshots>>,
               l = "backoff" => attempt[w] < MaxRetries,
               l \in Trying => pc[w] \in Trying,
               l \in Tried => pc[w] \in Trying \cup Tried,
               stored' \in [Pages -> 0..MaxRuns], cached' \in [Pages -> 0..MaxRuns],
               lastSuccess' \in [Workers -> 0..MaxRuns],
               UNCHANGED <<deadLetters, empties>>
        PROVE IInv'
    <3>1. TypeOK'
      BY <2>3 DEF TypeOK
    <3>2. QED
      BY <2>3, <3>1, RunNumbersKept, AttemptKept
  <2>4. ASSUME NEW w \in Workers,
               \/ FetchOk(w) \/ FetchFails(w) \/ WriteThroughFails(w) \/ Failed(w)
               \/ DeadLetterFails(w) \/ Publish(w) \/ Cancel(w)
        PROVE IInv'
    <3>1. run[w] \in 0..MaxRuns /\ page[w] \in Pages /\ attempt[w] \in 1..MaxRetries
      BY DEF TypeOK
    <3>2. CASE FetchOk(w)
      BY <2>3, <3>2 DEF FetchOk, InRun, Goto, TypeOK, Running, Trying, Tried
    <3>3. CASE FetchFails(w)
      BY <2>3, <3>3 DEF FetchFails, InRun, Goto, TypeOK, Running, Trying, Tried
    <3>4. CASE WriteThroughFails(w)
      <4>1. cached' \in [Pages -> 0..MaxRuns]
        BY <3>1, <3>4 DEF WriteThroughFails, TypeOK
      <4>2. QED
        BY <2>3, <3>4, <4>1 DEF WriteThroughFails, InRun, Goto, TypeOK, Running, Trying, Tried
    <3>5. CASE Failed(w)
      <4>0. /\ stored \in [Pages -> 0..MaxRuns] /\ cached \in [Pages -> 0..MaxRuns]
            /\ lastSuccess \in [Workers -> 0..MaxRuns]
        BY DEF TypeOK
      <4>1. /\ pc[w] = "failed" /\ pc[w] \in Running /\ pc[w] \in Tried
            /\ UNCHANGED <<page, attempt, run, runs, age, lockTtl, stored, snapshots,
                           deadLetters, cached, empties, lastSuccess>>
        BY <3>5 DEF Failed, InRun, Running, Tried
      <4>2. CASE attempt[w] = MaxRetries
        <5>1. pc' = [pc EXCEPT ![w] = "deadLetter"]
          BY <3>5, <4>2 DEF Failed, Goto
        <5>2. QED
          BY <2>3, <4>0, <4>1, <5>1 DEF Trying, Tried, Running
      <4>3. CASE attempt[w] # MaxRetries
        <5>1. attempt[w] < MaxRetries
          BY <3>1, <4>3
        <5>2. pc' = [pc EXCEPT ![w] = "backoff"]
          BY <3>5, <4>3 DEF Failed, Goto
        <5>3. QED
          BY <2>3, <4>0, <4>1, <5>1, <5>2 DEF Trying, Tried, Running
      <4>4. QED
        BY <4>2, <4>3
    <3>6. CASE DeadLetterFails(w)
      BY <2>3, <3>6 DEF DeadLetterFails, InRun, Goto, TypeOK, Running, Trying, Tried
    <3>7. CASE Publish(w)
      <4>1. lastSuccess' \in [Workers -> 0..MaxRuns]
        BY <3>1, <3>7 DEF Publish, TypeOK
      <4>2. QED
        BY <2>3, <3>7, <4>1 DEF Publish, InRun, Goto, TypeOK, Running, Trying, Tried
    <3>8. CASE Cancel(w)
      BY <2>3, <3>8 DEF Cancel, Goto, TypeOK, Running, Trying, Tried
    <3>9. QED
      BY <2>4, <3>2, <3>3, <3>4, <3>5, <3>6, <3>7, <3>8
  <2>5. ASSUME NEW w \in Workers, FetchEmpty(w) \/ WriteThrough(w) \/ DeadLetter(w)
        PROVE IInv'
    <3>1. pc[w] \in Trying \cup Tried /\ NextPage(w) /\ UNCHANGED <<run, runs, age, snapshots>>
      BY <2>5 DEF FetchEmpty, WriteThrough, DeadLetter, WriteDeadLetter, InRun, Trying, Tried
    <3>2. run[w] \in Runs /\ run[w] \in 0..MaxRuns /\ page[w] \in Pages
      BY <3>1 DEF TypeOK, RunNumbers, Running, Trying, Tried, Runs
    <3>3. /\ RunNumbers' /\ AttemptsCounted'
          /\ pc' \in [Workers -> {"idle", "down"} \cup Running]
          /\ page' \in [Workers -> Pages]
          /\ attempt' \in [Workers -> 1..MaxRetries]
      BY <3>1, NextPageCounted
    <3>4. /\ cached' \in [Pages -> 0..MaxRuns]
          /\ deadLetters' \subseteq Runs \X Pages
          /\ empties' \subseteq Runs \X Pages
          /\ UNCHANGED <<stored, lockTtl, lastSuccess>>
      BY <2>5, <3>2 DEF FetchEmpty, WriteThrough, DeadLetter, WriteDeadLetter, InRun, TypeOK
    <3>5. TypeOK'
      BY <3>1, <3>3, <3>4 DEF TypeOK
    <3>6. QED
      BY <3>3, <3>5
  <2>6. ASSUME NEW w \in Workers, Store(w) PROVE IInv'
    <3>1. /\ pc[w] = "store" /\ pc[w] \in Running /\ run[w] \in Runs
          /\ run[w] \in 0..MaxRuns /\ page[w] \in Pages
          /\ UNCHANGED <<page, attempt, run, runs, age, lockTtl, deadLetters, cached,
                         empties, lastSuccess>>
      BY <2>6 DEF Store, UpsertMany, AppendPriceSnapshots, InRun, TypeOK, RunNumbers, Running, Runs
    <3>2. CASE UNCHANGED <<stored, snapshots>> /\ Goto(w, "failed")
      BY <2>3, <3>1, <3>2 DEF Goto, TypeOK, Running, Trying, Tried
    <3>3. CASE /\ stored' = [stored EXCEPT ![page[w]] = run[w]]
               /\ snapshots' = [snapshots EXCEPT ![run[w]][page[w]] = @ + 1]
               /\ Goto(w, "writeThrough")
      <4>1. /\ snapshots' \in [Runs -> [Pages -> Nat]]
            /\ snapshots'[run[w]][page[w]] = snapshots[run[w]][page[w]] + 1
            /\ \A r \in Runs, p \in Pages :
                 r # run[w] \/ p # page[w] => snapshots'[r][p] = snapshots[r][p]
        BY <3>1, <3>3, StoreCounts
      <4>2. snapshots'[run[w]][page[w]] <= attempt[w]
        <5>1. snapshots[run[w]][page[w]] < attempt[w]
          BY <3>1 DEF AttemptsCounted, Trying
        <5>2. snapshots[run[w]][page[w]] \in Nat /\ attempt[w] \in Nat
          BY <3>1 DEF TypeOK
        <5>3. QED
          BY <4>1, <5>1, <5>2
      <4>3. snapshots' \in [Runs -> [Pages -> 0..MaxRetries]]
        <5>1. ASSUME NEW r \in Runs, NEW p \in Pages PROVE snapshots'[r][p] \in 0..MaxRetries
          <6>1. attempt[w] \in 1..MaxRetries /\ snapshots[r][p] \in 0..MaxRetries
            BY DEF TypeOK
          <6>2. snapshots'[r][p] \in Nat
            BY <4>1
          <6>3. QED
            BY <4>1, <4>2, <6>1, <6>2
        <5>2. QED
          BY <4>1, <5>1
      <4>4. pc' = [pc EXCEPT ![w] = "writeThrough"]
        BY <3>3 DEF Goto
      <4>5. TypeOK'
        BY <3>1, <3>3, <4>3, <4>4 DEF TypeOK, Running
      <4>6. RunNumbers'
        <5>1. "writeThrough" \in Running
          BY DEF Running
        <5>2. QED
          BY <3>1, <4>4, <5>1, RunNumbersKept
      <4>7. AttemptsCounted'
        <5>1. \A r \in Runs, p \in Pages : r > runs => snapshots'[r][p] = 0
          <6>1. run[w] <= runs /\ run[w] \in 0..MaxRuns /\ runs \in 0..MaxRuns
            BY <2>0 DEF RunNumbers
          <6>2. \A r \in Runs : r > runs => r # run[w]
            BY <6>1 DEF Runs
          <6>3. QED
            BY <3>1, <4>1, <6>2 DEF AttemptsCounted
        <5>2. ASSUME NEW v \in Workers, v # w
              PROVE  /\ pc'[v] = "backoff" => attempt'[v] < MaxRetries
                     /\ pc'[v] \in Trying => snapshots'[run'[v]][page'[v]] < attempt'[v]
                     /\ pc'[v] \in Tried => snapshots'[run'[v]][page'[v]] <= attempt'[v]
                     /\ pc'[v] \in Trying \cup Tried
                        => \A p \in Pages : p > page'[v] => snapshots'[run'[v]][p] = 0
          <6>1. pc'[v] = pc[v] /\ page[v] \in Pages
            BY <4>4, <5>2 DEF TypeOK
          <6>2. pc[v] \in Trying \cup Tried => run[v] \in Runs /\ run[v] # run[w]
            <7>1. pc[v] \in Trying \cup Tried => pc[v] \in Running
              BY DEF Trying, Tried, Running
            <7>2. run[w] # 0
              BY <3>1 DEF Runs
            <7>3. QED
              BY <2>0, <5>2, <7>1, <7>2 DEF RunNumbers
          <6>3. pc[v] \in Trying \cup Tried
                => \A p \in Pages : snapshots'[run[v]][p] = snapshots[run[v]][p]
            BY <4>1, <6>2
          <6>4. QED
            BY <3>1, <6>1, <6>3 DEF AttemptsCounted, Trying
        <5>3. \A p \in Pages : p > page[w] => snapshots'[run[w]][p] = 0
          <6>1. \A p \in Pages : p > page[w] => snapshots[run[w]][p] = 0
            BY <3>1 DEF AttemptsCounted, Trying
          <6>2. \A p \in Pages : p > page[w] => p # page[w]
            BY <3>1 DEF Pages
          <6>3. QED
            BY <3>1, <4>1, <6>1, <6>2
        <5>4. pc'[w] = "writeThrough"
          BY <4>4 DEF TypeOK
        <5>5. QED
          BY <3>1, <4>2, <5>1, <5>2, <5>3, <5>4 DEF AttemptsCounted, Trying
      <4>8. QED
        BY <4>5, <4>6, <4>7
    <3>4. QED
      BY <2>6, <3>2, <3>3 DEF Store, UpsertMany, AppendPriceSnapshots
  <2>7. ASSUME NEW w \in Workers, Backoff(w) PROVE IInv'
    <3>1. /\ pc[w] = "backoff" /\ attempt[w] \in 1..MaxRetries /\ attempt[w] < MaxRetries
          /\ attempt' = [attempt EXCEPT ![w] = attempt[w] + 1]
          /\ pc' = [pc EXCEPT ![w] = "fetch"]
          /\ UNCHANGED <<run, runs, age, lockTtl, page, stored, snapshots, deadLetters,
                         cached, empties, lastSuccess>>
      BY <2>7 DEF Backoff, InRun, Goto, TypeOK, AttemptsCounted
    <3>2. TypeOK'
      BY <3>1 DEF TypeOK, Running
    <3>3. RunNumbers'
      <4>1. "fetch" \in Running /\ pc[w] \in Running
        BY <3>1 DEF Running
      <4>2. QED
        BY <3>1, <4>1, RunNumbersKept
    <3>4. AttemptsCounted'
      <4>1. /\ pc'[w] = "fetch" /\ attempt'[w] = attempt[w] + 1
            /\ \A v \in Workers : v # w => pc'[v] = pc[v] /\ attempt'[v] = attempt[v]
        BY <3>1 DEF TypeOK
      <4>2. /\ snapshots[run[w]][page[w]] \in Nat
            /\ snapshots[run[w]][page[w]] <= attempt[w]
        BY <3>1 DEF AttemptsCounted, Tried, TypeOK, RunNumbers, Running, Runs
      <4>3. snapshots[run[w]][page[w]] < attempt'[w]
        BY <3>1, <4>1, <4>2
      <4>4. QED
        BY <3>1, <4>1, <4>3 DEF AttemptsCounted, Trying, Tried
    <3>5. QED
      BY <3>2, <3>3, <3>4
  <2>8. CASE \/ \E w \in Workers : LostReply(w)
             \/ \E p \in Pages : ReaderFill(p) \/ Expire(p)
             \/ OnDemand \/ Tick
             \/ UNCHANGED vars
    <3>1. UNCHANGED <<pc, page, attempt, run, runs, snapshots, deadLetters, empties,
                      lastSuccess>>
      BY <2>8 DEF LostReply, ReaderFill, Expire, OnDemand, Tick, vars
    <3>2. \A w \in Workers : pc[w] \notin Running => age'[w] = age[w]
      BY <2>8 DEF LostReply, ReaderFill, Expire, OnDemand, Tick, holders, vars
    <3>3. /\ age' \in [Workers -> 0..LockTtl]
          /\ lockTtl' \in 0..LockTtl
      BY <2>8 DEF LostReply, ReaderFill, Expire, OnDemand, Tick, AfterTick, Older, vars, TypeOK
    <3>4. /\ stored' \in [Pages -> 0..MaxRuns]
          /\ cached' \in [Pages -> 0..MaxRuns]
      <4>1. /\ stored \in [Pages -> 0..MaxRuns] /\ cached \in [Pages -> 0..MaxRuns]
            /\ Runs \subseteq 0..MaxRuns /\ 0 \in 0..MaxRuns
        BY DEF TypeOK, Runs
      <4>2. ASSUME NEW p \in Pages, ReaderFill(p) PROVE cached' \in [Pages -> 0..MaxRuns]
        <5>1. PICK r \in Runs \cup {0, stored[p]} : cached' = [cached EXCEPT ![p] = r]
          BY <4>2 DEF ReaderFill
        <5>2. r \in 0..MaxRuns
          BY <4>1
        <5>3. QED
          BY <4>1, <5>1, <5>2
      <4>3. QED
        BY <2>8, <4>1, <4>2 DEF LostReply, ReaderFill, Expire, OnDemand, Tick, vars
    <3>5. TypeOK'
      BY <3>1, <3>3, <3>4 DEF TypeOK
    <3>6. RunNumbers'
      BY <3>1, <3>2 DEF RunNumbers
    <3>7. AttemptsCounted'
      BY <3>1 DEF AttemptsCounted
    <3>8. QED
      BY <3>5, <3>6, <3>7
  <2>9. ASSUME NEW w \in Workers, Purge(w) PROVE IInv'
    <3>1. /\ pc[w] \in Running /\ "release" \in Running
          /\ pc' = [pc EXCEPT ![w] = "release"]
          /\ UNCHANGED <<page, attempt, run, runs, age, lockTtl, stored, deadLetters, cached,
                         empties, lastSuccess>>
      BY <2>9 DEF Purge, InRun, Goto, Running
    <3>2. /\ snapshots' \in [Runs -> [Pages -> 0..MaxRetries]]
          /\ \A r \in Runs, p \in Pages : snapshots'[r][p] \in {0, snapshots[r][p]}
      BY <2>9, PurgeCounts
    <3>3. TypeOK'
      BY <3>1, <3>2 DEF TypeOK
    <3>4. RunNumbers'
      BY <3>1, RunNumbersKept
    <3>5. /\ pc'[w] = "release"
          /\ \A v \in Workers : v # w => pc'[v] = pc[v]
      BY <3>1 DEF TypeOK
    <3>6. AttemptsCounted'
      <4>1. \A r \in Runs, p \in Pages : r > runs => snapshots'[r][p] = 0
        BY <3>2 DEF AttemptsCounted
      <4>2. ASSUME NEW v \in Workers, v # w, pc[v] \in Trying \cup Tried
            PROVE  /\ pc[v] \in Trying => snapshots'[run[v]][page[v]] < attempt[v]
                   /\ pc[v] \in Tried => snapshots'[run[v]][page[v]] <= attempt[v]
                   /\ \A p \in Pages : p > page[v] => snapshots'[run[v]][p] = 0
        <5>1. run[v] \in Runs /\ page[v] \in Pages /\ attempt[v] \in 1..MaxRetries
          BY <2>0, <4>2 DEF TypeOK, Trying, Tried, Running
        <5>2. \A p \in Pages : snapshots'[run[v]][p] \in {0, snapshots[run[v]][p]}
          BY <3>2, <5>1
        <5>3. QED
          BY <4>2, <5>1, <5>2 DEF AttemptsCounted
      <4>3. "release" \notin Trying \cup Tried
        BY DEF Trying, Tried
      <4>4. QED
        BY <3>1, <3>5, <4>1, <4>2, <4>3 DEF AttemptsCounted
    <3>7. QED
      BY <3>3, <3>4, <3>6
  <2>10. QED
    BY <2>1, <2>2, <2>4, <2>5, <2>6, <2>7, <2>8, <2>9 DEF Next, Progress, Skip
<1>3. QED
  BY <1>1, <1>2, PTL DEF Spec

\* The variables keep their types; in particular no page commits more than
\* MaxRetries times in a run.
THEOREM WorkerTyped == Spec => []TypeOK
<1>1. IInv => TypeOK
  BY DEF IInv
<1>2. QED
  BY <1>1, WorkerInvariant, PTL
-----------------------------------------------------------------------------
\* Every step of a worker is a step of the lock protocol or leaves the lock, its
\* holders and their ages alone.
LEMMA WorkerLockStep == IInv /\ [Next]_vars => [L!Next]_(L!vars)
<1> SUFFICES ASSUME IInv, [Next]_vars PROVE [L!Next]_(L!vars)
  OBVIOUS
<1> USE ConstantsFact DEF ConstantsOK, local, lock, database
<1> DEFINE Unmoved == lockTtl' = lockTtl /\ holders' = holders /\ age' = age
<1>0. Unmoved => UNCHANGED L!vars
  BY DEF L!vars
<1>00. pc \in [Workers -> {"idle", "down"} \cup Running]
  BY DEF IInv, TypeOK
<1>1. ASSUME NEW w \in Workers, Start(w) PROVE L!Acquire(w)
  <2>1. w \notin holders /\ holders' = holders \cup {w}
    BY <1>00, <1>1 DEF Start, Goto, holders, Running
  <2>2. QED
    BY <1>1, <2>1 DEF Start, L!Acquire
<1>2. ASSUME NEW w \in Workers, Release(w) PROVE L!Release(w)
  <2>1. w \in holders /\ holders' = holders \ {w}
    BY <1>00, <1>2 DEF Release, Goto, holders, Running
  <2>2. QED
    BY <1>2, <2>1 DEF Release, EndRun, L!Release
<1>3. ASSUME NEW w \in Workers, ReleaseFails(w) PROVE L!Vanish(w)
  <2>1. w \in holders /\ holders' = holders \ {w}
    BY <1>00, <1>3 DEF ReleaseFails, Goto, holders, Running
  <2>2. QED
    BY <1>3, <2>1 DEF ReleaseFails, EndRun, L!Vanish
<1>4. ASSUME NEW w \in Workers, Crash(w) PROVE L!Vanish(w) \/ Unmoved
  <2>1. CASE w \in holders
    <3>1. holders' = holders \ {w}
      BY <1>00, <1>4 DEF Crash, Goto, holders, Running
    <3>2. QED
      BY <1>4, <2>1, <3>1 DEF Crash, EndRun, L!Vanish
  <2>2. CASE w \notin holders
    <3>1. holders' = holders
      BY <1>00, <1>4, <2>2 DEF Crash, Goto, holders, Running
    <3>2. age' = age
      BY <1>4, <2>2 DEF Crash, EndRun, holders, IInv, TypeOK, RunNumbers
    <3>3. QED
      BY <1>4, <3>1, <3>2 DEF Crash, EndRun
  <2>3. QED
    BY <2>1, <2>2
<1>5. ASSUME NEW w \in Workers, LostReply(w) PROVE L!Orphan
  BY <1>5 DEF LostReply, L!Orphan, holders
<1>6. ASSUME Tick PROVE L!Tick
  <2>1. holders' = holders
    BY <1>6 DEF Tick, holders
  <2>2. age' = [w \in Workers |-> IF w \in holders THEN L!Older(age[w]) ELSE age[w]]
    BY <1>6 DEF Tick, Older, L!Older
  <2>3. QED
    BY <1>6, <2>1, <2>2 DEF Tick, AfterTick, L!MayTick, L!Tick
<1>7. ASSUME NEW w \in Workers, Restart(w) PROVE Unmoved
  BY <1>00, <1>7 DEF Restart, Goto, holders, Running
<1>8. ASSUME NEW w \in Workers, pc[w] \in Running, NEW l \in Running,
             Goto(w, l), UNCHANGED lock
      PROVE  Unmoved
  BY <1>00, <1>8 DEF Goto, holders
<1>9. ASSUME NEW w \in Workers,
             \/ FetchOk(w) \/ FetchFails(w) \/ Store(w) \/ WriteThroughFails(w)
             \/ Failed(w) \/ Backoff(w) \/ DeadLetterFails(w) \/ Publish(w) \/ Purge(w)
             \/ Cancel(w)
      PROVE  Unmoved
  <2>1. pc[w] \in Running /\ UNCHANGED lock
    BY <1>9 DEF FetchOk, FetchFails, Store, WriteThroughFails, Failed, Backoff,
                DeadLetterFails, Publish, Purge, Cancel, InRun, Running
  <2>2. \E l \in Running : Goto(w, l)
    BY <1>9 DEF FetchOk, FetchFails, Store, WriteThroughFails, Failed, Backoff,
                DeadLetterFails, Publish, Purge, Cancel, Goto, Running
  <2>3. QED
    BY <1>8, <2>1, <2>2
<1>10. ASSUME NEW w \in Workers, FetchEmpty(w) \/ WriteThrough(w) \/ DeadLetter(w)
       PROVE  Unmoved
  <2>1. pc[w] \in Running /\ UNCHANGED lock
    BY <1>10 DEF FetchEmpty, WriteThrough, DeadLetter, WriteDeadLetter, InRun, Running
  <2>2. \E l \in Running : Goto(w, l)
    BY <1>10 DEF FetchEmpty, WriteThrough, DeadLetter, WriteDeadLetter, NextPage, Goto, Running
  <2>3. QED
    BY <1>8, <2>1, <2>2
<1>11. ASSUME (\E p \in Pages : ReaderFill(p) \/ Expire(p)) \/ OnDemand \/ UNCHANGED vars
       PROVE  Unmoved
  BY <1>11 DEF ReaderFill, Expire, OnDemand, vars, holders
<1>12. QED
  BY <1>0, <1>1, <1>2, <1>3, <1>4, <1>5, <1>6, <1>7, <1>9, <1>10, <1>11
  DEF Next, Progress, Skip, L!Next

\* The worker implements the lock protocol.
THEOREM WorkerImplementsLock == Spec => LockSpec
<1>1. Init => L!Init
  BY DEF Init, L!Init, holders, Running
<1>2. QED
  BY <1>1, WorkerLockStep, WorkerInvariant, PTL DEF Spec, LockSpec, L!Spec

\* While no run outlives the lock, two workers never refresh at the same time,
\* whatever fails and whoever crashes or restarts.
THEOREM RunsExclude == ASSUME HoldMax < LockTtl PROVE Spec => []RunsExclusive
<1>1. L!ConstantsOK
  BY ConstantsFact DEF ConstantsOK, L!ConstantsOK
<1>2. L!Spec => []L!IInv
  BY L!LockMutex, <1>1, HoldMax < LockTtl
<1>3. L!IInv => RunsExclusive
  BY DEF L!IInv, L!MutualExclusion, RunsExclusive
<1>4. QED
  BY <1>2, <1>3, WorkerImplementsLock, PTL DEF LockSpec
-----------------------------------------------------------------------------
\* Settled after the step, for a page and a run of before it.
SettledNext(r, p) == \/ <<r, p>> \in deadLetters' \cup empties'
                     \/ snapshots'[r][p] > 0 /\ stored'[p] \in {0, r}

\* What a step of a running worker must leave for SInv to survive, when no other
\* worker is running: the label l it goes to, and the pages it had settled.
LEMMA SInvKept ==
  ASSUME IInv, SInv, NEW w \in Workers, pc[w] \in Running, NEW l \in Running,
         \A v \in Workers : v # w => pc[v] \notin Running,
         pc' = [pc EXCEPT ![w] = l], UNCHANGED <<run, runs>>,
         Ordered',
         l = "writeThrough"
           => stored'[page'[w]] \in {0, run[w]} /\ snapshots'[run[w]][page'[w]] > 0,
         l \in Trying \cup Tried => \A p \in 1..(page'[w] - 1) : SettledNext(run[w], p),
         l \in {"publish", "purge"} => \A p \in Pages : SettledNext(run[w], p)
  PROVE  SInv'
<1>1. pc'[w] = l /\ \A v \in Workers : v # w => pc'[v] = pc[v]
  BY DEF IInv, TypeOK
<1>2. \A v \in Workers : v # w => pc'[v] \notin Running
  BY <1>1
<1>3. /\ "writeThrough" \in Running /\ "publish" \in Running /\ "purge" \in Running
      /\ Trying \cup Tried \subseteq Running
  BY DEF Running, Trying, Tried
<1>4. Latest'
  BY <1>1, <1>2, <1>3 DEF SInv, Latest
<1>5. PagesSettled'
  <2>1. ASSUME NEW v \in Workers, v # w
        PROVE  pc'[v] \notin Trying \cup Tried /\ pc'[v] \notin {"publish", "purge"}
    BY <1>2, <1>3, <2>1
  <2>2. /\ pc'[w] \in Trying \cup Tried
           => \A p \in 1..(page'[w] - 1) : SettledNext(run'[w], p)
        /\ pc'[w] \in {"publish", "purge"} => \A p \in Pages : SettledNext(run'[w], p)
    BY <1>1
  <2>3. QED
    BY <2>1, <2>2 DEF PagesSettled, Settled, SettledNext
<1>6. QED
  BY <1>4, <1>5 DEF SInv

\* SInv is preserved by every step that starts and ends with at most one worker
\* running.
LEMMA SInvStep ==
  ASSUME IInv, IInv', RunsExclusive, RunsExclusive', SInv, [Next]_vars
  PROVE  SInv'
<1> USE ConstantsFact DEF ConstantsOK, local, lock, database
<1>a. /\ pc \in [Workers -> {"idle", "down"} \cup Running]
      /\ page \in [Workers -> Pages] /\ run \in [Workers -> 0..MaxRuns]
      /\ runs \in 0..MaxRuns
      /\ stored \in [Pages -> 0..MaxRuns] /\ cached \in [Pages -> 0..MaxRuns]
  BY DEF IInv, TypeOK
<1>b. \A v, w \in Workers : pc[v] \in Running /\ pc[w] \in Running => v = w
  BY DEF RunsExclusive, holders
<1>c. /\ Ordered
      /\ \A r \in Runs, p \in Pages : snapshots[r][p] > 0 => r <= runs
  <2>1. \A r \in Runs, p \in Pages : snapshots[r][p] > 0 => ~(r > runs)
    BY DEF IInv, AttemptsCounted
  <2>2. QED
    BY <1>a, <2>1 DEF SInv, Runs
<1>e. UNCHANGED <<runs, stored, cached, snapshots>> => Ordered'
  BY <1>c DEF Ordered
<1>d. \A w \in Workers : pc[w] \in Running => run[w] = runs
  BY DEF SInv, Latest
<1>1. ASSUME NEW w \in Workers, Start(w) PROVE SInv'
  <2>1. /\ pc'[w] = "fetch" /\ run'[w] = runs' /\ page'[w] = 1 /\ runs' = runs + 1
        /\ UNCHANGED <<stored, cached, snapshots>>
    BY <1>1, <1>a DEF Start, Goto
  <2>2. \A v \in Workers : v # w => pc'[v] \notin Running
    BY <2>1 DEF RunsExclusive, holders, Running
  <2>3. Latest'
    BY <2>1, <2>2 DEF Latest, Running
  <2>4. Ordered'
    BY <1>a, <1>c, <2>1 DEF Ordered
  <2>5. PagesSettled'
    BY <2>1, <2>2 DEF PagesSettled, Trying, Tried, Running
  <2>6. QED
    BY <2>3, <2>4, <2>5 DEF SInv
<1>2. ASSUME NEW w \in Workers, Release(w) \/ ReleaseFails(w) \/ Crash(w) \/ Restart(w)
      PROVE SInv'
  <2>1. /\ pc'[w] \in {"idle", "down"}
        /\ \A v \in Workers : v # w => /\ pc'[v] = pc[v]
                                       /\ run'[v] = run[v]
                                       /\ page'[v] = page[v]
        /\ UNCHANGED <<runs, stored, cached, snapshots, deadLetters, empties>>
    BY <1>2, <1>a DEF Release, ReleaseFails, Crash, Restart, EndRun, Goto
  <2>2. pc'[w] \notin Running
    BY <2>1 DEF Running
  <2>3. Latest'
    BY <2>1, <2>2 DEF SInv, Latest, Running
  <2>4. Ordered'
    BY <1>e, <2>1
  <2>5. PagesSettled'
    BY <2>1, <2>2 DEF SInv, PagesSettled, Settled, Trying, Tried, Running
  <2>6. QED
    BY <2>3, <2>4, <2>5 DEF SInv
<1>3. ASSUME NEW w \in Workers, pc[w] \in Running, NEW l \in Running,
             pc' = [pc EXCEPT ![w] = l], l # "writeThrough",
             UNCHANGED <<page, run, runs, stored, cached, snapshots, deadLetters, empties>>,
             l \in Trying \cup Tried => pc[w] \in Trying \cup Tried,
             l \in {"publish", "purge"} => pc[w] \in {"publish", "purge"}
      PROVE SInv'
  <2>1. \A v \in Workers : v # w => pc[v] \notin Running
    BY <1>3, <1>b
  <2>2. pc[w] \in Trying \cup Tried => \A p \in 1..(page'[w] - 1) : SettledNext(run[w], p)
    BY <1>3 DEF SInv, PagesSettled, Settled, SettledNext
  <2>3. pc[w] \in {"publish", "purge"} => \A p \in Pages : SettledNext(run[w], p)
    BY <1>3 DEF SInv, PagesSettled, Settled, SettledNext
  <2>4. Ordered'
    BY <1>e, <1>3
  <2>5. QED
    BY <1>3, <2>1, <2>2, <2>3, <2>4, SInvKept
<1>4. ASSUME NEW w \in Workers,
             \/ FetchOk(w) \/ FetchFails(w) \/ Failed(w) \/ Backoff(w)
             \/ DeadLetterFails(w) \/ Publish(w) \/ Cancel(w)
      PROVE SInv'
  <2> USE DEF InRun, Goto, Running, Trying, Tried
  <2>1. CASE FetchOk(w)
    BY <1>3, <2>1 DEF FetchOk
  <2>2. CASE FetchFails(w)
    BY <1>3, <2>2 DEF FetchFails
  <2>3. CASE Failed(w)
    <3>1. pc' = [pc EXCEPT ![w] = "deadLetter"] \/ pc' = [pc EXCEPT ![w] = "backoff"]
      BY <2>3 DEF Failed
    <3>2. QED
      BY <1>3, <2>3, <3>1 DEF Failed
  <2>4. CASE Backoff(w)
    BY <1>3, <2>4 DEF Backoff
  <2>5. CASE DeadLetterFails(w)
    BY <1>3, <2>5 DEF DeadLetterFails
  <2>6. CASE Publish(w)
    BY <1>3, <2>6 DEF Publish
  <2>7. CASE Cancel(w)
    BY <1>3, <2>7 DEF Cancel
  <2>8. QED
    BY <1>4, <2>1, <2>2, <2>3, <2>4, <2>5, <2>6, <2>7
<1>5. ASSUME NEW w \in Workers, FetchEmpty(w) \/ WriteThrough(w) \/ DeadLetter(w)
      PROVE SInv'
  <2>1. /\ pc[w] \in Trying \cup Tried /\ pc[w] \in Running /\ NextPage(w)
        /\ UNCHANGED <<run, runs, stored, snapshots>>
        /\ deadLetters \subseteq deadLetters' /\ empties \subseteq empties'
    BY <1>5 DEF FetchEmpty, WriteThrough, DeadLetter, WriteDeadLetter, InRun, Trying, Tried, Running
  <2>2. \A v \in Workers : v # w => pc[v] \notin Running
    BY <1>b, <2>1
  <2>3. page[w] \in Pages
    BY <1>a
  <2>4. pc[w] = "writeThrough"
        => stored[page[w]] \in {0, run[w]} /\ snapshots[run[w]][page[w]] > 0
    BY DEF SInv, Latest
  <2>5. \A p \in Pages : \/ cached'[p] = cached[p]
                         \/ cached'[p] = run[w] /\ stored[p] \in {0, run[w]}
    BY <1>5, <1>a, <2>3, <2>4 DEF FetchEmpty, WriteThrough, DeadLetter, WriteDeadLetter, InRun
  <2>6. Ordered'
    BY <1>a, <1>c, <1>d, <2>1, <2>5 DEF Ordered
  <2>7. SettledNext(run[w], page[w])
    BY <1>5, <1>a, <2>1, <2>3, <2>4
    DEF FetchEmpty, WriteThrough, DeadLetter, WriteDeadLetter, InRun, SettledNext
  <2>8. ASSUME NEW p \in 1..(page[w] - 1) PROVE SettledNext(run[w], p)
    <3>1. p \in Pages /\ p # page[w]
      BY <2>3 DEF Pages
    <3>2. Settled(run[w], p)
      BY <2>1 DEF SInv, PagesSettled
    <3>3. QED
      BY <2>1, <3>1, <3>2 DEF Settled, SettledNext
  <2>9. \A p \in 1..page[w] : SettledNext(run[w], p)
    BY <2>3, <2>7, <2>8 DEF Pages
  <2>10. CASE page[w] = TotalPages
    <3>1. pc' = [pc EXCEPT ![w] = "publish"]
      BY <2>1, <2>10 DEF NextPage, Goto
    <3>2. \A p \in Pages : SettledNext(run[w], p)
      BY <2>9, <2>10 DEF Pages
    <3>3. "publish" \in Running /\ "publish" \notin Trying \cup Tried
      BY DEF Running, Trying, Tried
    <3>4. QED
      BY <2>1, <2>2, <2>6, <3>1, <3>2, <3>3, SInvKept
  <2>11. CASE page[w] # TotalPages
    <3>1. pc' = [pc EXCEPT ![w] = "fetch"] /\ page'[w] = page[w] + 1
      BY <1>a, <2>1, <2>11 DEF NextPage, Goto
    <3>2. \A p \in 1..(page'[w] - 1) : SettledNext(run[w], p)
      BY <2>3, <2>9, <3>1 DEF Pages
    <3>3. "fetch" \in Running
      BY DEF Running
    <3>4. QED
      BY <2>1, <2>2, <2>6, <3>1, <3>2, <3>3, SInvKept
  <2>12. QED
    BY <2>10, <2>11
<1>6. ASSUME NEW w \in Workers, Store(w) PROVE SInv'
  <2>1. /\ pc[w] = "store" /\ pc[w] \in Running /\ pc[w] \in Trying
        /\ UNCHANGED <<page, run, runs, deadLetters, cached, empties>>
    BY <1>6 DEF Store, UpsertMany, AppendPriceSnapshots, InRun, Running, Trying
  <2>2. CASE UNCHANGED <<stored, snapshots>> /\ Goto(w, "failed")
    BY <1>3, <2>1, <2>2 DEF Goto, Running, Trying, Tried
  <2>3. CASE /\ stored' = [stored EXCEPT ![page[w]] = run[w]]
             /\ snapshots' = [snapshots EXCEPT ![run[w]][page[w]] = @ + 1]
             /\ Goto(w, "writeThrough")
    <3>1. run[w] \in Runs /\ run[w] = runs /\ page[w] \in Pages
      BY <1>a, <1>d, <2>1 DEF IInv, RunNumbers, Runs
    <3>2. /\ snapshots'[run[w]][page[w]] = snapshots[run[w]][page[w]] + 1
          /\ \A r \in Runs, p \in Pages :
               r # run[w] \/ p # page[w] => snapshots'[r][p] = snapshots[r][p]
      BY <2>3, <3>1, StoreCounts DEF IInv
    <3>3. snapshots[run[w]][page[w]] \in Nat
      BY <3>1 DEF IInv, TypeOK
    <3>4. /\ stored'[page[w]] = run[w]
          /\ \A p \in Pages : p # page[w] => stored'[p] = stored[p]
      BY <1>a, <2>3, <3>1
    <3>5. Ordered'
      <4>1. ASSUME NEW p \in Pages, p # page[w]
            PROVE  \A r \in Runs : snapshots'[r][p] = snapshots[r][p]
        BY <3>2, <4>1
      <4>2. ASSUME NEW r \in Runs, snapshots'[r][page[w]] > 0 PROVE r <= runs
        BY <1>a, <1>c, <3>1, <3>2, <4>2
      <4>3. QED
        BY <1>a, <1>c, <2>1, <3>1, <3>4, <4>1, <4>2 DEF Ordered
    <3>6. ASSUME NEW p \in 1..(page[w] - 1) PROVE SettledNext(run[w], p)
      <4>1. p \in Pages /\ p # page[w]
        BY <3>1 DEF Pages
      <4>2. Settled(run[w], p)
        BY <2>1 DEF SInv, PagesSettled
      <4>3. QED
        BY <2>1, <3>1, <3>2, <3>4, <4>1, <4>2 DEF Settled, SettledNext
    <3>7. /\ "writeThrough" \in Running
          /\ pc' = [pc EXCEPT ![w] = "writeThrough"]
          /\ \A v \in Workers : v # w => pc[v] \notin Running
      BY <1>b, <2>1, <2>3 DEF Goto, Running
    <3>8. snapshots'[run[w]][page[w]] > 0
      BY <3>2, <3>3
    <3>9. QED
      BY <2>1, <3>4, <3>5, <3>6, <3>7, <3>8, SInvKept
  <2>4. QED
    BY <1>6, <2>2, <2>3 DEF Store, UpsertMany, AppendPriceSnapshots
<1>7. ASSUME NEW w \in Workers, WriteThroughFails(w) PROVE SInv'
  <2>1. /\ pc[w] = "writeThrough" /\ pc[w] \in Running /\ pc[w] \in Tried
        /\ pc' = [pc EXCEPT ![w] = "failed"] /\ "failed" \in Running
        /\ UNCHANGED <<page, run, runs, stored, snapshots, deadLetters, empties>>
    BY <1>7 DEF WriteThroughFails, InRun, Goto, Running, Tried
  <2>2. page[w] \in Pages /\ stored[page[w]] \in {0, run[w]}
    BY <1>a, <2>1 DEF SInv, Latest
  <2>3. \A p \in Pages : \/ cached'[p] = cached[p]
                         \/ cached'[p] = run[w] /\ stored[p] \in {0, run[w]}
    BY <1>7, <1>a, <2>2 DEF WriteThroughFails
  <2>4. Ordered'
    BY <1>a, <1>c, <1>d, <2>1, <2>3 DEF Ordered
  <2>5. ASSUME NEW p \in 1..(page[w] - 1) PROVE SettledNext(run[w], p)
    <3>1. p \in Pages /\ p # page[w]
      BY <2>2 DEF Pages
    <3>2. Settled(run[w], p)
      BY <2>1 DEF SInv, PagesSettled
    <3>3. QED
      BY <2>1, <3>1, <3>2 DEF Settled, SettledNext
  <2>6. \A v \in Workers : v # w => pc[v] \notin Running
    BY <1>b, <2>1
  <2>7. QED
    BY <2>1, <2>4, <2>5, <2>6, SInvKept
<1>8. CASE \/ \E w \in Workers : LostReply(w)
           \/ \E p \in Pages : ReaderFill(p) \/ Expire(p)
           \/ OnDemand \/ Tick
           \/ UNCHANGED vars
  <2>1. UNCHANGED <<pc, page, run, runs, snapshots, deadLetters, empties>>
    BY <1>8 DEF LostReply, ReaderFill, Expire, OnDemand, Tick, vars
  <2>2. \A p \in Pages : stored'[p] \in {0, stored[p]}
    BY <1>8, <1>a DEF LostReply, ReaderFill, Expire, OnDemand, Tick, vars
  <2>3. \A p \in Pages : \/ cached'[p] \in {0, cached[p], stored[p]}
                         \/ cached'[p] \in Runs /\ snapshots[cached'[p]][p] > 0
    <3>1. ASSUME NEW q \in Pages, ReaderFill(q), NEW p \in Pages
          PROVE  \/ cached'[p] \in {0, cached[p], stored[p]}
                 \/ cached'[p] \in Runs /\ snapshots[cached'[p]][p] > 0
      <4>1. PICK r \in {x \in Runs : snapshots[x][q] > 0} \cup {0, stored[q]} :
                   cached' = [cached EXCEPT ![q] = r]
        BY <3>1 DEF ReaderFill
      <4>2. CASE p = q
        BY <1>a, <4>1, <4>2
      <4>3. CASE p # q
        BY <1>a, <4>1, <4>3
      <4>4. QED
        BY <4>2, <4>3
    <3>2. QED
      BY <1>8, <1>a, <3>1 DEF LostReply, Expire, OnDemand, Tick, vars
  <2>4. UNCHANGED <<stored, cached>> \/ UNCHANGED stored \/ UNCHANGED cached
    BY <1>8 DEF LostReply, ReaderFill, Expire, OnDemand, Tick, vars
  <2>5. Ordered'
    <3>1. ASSUME NEW p \in Pages PROVE cached'[p] <= runs
      BY <1>a, <1>c, <2>3 DEF Ordered
    <3>2. ASSUME NEW p \in Pages, stored'[p] # 0 PROVE cached'[p] <= stored'[p]
      <4>1. stored'[p] = stored[p]
        BY <2>2, <3>2
      <4>2. QED
        BY <1>a, <1>c, <2>3, <3>2, <4>1 DEF Ordered
    <3>3. QED
      BY <1>a, <1>c, <2>1, <2>2, <3>1, <3>2 DEF Ordered
  <2>6. \A w \in Workers : 1..(page[w] - 1) \subseteq Pages /\ page[w] \in Pages
    BY <1>a DEF Pages
  <2>7. Latest'
    BY <2>1, <2>2, <2>6 DEF SInv, Latest
  <2>8. \A w \in Workers, p \in Pages : Settled(run[w], p) => SettledNext(run[w], p)
    BY <2>1, <2>2 DEF Settled, SettledNext
  <2>9. PagesSettled'
    BY <2>1, <2>6, <2>8 DEF SInv, PagesSettled, Settled, SettledNext
  <2>10. QED
    BY <2>5, <2>7, <2>9 DEF SInv
<1>9. ASSUME NEW w \in Workers, Purge(w) PROVE SInv'
  <2>1. /\ pc[w] \in Running /\ pc' = [pc EXCEPT ![w] = "release"]
        /\ UNCHANGED <<page, run, runs, stored, cached, deadLetters, empties>>
        /\ "release" \in Running /\ "release" \notin Trying \cup Tried
    BY <1>9 DEF Purge, InRun, Goto, Running, Trying, Tried
  <2>2. \A r \in Runs, p \in Pages : snapshots'[r][p] \in {0, snapshots[r][p]}
    BY <1>9, PurgeCounts DEF IInv
  <2>3. \A r \in Runs, p \in Pages : snapshots'[r][p] > 0 => snapshots[r][p] > 0
    BY <2>2
  <2>4. Ordered'
    BY <1>c, <2>1, <2>3 DEF Ordered
  <2>5. \A v \in Workers : v # w => pc[v] \notin Running
    BY <1>b, <2>1
  <2>6. QED
    BY <2>1, <2>4, <2>5, SInvKept
<1>10. QED
  BY <1>1, <1>2, <1>4, <1>5, <1>6, <1>7, <1>8, <1>9 DEF Next, Progress, Skip

\* SInv holds while no run outlives the lock.
LEMMA SafeWhenExclusive == ASSUME HoldMax < LockTtl PROVE Spec => []SInv
<1>1. Init => SInv
  BY ConstantsFact DEF ConstantsOK, Init, SInv, Latest, Ordered, PagesSettled, Pages,
                       Running, Trying, Tried
<1>2. IInv /\ IInv' /\ RunsExclusive /\ RunsExclusive' /\ SInv /\ [Next]_vars => SInv'
  BY SInvStep
<1>3. Spec => []RunsExclusive
  BY HoldMax < LockTtl, RunsExclude
<1>4. QED
  BY <1>1, <1>2, <1>3, WorkerInvariant, PTL DEF Spec

\* While no run outlives the lock, Redis never serves the prices of a later run than
\* PostgreSQL has, whatever on-demand refreshes commit and readers store between.
THEOREM CacheFollowsDatabase == ASSUME HoldMax < LockTtl PROVE Spec => []CacheNeverAhead
<1>1. SInv => CacheNeverAhead
  BY DEF SInv, Ordered, CacheNeverAhead
<1>2. Spec => []SInv
  BY HoldMax < LockTtl, SafeWhenExclusive
<1>3. QED
  BY <1>1, <1>2, PTL

\* While no run outlives the lock, a run that reaches its end has stored each
\* page, found it empty or recorded it as a dead letter.
THEOREM EveryPageAccounted == ASSUME HoldMax < LockTtl PROVE Spec => []PagesAccounted
<1>1. SInv => PagesAccounted
  BY DEF SInv, PagesSettled, PagesAccounted
<1>2. Spec => []SInv
  BY HoldMax < LockTtl, SafeWhenExclusive
<1>3. QED
  BY <1>1, <1>2, PTL

\* While no run outlives the lock, no run puts its prices over those of a later one,
\* whatever on-demand refreshes commit between.
THEOREM PricesOnlyAdvance == ASSUME HoldMax < LockTtl PROVE Spec => []PricesNeverGoBack
<1>1. SInv => PricesNeverGoBack
  BY DEF SInv, Ordered, PricesNeverGoBack
<1>2. Spec => []SInv
  BY HoldMax < LockTtl, SafeWhenExclusive
<1>3. QED
  BY <1>1, <1>2, PTL
-----------------------------------------------------------------------------
(* What overlapping runs cannot spoil.  When runs may outlive the lock,    *)
(* prices can go back and Redis can be ahead; what a run leaves behind for *)
(* each page is there all the same.                                        *)

\* Nothing that a run has recorded is taken back while the run goes on.
LEMMA RunRecordsKept ==
  ASSUME IInv, [Next]_vars
  PROVE  /\ deadLetters \subseteq deadLetters' /\ empties \subseteq empties'
         /\ \A v \in Workers, p \in Pages :
              pc[v] \in Running => snapshots'[run[v]][p] >= snapshots[run[v]][p]
<1> USE DEF local, lock, database
<1>1. \A r \in Runs, p \in Pages : snapshots[r][p] \in Nat
  BY ConstantsFact DEF IInv, TypeOK, ConstantsOK
<1>2. \A v \in Workers : pc[v] \in Running => run[v] \in Runs
  BY ConstantsFact DEF IInv, TypeOK, RunNumbers, Runs, ConstantsOK
<1> DEFINE Kept == \A v \in Workers, p \in Pages :
                     pc[v] \in Running => snapshots'[run[v]][p] >= snapshots[run[v]][p]
<1>3. ASSUME snapshots' = snapshots PROVE Kept
  BY <1>1, <1>2, <1>3
<1>4. ASSUME NEW w \in Workers, Store(w) PROVE Kept
  <2>1. CASE snapshots' = snapshots
    BY <1>3, <2>1
  <2>2. CASE snapshots' # snapshots
    <3>1. snapshots' = [snapshots EXCEPT ![run[w]][page[w]] = @ + 1]
      BY <1>4, <2>2 DEF Store, AppendPriceSnapshots
    <3>2. run[w] \in Runs /\ page[w] \in Pages
      BY <1>4 DEF Store, InRun, IInv, TypeOK, RunNumbers, Running, Runs
    <3>3. snapshots'[run[w]][page[w]] = snapshots[run[w]][page[w]] + 1
      BY <3>1, <3>2, StoreCounts DEF IInv
    <3>4. \A r \in Runs, p \in Pages :
              r # run[w] \/ p # page[w] => snapshots'[r][p] = snapshots[r][p]
      BY <3>1, <3>2, StoreCounts DEF IInv
    <3>5. \A r \in Runs, p \in Pages : snapshots'[r][p] >= snapshots[r][p]
      BY <1>1, <3>2, <3>3, <3>4
    <3>6. QED
      BY <1>2, <3>5
  <2>3. QED
    BY <2>1, <2>2
<1>5. ASSUME NEW w \in Workers, Purge(w) PROVE Kept
  <2>1. \A v \in holders, p \in Pages :
          run[v] \in Runs => snapshots'[run[v]][p] = snapshots[run[v]][p]
    BY <1>5, PurgeCounts DEF IInv
  <2>2. QED
    BY <1>1, <1>2, <2>1 DEF holders
<1>6. (\A w \in Workers : ~Store(w) /\ ~Purge(w)) => snapshots' = snapshots
  <2>1. ASSUME NEW w \in Workers,
               \/ Start(w) \/ Skip(w) \/ LostReply(w) \/ Crash(w) \/ Cancel(w) \/ Restart(w)
        PROVE snapshots' = snapshots
    BY <2>1 DEF Start, Skip, LostReply, Crash, Cancel, Restart, vars
  <2>2. ASSUME NEW w \in Workers, Progress(w), ~Store(w), ~Purge(w)
        PROVE  snapshots' = snapshots
    BY <2>2 DEF Progress, FetchOk, FetchEmpty, FetchFails, WriteThrough, WriteThroughFails,
                Failed, Backoff, DeadLetter, DeadLetterFails, Publish, Release, ReleaseFails
  <2>3. QED
    BY <2>1, <2>2 DEF Next, ReaderFill, Expire, OnDemand, Tick, vars
<1>7. deadLetters \subseteq deadLetters' /\ empties \subseteq empties'
  <2>1. ASSUME NEW w \in Workers,
               \/ Start(w) \/ Skip(w) \/ LostReply(w) \/ Crash(w) \/ Cancel(w) \/ Restart(w)
        PROVE deadLetters' = deadLetters /\ empties' = empties
    BY <2>1 DEF Start, Skip, LostReply, Crash, Cancel, Restart, vars
  <2>2. ASSUME NEW w \in Workers, Progress(w)
        PROVE deadLetters \subseteq deadLetters' /\ empties \subseteq empties'
    BY <2>2 DEF Progress, FetchOk, FetchEmpty, FetchFails, Store, WriteThrough,
                WriteThroughFails, Failed, Backoff, DeadLetter, WriteDeadLetter,
                DeadLetterFails, Publish, Purge, Release, ReleaseFails
  <2>3. QED
    BY <2>1, <2>2 DEF Next, ReaderFill, Expire, OnDemand, Tick, vars
<1>8. QED
  BY <1>3, <1>4, <1>5, <1>6, <1>7

\* The run has left something of the page in PostgreSQL, or CoinGecko had nothing.
Traced(r, p) == <<r, p>> \in deadLetters \cup empties \/ snapshots[r][p] > 0
TracedNext(r, p) == <<r, p>> \in deadLetters' \cup empties' \/ snapshots'[r][p] > 0

\* A run that gets to its end has committed each page at least once, found it empty
\* or recorded it as given up: the part of PagesAccounted that needs no lock.
PagesTraced == \A w \in Workers : pc[w] \in {"publish", "purge"}
                                  => \A p \in Pages : Traced(run[w], p)

TracedSoFar == \A w \in Workers :
    /\ pc[w] \in Trying \cup Tried => \A p \in 1..(page[w] - 1) : Traced(run[w], p)
    /\ pc[w] = "writeThrough" => snapshots[run[w]][page[w]] > 0
    /\ pc[w] \in {"publish", "purge"} => \A p \in Pages : Traced(run[w], p)

LEMMA TracedStep ==
  ASSUME IInv, IInv', TracedSoFar, [Next]_vars
  PROVE  TracedSoFar'
<1> USE DEF local, lock, database
<1>1. /\ pc \in [Workers -> {"idle", "down"} \cup Running]
      /\ page \in [Workers -> Pages] /\ run \in [Workers -> 0..MaxRuns]
      /\ attempt \in [Workers -> 1..MaxRetries]
      /\ \A w \in Workers : pc[w] \in Running => run[w] \in Runs
      /\ Pages = 1..TotalPages /\ TotalPages \in Nat \ {0}
  <2>1. TypeOK /\ \A w \in Workers : pc[w] \in Running => run[w] # 0
    BY DEF IInv, RunNumbers
  <2>2. \A w \in Workers : pc[w] \in Running => run[w] \in Runs
    BY <2>1, ConstantsFact DEF TypeOK, Runs, ConstantsOK
  <2>3. QED
    BY <2>1, <2>2, ConstantsFact DEF TypeOK, Pages, ConstantsOK
<1>2. \A v \in Workers, p \in Pages : pc[v] \in Running =>
         /\ Traced(run[v], p) => TracedNext(run[v], p)
         /\ snapshots[run[v]][p] > 0 => snapshots'[run[v]][p] > 0
  <2>1. ASSUME NEW v \in Workers, NEW p \in Pages, pc[v] \in Running,
               snapshots[run[v]][p] > 0
        PROVE  snapshots'[run[v]][p] > 0
    <3>1. snapshots'[run[v]][p] >= snapshots[run[v]][p]
      BY <2>1, RunRecordsKept
    <3>2. /\ snapshots \in [Runs -> [Pages -> 0..MaxRetries]]
          /\ snapshots' \in [Runs -> [Pages -> 0..MaxRetries]]
      BY DEF IInv, TypeOK
    <3>3. run[v] \in Runs
      BY <1>1, <2>1
    <3>4. MaxRetries \in Nat
      BY ConstantsFact DEF ConstantsOK
    <3>5. snapshots[run[v]][p] \in Int /\ snapshots'[run[v]][p] \in Int
      BY <2>1, <3>2, <3>3, <3>4
    <3>6. QED
      BY <2>1, <3>1, <3>5
  <2>2. QED
    BY <2>1, RunRecordsKept DEF Traced, TracedNext
<1> DEFINE Here(v) ==
      /\ pc'[v] \in Trying \cup Tried => \A p \in 1..(page'[v] - 1) : TracedNext(run'[v], p)
      /\ pc'[v] = "writeThrough" => snapshots'[run'[v]][page'[v]] > 0
      /\ pc'[v] \in {"publish", "purge"} => \A p \in Pages : TracedNext(run'[v], p)
<1> USE DEF Trying, Tried, Running
<1>3. ASSUME NEW v \in Workers, run'[v] = run[v], page'[v] = page[v],
             pc'[v] \in Trying \cup Tried => pc[v] \in Trying \cup Tried,
             pc'[v] \in {"publish", "purge"} => pc[v] \in {"publish", "purge"},
             pc'[v] = "writeThrough" => \/ pc[v] = "writeThrough"
                                        \/ snapshots'[run[v]][page[v]] > 0
      PROVE Here(v)
  <2>1. pc[v] = "writeThrough" => snapshots'[run[v]][page[v]] > 0
    <3>1. pc[v] = "writeThrough" => /\ snapshots[run[v]][page[v]] > 0
                                    /\ run[v] \in Runs /\ page[v] \in Pages
      BY <1>1 DEF TracedSoFar
    <3>2. QED
      BY <1>2, <3>1
  <2>2. pc[v] \in Trying \cup Tried => \A p \in 1..(page[v] - 1) : TracedNext(run[v], p)
    <3> SUFFICES ASSUME pc[v] \in Trying \cup Tried, NEW p \in 1..(page[v] - 1)
                 PROVE  TracedNext(run[v], p)
      OBVIOUS
    <3>1. p \in Pages /\ run[v] \in Runs
      BY <1>1
    <3>2. Traced(run[v], p)
      BY DEF TracedSoFar
    <3>3. QED
      BY <1>2, <3>1, <3>2
  <2>3. pc[v] \in {"publish", "purge"} => \A p \in Pages : TracedNext(run[v], p)
    BY <1>1, <1>2 DEF TracedSoFar
  <2>4. QED
    BY <1>3, <2>1, <2>2, <2>3
<1>4. ASSUME NEW w \in Workers, pc[w] \in Trying \cup Tried, NextPage(w), run' = run,
             TracedNext(run[w], page[w])
      PROVE  Here(w)
  <2>1. \A p \in 1..(page[w] - 1) : TracedNext(run[w], p)
    <3> SUFFICES ASSUME NEW p \in 1..(page[w] - 1) PROVE TracedNext(run[w], p)
      OBVIOUS
    <3>1. p \in Pages /\ pc[w] \in Running
      BY <1>1, <1>4
    <3>2. Traced(run[w], p)
      BY <1>4 DEF TracedSoFar
    <3>3. QED
      BY <1>2, <3>1, <3>2
  <2>2. \A p \in 1..page[w] : TracedNext(run[w], p)
    BY <1>1, <1>4, <2>1
  <2>3. /\ pc'[w] = IF page[w] = TotalPages THEN "publish" ELSE "fetch"
        /\ page'[w] = IF page[w] = TotalPages THEN page[w] ELSE page[w] + 1
    BY <1>1, <1>4 DEF NextPage, Goto
  <2>4. CASE page[w] = TotalPages
    BY <1>1, <1>4, <2>2, <2>3, <2>4
  <2>5. CASE page[w] # TotalPages
    <3>1. pc'[w] = "fetch" /\ page'[w] - 1 = page[w]
      BY <1>1, <2>3, <2>5
    <3>2. QED
      BY <1>4, <2>2, <3>1
  <2>6. QED
    BY <2>4, <2>5
<1> DEFINE Kept(v) == run'[v] = run[v] /\ page'[v] = page[v] /\ pc'[v] = pc[v]
<1>5. ASSUME NEW v \in Workers, Kept(v) PROVE Here(v)
  BY <1>3, <1>5
<1> HIDE DEF Here
<1>6. ASSUME NEW w \in Workers, Start(w) PROVE \A v \in Workers : Here(v)
  <2>1. \A v \in Workers : v # w => Kept(v)
    BY <1>1, <1>6 DEF Start, Goto
  <2>2. pc'[w] = "fetch" /\ page'[w] = 1
    BY <1>1, <1>6 DEF Start, Goto
  <2>3. Here(w)
    BY <2>2 DEF Here
  <2>4. QED
    BY <1>5, <2>1, <2>3
<1>7. ASSUME NEW w \in Workers,
             Release(w) \/ ReleaseFails(w) \/ Crash(w) \/ Restart(w) \/ Cancel(w)
             \/ DeadLetterFails(w)
      PROVE \A v \in Workers : Here(v)
  <2>1. \A v \in Workers : v # w => Kept(v)
    BY <1>1, <1>7 DEF Release, ReleaseFails, Crash, Restart, Cancel, DeadLetterFails, InRun,
                      EndRun, Goto
  <2>2. pc'[w] \in {"idle", "down", "release"}
    BY <1>1, <1>7 DEF Release, ReleaseFails, Crash, Restart, Cancel, DeadLetterFails, Goto
  <2>3. Here(w)
    BY <2>2 DEF Here
  <2>4. QED
    BY <1>5, <2>1, <2>3
<1>8. ASSUME NEW w \in Workers,
             FetchOk(w) \/ FetchFails(w) \/ Store(w) \/ WriteThroughFails(w) \/ Failed(w)
             \/ Backoff(w) \/ Publish(w) \/ Purge(w)
      PROVE \A v \in Workers : Here(v)
  <2>1. /\ \A v \in Workers : v # w => Kept(v)
        /\ run'[w] = run[w] /\ page'[w] = page[w]
    BY <1>1, <1>8 DEF FetchOk, FetchFails, Store, WriteThroughFails, Failed, Backoff, Publish,
                      Purge, InRun, Goto
  <2>2. /\ pc'[w] \in Trying \cup Tried => pc[w] \in Trying \cup Tried
        /\ pc'[w] \in {"publish", "purge"} => pc[w] \in {"publish", "purge"}
        /\ pc'[w] = "writeThrough" => pc[w] = "store" /\ AppendPriceSnapshots(w)
    BY <1>1, <1>8 DEF FetchOk, FetchFails, Store, WriteThroughFails, Failed, Backoff, Publish,
                      Purge, InRun, Goto
  <2>3. pc'[w] = "writeThrough" => snapshots'[run[w]][page[w]] > 0
    <3> SUFFICES ASSUME pc'[w] = "writeThrough" PROVE snapshots'[run[w]][page[w]] > 0
      OBVIOUS
    <3>1. run[w] \in Runs /\ page[w] \in Pages
      BY <1>1, <2>2
    <3>2. snapshots'[run[w]][page[w]] = snapshots[run[w]][page[w]] + 1
      BY <2>2, <3>1, StoreCounts DEF IInv, AppendPriceSnapshots
    <3>3. snapshots[run[w]][page[w]] \in Nat
      BY <3>1, ConstantsFact DEF IInv, TypeOK, ConstantsOK
    <3>4. QED
      BY <3>2, <3>3
  <2>4. Here(w)
    BY <1>3, <2>1, <2>2, <2>3
  <2>5. QED
    BY <1>5, <2>1, <2>4
<1>9. ASSUME NEW w \in Workers, FetchEmpty(w) \/ WriteThrough(w) \/ DeadLetter(w)
      PROVE \A v \in Workers : Here(v)
  <2>1. /\ pc[w] \in Trying \cup Tried /\ NextPage(w) /\ run' = run
        /\ \A v \in Workers : v # w => Kept(v)
    BY <1>1, <1>9 DEF FetchEmpty, WriteThrough, DeadLetter, InRun, NextPage, Goto
  <2>2. TracedNext(run[w], page[w])
    <3>1. CASE FetchEmpty(w) \/ DeadLetter(w)
      BY <3>1 DEF FetchEmpty, DeadLetter, WriteDeadLetter, TracedNext
    <3>2. CASE WriteThrough(w)
      BY <3>2 DEF WriteThrough, InRun, TracedSoFar, TracedNext
    <3>3. QED
      BY <1>9, <3>1, <3>2
  <2>3. Here(w)
    BY <1>4, <2>1, <2>2
  <2>4. QED
    BY <1>5, <2>1, <2>3
<1>10. ASSUME UNCHANGED local PROVE \A v \in Workers : Here(v)
  BY <1>5, <1>10
<1>11. \A v \in Workers : Here(v)
  BY <1>6, <1>7, <1>8, <1>9, <1>10
  DEF Next, Progress, Skip, LostReply, ReaderFill, Expire, OnDemand, Tick, vars
<1>12. QED
  BY <1>11 DEF TracedSoFar, Traced, TracedNext, Here

\* Whatever overlaps, crashes and outlives the lock, a run that gets to its end has
\* left a trace of every page.
THEOREM EveryPageTraced == Spec => []PagesTraced
<1>1. Init => TracedSoFar
  BY DEF Init, TracedSoFar, Trying, Tried
<1>2. IInv /\ IInv' /\ TracedSoFar /\ [Next]_vars => TracedSoFar'
  BY TracedStep
<1>3. TracedSoFar => PagesTraced
  BY DEF TracedSoFar, PagesTraced
<1>4. QED
  BY <1>1, <1>2, <1>3, WorkerInvariant, PTL DEF Spec
-----------------------------------------------------------------------------
(* Termination.  RunEnds needs fairness and is left to TLC; a run has only *)
(* so many steps, however many of its calls fail.                          *)

\* Where a run is: over its pages (0), or on its way out.
Exit(w) == [publish |-> 1, purge |-> 2, release |-> 3, fetch |-> 0, store |-> 0,
            writeThrough |-> 0, failed |-> 0, backoff |-> 0, deadLetter |-> 0][pc[w]]

\* Where an attempt is.
Stage(w) == [fetch |-> 1, store |-> 2, writeThrough |-> 3, failed |-> 4, backoff |-> 5,
             deadLetter |-> 5, publish |-> 0, purge |-> 0, release |-> 0][pc[w]]

\* Further on in the order of exits, then pages, then attempts, then stages.  Each
\* has finitely many values (TypeOK), so that order has no endless way up.
FurtherOn(w) ==
    \/ Exit(w)' > Exit(w)
    \/ /\ Exit(w)' = Exit(w)
       /\ \/ page'[w] > page[w]
          \/ /\ page'[w] = page[w]
             /\ \/ attempt'[w] > attempt[w]
                \/ attempt'[w] = attempt[w] /\ Stage(w)' > Stage(w)

Standing(w) == /\ pc'[w] = pc[w] /\ page'[w] = page[w] /\ attempt'[w] = attempt[w]
               /\ run'[w] = run[w]

\* A run that neither ends nor stands still is further on; nobody else's step, no
\* failure and no crash sends it back to a page or an attempt it has made.
RunStep == \A w \in Workers : pc[w] \in Running /\ pc'[w] \in Running
                              => Standing(w) \/ (run'[w] = run[w] /\ FurtherOn(w))
RunAdvances == [][RunStep]_vars

LEMMA RunStepHolds == ASSUME IInv, Next PROVE RunStep
<1> SUFFICES ASSUME NEW w \in Workers, pc[w] \in Running, pc'[w] \in Running
             PROVE  Standing(w) \/ (run'[w] = run[w] /\ FurtherOn(w))
  BY DEF RunStep
<1> USE DEF local, lock, database, Running
<1>1. /\ pc \in [Workers -> {"idle", "down"} \cup Running]
      /\ page \in [Workers -> Pages] /\ run \in [Workers -> 0..MaxRuns]
      /\ attempt \in [Workers -> 1..MaxRetries]
      /\ Pages = 1..TotalPages /\ TotalPages \in Nat \ {0} /\ MaxRetries \in Nat
  BY ConstantsFact DEF IInv, TypeOK, Pages, ConstantsOK
<1>2. UNCHANGED local => Standing(w)
  BY DEF Standing
<1>3. ASSUME NEW v \in Workers, v # w,
             \/ Start(v) \/ Skip(v) \/ LostReply(v) \/ Crash(v) \/ Cancel(v) \/ Restart(v)
      PROVE  Standing(w)
  BY <1>1, <1>3 DEF Start, Skip, LostReply, Crash, Cancel, Restart, EndRun, Goto, vars, Standing
<1>4. ASSUME NEW v \in Workers, v # w, Progress(v) PROVE Standing(w)
  <2>1. CASE \/ FetchOk(v) \/ FetchFails(v) \/ Store(v) \/ WriteThroughFails(v) \/ Failed(v)
             \/ Backoff(v) \/ DeadLetterFails(v) \/ Publish(v) \/ Purge(v)
    BY <1>1, <1>4, <2>1 DEF FetchOk, FetchFails, Store, WriteThroughFails, Failed, Backoff,
        DeadLetterFails, Publish, Purge, InRun, Goto, Standing
  <2>2. CASE FetchEmpty(v) \/ WriteThrough(v) \/ DeadLetter(v)
    BY <1>1, <1>4, <2>2 DEF FetchEmpty, WriteThrough, DeadLetter, NextPage, InRun, Goto, Standing
  <2>3. CASE Release(v) \/ ReleaseFails(v)
    BY <1>1, <1>4, <2>3 DEF Release, ReleaseFails, EndRun, Goto, Standing
  <2>4. QED
    BY <1>4, <2>1, <2>2, <2>3 DEF Progress
<1>5. ~Start(w) /\ ~Crash(w) /\ ~Restart(w) /\ ~Release(w) /\ ~ReleaseFails(w) /\ ~LostReply(w)
  BY <1>1 DEF Start, Crash, Restart, Release, ReleaseFails, LostReply, Goto
<1>6. ASSUME Cancel(w) \/ DeadLetterFails(w) \/ Publish(w) \/ Purge(w)
      PROVE  run' = run /\ FurtherOn(w)
  BY <1>1, <1>6 DEF Cancel, DeadLetterFails, Publish, Purge, InRun, Goto, FurtherOn, Exit
<1>7. ASSUME FetchOk(w) \/ FetchFails(w) \/ Store(w) \/ WriteThroughFails(w)
      PROVE  run' = run /\ FurtherOn(w)
  BY <1>1, <1>7 DEF FetchOk, FetchFails, Store, WriteThroughFails, InRun, Goto, FurtherOn,
                    Exit, Stage
<1>8. ASSUME Failed(w) PROVE run' = run /\ FurtherOn(w)
  BY <1>1, <1>8 DEF Failed, InRun, Goto, FurtherOn, Exit, Stage
<1>9. ASSUME Backoff(w) PROVE run' = run /\ FurtherOn(w)
  BY <1>1, <1>9 DEF Backoff, InRun, Goto, FurtherOn, Exit
<1>10. ASSUME FetchEmpty(w) \/ WriteThrough(w) \/ DeadLetter(w)
       PROVE  run' = run /\ FurtherOn(w)
  <2>1. /\ run' = run /\ Exit(w) = 0
        /\ pc'[w] = IF page[w] = TotalPages THEN "publish" ELSE "fetch"
        /\ page'[w] = IF page[w] = TotalPages THEN page[w] ELSE page[w] + 1
    BY <1>1, <1>10 DEF FetchEmpty, WriteThrough, DeadLetter, NextPage, InRun, Goto, Exit
  <2>2. CASE page[w] = TotalPages
    BY <2>1, <2>2 DEF FurtherOn, Exit
  <2>3. CASE page[w] # TotalPages
    BY <1>1, <2>1, <2>3 DEF FurtherOn, Exit
  <2>4. QED
    BY <2>2, <2>3
<1>11. ASSUME Next PROVE Standing(w) \/ (run'[w] = run[w] /\ FurtherOn(w))
  <2>1. CASE Tick \/ OnDemand \/ \E p \in Pages : ReaderFill(p) \/ Expire(p)
    BY <1>2, <2>1 DEF Tick, OnDemand, ReaderFill, Expire
  <2>2. CASE Skip(w)
    BY <1>2, <2>2 DEF Skip, vars
  <2>3. QED
    BY <1>3, <1>4, <1>5, <1>6, <1>7, <1>8, <1>9, <1>10, <1>11, <2>1, <2>2 DEF Next, Progress
<1>12. QED
  BY <1>11

\* For any number of workers, pages and retries: a run is a way up in an order
\* without endless ways up.
THEOREM RunsAreBounded == Spec => RunAdvances
<1>1. IInv /\ [Next]_vars => [RunStep]_vars
  BY RunStepHolds
<1>2. QED
  BY <1>1, WorkerInvariant, PTL DEF Spec, RunAdvances
=============================================================================
