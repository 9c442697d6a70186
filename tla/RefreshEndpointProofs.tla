------------------------ MODULE RefreshEndpointProofs ------------------------
(***************************************************************************)
(* Proofs about RefreshEndpoint and the CoinCache under it, for any number *)
(* of readers, requests and price changes: the variables keep their types, *)
(* a stale entry is explained, a retry starts nothing and "completed"      *)
(* means committed.                                                        *)
(***************************************************************************)
EXTENDS RefreshEndpoint, TLAPS

\* What a writer fetched is 0 only for a task that has committed.
FetchedOrSaved == \A w \in Writers : IF got[w] = 0 THEN w # Worker /\ pc[w] = "saved"
                                                   ELSE w # Worker => pc[w] # "saved"

\* The rows' locks are held by one writer at a time.
OneOpen == \A v, w \in open : v = w

\* A reader that has selected rows knows which entry they are for.
FillsAKey == \A r \in Readers : reading[r].key = "none" => reading[r].seen = 0

\* An entry that nobody excuses is one every open transaction has yet to delete,
\* and equals the rows unless the worker comes to it next.
Fresh(k) == cache[k] = rows \/ (Worker \notin open /\ k \in Ahead(Worker))
Explained == \A k \in Keys : cache[k] # 0 /\ k \notin excused
                 => Fresh(k) /\ \A w \in open : k \in Ahead(w)

CInv == CoinTypeOK /\ FetchedOrSaved /\ FillsAKey /\ OneOpen /\ Explained

\* While a request has been answered the marker is there, and those that arrived
\* since have not got past it.
PromiseMarked == promise => marker # "none"
LateWaits == \A q \in late : promise /\ request[q] = "arrived"

IInv == TypeOK /\ CInv /\ PromiseMarked /\ LateWaits
-----------------------------------------------------------------------------
LEMMA ConstantsFact == Worker \notin Tasks /\ MaxMarket \in Nat \ {0}
  BY WorkerAssumption, MaxMarketAssumption

\* Whether w holds the rows' locks, and whether it has yet to come to key k,
\* when it is at step p.
OpenAt(w, p) == IF w = Worker THEN p = "commit"
                              ELSE p \in {"list", "detail", "movers", "commit"}
KeyAhead(w, p, k) ==
    IF w = Worker
    THEN p \in {"commit", "detail"} \/ (p = "list" /\ k # "detail") \/ (p = k /\ k = "movers")
    ELSE p = "list" \/ (p = "detail" /\ k # "list") \/ (p = k /\ k = "movers")

\* The steps of an order of four from step p on.
LEMMA FromStep ==
  ASSUME NEW a, NEW b, NEW c, NEW d, NEW p
  PROVE  {<<a, b, c, d>>[j] : j \in {j \in 1..4 : \E i \in 1..j : <<a, b, c, d>>[i] = p}}
           = {x \in {a, b, c, d} : \/ x = a /\ a = p
                                   \/ x = b /\ p \in {a, b}
                                   \/ x = c /\ p \in {a, b, c}
                                   \/ x = d /\ p \in {a, b, c, d}}
<1>1. 1..4 = {1, 2, 3, 4} /\ 1..1 = {1} /\ 1..2 = {1, 2} /\ 1..3 = {1, 2, 3}
  OBVIOUS
<1>2. QED
  BY <1>1

\* What is ahead of a writer now, in terms of its step.
LEMMA AheadNow ==
  ASSUME NEW w
  PROVE  /\ "commit" \in Ahead(w) <=> OpenAt(w, pc[w])
         /\ \A k \in Keys : k \in Ahead(w) <=> KeyAhead(w, pc[w], k)
<1>1. CASE w = Worker
  BY <1>1, FromStep DEF Ahead, OpenAt, KeyAhead, Keys
<1>2. CASE w # Worker
  BY <1>2, FromStep DEF Ahead, OpenAt, KeyAhead, Keys
<1>3. QED
  BY <1>1, <1>2

\* The same after a step.
LEMMA AheadNext ==
  ASSUME NEW w
  PROVE  /\ ("commit" \in Ahead(w))' <=> OpenAt(w, pc'[w])
         /\ \A k \in Keys : (k \in Ahead(w))' <=> KeyAhead(w, pc'[w], k)
<1>1. CASE w = Worker
  BY <1>1, FromStep DEF Ahead, OpenAt, KeyAhead, Keys
<1>2. CASE w # Worker
  BY <1>2, FromStep DEF Ahead, OpenAt, KeyAhead, Keys
<1>3. QED
  BY <1>1, <1>2

\* Explained and OneOpen, in terms of the writers' steps.
FreshAt(k) == cache[k] = rows \/ (~OpenAt(Worker, pc[Worker])
                                   /\ KeyAhead(Worker, pc[Worker], k))
ExplainedAt == \A k \in Keys : cache[k] # 0 /\ k \notin excused
                 => FreshAt(k) /\ \A w \in Writers : OpenAt(w, pc[w]) => KeyAhead(w, pc[w], k)
OneOpenAt == \A v, w \in Writers : OpenAt(v, pc[v]) /\ OpenAt(w, pc[w]) => v = w

LEMMA ExplainedNow == (Explained <=> ExplainedAt) /\ (OneOpen <=> OneOpenAt)
<1>1. \A w : w \in open <=> w \in Writers /\ OpenAt(w, pc[w])
  BY AheadNow DEF open
<1>2. \A w : \A k \in Keys : k \in Ahead(w) <=> KeyAhead(w, pc[w], k)
  BY AheadNow
<1>3. Worker \in Writers
  BY DEF Writers
<1>4. Explained <=> ExplainedAt
  BY <1>1, <1>2, <1>3 DEF Explained, ExplainedAt, Fresh, FreshAt
<1>5. OneOpen <=> OneOpenAt
  BY <1>1 DEF OneOpen, OneOpenAt
<1>6. QED
  BY <1>4, <1>5

LEMMA ExplainedNext == (Explained' <=> ExplainedAt') /\ (OneOpen' <=> OneOpenAt')
<1>1. \A w : w \in open' <=> w \in Writers /\ OpenAt(w, pc'[w])
  BY AheadNext DEF open
<1>2. \A w : \A k \in Keys : (k \in Ahead(w))' <=> KeyAhead(w, pc'[w], k)
  BY AheadNext
<1>3. Worker \in Writers
  BY DEF Writers
<1>4. Explained' <=> ExplainedAt'
  BY <1>1, <1>2, <1>3 DEF Explained, ExplainedAt, Fresh, FreshAt, OpenAt, KeyAhead
<1>5. OneOpen' <=> OneOpenAt'
  BY <1>1 DEF OneOpen, OneOpenAt, OpenAt
<1>6. QED
  BY <1>4, <1>5
-----------------------------------------------------------------------------
(* CoinCache: each step preserves its part of the invariant.               *)

CInvAt == CoinTypeOK /\ FetchedOrSaved /\ FillsAKey /\ OneOpenAt /\ ExplainedAt

LEMMA AfterStep ==
  ASSUME NEW w
  PROVE  /\ After(w, "fetch") = "upsert"
         /\ After(w, "upsert") = IF w = Worker THEN "commit" ELSE "list"
         /\ After(w, "commit") = IF w = Worker THEN "detail" ELSE "saved"
         /\ After(w, "detail") = IF w = Worker THEN "list" ELSE "movers"
         /\ After(w, "list") = IF w = Worker THEN "movers" ELSE "detail"
         /\ After(w, "movers") = IF w = Worker THEN "fetch" ELSE "commit"
  BY DEF After, TaskSteps, WorkerSteps

\* Steps that leave what the invariant is about alone.
LEMMA QuietStep ==
  ASSUME CInvAt, UNCHANGED <<rows, cache, pc, got, excused>>,
         CoinTypeOK', FillsAKey'
  PROVE  CInvAt'
  BY DEF CInvAt, FetchedOrSaved, OneOpenAt, ExplainedAt, FreshAt, OpenAt, KeyAhead

LEMMA BeginStep ==
  ASSUME CInvAt, NEW t \in Tasks, Begin(t)
  PROVE  CInvAt'
<1> USE ConstantsFact DEF CInvAt, Writers, Goto
<1>1. CoinTypeOK'
  BY DEF Begin, CoinTypeOK, Steps
<1>2. FetchedOrSaved' /\ FillsAKey'
  BY DEF Begin, FillsAKey, FetchedOrSaved, CoinTypeOK
<1>3. \A w \in Writers : OpenAt(w, pc'[w]) = OpenAt(w, pc[w])
  BY DEF Begin, OpenAt, CoinTypeOK
<1>4. OneOpenAt'
  BY <1>3 DEF OneOpenAt, OpenAt
<1>5. \A w \in Writers : \A k \in Keys : KeyAhead(w, pc'[w], k) = KeyAhead(w, pc[w], k)
  BY DEF Begin, KeyAhead, CoinTypeOK
<1>6. ExplainedAt'
  BY <1>3, <1>5 DEF ExplainedAt, FreshAt, Begin, OpenAt, KeyAhead
<1>7. QED
  BY <1>1, <1>2, <1>4, <1>6

LEMMA EndStep ==
  ASSUME CInvAt, NEW t \in Tasks, End(t)
  PROVE  CInvAt'
<1> USE ConstantsFact DEF CInvAt, Writers, Goto, Forget
<1>1. CoinTypeOK'
  BY DEF End, CoinTypeOK, Steps
<1>2. FetchedOrSaved' /\ FillsAKey'
  BY DEF End, FillsAKey, FetchedOrSaved, CoinTypeOK
<1>3. \A w \in Writers : OpenAt(w, pc'[w]) = OpenAt(w, pc[w])
  BY DEF End, OpenAt, CoinTypeOK
<1>4. OneOpenAt'
  BY <1>3 DEF OneOpenAt, OpenAt
<1>5. \A w \in Writers : \A k \in Keys : KeyAhead(w, pc'[w], k) = KeyAhead(w, pc[w], k)
  BY DEF End, KeyAhead, CoinTypeOK
<1>6. ExplainedAt'
  BY <1>3, <1>5 DEF ExplainedAt, FreshAt, End, OpenAt, KeyAhead
<1>7. QED
  BY <1>1, <1>2, <1>4, <1>6

LEMMA FetchStep ==
  ASSUME CInvAt, NEW t \in Writers, Fetch(t)
  PROVE  CInvAt'
<1> USE ConstantsFact, AfterStep DEF CInvAt, Writers, Goto
<1>1. CoinTypeOK'
  BY DEF Fetch, CoinTypeOK, Steps, Versions
<1>2. FetchedOrSaved' /\ FillsAKey'
  BY DEF Fetch, FillsAKey, FetchedOrSaved, CoinTypeOK, Versions
<1>3. \A w \in Writers : OpenAt(w, pc'[w]) = OpenAt(w, pc[w])
  BY DEF Fetch, OpenAt, CoinTypeOK
<1>4. OneOpenAt'
  BY <1>3 DEF OneOpenAt, OpenAt
<1>5. \A w \in Writers : \A k \in Keys : KeyAhead(w, pc'[w], k) = KeyAhead(w, pc[w], k)
  BY DEF Fetch, KeyAhead, CoinTypeOK
<1>6. ExplainedAt'
  BY <1>3, <1>5 DEF ExplainedAt, FreshAt, Fetch, OpenAt, KeyAhead
<1>7. QED
  BY <1>1, <1>2, <1>4, <1>6
LEMMA NoneOpen == ASSUME open = {} PROVE \A w \in Writers : ~OpenAt(w, pc[w])
  BY AheadNow DEF open

LEMMA UpsertStep ==
  ASSUME CInvAt, NEW t \in Writers, UpsertMany(t)
  PROVE  CInvAt'
<1> USE ConstantsFact, AfterStep DEF CInvAt, Writers, Goto
<1>1. CoinTypeOK'
  BY DEF UpsertMany, CoinTypeOK, Steps, Keys
<1>2. FetchedOrSaved' /\ FillsAKey'
  BY DEF UpsertMany, FillsAKey, FetchedOrSaved, CoinTypeOK
<1>3. \A w \in Writers : OpenAt(w, pc'[w]) => w = t
  BY NoneOpen DEF UpsertMany, OpenAt, CoinTypeOK
<1>4. OneOpenAt'
  BY <1>3 DEF OneOpenAt, OpenAt
<1>5. \A k \in Keys : KeyAhead(t, pc'[t], k)
  BY DEF UpsertMany, KeyAhead, CoinTypeOK
<1>6. t # Worker => pc'[Worker] = pc[Worker]
  BY DEF UpsertMany, CoinTypeOK
<1>7. \A k \in Keys : FreshAt(k) => FreshAt(k)'
  BY <1>6 DEF UpsertMany, FreshAt, KeyAhead, OpenAt
<1>8. ExplainedAt'
  BY <1>3, <1>5, <1>7 DEF ExplainedAt, UpsertMany, KeyAhead, OpenAt
<1>9. QED
  BY <1>1, <1>2, <1>4, <1>8

\* Nobody but the writer that commits had the rows' locks; a task has deleted
\* every entry by then, and the worker comes to every entry next.
LEMMA CommitStep ==
  ASSUME CInvAt, NEW t \in Writers, Commit(t)
  PROVE  CInvAt'
<1> USE ConstantsFact, AfterStep DEF CInvAt, Writers, Goto
<1>1. CoinTypeOK'
  BY DEF Commit, CoinTypeOK, Steps, Keys, Versions, FetchedOrSaved
<1>2. FetchedOrSaved' /\ FillsAKey'
  BY DEF Commit, FillsAKey, FetchedOrSaved, CoinTypeOK
<1>3. OpenAt(t, pc[t])
  BY DEF Commit, OpenAt
<1>4. \A w \in Writers : ~OpenAt(w, pc'[w])
  BY <1>3 DEF Commit, OneOpenAt, OpenAt, CoinTypeOK
<1>5. OneOpenAt'
  BY <1>4 DEF OneOpenAt, OpenAt
<1>6. CASE t = Worker
  <2>1. \A k \in Keys : FreshAt(k)'
    BY <1>4, <1>6 DEF Commit, FreshAt, KeyAhead, OpenAt, CoinTypeOK
  <2>2. QED
    BY <2>1, <1>1, <1>2, <1>4, <1>5 DEF ExplainedAt, OpenAt
<1>7. CASE t # Worker
  <2>1. \A k \in Keys : cache[k] = 0 \/ k \in excused
    BY <1>3, <1>7 DEF Commit, ExplainedAt, KeyAhead
  <2>2. ExplainedAt'
    BY <2>1 DEF Commit, ExplainedAt
  <2>3. QED
    BY <2>2, <1>1, <1>2, <1>5
<1>8. QED
  BY <1>6, <1>7

LEMMA DeleteStep ==
  ASSUME CInvAt, NEW t \in Writers, NEW k \in Keys, DeletePattern(t, k)
  PROVE  CInvAt'
<1> USE ConstantsFact, AfterStep DEF CInvAt, Writers, Goto, Keys
<1>1. CoinTypeOK'
  BY DEF DeletePattern, Drop, CoinTypeOK, Steps
<1>2. FetchedOrSaved' /\ FillsAKey'
  BY DEF DeletePattern, FillsAKey, FetchedOrSaved, CoinTypeOK
<1>3. \A w \in Writers : OpenAt(w, pc'[w]) = OpenAt(w, pc[w])
  BY DEF DeletePattern, OpenAt, CoinTypeOK
<1>4. OneOpenAt'
  BY <1>3 DEF OneOpenAt, OpenAt
<1>5. \A w \in Writers : \A j \in Keys :
         j # k /\ KeyAhead(w, pc[w], j) => KeyAhead(w, pc'[w], j)
  BY DEF DeletePattern, KeyAhead, CoinTypeOK
<1>6. \A j \in Keys : j # k /\ FreshAt(j) => FreshAt(j)'
  BY <1>3, <1>5 DEF FreshAt, DeletePattern, Drop, OpenAt, KeyAhead, CoinTypeOK
<1>7. /\ cache'[k] = 0
      /\ \A j \in Keys : j # k => cache'[j] = cache[j] /\ (j \in excused' <=> j \in excused)
  BY DEF DeletePattern, Drop, CoinTypeOK
<1>8. \A j \in Keys : cache'[j] # 0 /\ j \notin excused'
         => FreshAt(j)' /\ \A w \in Writers : OpenAt(w, pc'[w]) => KeyAhead(w, pc'[w], j)
  BY <1>3, <1>5, <1>6, <1>7 DEF ExplainedAt
<1>9. ExplainedAt'
  BY <1>8 DEF ExplainedAt, OpenAt, KeyAhead
<1>10. QED
  BY <1>1, <1>2, <1>4, <1>9
\* An entry that is stored is up to date and nobody is past it, or it is excused.
LEMMA PutFacts ==
  ASSUME CoinTypeOK, NEW k \in Keys, NEW v, Put(k, v)
  PROVE  /\ cache'[k] = v
         /\ k \notin excused'
              => v = rows /\ \A w \in Writers : OpenAt(w, pc[w]) => KeyAhead(w, pc[w], k)
         /\ \A j \in Keys : j # k => cache'[j] = cache[j] /\ (j \in excused' <=> j \in excused)
         /\ excused' \subseteq Keys
  BY AheadNow DEF Put, open, CoinTypeOK

LEMMA StoreStep ==
  ASSUME CInvAt, NEW r \in Readers, Store(r)
  PROVE  CInvAt'
<1> DEFINE k == reading[r].key
           v == reading[r].seen
<1> USE DEF CInvAt
<1>1. k \in Keys \cup {"none"} /\ v \in 1..MaxMarket
  BY DEF Store, CoinTypeOK
<1>2. UNCHANGED <<market, rows, pc, got>> /\ cache' = [cache EXCEPT ![k] = v]
  BY DEF Store, Put
<1>3. CASE k \in Keys
  <2>1. Put(k, v) /\ reading' = [reading EXCEPT ![r] = NotReading]
    BY DEF Store
  <2>2. excused' \subseteq Keys
    BY <1>3, <2>1, PutFacts
  <2>3. cache' \in [Keys -> 0..MaxMarket]
    BY <1>1, <1>2, ConstantsFact DEF CoinTypeOK
  <2>4. reading' \in [Readers -> [key : Keys \cup {"none"}, seen : 0..MaxMarket]]
    BY <2>1, ConstantsFact DEF CoinTypeOK, NotReading
  <2>5. FetchedOrSaved' /\ FillsAKey' /\ OneOpenAt'
    BY <1>2, <2>1 DEF FetchedOrSaved, FillsAKey, OneOpenAt, OpenAt, NotReading, CoinTypeOK
  <2>6. ExplainedAt'
    BY <1>1, <1>2, <1>3, PutFacts DEF Store, ExplainedAt, FreshAt, OpenAt, KeyAhead
  <2>7. QED
    BY <1>2, <2>2, <2>3, <2>4, <2>5, <2>6 DEF CoinTypeOK
<1>4. CASE k = "none"
  BY <1>1, <1>4 DEF FillsAKey
<1>5. QED
  BY <1>1, <1>3, <1>4

\* The worker has committed: it has no locks.
LEMMA WriteThroughStep ==
  ASSUME CInvAt, WriteThrough
  PROVE  CInvAt'
<1> USE ConstantsFact, AfterStep DEF CInvAt, Writers, Goto, Forget
<1>1. "detail" \in Keys /\ got[Worker] \in 1..MaxMarket
  BY DEF WriteThrough, Keys, CoinTypeOK, FetchedOrSaved
<1>2. cache' = [cache EXCEPT !["detail"] = got[Worker]] /\ pc[Worker] = "detail"
      /\ pc' = [pc EXCEPT ![Worker] = "list"] /\ Put("detail", got[Worker]) /\ rows' = rows
  BY DEF WriteThrough, Put
<1>3. CoinTypeOK'
  BY <1>1, <1>2, PutFacts DEF WriteThrough, CoinTypeOK, Steps, Keys
<1>4. FetchedOrSaved' /\ FillsAKey'
  BY DEF WriteThrough, FillsAKey, FetchedOrSaved, CoinTypeOK
<1>5. \A w \in Writers : OpenAt(w, pc'[w]) = OpenAt(w, pc[w])
  BY <1>2 DEF OpenAt, CoinTypeOK
<1>6. OneOpenAt'
  BY <1>5 DEF OneOpenAt, OpenAt
<1>7. \A w \in Writers : OpenAt(w, pc[w]) => pc'[w] = pc[w]
  BY <1>2 DEF OpenAt, CoinTypeOK
<1>8. \A j \in Keys : j # "detail" /\ FreshAt(j) => FreshAt(j)'
  BY <1>2, PutFacts, <1>1 DEF FreshAt, OpenAt, KeyAhead, CoinTypeOK, Keys
<1>9. ExplainedAt'
  BY <1>1, <1>2, <1>5, <1>7, <1>8, PutFacts DEF ExplainedAt, FreshAt, OpenAt, KeyAhead
<1>10. QED
  BY <1>3, <1>4, <1>6, <1>9

\* What a writer that stops leaves behind is excused, or was there before.
LEMMA RaiseStep ==
  ASSUME CInvAt, NEW t \in Writers, Raise(t)
  PROVE  CInvAt'
<1> USE ConstantsFact DEF CInvAt, Writers, Goto, Forget
<1>1. CoinTypeOK'
  <2>1. rows' \in Versions
    BY DEF Raise, CoinTypeOK, Versions, FetchedOrSaved
  <2>2. excused' \subseteq Keys
    BY DEF Raise, CoinTypeOK
  <2>3. pc' \in [Writers -> Steps \cup {"idle", "saved", "raised"}]
    BY DEF Raise, CoinTypeOK, Steps
  <2>4. QED
    BY <2>1, <2>2, <2>3 DEF Raise, CoinTypeOK
<1>2. FetchedOrSaved' /\ FillsAKey'
  BY DEF Raise, FillsAKey, FetchedOrSaved, CoinTypeOK, Steps, Keys
<1>3. \A w \in Writers : OpenAt(w, pc'[w]) => w # t /\ pc'[w] = pc[w]
  BY DEF Raise, OpenAt, CoinTypeOK
<1>4. OneOpenAt'
  BY <1>3 DEF OneOpenAt, OpenAt
<1>5. excused \subseteq excused'
      /\ (t = Worker => \A k \in Keys : KeyAhead(t, pc[t], k) => k \in excused')
  BY AheadNow DEF Raise
<1>6. rows' # rows => pc[t] = "commit"
  BY DEF Raise
<1>7. CASE pc[t] = "commit"
  <2>1. \A k \in Keys : cache[k] = 0 \/ k \in excused'
    BY <1>5, <1>7 DEF ExplainedAt, OpenAt, KeyAhead
  <2>2. ExplainedAt'
    BY <2>1 DEF Raise, ExplainedAt
  <2>3. QED
    BY <2>2, <1>1, <1>2, <1>4
<1>8. CASE pc[t] # "commit"
  <2>1. \A k \in Keys : FreshAt(k) /\ k \notin excused' => FreshAt(k)'
    BY <1>3, <1>5, <1>6, <1>8 DEF Raise, FreshAt, OpenAt, KeyAhead, CoinTypeOK
  <2>2. ExplainedAt'
    BY <2>1, <1>3, <1>5 DEF Raise, ExplainedAt, OpenAt, KeyAhead
  <2>3. QED
    BY <2>2, <1>1, <1>2, <1>4
<1>9. QED
  BY <1>7, <1>8

LEMMA ExpireStep ==
  ASSUME CInvAt, NEW k \in Keys, Expire(k)
  PROVE  CInvAt'
<1> USE DEF CInvAt
<1>1. CoinTypeOK'
  BY ConstantsFact DEF Expire, Drop, CoinTypeOK
<1>2. FetchedOrSaved' /\ FillsAKey' /\ OneOpenAt'
  BY DEF Expire, FetchedOrSaved, FillsAKey, OneOpenAt, OpenAt
<1>3. ExplainedAt'
  BY DEF Expire, Drop, ExplainedAt, FreshAt, OpenAt, KeyAhead, CoinTypeOK
<1>4. QED
  BY <1>1, <1>2, <1>3
\* What a reader does before it stores, and CoinGecko's prices.
LEMMA ReaderStep ==
  ASSUME CInvAt, NEW r \in Readers,
         Select(r) \/ Abandon(r) \/ \E k \in Keys : Miss(r, k)
  PROVE  CInvAt'
<1> USE ConstantsFact DEF CInvAt
<1>1. UNCHANGED <<market, rows, cache, pc, got, excused>>
  BY DEF Select, Abandon, Miss
<1>2. reading' \in [Readers -> [key : Keys \cup {"none"}, seen : 0..MaxMarket]]
  BY DEF Select, Abandon, Miss, CoinTypeOK, NotReading, Versions
<1>3. FillsAKey'
  BY DEF Select, Abandon, Miss, CoinTypeOK, NotReading, FillsAKey, Keys
<1>4. QED
  BY <1>1, <1>2, <1>3, QuietStep DEF CoinTypeOK

LEMMA PricesStep == ASSUME CInvAt, PricesMove PROVE CInvAt'
<1>1. CoinTypeOK'
  BY ConstantsFact DEF CInvAt, PricesMove, CoinTypeOK, Versions
<1>2. QED
  BY <1>1, QuietStep DEF CInvAt, PricesMove, FillsAKey

LEMMA OthersStep == ASSUME CInvAt, Others PROVE CInvAt'
<1>1. ASSUME NEW r \in Readers, Store(r) PROVE CInvAt'
  BY <1>1, StoreStep
<1>2. ASSUME NEW r \in Readers, Select(r) \/ Abandon(r) \/ \E k \in Keys : Miss(r, k)
      PROVE  CInvAt'
  BY <1>2, ReaderStep
<1>3. ASSUME NEW w \in Writers, WriterStep(w) PROVE CInvAt'
  <2>1. CASE Fetch(w)
    BY <2>1, FetchStep
  <2>2. CASE UpsertMany(w)
    BY <2>2, UpsertStep
  <2>3. CASE Commit(w)
    BY <2>3, CommitStep
  <2>4. ASSUME NEW k \in Keys, DeletePattern(w, k) PROVE CInvAt'
    BY <2>4, DeleteStep
  <2>5. CASE WriteThrough
    BY <2>5, WriteThroughStep
  <2>6. QED
    BY <1>3, <2>1, <2>2, <2>3, <2>4, <2>5 DEF WriterStep
<1>4. ASSUME NEW w \in Writers, Raise(w) PROVE CInvAt'
  BY <1>4, RaiseStep
<1>5. ASSUME NEW k \in Keys, Expire(k) PROVE CInvAt'
  BY <1>5, ExpireStep
<1>6. CASE PricesMove
  BY <1>6, PricesStep
<1>7. QED
  BY <1>1, <1>2, <1>3, <1>4, <1>5, <1>6 DEF Others

LEMMA OthersAndIdle ==
  ASSUME Others, CoinTypeOK
  PROVE  \A q \in Tasks : (pc'[q] = "idle") = (pc[q] = "idle")
<1> USE ConstantsFact, AfterStep DEF CoinTypeOK, Writers
<1>1. ASSUME NEW w \in Writers, WriterStep(w)
      PROVE  \A q \in Tasks : (pc'[q] = "idle") = (pc[q] = "idle")
  <2>1. CASE Fetch(w)
    BY <2>1 DEF Fetch, Goto
  <2>2. CASE UpsertMany(w)
    BY <2>2 DEF UpsertMany, Goto
  <2>3. CASE Commit(w)
    BY <2>3 DEF Commit, Goto
  <2>4. ASSUME NEW k \in Keys, DeletePattern(w, k)
        PROVE  \A q \in Tasks : (pc'[q] = "idle") = (pc[q] = "idle")
    BY <2>4 DEF DeletePattern, Goto, Keys
  <2>5. CASE WriteThrough
    BY <2>5 DEF WriteThrough, Goto
  <2>6. QED
    BY <1>1, <2>1, <2>2, <2>3, <2>4, <2>5 DEF WriterStep
<1>2. ASSUME NEW w \in Writers, Raise(w)
      PROVE  \A q \in Tasks : (pc'[q] = "idle") = (pc[q] = "idle")
  BY <1>2 DEF Raise, Goto, Steps, Keys
<1>3. CASE \E r \in Readers : Store(r) \/ Select(r) \/ Abandon(r) \/ \E k \in Keys : Miss(r, k)
  BY <1>3 DEF Store, Select, Abandon, Miss
<1>4. CASE PricesMove \/ \E k \in Keys : Expire(k)
  BY <1>4 DEF PricesMove, Expire
<1>5. QED
  BY <1>1, <1>2, <1>3, <1>4 DEF Others
-----------------------------------------------------------------------------
(* The endpoint.                                                           *)

RequestsTyped == /\ marker \in Markers
                 /\ request \in [Tasks -> Requests]
                 /\ \A q \in Tasks : (request[q] = "background") = (pc[q] # "idle")
                 /\ promise \in BOOLEAN /\ late \subseteq Tasks

EndInv == CInvAt /\ RequestsTyped /\ PromiseMarked /\ LateWaits

LEMMA IInvIsEndInv == (IInv <=> EndInv) /\ (IInv' <=> EndInv')
  BY ExplainedNow, ExplainedNext DEF IInv, EndInv, TypeOK, RequestsTyped, CInv, CInvAt

LEMMA InitEndInv == Init => EndInv
<1> SUFFICES ASSUME Init PROVE EndInv
  OBVIOUS
<1> USE ConstantsFact DEF Init, CoinInit
<1>1. CoinTypeOK
  BY DEF CoinTypeOK, Versions, Steps, NotReading
<1>2. FetchedOrSaved /\ FillsAKey /\ OneOpenAt
  BY DEF FetchedOrSaved, FillsAKey, OneOpenAt, OpenAt, Writers, NotReading
<1>3. ExplainedAt
  BY DEF ExplainedAt
<1>4. RequestsTyped /\ PromiseMarked /\ LateWaits
  BY DEF RequestsTyped, PromiseMarked, LateWaits, Markers, Requests, Writers
<1>5. QED
  BY <1>1, <1>2, <1>3, <1>4 DEF EndInv, CInvAt

\* A step that leaves the coins alone leaves their invariant alone.
LEMMA CoinsAlone == ASSUME CInvAt, UNCHANGED coinVars PROVE CInvAt'
  BY QuietStep DEF coinVars, CInvAt, CoinTypeOK, FillsAKey

LEMMA EndNext == EndInv /\ [Next]_vars => EndInv'
<1> SUFFICES ASSUME EndInv, [Next]_vars PROVE EndInv'
  OBVIOUS
<1> USE DEF EndInv
<1>1. ASSUME NEW q \in Tasks, Arrive(q) PROVE EndInv'
  <2>1. CInvAt'
    BY <1>1, CoinsAlone DEF Arrive
  <2>2. RequestsTyped' /\ PromiseMarked' /\ LateWaits'
    BY <1>1 DEF Arrive, At, coinVars, RequestsTyped, PromiseMarked, LateWaits, Requests
  <2>3. QED
    BY <2>1, <2>2
<1>2. ASSUME NEW q \in Tasks, Replay(q) PROVE EndInv'
  <2>1. CInvAt'
    BY <1>2, CoinsAlone DEF Replay
  <2>2. RequestsTyped' /\ PromiseMarked' /\ LateWaits'
    BY <1>2 DEF Replay, Leave, At, coinVars, RequestsTyped, PromiseMarked, LateWaits, Requests
  <2>3. QED
    BY <2>1, <2>2
<1>3. ASSUME NEW q \in Tasks, CheckMiss(q) PROVE EndInv'
  <2>1. CInvAt'
    BY <1>3, CoinsAlone DEF CheckMiss
  <2>2. RequestsTyped' /\ PromiseMarked' /\ LateWaits'
    BY <1>3 DEF CheckMiss, At, coinVars, RequestsTyped, PromiseMarked, LateWaits, Requests
  <2>3. QED
    BY <2>1, <2>2
<1>4. ASSUME NEW q \in Tasks, Spawn(q) PROVE EndInv'
  <2>1. CInvAt'
    BY <1>4, BeginStep DEF Spawn
  <2>2. RequestsTyped'
    BY <1>4 DEF Spawn, Leave, At, Begin, Goto, RequestsTyped, Requests, Markers,
                CInvAt, CoinTypeOK, Writers
  <2>3. PromiseMarked' /\ LateWaits'
    BY <1>4 DEF Spawn, Leave, At, PromiseMarked, LateWaits, RequestsTyped
  <2>4. QED
    BY <2>1, <2>2, <2>3
<1>5. ASSUME NEW q \in Tasks, RequestFails(q) PROVE EndInv'
  <2>1. CInvAt'
    BY <1>5, CoinsAlone DEF RequestFails
  <2>2. RequestsTyped' /\ PromiseMarked' /\ LateWaits'
    BY <1>5 DEF RequestFails, Leave, At, coinVars, RequestsTyped, PromiseMarked, LateWaits,
                Requests, Markers
  <2>3. QED
    BY <2>1, <2>2
<1>6. ASSUME NEW q \in Tasks, Finish(q) PROVE EndInv'
  <2>1. CInvAt'
    BY <1>6, EndStep DEF Finish
  <2>2. RequestsTyped'
    BY <1>6 DEF Finish, Outcome, At, End, Goto, RequestsTyped, Requests, Markers,
                CInvAt, CoinTypeOK, Writers
  <2>3. PromiseMarked' /\ LateWaits'
    BY <1>6 DEF Finish, Outcome, At, PromiseMarked, LateWaits, RequestsTyped
  <2>4. QED
    BY <2>1, <2>2, <2>3
<1>7. CASE MarkerExpires
  <2>1. CInvAt'
    BY <1>7, CoinsAlone DEF MarkerExpires
  <2>2. RequestsTyped' /\ PromiseMarked' /\ LateWaits'
    BY <1>7 DEF MarkerExpires, coinVars, RequestsTyped, PromiseMarked, LateWaits, Markers
  <2>3. QED
    BY <2>1, <2>2
<1>8. CASE Others /\ UNCHANGED requestVars
  <2>1. CInvAt'
    BY <1>8, OthersStep
  <2>2. RequestsTyped'
    BY <1>8, OthersAndIdle DEF requestVars, RequestsTyped, CInvAt
  <2>3. PromiseMarked' /\ LateWaits'
    BY <1>8 DEF requestVars, PromiseMarked, LateWaits
  <2>4. QED
    BY <2>1, <2>2, <2>3
<1>9. CASE UNCHANGED vars
  BY <1>9, CoinsAlone
     DEF vars, coinVars, requestVars, RequestsTyped, PromiseMarked, LateWaits
<1>10. QED
  BY <1>1, <1>2, <1>3, <1>4, <1>5, <1>6, <1>7, <1>8, <1>9 DEF Next, Handle
-----------------------------------------------------------------------------
\* The invariant the theorems below rest on holds in every reachable state.
THEOREM RefreshInvariant == Spec => []IInv
<1>1. Init => IInv
  BY InitEndInv, IInvIsEndInv
<1>2. IInv /\ [Next]_vars => IInv'
  BY EndNext, IInvIsEndInv
<1>3. QED
  BY <1>1, <1>2, PTL DEF Spec

\* The variables of the endpoint, the coins and their caches keep their types;
\* only a background request runs a refresh.
THEOREM RefreshTyped == Spec => []TypeOK
<1>1. IInv => TypeOK
  BY DEF IInv
<1>2. QED
  BY <1>1, RefreshInvariant, PTL

\* Redis answers with prices PostgreSQL no longer has only for an entry stored
\* behind a refresh's back, or one the worker comes to next.
THEOREM StalenessHasACause == Spec => []StaleIsExplained
<1>1. IInv => StaleIsExplained
  BY DEF IInv, CInv, Explained, Fresh, StaleIsExplained
<1>2. QED
  BY <1>1, RefreshInvariant, PTL

\* A request that arrives after another with its key was answered starts no
\* refresh while the marker lives.
THEOREM RetriesStartNothing == Spec => RetryStartsNothing
<1> DEFINE Kept == \A q \in late : pc'[q] = "fetch" => pc[q] = "fetch"
<1>1. IInv /\ [Next]_vars => [Kept]_vars
  <2> SUFFICES ASSUME IInv, Next, NEW p \in late, pc'[p] = "fetch" PROVE pc[p] = "fetch"
    BY DEF vars
  <2> USE ConstantsFact DEF IInv, TypeOK
  <2>1. request[p] = "arrived" /\ pc[p] = "idle" /\ p \in Tasks /\ promise
    BY DEF LateWaits, CoinTypeOK, Writers
  <2>2. ASSUME NEW q \in Tasks, Arrive(q) \/ Replay(q) \/ CheckMiss(q) \/ RequestFails(q)
        PROVE  pc[p] = "fetch"
    BY <2>2 DEF Arrive, Replay, CheckMiss, RequestFails, coinVars
  <2>3. ASSUME NEW q \in Tasks, Spawn(q) PROVE pc[p] = "fetch"
    BY <2>1, <2>3 DEF Spawn, Begin, Goto, CoinTypeOK
  <2>4. ASSUME NEW q \in Tasks, Finish(q) PROVE pc[p] = "fetch"
    BY <2>1, <2>4 DEF Finish, End, Goto, CoinTypeOK
  <2>5. CASE MarkerExpires
    BY <2>5 DEF MarkerExpires, coinVars
  <2>6. CASE Others /\ UNCHANGED requestVars
    BY <2>1, <2>6, OthersAndIdle
  <2>7. QED
    BY <2>2, <2>3, <2>4, <2>5, <2>6 DEF Next, Handle
<1>2. QED
  BY <1>1, RefreshInvariant, PTL DEF Spec, RetryStartsNothing

\* A task replaces the marker by "completed" only after its rows were committed.
THEOREM CompletedMeansCommitted == Spec => CompletedIsCommitted
<1> DEFINE Told == \A q \in Tasks : Finish(q) /\ marker # "completed" /\ marker' = "completed"
                                      => got[q] = 0
<1>1. IInv /\ [Next]_vars => [Told]_vars
  <2> SUFFICES ASSUME IInv, NEW q \in Tasks, Finish(q), marker # "completed",
                      marker' = "completed"
               PROVE  got[q] = 0
    OBVIOUS
  <2>1. pc[q] = "saved"
    BY DEF Finish, Outcome
  <2>2. QED
    BY <2>1, ConstantsFact DEF IInv, CInv, FetchedOrSaved, Writers
<1>2. QED
  BY <1>1, RefreshInvariant, PTL DEF Spec, CompletedIsCommitted
=============================================================================
