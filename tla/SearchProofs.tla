------------------------------ MODULE SearchProofs ------------------------------
(***************************************************************************)
(* Theorems about entity/search.                                           *)
(*                                                                         *)
(* SearchPaging, for any entities, terms, rows and limits: the pages hold  *)
(* every entity that matches, and nothing else where there is no           *)
(* constrain_by.  The first query of the first page finds every answer, as *)
(* no row is taken for seen yet; from then on each is in the cursor, in    *)
(* what the page's queries found, or returned.                             *)
(*                                                                         *)
(* SearchCache where one worker serves all requests, for any queries,      *)
(* caches, writes and failures: no search misses what was acknowledged     *)
(* before it.  With two workers it does (CacheRace.cfg).                   *)
(***************************************************************************)
EXTENDS SearchPaging, SearchCache, FiniteSetTheorems, TLAPS

-----------------------------------------------------------------------------
(* The pages of a search. *)

Fresh == first /\ queries = 0 /\ pc = "query"

PagesInv ==
  /\ rows \in [Terms -> RowLists] /\ starts \in [Terms -> Nat] /\ fit \subseteq Entities
  /\ ~Constrained => fit = Entities
  /\ pc \in {"query", "done"} /\ limit \in Limits /\ queries \in Nat
  /\ old \subseteq Entities /\ new \subseteq Entities
  /\ Fresh => starts = [t \in Terms |-> 0] /\ old = {} /\ new = {}
  /\ ~Fresh => Answers \subseteq old \cup new \cup returned
  /\ ~Constrained => old \cup new \cup returned \subseteq Answers
  /\ pc = "done" => old = {} /\ new = {}
-----------------------------------------------------------------------------
LEMMA RowsOf ==
  ASSUME NEW s \in RowLists
  PROVE  s \in Seq(Entities) /\ Range(s) = {s[i] : i \in 1 .. Len(s)}
<1>1. PICK n \in 0 .. MaxRows : s \in [1 .. n -> Entities]
  BY DEF RowLists
<1>2. n \in Nat
  BY <1>1, LimitsAssumption
<1>3. s \in Seq(Entities) /\ Len(s) = n /\ DOMAIN s = 1 .. n
  BY <1>1, <1>2
<1> QED
  BY <1>3 DEF Range

(* A subset as large as the whole is the whole. *)
LEMMA SameSize ==
  ASSUME NEW S \in SUBSET Entities, NEW T \in SUBSET S, Cardinality(T) = Cardinality(S)
  PROVE  T = S
<1>1. IsFiniteSet(S) /\ S \cap T = T
  BY FS_Subset, EntitiesAssumption
<1>2. Cardinality(S \ T) = Cardinality(S) - Cardinality(T) /\ IsFiniteSet(S \ T)
  BY <1>1, FS_Difference
<1>3. Cardinality(S) \in Nat
  BY <1>1, FS_CardinalityType
<1>4. Cardinality(S \ T) = 0
  BY <1>2, <1>3
<1>5. S \ T = {}
  BY <1>2, <1>4, FS_EmptySet
<1> QED
  BY <1>5

LEMMA PagesBegin == Init => PagesInv
BY DEF Init, PagesInv, Fresh

LEMMA UnseenMatches ==
  ASSUME PagesInv, NEW t \in Terms
  PROVE  /\ Unseen(t) \subseteq Range(rows[t]) /\ Unseen(t) \subseteq Entities
         /\ starts[t] = 0 => Unseen(t) = Range(rows[t])
<1>1. /\ rows[t] \in Seq(Entities) /\ Range(rows[t]) = {rows[t][i] : i \in 1 .. Len(rows[t])}
      /\ starts[t] \in Nat
  BY RowsOf DEF PagesInv
<1>2. \A i \in starts[t] + 1 .. Len(rows[t]) : i \in 1 .. Len(rows[t])
  BY <1>1
<1>3. starts[t] = 0 => (starts[t] + 1) .. Len(rows[t]) = 1 .. Len(rows[t])
  BY <1>1
<1>4. \A i \in 1 .. Len(rows[t]) : rows[t][i] \in Entities
  BY <1>1
<1> QED
  BY <1>1, <1>2, <1>3, <1>4 DEF Unseen

(* What a query finds matches every term. *)
LEMMA FoundMatches ==
  ASSUME PagesInv
  PROVE  /\ Found \subseteq Entities
         /\ ~Constrained => Found \subseteq Answers
         /\ Fresh => Found = Answers
<1>1. Found \subseteq Entities
  BY DEF Found
<1>2. ASSUME ~Constrained PROVE Found \subseteq Answers
  BY <1>2, UnseenMatches DEF Found, Answers, PagesInv
<1>3. ASSUME Fresh PROVE Found = Answers
  <2>1. Constraint = fit
    BY <1>3 DEF Constraint, Fresh
  <2>2. \A t \in Terms : Unseen(t) = Range(rows[t])
    BY <1>3, UnseenMatches DEF PagesInv
  <2> QED
    BY <2>1, <2>2 DEF Found, Answers
<1> QED
  BY <1>1, <1>2, <1>3

LEMMA QueryKeeps == PagesInv /\ Query => PagesInv'
<1> SUFFICES ASSUME PagesInv, Query PROVE PagesInv'
  OBVIOUS
<1>1. /\ pc = "query" /\ new = {} /\ new' = Found /\ queries' = queries + 1 /\ queries \in Nat
      /\ starts' = Advanced
      /\ UNCHANGED <<rows, fit, old, limit, first, pc, returned>>
  BY DEF PagesInv, Query, Wanted
<1>2. starts' \in [Terms -> Nat]
  <2>1. \A t \in Terms : starts[t] \in Nat /\ Cardinality(Unseen(t)) \in Nat
    BY UnseenMatches, FS_Subset, FS_CardinalityType, EntitiesAssumption DEF PagesInv
  <2> QED
    BY <1>1, <2>1 DEF Advanced
<1>3. Answers' = Answers
  BY <1>1 DEF Answers
<1>4. ~Fresh'
  BY <1>1 DEF Fresh
<1>5. Answers \subseteq old \cup new' \cup returned
  <2>1. CASE Fresh
    BY <1>1, <2>1, FoundMatches
  <2>2. CASE ~Fresh
    BY <1>1, <2>2 DEF PagesInv
  <2> QED
    BY <2>1, <2>2
<1>6. ~Constrained => old \cup new' \cup returned \subseteq Answers
  BY <1>1, FoundMatches DEF PagesInv
<1>7. queries' \in Nat /\ new' \subseteq Entities
  BY <1>1, FoundMatches
<1> QED
  BY <1>1, <1>2, <1>3, <1>4, <1>5, <1>6, <1>7 DEF PagesInv

LEMMA AnswerKeeps == PagesInv /\ Answer => PagesInv'
<1> SUFFICES ASSUME PagesInv, Answer PROVE PagesInv'
  OBVIOUS
<1> DEFINE final == old \cup new
<1>1. PICK shown \in SUBSET final :
         /\ Cardinality(shown) = IF Cardinality(final) < limit THEN Cardinality(final) ELSE limit
         /\ returned' = returned \cup shown
         /\ old' = final \ shown
  BY DEF Answer
<1>2. /\ pc = "query" /\ ~Wanted /\ new' = {} /\ queries' = 0
      /\ UNCHANGED <<rows, fit, starts>>
      /\ IF Cardinality(final) > limit
         THEN pc' = "query" /\ first' = FALSE /\ limit' \in Limits
         ELSE pc' = "done" /\ UNCHANGED <<first, limit>>
  BY DEF Answer
<1>3. /\ final \subseteq Entities /\ limit \in Nat /\ limit > 0 /\ Cardinality(final) \in Nat
  BY FS_Subset, FS_CardinalityType, EntitiesAssumption, LimitsAssumption DEF PagesInv
<1>4. ~Fresh
  <2> SUFFICES ASSUME Fresh PROVE Wanted
    BY <1>2
  <2>1. new = {} /\ old = {} /\ queries = 0
    BY DEF PagesInv, Fresh
  <2>2. Cardinality(old) = 0
    BY <2>1, FS_EmptySet
  <2> QED
    BY <1>3, <2>1, <2>2, LimitsAssumption DEF Wanted
<1>5. Answers' = Answers
  BY <1>2 DEF Answers
<1>6. ~Fresh'
  BY <1>2 DEF Fresh
<1>7. Answers \subseteq old' \cup new' \cup returned'
  BY <1>1, <1>4 DEF PagesInv
<1>8. ~Constrained => old' \cup new' \cup returned' \subseteq Answers
  BY <1>1, <1>2 DEF PagesInv
<1>9. pc' = "done" => old' = {}
  <2> SUFFICES ASSUME pc' = "done" PROVE shown = final
    BY <1>1
  <2>1. Cardinality(shown) = Cardinality(final)
    BY <1>1, <1>2, <1>3
  <2> QED
    BY <1>3, <2>1, SameSize
<1>10. old' \subseteq Entities /\ limit' \in Limits /\ pc' \in {"query", "done"}
  BY <1>1, <1>2, <1>3 DEF PagesInv
<1> QED
  BY <1>2, <1>5, <1>6, <1>7, <1>8, <1>9, <1>10 DEF PagesInv

THEOREM PagesHold == Spec => []PagesInv
<1>1. PagesInv /\ [Next]_vars => PagesInv'
  <2> SUFFICES ASSUME PagesInv, [Next]_vars PROVE PagesInv'
    OBVIOUS
  <2>1. CASE Query BY <2>1, QueryKeeps
  <2>2. CASE Answer BY <2>2, AnswerKeeps
  <2>3. CASE UNCHANGED vars BY <2>3 DEF vars, PagesInv, Fresh, Answers
  <2> QED
    BY <2>1, <2>2, <2>3 DEF Next
<1> QED
  BY <1>1, PagesBegin, PTL DEF Spec
-----------------------------------------------------------------------------
(* The pages hold every entity that matches all terms and the constraint,      *)
(* although the rows taken for seen are counted wrongly (lridb.py 342-461).   *)
THEOREM EveryHitIsReturned == Spec => []EveryHitReturned
<1>1. PagesInv => EveryHitReturned
  BY DEF PagesInv, EveryHitReturned, Fresh
<1> QED
  BY <1>1, PagesHold, PTL

(* Without a constrain_by nothing else is returned (lridb.py 342-461). *)
THEOREM NothingElseIsReturned == ASSUME ~Constrained PROVE Spec => []NothingElseReturned
<1>1. PagesInv => NothingElseReturned
  BY DEF PagesInv, NothingElseReturned
<1> QED
  BY <1>1, PagesHold, PTL
-----------------------------------------------------------------------------
(* The cache of searches. *)

OneWorker == \A v, w \in Workers : v = w

Items == [pc : {"free", "search", "keep", "wrote"}, query : Queries \cup {None},
          found : Nat \cup {None}, since : Nat \cup {None}]

(* Answers under way and kept have all that was acknowledged, and a cache that *)
(* no worker uses stays empty.                                                *)
WorkOK(w) ==
  /\ At(w, "search") => work[w].since = acknowledged
  /\ At(w, "keep") => work[w].since = acknowledged /\ work[w].found \in acknowledged .. db
  /\ At(w, "search") \/ At(w, "keep") => work[w].query \in Queries
  /\ At(w, "wrote") => work[w].found = db

CacheInv ==
  /\ db \in Nat /\ acknowledged \in 0 .. db
  /\ work \in [Workers -> Items]
  /\ cache \in [Caches -> [Queries -> {None} \cup acknowledged .. db]]
  /\ \A c \in Caches, q \in Queries : cache[c][q] # None => \E w \in Workers : cacheOf[w] = c
  /\ \A w \in Workers : WorkOK(w)
  /\ stale = FALSE
-----------------------------------------------------------------------------
LEMMA CacheBegins == CacheInit => CacheInv
BY WritesAssumption DEF CacheInit, CacheInv, Items, Free, WorkOK, At

LEMMA SearchBeginsKeeps ==
  ASSUME CacheInv, OneWorker, NEW w \in Workers, NEW q \in Queries, NEW useCached \in BOOLEAN,
         SearchBegins(w, q, useCached)
  PROVE  CacheInv'
<1> DEFINE kept == cache[cacheOf[w]][q]
<1>1. cacheOf[w] \in Caches
  BY CachesAssumption
<1>2. CASE useCached /\ kept # None
  <2>1. kept \in acknowledged .. db /\ db \in Nat /\ acknowledged \in Nat
    BY <1>1, <1>2 DEF CacheInv
  <2>2. stale' = (stale \/ kept < acknowledged) /\ work' = [work EXCEPT ![w] = Free]
        /\ UNCHANGED <<db, acknowledged, cache>>
    BY <1>2 DEF SearchBegins, Reply, Do
  <2>3. stale' = FALSE
    <3>1. (kept < acknowledged) = FALSE
      BY <2>1
    <3>2. stale = FALSE
      BY DEF CacheInv
    <3> QED
      BY <2>2, <3>1, <3>2, Zenon
  <2>4. Free \in Items
    BY DEF Free, Items
  <2> QED
    BY <2>2, <2>3, <2>4 DEF CacheInv, OneWorker, WorkOK, At, Free
<1>3. CASE ~(useCached /\ kept # None)
  <2> DEFINE s == [pc |-> "search", query |-> q, found |-> None, since |-> acknowledged]
  <2>1. work' = [work EXCEPT ![w] = s] /\ UNCHANGED <<db, acknowledged, cache, stale>>
    BY <1>3 DEF SearchBegins, Do
  <2>2. s \in Items
    BY DEF CacheInv, Items
  <2> QED
    BY <2>1, <2>2 DEF CacheInv, OneWorker, WorkOK, At
<1> QED
  BY <1>2, <1>3

LEMMA SearchStoreKeeps ==
  ASSUME CacheInv, OneWorker, NEW w \in Workers, SearchStore(w)
  PROVE  CacheInv'
<1> DEFINE s == [work[w] EXCEPT !.pc = "keep", !.found = db]
<1>1. /\ work[w] \in Items /\ db \in Nat /\ acknowledged \in 0 .. db
      /\ work' = [work EXCEPT ![w] = s] /\ At(w, "search") /\ WorkOK(w)
      /\ UNCHANGED <<db, acknowledged, cache, stale>>
  BY DEF CacheInv, SearchStore, Do
<1>2. s \in Items /\ s.pc = "keep" /\ s.found = db /\ s.since = work[w].since /\ s.query = work[w].query
  BY <1>1 DEF Items
<1>3. s.since = acknowledged /\ s.query \in Queries /\ s.found \in acknowledged .. db
  BY <1>1, <1>2 DEF WorkOK
<1> QED
  BY <1>1, <1>2, <1>3 DEF CacheInv, OneWorker, WorkOK, At

LEMMA KeepKeeps ==
  ASSUME CacheInv, OneWorker, NEW w \in Workers, Keep(w)
  PROVE  CacheInv'
<1>1. /\ At(w, "keep") /\ WorkOK(w)
      /\ db \in Nat /\ acknowledged \in 0 .. db
      /\ cache' = [cache EXCEPT ![cacheOf[w]][work[w].query] = work[w].found]
      /\ work' = [work EXCEPT ![w] = Free]
      /\ stale' = (stale \/ work[w].found < work[w].since)
      /\ UNCHANGED <<db, acknowledged>>
  BY DEF CacheInv, Keep, Reply, Do
<1>2. /\ work[w].found \in acknowledged .. db /\ work[w].since = acknowledged
      /\ work[w].query \in Queries /\ cacheOf[w] \in Caches
  BY <1>1, CachesAssumption DEF WorkOK
<1>3. stale' = FALSE
  <2>1. (work[w].found < work[w].since) = FALSE
    BY <1>1, <1>2
  <2>2. stale = FALSE
    BY DEF CacheInv
  <2> QED
    BY <1>1, <2>1, <2>2, Zenon
<1>4. cache' \in [Caches -> [Queries -> {None} \cup acknowledged .. db]]
  BY <1>1, <1>2 DEF CacheInv
<1>5. \A c \in Caches, q \in Queries : cache'[c][q] # None => \E v \in Workers : cacheOf[v] = c
  BY <1>1, <1>2 DEF CacheInv
<1>6. Free \in Items
  BY DEF Free, Items
<1>7. work' \in [Workers -> Items] /\ \A v \in Workers : WorkOK(v)'
  BY <1>1, <1>6 DEF CacheInv, OneWorker, WorkOK, At, Free
<1> QED
  BY <1>1, <1>3, <1>4, <1>5, <1>7 DEF CacheInv

LEMMA WriteKeeps ==
  ASSUME CacheInv, OneWorker, NEW w \in Workers, Write(w)
  PROVE  CacheInv'
<1> DEFINE s == [Free EXCEPT !.pc = "wrote", !.found = db']
<1>1. /\ db \in Nat /\ acknowledged \in 0 .. db /\ db' = db + 1 /\ work' = [work EXCEPT ![w] = s]
      /\ UNCHANGED <<acknowledged, cache, stale>>
  BY DEF CacheInv, Write, Do
<1>2. s \in Items /\ s.pc = "wrote" /\ s.found = db'
  <2>1. Free \in Items
    BY DEF Free, Items
  <2>2. db' \in Nat
    BY <1>1
  <2> QED
    BY <2>1, <2>2 DEF Items
<1>3. acknowledged' \in 0 .. db' /\ acknowledged .. db \subseteq acknowledged' .. db'
  BY <1>1
<1>4. cache' \in [Caches -> [Queries -> {None} \cup acknowledged' .. db']]
  BY <1>1, <1>3 DEF CacheInv
<1>5. work' \in [Workers -> Items] /\ \A v \in Workers : WorkOK(v)'
  BY <1>1, <1>2 DEF CacheInv, OneWorker, WorkOK, At
<1> QED
  BY <1>1, <1>3, <1>4, <1>5 DEF CacheInv

LEMMA ClearKeeps ==
  ASSUME CacheInv, OneWorker, NEW w \in Workers, Clear(w)
  PROVE  CacheInv'
<1>1. /\ db \in Nat /\ acknowledged \in 0 .. db /\ At(w, "wrote") /\ WorkOK(w)
      /\ cache' = [cache EXCEPT ![cacheOf[w]] = [q \in Queries |-> None]]
      /\ acknowledged' = Newest(acknowledged, work[w].found)
      /\ work' = [work EXCEPT ![w] = Free]
      /\ UNCHANGED <<db, stale>>
  BY DEF CacheInv, Clear, Do
<1>2. acknowledged' = db
  BY <1>1 DEF WorkOK, Newest
<1>3. \A c \in Caches, q \in Queries : cache'[c][q] = None
  <2>1. \A c \in Caches \ {cacheOf[w]}, q \in Queries : cache[c][q] = None
    BY DEF CacheInv, OneWorker
  <2> QED
    BY <1>1, <2>1, CachesAssumption DEF CacheInv
<1>4. cache' \in [Caches -> [Queries -> {None} \cup acknowledged' .. db']]
  <2>1. cache' \in [Caches -> [Queries -> {None} \cup acknowledged .. db]]
    BY <1>1 DEF CacheInv
  <2> QED
    BY <1>3, <2>1
<1>5. Free \in Items
  BY DEF Free, Items
<1>6. work' \in [Workers -> Items] /\ \A v \in Workers : WorkOK(v)'
  BY <1>1, <1>5 DEF CacheInv, OneWorker, WorkOK, At, Free
<1> QED
  BY <1>1, <1>2, <1>3, <1>4, <1>6 DEF CacheInv

(* A request that ends with an error changes only what its worker does. *)
LEMMA FailKeeps ==
  ASSUME CacheInv, OneWorker, NEW w \in Workers, SearchFails(w) \/ WriteFails(w)
  PROVE  CacheInv'
<1>1. work' = [work EXCEPT ![w] = Free] /\ UNCHANGED <<db, acknowledged, cache, stale>>
  BY DEF SearchFails, WriteFails, Do
<1>2. Free \in Items
  BY DEF Free, Items
<1> QED
  BY <1>1, <1>2 DEF CacheInv, OneWorker, WorkOK, At, Free

LEMMA CacheStep == ASSUME OneWorker, CacheInv, [CacheNext]_cacheVars PROVE CacheInv'
<1>1. ASSUME NEW w \in Workers, NEW q \in Queries, NEW useCached \in BOOLEAN,
             SearchBegins(w, q, useCached)
      PROVE  CacheInv'
  BY <1>1, SearchBeginsKeeps
<1>2. ASSUME NEW w \in Workers,
             SearchStore(w) \/ SearchFails(w) \/ Keep(w) \/ Write(w) \/ Clear(w) \/ WriteFails(w)
      PROVE  CacheInv'
  BY <1>2, SearchStoreKeeps, FailKeeps, KeepKeeps, WriteKeeps, ClearKeeps
<1>3. CASE UNCHANGED cacheVars
  BY <1>3 DEF cacheVars, CacheInv, WorkOK, At
<1> QED
  BY <1>1, <1>2, <1>3 DEF CacheNext
-----------------------------------------------------------------------------
(* With one worker what the cache and the requests hold is current. *)
THEOREM CacheHolds == ASSUME OneWorker PROVE CacheSpec => []CacheInv
<1>1. CacheInit => CacheInv
  BY CacheBegins
<1>2. CacheInv /\ [CacheNext]_cacheVars => CacheInv'
  BY CacheStep
<1> QED
  BY <1>1, <1>2, PTL DEF CacheSpec

(* With one worker a search answers with every write that was acknowledged     *)
(* before it began, from the cache or not, whichever requests fail on the way  *)
(* and leave the cache uncleared (request.py 118-138, 175-201, 295-297).      *)
THEOREM AcknowledgedIsSeen == ASSUME OneWorker PROVE CacheSpec => []SeesAcknowledged
<1>1. CacheInv => SeesAcknowledged
  BY DEF CacheInv, SeesAcknowledged
<1> QED
  BY <1>1, CacheHolds, PTL

(* With one worker whatever is kept has all the writes that were acknowledged, *)
(* when no request is under way (request.py 118-138, 295-297).                *)
THEOREM CacheIsCurrent == ASSUME OneWorker PROVE CacheSpec => []CacheCurrent
<1>1. CacheInv => CacheCurrent
  BY DEF CacheInv, CacheCurrent
<1> QED
  BY <1>1, CacheHolds, PTL
=============================================================================
