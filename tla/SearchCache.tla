----------------------------- MODULE SearchCache -----------------------------
(***************************************************************************)
(* The cache of entity/search in lri-b (request.py, cache.py).  An answer  *)
(* is kept under the query, without an end; a write request clears the     *)
(* whole cache when it has changed the store.  Answers are told apart by   *)
(* the state of the store they were read from.                             *)
(***************************************************************************)
EXTENDS Naturals

CONSTANTS Workers,       \* processes or threads serving requests
          Caches,        \* memcached, or the dictionary of each process
          cacheOf,       \* the cache a worker uses
          Queries,       \* cache keys
          MaxWrites,     \* bound on the writes
          Failing,       \* whether a request may end with errors or an exception
          None

ASSUME CachesAssumption == cacheOf \in [Workers -> Caches]
ASSUME WritesAssumption == MaxWrites \in Nat /\ None \notin Nat

VARIABLES db,            \* state of the store: the number of writes it has seen
          acknowledged,  \* the state after the last write that was answered
          cache,         \* the answers kept
          work,          \* what each worker is doing
          stale          \* whether a search was answered with less than had been
                         \*   acknowledged before it began
cacheVars == <<db, acknowledged, cache, work, stale>>

Free == [pc |-> "free", query |-> None, found |-> None, since |-> None]
At(w, pc) == work[w].pc = pc
Do(w, s) == work' = [work EXCEPT ![w] = s]

CacheInit ==
  /\ db = 0
  /\ acknowledged = 0
  /\ cache = [c \in Caches |-> [q \in Queries |-> None]]
  /\ work = [w \in Workers |-> Free]
  /\ stale = FALSE

Reply(w, answer, since) == /\ stale' = (stale \/ answer < since)
                           /\ Do(w, Free)

(* A query that may use the cache and finds it there is answered from it.  *)
SearchBegins(w, q, useCached) ==
  LET kept == cache[cacheOf[w]][q]
  IN /\ At(w, "free")
     /\ IF useCached /\ kept # None THEN Reply(w, kept, acknowledged)
        ELSE /\ Do(w, [pc |-> "search", query |-> q, found |-> None, since |-> acknowledged])
             /\ UNCHANGED stale
     /\ UNCHANGED <<db, acknowledged, cache>>

SearchStore(w) ==
  /\ At(w, "search")
  /\ Do(w, [work[w] EXCEPT !.pc = "keep", !.found = db])
  /\ UNCHANGED <<db, acknowledged, cache, stale>>

(* The store reports errors: the answer is an error and is not kept. *)
SearchFails(w) ==
  /\ At(w, "search")
  /\ Failing
  /\ Do(w, Free)
  /\ UNCHANGED <<db, acknowledged, cache, stale>>

Keep(w) ==
  /\ At(w, "keep")
  /\ cache' = [cache EXCEPT ![cacheOf[w]][work[w].query] = work[w].found]
  /\ Reply(w, work[w].found, work[w].since)
  /\ UNCHANGED <<db, acknowledged>>

(* Mutant: a write is answered without clearing the cache. *)
WriteUncleared(w) ==
  /\ At(w, "free")
  /\ db < MaxWrites
  /\ db' = db + 1
  /\ acknowledged' = db'
  /\ UNCHANGED <<cache, work, stale>>

Write(w) ==
  /\ At(w, "free")
  /\ db < MaxWrites
  /\ db' = db + 1
  /\ Do(w, [Free EXCEPT !.pc = "wrote", !.found = db'])
  /\ UNCHANGED <<acknowledged, cache, stale>>

Newest(a, b) == IF a < b THEN b ELSE a

(* Mutant: only the answer to one query is dropped. *)
ClearOne(w) ==
  /\ At(w, "wrote")
  /\ \E q \in Queries : cache' = [cache EXCEPT ![cacheOf[w]][q] = None]
  /\ acknowledged' = Newest(acknowledged, work[w].found)
  /\ Do(w, Free)
  /\ UNCHANGED <<db, stale>>

Clear(w) ==
  /\ At(w, "wrote")
  /\ cache' = [cache EXCEPT ![cacheOf[w]] = [q \in Queries |-> None]]
  /\ acknowledged' = Newest(acknowledged, work[w].found)
  /\ Do(w, Free)
  /\ UNCHANGED <<db, stale>>

(* An exception passes by clear_cache; the request is answered with 500. *)
WriteFails(w) ==
  /\ At(w, "wrote")
  /\ Failing
  /\ Do(w, Free)
  /\ UNCHANGED <<db, acknowledged, cache, stale>>

CacheNext == \E w \in Workers :
  \/ \E q \in Queries, useCached \in BOOLEAN : SearchBegins(w, q, useCached)
  \/ SearchStore(w) \/ SearchFails(w) \/ Keep(w) \/ Write(w) \/ Clear(w) \/ WriteFails(w)

CacheSpec == CacheInit /\ [][CacheNext]_cacheVars
------------------------------------------------------------------------------
(* Properties *)

(* A search that begins after a write was acknowledged answers with that   *)
(* write, from the cache or not.                                           *)
SeesAcknowledged == ~stale

(* test_cache.yaml, steps 004 to 006: after an update the cache no longer  *)
(* answers with what it held before.  When no request is under way, every  *)
(* kept answer has at least the writes that were acknowledged.             *)
CacheCurrent == (\A w \in Workers : work[w] = Free) =>
  \A c \in Caches, q \in Queries : cache[c][q] \in {None} \cup acknowledged..db
=============================================================================
