----------------------------- MODULE SearchPaging -----------------------------
(***************************************************************************)
(* entity/search of lri-b in pages (lridb.py, entity_search and            *)
(* perform_subqueries): every term of the query is a search for properties *)
(* whose rows name entities, the answer is their intersection, and what a  *)
(* page does not hold travels to the client and back in the cursor.  The   *)
(* store does not change between the pages.                                *)
(***************************************************************************)
EXTENDS Naturals, Sequences, FiniteSets, Functions

CONSTANTS Entities,
          Terms,         \* the terms of the query
          MaxRows,       \* bound on the rows a term's search finds
          Limits,        \* limits a client may ask for, anew for each page
          MaxQueries,    \* max_tries of entity_search
          Constrained    \* whether the query has a constrain_by

ASSUME EntitiesAssumption == IsFiniteSet(Entities)
ASSUME LimitsAssumption == Limits \subseteq Nat \ {0} /\ MaxQueries \in Nat \ {0} /\ MaxRows \in Nat

VARIABLES rows,          \* the rows of each term: entities, one per property found
          fit,           \* the entities whose shape meets the constrain_by
          starts,        \* rows of each term taken for seen (in the cursor)
          old,           \* leftover_results (in the cursor)
          new,           \* what this page's queries found
          queries,       \* queries made for this page
          limit,
          first,         \* whether this is the first page
          pc,
          returned,      \* entities returned, and those returned again
          again

vars == <<rows, fit, starts, old, new, queries, limit, first, pc, returned, again>>

RowLists == UNION {[1..n -> Entities] : n \in 0..MaxRows}

(* Mutant: one row too many is skipped. *)
UnseenLess(t) == {rows[t][i] : i \in (starts[t] + 2)..Len(rows[t])}

Unseen(t) == {rows[t][i] : i \in (starts[t] + 1)..Len(rows[t])}

Init ==
  /\ rows \in [Terms -> RowLists]
  /\ fit \in IF Constrained THEN SUBSET Entities ELSE {Entities}
  /\ starts = [t \in Terms |-> 0]
  /\ old = {} /\ new = {} /\ queries = 0
  /\ limit \in Limits
  /\ first = TRUE
  /\ pc = "query"
  /\ returned = {} /\ again = {}

(* constrain_by is not among the fields kept in the cursor. *)
Constraint == IF first THEN fit ELSE Entities

(* Mutant: each term's results are added to the others'. *)
FoundByAny == UNION {Unseen(t) : t \in Terms} \cap Constraint

Found == {e \in Entities : \A t \in Terms : e \in Unseen(t)} \cap Constraint

(* Mutant: a page's search starts where the last one did. *)
NotAdvanced == starts

(* The starts move by the entities found, not by the rows. *)
Advanced == [t \in Terms |-> starts[t] + Cardinality(Unseen(t))]

(* Queries are made for a page that is not full until one finds something. *)
Wanted == new = {} /\ Cardinality(old) < limit /\ queries < MaxQueries

Query ==
  /\ pc = "query"
  /\ Wanted
  /\ new' = Found
  /\ starts' = Advanced
  /\ queries' = queries + 1
  /\ UNCHANGED <<rows, fit, old, limit, first, pc, returned, again>>

(* The page is any of the results, as a set lists them; if there are more, *)
(* the client comes back with the cursor.                                  *)
Answer ==
  LET final == old \cup new
  IN /\ pc = "query"
     /\ ~Wanted
     /\ \E shown \in SUBSET final :
          /\ Cardinality(shown) = IF Cardinality(final) < limit THEN Cardinality(final) ELSE limit
          /\ returned' = returned \cup shown
          /\ again' = again \cup (returned \cap shown)
          /\ old' = final \ shown
     /\ new' = {} /\ queries' = 0
     /\ IF Cardinality(final) > limit
        THEN pc' = "query" /\ first' = FALSE /\ limit' \in Limits
        ELSE pc' = "done" /\ UNCHANGED <<first, limit>>
     /\ UNCHANGED <<rows, fit, starts>>

Next == Query \/ Answer

Spec == Init /\ [][Next]_vars
FairSpec == Spec /\ WF_vars(Next)
------------------------------------------------------------------------------
(* Properties *)

Answers == {e \in Entities : \A t \in Terms : e \in Range(rows[t])} \cap fit

(* The pages hold every entity that matches all terms: neither the cut of  *)
(* a page, nor the loop's early end, nor a wrong start loses one.          *)
EveryHitReturned == pc = "done" => Answers \subseteq returned

(* Without a constrain_by nothing else is returned, by whichever limits.   *)
NothingElseReturned == returned \subseteq Answers

(* The client comes to the last page. *)
PagesEnd == <>(pc = "done")

(* "DUPLICATE!" (client.py 104): no entity is returned twice, as the ids   *)
(* of different pages in test_unique_cursor.yaml are to be different.      *)
NoRepeat == again = {}

(* "do shape constraints if we have them" (lridb.py 368): the constraint   *)
(* holds of every entity returned.                                         *)
ConstraintMet == returned \subseteq fit
=============================================================================
