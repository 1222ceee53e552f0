---------------------------- MODULE SchemaClosure ----------------------------
(* Processing of a loaded schema (lri-b/schema.py 88-410): the ancestors of     *)
(* every type, an order of the types in which each comes after those it is    *)
(* made from, the pairs of property types that are each other's reverse, and  *)
(* the creation of the types in that order.                                   *)
EXTENDS Integers, Sequences, FiniteSets

CONSTANTS Types,
          Schemas,   \* what may be loaded: [supers, reverse, primary, short, test]
          None,
          Absent     \* a type that is named but was not loaded

ASSUME TypesAssumption ==
  IsFiniteSet(Types) /\ None \notin Types /\ Absent \notin Types /\ None # Absent
ASSUME SchemasAssumption ==
  \A s \in Schemas :
    /\ s.supers \in [Types -> SUBSET (Types \cup {Absent})]
    /\ s.reverse \in [Types -> Types \cup {None, Absent}]
    /\ s.primary \subseteq Types /\ s.short \subseteq Types
    /\ s.test \in BOOLEAN  \* whether loops are refused (test mode) instead of mended

VARIABLES schema,    \* the schema that was loaded
          order,     \* the order in which the dictionaries list the types
          phase,     \* "resolve", "order", "reverse", "push", "ready", "refused" or "crashed"
          anc,       \* ancestors found so far
          props,     \* types whose properties were found so far
          deps,      \* types that must come after a type
          pos,       \* next type of the pass
          changed,   \* whether the last type of the pass so far gained ancestors
          passes,    \* passes made to order the types
          sorted,    \* the order of types
          back,      \* the reverse of a property type
          pushed,    \* types whose creation in the database was tried, in this order
          failed     \* those of them that could not be created

vars == <<schema, order, phase, anc, props, deps, pos, changed, passes, sorted, back, pushed,
          failed>>

N == Len(order)
Orders == {o \in [1 .. Cardinality(Types) -> Types] :
             \A t \in Types : \E i \in 1 .. Cardinality(Types) : o[i] = t}
Members(s) == {s[i] : i \in 1 .. Len(s)}
Backwards(s) == [i \in 1 .. Len(s) |-> s[Len(s) - i + 1]]

Init ==
  /\ schema \in Schemas /\ order \in Orders
  /\ phase = "resolve"
  /\ anc = schema.supers
  /\ props = [t \in Types |-> {t}]
  /\ deps = [t \in Types |-> {}]
  /\ pos = 1 /\ changed = FALSE /\ passes = 0
  /\ sorted = <<>> /\ back = schema.reverse /\ pushed = <<>> /\ failed = {}

-----------------------------------------------------------------------------
\* Mutant: a type is added to the ancestors of its parents.
InheritUp ==
  LET t == order[pos]
  IN /\ phase = "resolve" /\ pos <= N /\ anc[t] \subseteq Types
     /\ anc' = [p \in Types |-> IF p \in anc[t] THEN anc[p] \cup {t} ELSE anc[p]]
     /\ props' = [props EXCEPT ![t] = @ \cup UNION {props[p] : p \in anc[t]}]
     /\ deps' = [p \in Types |-> IF p \in anc[t] THEN deps[p] \cup {t} ELSE deps[p]]
     /\ changed' = FALSE /\ pos' = pos + 1
     /\ UNCHANGED <<schema, order, phase, passes, sorted, back, pushed, failed>>

\* Mutant: the properties of the type itself only.
InheritOwn ==
  LET t == order[pos]
  IN /\ phase = "resolve" /\ pos <= N /\ anc[t] \subseteq Types
     /\ anc' = [anc EXCEPT ![t] = @ \cup UNION {anc[p] : p \in anc[t]}]
     /\ deps' = [p \in Types |-> IF p \in anc[t] THEN deps[p] \cup {t} ELSE deps[p]]
     /\ changed' = (anc'[t] # anc[t]) /\ pos' = pos + 1
     /\ UNCHANGED <<schema, order, phase, props, passes, sorted, back, pushed, failed>>

(* One type takes over what its parents have found so far. *)
Inherit ==
  LET t == order[pos]
  IN /\ phase = "resolve" /\ pos <= N /\ anc[t] \subseteq Types
     /\ anc' = [anc EXCEPT ![t] = @ \cup UNION {anc[p] : p \in anc[t]}]
     /\ props' = [props EXCEPT ![t] = @ \cup UNION {props[p] : p \in anc[t]}]
     /\ deps' = [p \in Types |-> IF p \in anc[t] THEN deps[p] \cup {t} ELSE deps[p]]
     /\ changed' = (anc'[t] # anc[t]) /\ pos' = pos + 1
     /\ UNCHANGED <<schema, order, phase, passes, sorted, back, pushed, failed>>

(* A supertype that was not loaded is a KeyError. *)
Unknown ==
  /\ phase = "resolve" /\ pos <= N /\ ~(anc[order[pos]] \subseteq Types)
  /\ phase' = "crashed"
  /\ UNCHANGED <<schema, order, anc, props, deps, pos, changed, passes, sorted, back,
                 pushed, failed>>

(* The count of changes begins anew with every type, so another pass is made   *)
(* only when the last type of the pass gained ancestors; the bound of ten      *)
(* passes per type is out of reach, for it can gain only as many as there are. *)
PassEnds ==
  /\ phase = "resolve" /\ pos > N
  /\ \/ changed /\ pos' = 1 /\ UNCHANGED phase
     \/ ~changed /\ phase' = "order" /\ pos' = N + 1
  /\ UNCHANGED <<schema, order, anc, props, deps, changed, passes, sorted, back, pushed, failed>>

-----------------------------------------------------------------------------
(* A type on which nothing left depends goes next. *)
Take ==
  LET t == order[pos]
  IN /\ phase = "order" /\ pos <= N
     /\ deps[t] = {} /\ t \notin Members(sorted)
     /\ sorted' = Append(sorted, t)
     /\ deps' = [a \in Types |-> IF a \in anc[t] THEN deps[a] \ {t} ELSE deps[a]]
     /\ pos' = pos + 1
     /\ UNCHANGED <<schema, order, phase, anc, props, changed, passes, back, pushed, failed>>

\* Mutant: a type that depends on itself stays so.
PassOverLoops ==
  LET t == order[pos]
  IN /\ phase = "order" /\ pos <= N
     /\ deps[t] # {} \/ t \in Members(sorted)
     /\ pos' = pos + 1
     /\ UNCHANGED <<schema, order, phase, anc, props, deps, changed, passes, sorted, back,
                    pushed, failed>>

(* Any other type is passed over; a type that depends on itself is mended, or, *)
(* in test mode, refused.                                                     *)
PassOver ==
  LET t == order[pos]
  IN /\ phase = "order" /\ pos <= N
     /\ deps[t] # {} \/ t \in Members(sorted)
     /\ \/ t \in deps[t] /\ schema.test /\ phase' = "refused" /\ UNCHANGED <<deps, pos>>
        \/ /\ t \notin deps[t] \/ ~schema.test
           /\ deps' = [deps EXCEPT ![t] = @ \ {t}]
           /\ pos' = pos + 1 /\ UNCHANGED phase
     /\ UNCHANGED <<schema, order, anc, props, changed, passes, sorted, back, pushed, failed>>

\* Mutant: the order is left as it was found.
OrderEndsForward ==
  /\ phase = "order" /\ pos > N
  /\ \/ /\ Len(sorted) < N /\ passes <= 2 * N
        /\ passes' = passes + 1 /\ pos' = 1 /\ UNCHANGED <<phase, sorted>>
     \/ /\ Len(sorted) < N /\ passes > 2 * N
        /\ phase' = "refused" /\ UNCHANGED <<passes, pos, sorted>>
     \/ /\ Len(sorted) >= N /\ phase' = "reverse" /\ UNCHANGED <<passes, pos, sorted>>
  /\ UNCHANGED <<schema, order, anc, props, deps, changed, back, pushed, failed>>

\* Mutant: there is no bound on the passes.
OrderEndsUnbound ==
  /\ phase = "order" /\ pos > N
  /\ \/ /\ Len(sorted) < N /\ passes' = 1 /\ pos' = 1 /\ UNCHANGED <<phase, sorted>>
     \/ /\ Len(sorted) >= N /\ phase' = "reverse" /\ sorted' = Backwards(sorted)
        /\ UNCHANGED <<passes, pos>>
  /\ UNCHANGED <<schema, order, anc, props, deps, changed, back, pushed, failed>>

(* Passes are made until all types are ordered, or too many were made. *)
OrderEnds ==
  /\ phase = "order" /\ pos > N
  /\ \/ /\ Len(sorted) < N /\ passes <= 2 * N
        /\ passes' = passes + 1 /\ pos' = 1 /\ UNCHANGED <<phase, sorted>>
     \/ /\ Len(sorted) < N /\ passes > 2 * N
        /\ phase' = "refused" /\ UNCHANGED <<passes, pos, sorted>>
     \/ /\ Len(sorted) >= N /\ phase' = "reverse" /\ sorted' = Backwards(sorted)
        /\ UNCHANGED <<passes, pos>>
  /\ UNCHANGED <<schema, order, anc, props, deps, changed, back, pushed, failed>>

-----------------------------------------------------------------------------
(* Property types with a reverse, the primary ones and the others. *)
Declared == {p \in Types : schema.reverse[p] # None}
Primary == Declared \cap schema.primary
Reverses == Declared \ schema.primary

(* What is refused: a type loaded under a short name is in the list twice, and *)
(* counts as two that name the same reverse.                                  *)
Claimed == \/ \E p, q \in Declared : p # q /\ schema.reverse[p] = schema.reverse[q]
           \/ Declared \cap schema.short # {}
Inconsistent ==
  \/ \E p \in Primary :
       \/ schema.reverse[p] \in Reverses /\ schema.reverse[schema.reverse[p]] # p
       \/ schema.reverse[p] \in Primary
  \/ \E p \in Reverses : schema.reverse[p] \in Reverses

\* Mutant: only what a primary type is named by is completed.
CompletionsOfReverses == {p \in Reverses : schema.reverse[p] \notin Primary}

(* The types whose pair is completed: theirs does not name them yet. *)
Completions ==
  {p \in Primary : schema.reverse[p] \notin Reverses}
    \cup {p \in Reverses : schema.reverse[p] \notin Primary}

(* To complete the pair of a type that was not loaded is a KeyError. *)
Pair ==
  /\ phase = "reverse"
  /\ \/ /\ Claimed \/ Inconsistent
        /\ phase' = "refused" /\ UNCHANGED back
     \/ /\ ~Claimed /\ ~Inconsistent /\ \E p \in Completions : schema.reverse[p] \notin Types
        /\ phase' = "crashed" /\ UNCHANGED back
     \/ /\ ~Claimed /\ ~Inconsistent /\ \A p \in Completions : schema.reverse[p] \in Types
        /\ phase' = "push"
        /\ back' = [q \in Types |->
             IF \E p \in Completions : schema.reverse[p] = q
             THEN CHOOSE p \in Completions : schema.reverse[p] = q ELSE back[q]]
  /\ UNCHANGED <<schema, order, anc, props, deps, pos, changed, passes, sorted, pushed, failed>>

-----------------------------------------------------------------------------
(* The types are created one after another. One whose record the entity does   *)
(* not accept ends the load with an exception; one that cannot be created is   *)
(* only logged, and the next is tried.                                        *)
Push ==
  LET t == sorted[Len(pushed) + 1]
  IN /\ phase = "push" /\ Len(pushed) < Len(sorted)
     /\ \/ /\ pushed' = Append(pushed, t) /\ failed' \in {failed, failed \cup {t}}
           /\ UNCHANGED phase
        \/ phase' = "crashed" /\ UNCHANGED <<pushed, failed>>
     /\ UNCHANGED <<schema, order, anc, props, deps, pos, changed, passes, sorted, back>>

Pushed ==
  /\ phase = "push" /\ Len(pushed) = Len(sorted)
  /\ phase' = "ready"
  /\ UNCHANGED <<schema, order, anc, props, deps, pos, changed, passes, sorted, back,
                 pushed, failed>>

Next == \/ Inherit \/ Unknown \/ PassEnds \/ Take \/ PassOver \/ OrderEnds
        \/ Pair \/ Push \/ Pushed

Spec == Init /\ [][Next]_vars

(* One thread of straight calls. *)
FairSpec == Spec /\ WF_vars(Next)

-----------------------------------------------------------------------------
(* All ancestors of a type: the least set with its parents and theirs. *)
Reach(t) ==
  LET closed(s) == \A x \in s \cap Types : schema.supers[x] \subseteq s
      all == {s \in SUBSET (Types \cup {Absent}) : schema.supers[t] \subseteq s /\ closed(s)}
  IN {x \in Types \cup {Absent} : \A s \in all : x \in s}

(* A hierarchy in which two different types are above each other. *)
Circular == \E t, u \in Types : t # u /\ t \in Reach(u) /\ u \in Reach(t)

TypeOK ==
  /\ phase \in {"resolve", "order", "reverse", "push", "ready", "refused", "crashed"}
  /\ anc \in [Types -> SUBSET (Types \cup {Absent})]
  /\ props \in [Types -> SUBSET Types] /\ deps \in [Types -> SUBSET Types]
  /\ pos \in 1 .. N + 1 /\ changed \in BOOLEAN
  /\ Len(sorted) = Cardinality(Members(sorted)) /\ Members(sorted) \subseteq Types
  /\ back \in [Types -> Types \cup {None, Absent}]
  /\ failed \subseteq Members(pushed)

(* No type is ever given an ancestor, or properties, that are not its own or   *)
(* above it, in whatever order the dictionary lists the types.                *)
ClosureSound == \A t \in Types :
  anc[t] \subseteq Reach(t) /\ props[t] \subseteq {t} \cup Reach(t)

(* Nothing is missing when the dictionary lists parents before children. *)
ParentsFirst == \A t \in Types : \A i, j \in 1 .. N :
  order[i] \in schema.supers[order[j]] => i <= j
ParentsFirstWhole ==
  phase \in {"order", "reverse", "push", "ready"} /\ ParentsFirst =>
    \A t \in Types : anc[t] = Reach(t) /\ props[t] = {t} \cup Reach(t)

(* No type is tried before every type it is made from was tried, although the  *)
(* ancestors of some may be missing (schema.py 289-320, 415-427): of what a    *)
(* created type is made from, only a type that itself failed is not there.    *)
Created(n) == {pushed[j] : j \in 1 .. n} \ failed
OrderSound == \A i \in 1 .. Len(pushed) :
  \A p \in schema.supers[pushed[i]] \ {pushed[i]} :
    p \in Created(i - 1) \/ (p \in failed /\ \E j \in 1 .. i - 1 : pushed[j] = p)

(* A schema is refused for its hierarchy only if that is circular, and one     *)
(* whose hierarchy is circular never reaches the database.                    *)
RefusedIffCircular ==
  /\ phase = "refused" /\ Len(sorted) < N /\ ~schema.test => Circular
  /\ phase \in {"reverse", "push", "ready"} => ~Circular

(* Each primary type is named by the type it names as its reverse. *)
PrimaryPairs == phase \in {"push", "ready"} =>
  \A p \in schema.primary : back[p] # None => back[back[p]] = p

(* The processing ends. *)
Ends == <>(phase \in {"ready", "refused", "crashed"})

-----------------------------------------------------------------------------
(* What a comment of schema.py says and the code does not keep. *)

(* "Now iterate till there are no more changes": all ancestors are found. *)
ClosureWhole == phase \in {"order", "reverse", "push", "ready"} =>
  \A t \in Types : anc[t] = Reach(t)
=============================================================================
