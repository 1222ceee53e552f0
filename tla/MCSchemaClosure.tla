--------------------------- MODULE MCSchemaClosure ---------------------------
(* A small instance of SchemaClosure for TLC. *)
EXTENDS SchemaClosure

CONSTANTS a, b, c, d

NoReverse == [t \in Types |-> None]
Schema(supers, reverse, primary, short) ==
  [supers |-> supers, reverse |-> reverse, primary |-> primary, short |-> short,
   test |-> FALSE]
Flat == [t \in Types |-> {}]

(* Hierarchies of at most one parent each, or of two parents for some. *)
Hierarchies ==
  {h \in [Types -> {{}, {a}, {b}, {c}, {d}, {b, c}}] :
     h[a] \subseteq {b} /\ b \notin h[b] /\ h[d] \subseteq {b, c}}

(* Property types and their reverses, of which one may be unknown. *)
Pairings == LET known == [{a, b, c} -> {None, a, b, c}]
            IN known \cup {[r EXCEPT ![a] = Absent] : r \in known}

MCSchemas ==
  {Schema(h, NoReverse, Types, {}) : h \in Hierarchies}
    \cup {Schema([Flat EXCEPT ![a] = {Absent}], NoReverse, Types, {}),
          [Schema([Flat EXCEPT ![a] = {a}], NoReverse, Types, {}) EXCEPT !.test = TRUE]}
    \cup {Schema(Flat, [t \in Types |-> IF t = d THEN None ELSE r[t]], p[1], p[2]) :
            r \in Pairings, p \in {<<{a}, {}>>, <<{a, b, c}, {}>>, <<{a, b}, {}>>, <<{a, b}, {c}>>}}
=============================================================================
