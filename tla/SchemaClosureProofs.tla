-------------------------- MODULE SchemaClosureProofs --------------------------
(***************************************************************************)
(* Theorems about SchemaClosure, for any types, schemas and dictionary     *)
(* orders: nobody is given an ancestor or a property that is not its own   *)
(* or above it, types are created after those they are made from, and a    *)
(* circular hierarchy never gets as far as the database.                   *)
(*                                                                         *)
(* The list of ancestors may be incomplete, so the argument rests on       *)
(* direct parents alone: the first pass notes every type among the         *)
(* dependants of its parents, a dependant is struck off only when it is    *)
(* put in order (or when it is the type itself), and a type is put in      *)
(* order only when it has no dependants left.                              *)
(***************************************************************************)
EXTENDS SchemaClosure, FiniteSetTheorems, WellFoundedInduction, TLAPS

(* What the variables are. *)
Typed ==
  /\ schema \in Schemas /\ order \in Orders
  /\ phase \in {"resolve", "order", "reverse", "push", "ready", "refused", "crashed"}
  /\ anc \in [Types -> SUBSET (Types \cup {Absent})]
  /\ props \in [Types -> SUBSET Types] /\ deps \in [Types -> SUBSET Types]
  /\ pos \in 1 .. N + 1 /\ changed \in BOOLEAN
  /\ back \in [Types -> Types \cup {None, Absent}]

(* The types put in order so far, each once. *)
Listed ==
  /\ sorted \in Seq(Types)
  /\ \A i, j \in 1 .. Len(sorted) : sorted[i] = sorted[j] => i = j
  /\ Cardinality(Members(sorted)) = Len(sorted)
  /\ phase = "resolve" => sorted = <<>>

(* Ancestors are above a type, and its parents are among them. *)
Above ==
  /\ ClosureSound
  /\ \A t \in Types : schema.supers[t] \subseteq anc[t]

(* A type that had its turn depends on each of its parents, all of them known. *)
Noted ==
  phase = "resolve" => \A i \in 1 .. pos - 1 :
    /\ schema.supers[order[i]] \subseteq Types
    /\ \A p \in schema.supers[order[i]] : order[i] \in deps[p]

(* Dependants that were not put in order yet are still noted. *)
Pending ==
  phase = "order" => \A t \in Types :
    /\ schema.supers[t] \subseteq Types
    /\ \A p \in schema.supers[t] \ {t} : t \in deps[p] \/ t \in Members(sorted)

(* A type is put in order after those made from it. *)
ChildrenFirst ==
  phase = "order" => \A i \in 1 .. Len(sorted) : \A t \in Types \ {sorted[i]} :
    sorted[i] \in schema.supers[t] => \E j \in 1 .. i - 1 : sorted[j] = t

(* The finished order, the other way round. *)
ParentsBefore(s) ==
  \A i \in 1 .. Len(s) : \A p \in schema.supers[s[i]] \ {s[i]} :
    \E j \in 1 .. i - 1 : s[j] = p
Finished ==
  phase \in {"reverse", "push", "ready"} \/ Len(pushed) > 0 =>
    /\ Members(sorted) = Types
    /\ ParentsBefore(sorted)

(* What was tried is the beginning of the order, and only that can have failed. *)
Begun ==
  /\ pushed \in Seq(Types) /\ failed \subseteq Members(pushed)
  /\ Len(pushed) > 0 => phase \in {"push", "ready", "crashed"}
  /\ Len(pushed) <= Len(sorted)
  /\ \A i \in 1 .. Len(pushed) : pushed[i] = sorted[i]

(* Where the dictionary lists parents first, a type that had its turn, and in  *)
(* the end every type, has all its ancestors and all their properties.        *)
Whole(t) == anc[t] = Reach(t) /\ props[t] = {t} \cup Reach(t)
Gathered ==
  /\ \A t \in Types : t \in props[t]
  /\ ParentsFirst /\ phase = "resolve" => \A i \in 1 .. pos - 1 : Whole(order[i])
  /\ ParentsFirstWhole

(* The reverses are as they were loaded until they are paired. *)
Reversed ==
  /\ phase \in {"resolve", "order", "reverse"} => back = schema.reverse
  /\ PrimaryPairs

(* Only types below a type that are not put in order yet depend on it, and     *)
(* after the first pass none depends on itself (that pass is the one counted  *)
(* as 1: the passes are entered at their end).                                *)
Waiting ==
  /\ \A x \in Types : \A t \in deps[x] : x \in anc[t]
  /\ phase = "order" => \A x \in Types : deps[x] \cap Members(sorted) = {}
  /\ phase = "resolve" => passes = 0
  /\ phase = "order" /\ passes = 0 => pos = N + 1
  /\ phase = "order" /\ passes = 1 => \A i \in 1 .. pos - 1 : order[i] \notin deps[order[i]]
  /\ phase = "order" /\ passes > 1 => \A x \in Types : x \notin deps[x]

(* Every later pass over a hierarchy that is not circular puts a type in       *)
(* order, or has met none so far that is ready.                               *)
Progressing ==
  /\ passes \in Nat
  /\ phase = "order" /\ passes > 1 /\ ~Circular =>
       \/ Len(sorted) >= passes - 1
       \/ /\ Len(sorted) >= passes - 2
          /\ \A i \in 1 .. pos - 1 : order[i] \in Members(sorted) \/ deps[order[i]] # {}
  /\ phase = "refused" /\ Len(sorted) < N /\ ~schema.test => Circular

IInv == /\ Typed /\ Listed /\ Above /\ Noted /\ Pending /\ ChildrenFirst /\ Finished /\ Begun
-----------------------------------------------------------------------------
(* Constants, orders and lists. *)

LEMMA SchemaFacts ==
  ASSUME NEW s \in Schemas
  PROVE  /\ s.supers \in [Types -> SUBSET (Types \cup {Absent})]
         /\ s.reverse \in [Types -> Types \cup {None, Absent}]
BY SchemasAssumption

LEMMA OrderFacts ==
  ASSUME NEW o \in Orders
  PROVE  /\ o \in Seq(Types) /\ Len(o) \in Nat /\ Len(o) = Cardinality(Types)
         /\ \A t \in Types : \E i \in 1 .. Len(o) : o[i] = t
<1>1. Cardinality(Types) \in Nat
  BY FS_CardinalityType, TypesAssumption
<1>2. o \in [1 .. Cardinality(Types) -> Types]
  BY DEF Orders
<1>3. o \in Seq(Types) /\ Len(o) = Cardinality(Types)
  BY <1>1, <1>2
<1>4. \A t \in Types : \E i \in 1 .. Cardinality(Types) : o[i] = t
  BY DEF Orders
<1> QED
  BY <1>1, <1>3, <1>4

LEMMA TurnIsType ==
  ASSUME Typed, pos <= N
  PROVE  pos \in 1 .. N /\ order[pos] \in Types /\ N \in Nat
BY OrderFacts DEF Typed, N

LEMMA EachIsType ==
  ASSUME Typed, NEW i \in 1 .. N
  PROVE  order[i] \in Types
BY OrderFacts DEF Typed, N

LEMMA AboveKept ==
  ASSUME Above, UNCHANGED <<schema, anc, props>>
  PROVE  Above'
<1>1. \A t : Reach(t)' = Reach(t)
  BY DEF Reach
<1>2. \A t \in Types : anc[t] \subseteq Reach(t) /\ props[t] \subseteq {t} \cup Reach(t)
  BY DEF Above, ClosureSound
<1>3. \A t \in Types : schema.supers[t] \subseteq anc[t]
  BY DEF Above
<1>4. ClosureSound'
  BY <1>1, <1>2 DEF ClosureSound
<1> QED
  BY <1>3, <1>4 DEF Above

LEMMA ListedKept ==
  ASSUME Listed, sorted' = sorted, phase' = "resolve" => phase = "resolve"
  PROVE  Listed' /\ Members(sorted)' = Members(sorted)
<1>1. Members(sorted)' = Members(sorted)
  BY DEF Members
<1>2. Cardinality(Members(sorted))' = Len(sorted)'
  BY <1>1 DEF Listed
<1>3. \A i, j \in 1 .. Len(sorted) : sorted[i] = sorted[j] => i = j
  BY DEF Listed
<1> QED
  BY <1>1, <1>2, <1>3 DEF Listed

LEMMA MembersAre ==
  ASSUME NEW s
  PROVE  \A x : x \in Members(s) <=> \E i \in 1 .. Len(s) : x = s[i]
BY DEF Members

LEMMA MembersOfAppend ==
  ASSUME NEW S, NEW s \in Seq(S), NEW x \in S
  PROVE  Members(Append(s, x)) = Members(s) \cup {x}
<1> DEFINE n == Len(s) + 1
<1>1. Len(Append(s, x)) = n /\ Append(s, x)[n] = x
      /\ \A i \in 1 .. Len(s) : Append(s, x)[i] = s[i]
  OBVIOUS
<1>2. n \in Nat /\ 1 .. n = (1 .. Len(s)) \cup {n}
  OBVIOUS
<1> QED
  BY <1>1, <1>2 DEF Members

LEMMA BackwardsFacts ==
  ASSUME NEW S, NEW s \in Seq(S)
  PROVE  /\ Backwards(s) \in Seq(S) /\ Len(Backwards(s)) = Len(s)
         /\ \A i \in 1 .. Len(s) : Backwards(s)[i] = s[Len(s) - i + 1]
         /\ Members(Backwards(s)) = Members(s)
<1>1. /\ Backwards(s) \in Seq(S) /\ Len(Backwards(s)) = Len(s)
      /\ \A i \in 1 .. Len(s) : Backwards(s)[i] = s[Len(s) - i + 1]
  BY DEF Backwards
<1>2. \A i \in 1 .. Len(s) : Len(s) - i + 1 \in 1 .. Len(s)
                             /\ Len(s) - (Len(s) - i + 1) + 1 = i
  OBVIOUS
<1>3. Members(Backwards(s)) \subseteq Members(s)
  BY <1>1, <1>2, MembersAre
<1>4. Members(s) \subseteq Members(Backwards(s))
  <2> SUFFICES ASSUME NEW i \in 1 .. Len(s) PROVE s[i] \in Members(Backwards(s))
    BY DEF Members
  <2>1. Backwards(s)[Len(s) - i + 1] = s[i]
    BY <1>1, <1>2
  <2> QED
    BY <2>1, <1>1, <1>2, MembersAre
<1> QED
  BY <1>1, <1>3, <1>4

(* A list of different types as long as there are types has them all. *)
LEMMA AllListed ==
  ASSUME Typed, Listed, Len(sorted) >= N
  PROVE  Members(sorted) = Types
<1>1. N = Cardinality(Types) /\ N \in Nat
  BY OrderFacts DEF Typed, N
<1>2. Members(sorted) \subseteq Types /\ Len(sorted) \in Nat
  <2>1. sorted \in Seq(Types)
    BY DEF Listed
  <2> QED
    BY <2>1, MembersAre
<1>3. Cardinality(Members(sorted)) >= Cardinality(Types)
  BY <1>1 DEF Listed
<1>4. IsFiniteSet(Members(sorted))
  BY <1>2, FS_Subset, TypesAssumption
<1>5. SUFFICES ASSUME NEW x \in Types \ Members(sorted) PROVE FALSE
  BY <1>2
<1>6. /\ IsFiniteSet(Members(sorted) \cup {x})
      /\ Cardinality(Members(sorted) \cup {x}) = Cardinality(Members(sorted)) + 1
  BY <1>4, <1>5, FS_AddElement
<1>7. Cardinality(Members(sorted) \cup {x}) <= Cardinality(Types)
  BY <1>2, FS_Subset, TypesAssumption
<1> QED
  BY <1>1, <1>3, <1>6, <1>7, <1>4, FS_CardinalityType
-----------------------------------------------------------------------------
(* What is above a type. *)

Closed(S) == \A x \in S \cap Types : schema.supers[x] \subseteq S

LEMMA ReachLeast ==
  ASSUME NEW t \in Types, NEW S \in SUBSET (Types \cup {Absent}),
         schema.supers[t] \subseteq S, Closed(S)
  PROVE  Reach(t) \subseteq S
BY DEF Reach, Closed

LEMMA ReachParents ==
  ASSUME NEW t \in Types, schema \in Schemas
  PROVE  schema.supers[t] \subseteq Reach(t)
BY SchemaFacts DEF Reach

LEMMA ReachUpwards ==
  ASSUME NEW t \in Types, NEW p \in Reach(t) \cap Types
  PROVE  Reach(p) \subseteq Reach(t)
<1> SUFFICES ASSUME NEW x \in Reach(p),
                    NEW S \in SUBSET (Types \cup {Absent}),
                    schema.supers[t] \subseteq S, Closed(S)
             PROVE  x \in S
  BY DEF Reach, Closed
<1>1. p \in S
  BY ReachLeast
<1>2. schema.supers[p] \subseteq S
  BY <1>1 DEF Closed
<1> QED
  BY <1>2, ReachLeast
-----------------------------------------------------------------------------
(* Every step keeps the invariant. *)

LEMMA InitIInv == Init => IInv
<1> SUFFICES ASSUME Init PROVE IInv
  OBVIOUS
<1>1. schema \in Schemas /\ order \in Orders /\ phase = "resolve" /\ pos = 1
      /\ anc = schema.supers /\ sorted = <<>> /\ pushed = <<>>
  BY DEF Init
<1>2. N \in Nat
  BY <1>1, OrderFacts DEF N
<1>3. Typed
  <2>1. pos \in 1 .. N + 1
    BY <1>1, <1>2
  <2>2. /\ props \in [Types -> SUBSET Types] /\ deps \in [Types -> SUBSET Types]
        /\ changed \in BOOLEAN /\ back \in [Types -> Types \cup {None, Absent}]
        /\ anc \in [Types -> SUBSET (Types \cup {Absent})]
    BY SchemaFacts DEF Init
  <2> QED
    BY <1>1, <2>1, <2>2 DEF Typed
<1>4. Listed
  <2>1. Members(sorted) = {} /\ Len(sorted) = 0
    BY <1>1, MembersAre
  <2>2. Cardinality(Members(sorted)) = 0
    BY <2>1, FS_EmptySet
  <2>3. sorted \in Seq(Types)
    BY <1>1
  <2> QED
    BY <1>1, <2>1, <2>2, <2>3 DEF Listed
<1>5. Above
  BY <1>1, ReachParents DEF Above, ClosureSound, Init
<1>6. Noted /\ Pending /\ ChildrenFirst /\ Finished /\ Begun
  <2>1. failed = {} /\ Len(pushed) = 0 /\ pushed \in Seq(Types)
    BY <1>1 DEF Init
  <2> QED
    BY <1>1, <1>4, <2>1 DEF Noted, Pending, ChildrenFirst, Finished, Begun, Listed
<1> QED
  BY <1>3, <1>4, <1>5, <1>6 DEF IInv

(* One type takes over the ancestors of its parents. *)
LEMMA InheritIInv == IInv /\ Inherit => IInv'
<1> SUFFICES ASSUME IInv, Inherit PROVE IInv'
  OBVIOUS
<1> DEFINE t == order[pos]
<1>0. /\ Typed /\ Listed /\ Above /\ Noted /\ Begun
      /\ phase = "resolve" /\ phase' = "resolve" /\ pos <= N /\ anc[t] \subseteq Types
      /\ UNCHANGED <<schema, order, sorted, back, pushed, failed>>
  BY DEF IInv, Inherit
<1>1. t \in Types /\ pos \in 1 .. N /\ N \in Nat /\ N' = N
  BY <1>0, TurnIsType DEF N
<1>2. /\ anc' = [anc EXCEPT ![t] = @ \cup UNION {anc[p] : p \in anc[t]}]
      /\ props' = [props EXCEPT ![t] = @ \cup UNION {props[p] : p \in anc[t]}]
      /\ deps' = [p \in Types |-> IF p \in anc[t] THEN deps[p] \cup {t} ELSE deps[p]]
      /\ changed' = (anc'[t] # anc[t]) /\ pos' = pos + 1
  BY DEF Inherit
<1>3. Typed'
  <2>1. anc \in [Types -> SUBSET (Types \cup {Absent})] /\ props \in [Types -> SUBSET Types]
        /\ deps \in [Types -> SUBSET Types]
    BY <1>0 DEF Typed
  <2>2. UNION {anc[p] : p \in anc[t]} \subseteq Types \cup {Absent}
        /\ UNION {props[p] : p \in anc[t]} \subseteq Types
    BY <1>0, <2>1
  <2>3. anc' \in [Types -> SUBSET (Types \cup {Absent})] /\ props' \in [Types -> SUBSET Types]
        /\ deps' \in [Types -> SUBSET Types]
    BY <1>1, <1>2, <2>1, <2>2
  <2>4. pos' \in 1 .. N' + 1 /\ changed' \in BOOLEAN
    BY <1>1, <1>2
  <2> QED
    BY <1>0, <2>3, <2>4 DEF Typed, Orders
<1>4. Listed'
  BY <1>0 DEF Listed, Members
<1>5. Above'
  <2>1. \A x \in Types : Reach(x)' = Reach(x)
    BY <1>0 DEF Reach
  <2>2. /\ \A x \in Types : anc[x] \subseteq Reach(x) /\ props[x] \subseteq {x} \cup Reach(x)
        /\ \A x \in Types : schema.supers[x] \subseteq anc[x]
    BY <1>0 DEF Above, ClosureSound
  <2>3. \A p \in anc[t] : anc[p] \subseteq Reach(t) /\ props[p] \subseteq Reach(t)
    <3> SUFFICES ASSUME NEW p \in anc[t]
                 PROVE  anc[p] \subseteq Reach(t) /\ props[p] \subseteq Reach(t)
      OBVIOUS
    <3>1. p \in Reach(t) \cap Types
      BY <1>0, <1>1, <2>2
    <3>2. Reach(p) \subseteq Reach(t)
      BY <1>1, <3>1, ReachUpwards
    <3> QED
      BY <2>2, <3>1, <3>2
  <2>4. \A x \in Types : anc'[x] \subseteq Reach(x) /\ anc[x] \subseteq anc'[x]
    BY <1>0, <1>1, <1>2, <2>2, <2>3 DEF Typed
  <2>5. \A x \in Types : props'[x] \subseteq {x} \cup Reach(x)
    BY <1>0, <1>1, <1>2, <2>2, <2>3 DEF Typed
  <2> QED
    BY <1>0, <2>1, <2>2, <2>4, <2>5 DEF Above, ClosureSound
<1>6. Noted'
  <2> SUFFICES ASSUME NEW i \in 1 .. pos
               PROVE  /\ schema.supers[order[i]] \subseteq Types
                      /\ \A p \in schema.supers[order[i]] : order[i] \in deps'[p]
    <3>1. 1 .. pos' - 1 = 1 .. pos
      BY <1>1, <1>2
    <3>2. ASSUME \A i \in 1 .. pos :
                    /\ schema.supers[order[i]] \subseteq Types
                    /\ \A p \in schema.supers[order[i]] : order[i] \in deps'[p]
          PROVE  Noted'
      BY <1>0, <3>1, <3>2, Zenon DEF Noted
    <3> QED
      BY <3>2
  <2>1. CASE i = pos
    <3>1. schema.supers[t] \subseteq anc[t]
      BY <1>0, <1>1 DEF Above
    <3> QED
      BY <1>0, <1>2, <2>1, <3>1
  <2>2. CASE i # pos
    <3>1. i \in 1 .. pos - 1
      BY <1>1, <2>2
    <3> QED
      BY <1>0, <1>2, <3>1 DEF Noted
  <2> QED
    BY <2>1, <2>2
<1>7. Pending' /\ ChildrenFirst' /\ Finished' /\ Begun'
  BY <1>0 DEF Pending, ChildrenFirst, Finished, Begun, Members
<1> QED
  BY <1>3, <1>4, <1>5, <1>6, <1>7 DEF IInv

LEMMA UnknownIInv == IInv /\ Unknown => IInv'
<1> SUFFICES ASSUME IInv, Unknown PROVE IInv'
  OBVIOUS
<1>1. /\ Typed /\ Listed /\ Above /\ Begun /\ phase = "resolve" /\ phase' = "crashed"
      /\ UNCHANGED <<schema, order, anc, props, deps, pos, changed, sorted, back, pushed, failed>>
  BY DEF IInv, Unknown
<1>2. Typed' /\ Above'
  BY <1>1 DEF Typed, Above, ClosureSound, Reach, N, Orders
<1>3. Listed' /\ Noted' /\ Pending' /\ ChildrenFirst' /\ Finished' /\ Begun'
  BY <1>1 DEF Listed, Members, Noted, Pending, ChildrenFirst, Finished, Begun
<1> QED
  BY <1>2, <1>3 DEF IInv

(* The passes over the parents end, or there is another. *)
LEMMA PassEndsIInv == IInv /\ PassEnds => IInv'
<1> SUFFICES ASSUME IInv, PassEnds PROVE IInv'
  OBVIOUS
<1>1. /\ Typed /\ Listed /\ Above /\ Noted /\ Begun /\ phase = "resolve" /\ pos > N
      /\ UNCHANGED <<schema, order, anc, props, deps, changed, sorted, back, pushed, failed>>
      /\ \/ pos' = 1 /\ phase' = phase
         \/ phase' = "order" /\ pos' = N + 1
  BY DEF IInv, PassEnds
<1>2. N \in Nat /\ N' = N /\ pos = N + 1 /\ pos' \in 1 .. N + 1
  BY <1>1, OrderFacts DEF Typed, N
<1>3. Typed' /\ Above'
  BY <1>1, <1>2 DEF Typed, Above, ClosureSound, Reach, Orders
<1>4. Listed' /\ Finished' /\ Begun'
  BY <1>1 DEF Listed, Members, Finished, Begun
<1>5. Noted'
  BY <1>1, <1>2 DEF Noted
<1>6. Pending'
  <2>1. ASSUME NEW t \in Types
        PROVE  /\ schema.supers[t] \subseteq Types
               /\ \A p \in schema.supers[t] : t \in deps[p]
    <3>1. PICK i \in 1 .. N : order[i] = t
      BY <1>1, OrderFacts DEF Typed, N
    <3> QED
      BY <1>1, <1>2, <3>1 DEF Noted
  <2> QED
    BY <1>1, <2>1 DEF Pending
<1>7. ChildrenFirst'
  BY <1>1 DEF ChildrenFirst, Listed
<1> QED
  BY <1>3, <1>4, <1>5, <1>6, <1>7 DEF IInv

(* A type is put in order. *)
LEMMA TakeIInv == IInv /\ Take => IInv'
<1> SUFFICES ASSUME IInv, Take PROVE IInv'
  OBVIOUS
<1> DEFINE t == order[pos]
<1>0. /\ Typed /\ Listed /\ Above /\ Pending /\ ChildrenFirst /\ Begun
      /\ phase = "order" /\ phase' = "order" /\ pos <= N
      /\ deps[t] = {} /\ t \notin Members(sorted) /\ sorted' = Append(sorted, t)
      /\ deps' = [a \in Types |-> IF a \in anc[t] THEN deps[a] \ {t} ELSE deps[a]]
      /\ pos' = pos + 1
      /\ UNCHANGED <<schema, order, anc, props, changed, back, pushed, failed>>
  BY DEF IInv, Take
<1>1. t \in Types /\ pos \in 1 .. N /\ N \in Nat /\ N' = N
  BY <1>0, TurnIsType DEF N
<1>2. sorted \in Seq(Types) /\ Len(sorted) \in Nat
  BY <1>0 DEF Listed
<1>3. /\ sorted' \in Seq(Types) /\ Len(sorted') = Len(sorted) + 1
      /\ sorted'[Len(sorted) + 1] = t
      /\ \A i \in 1 .. Len(sorted) : sorted'[i] = sorted[i]
  BY <1>0, <1>1, <1>2
<1>4. Members(sorted') = Members(sorted) \cup {t}
  BY <1>0, <1>1, <1>2, MembersOfAppend
<1>5. \A i \in 1 .. Len(sorted) : sorted[i] \in Members(sorted)
  BY MembersAre
<1>6. Typed'
  <2>1. deps' \in [Types -> SUBSET Types]
    BY <1>0, <1>1 DEF Typed
  <2>2. pos' \in 1 .. N' + 1
    BY <1>0, <1>1
  <2> QED
    BY <1>0, <2>1, <2>2 DEF Typed, Orders
<1>7. Listed'
  <2>1. \A i, j \in 1 .. Len(sorted') : sorted'[i] = sorted'[j] => i = j
    BY <1>0, <1>2, <1>3, <1>5 DEF Listed
  <2>2. Members(sorted) \subseteq Types
    BY <1>2, MembersAre
  <2>3. IsFiniteSet(Members(sorted))
    BY <2>2, FS_Subset, TypesAssumption
  <2>4. Cardinality(Members(sorted) \cup {t}) = Cardinality(Members(sorted)) + 1
    BY <1>0, <2>3, FS_AddElement
  <2>5. Cardinality(Members(sorted')) = Len(sorted')
    BY <1>0, <1>3, <1>4, <2>4 DEF Listed
  <2> QED
    BY <1>0, <1>3, <2>1, <2>5 DEF Listed, Members
<1>8. Above'
  BY <1>0, AboveKept
<1>9. Pending'
  BY <1>0, <1>1, <1>4 DEF Pending, Typed
<1>10. ChildrenFirst'
  <2> SUFFICES ASSUME NEW i \in 1 .. Len(sorted'), NEW c \in Types \ {sorted'[i]},
                      sorted'[i] \in schema.supers[c]
               PROVE  \E j \in 1 .. i - 1 : sorted'[j] = c
    BY <1>0 DEF ChildrenFirst
  <2>1. CASE i = Len(sorted) + 1
    <3>1. c \in Members(sorted)
      BY <1>0, <1>3, <2>1 DEF Pending
    <3>2. PICK j \in 1 .. Len(sorted) : sorted[j] = c
      BY <3>1, MembersAre
    <3> QED
      BY <1>2, <1>3, <2>1, <3>2
  <2>2. CASE i # Len(sorted) + 1
    <3>1. i \in 1 .. Len(sorted) /\ sorted'[i] = sorted[i]
      BY <1>2, <1>3, <2>2
    <3>2. PICK j \in 1 .. i - 1 : sorted[j] = c
      BY <1>0, <3>1 DEF ChildrenFirst
    <3> QED
      BY <1>2, <1>3, <3>1, <3>2
  <2> QED
    BY <2>1, <2>2
<1>11. Noted' /\ Finished' /\ Begun'
  BY <1>0, <1>2, <1>3 DEF Noted, Finished, Begun, Members
<1> QED
  BY <1>6, <1>7, <1>8, <1>9, <1>10, <1>11 DEF IInv

(* A type is passed over, and at most the loop to itself is dropped. *)
LEMMA PassOverIInv == IInv /\ PassOver => IInv'
<1> SUFFICES ASSUME IInv, PassOver PROVE IInv'
  OBVIOUS
<1> DEFINE t == order[pos]
<1>0. /\ Typed /\ Listed /\ Above /\ Pending /\ ChildrenFirst /\ Begun
      /\ phase = "order" /\ pos <= N
      /\ UNCHANGED <<schema, order, anc, props, changed, sorted, back, pushed, failed>>
      /\ \/ phase' = "refused" /\ UNCHANGED <<deps, pos>>
         \/ deps' = [deps EXCEPT ![t] = @ \ {t}] /\ pos' = pos + 1 /\ phase' = phase
  BY DEF IInv, PassOver
<1>1. t \in Types /\ pos \in 1 .. N /\ N \in Nat /\ N' = N
  BY <1>0, TurnIsType DEF N
<1>2. /\ deps' \in [Types -> SUBSET Types] /\ pos' \in 1 .. N' + 1
      /\ \A p \in Types : deps[p] \ {p} \subseteq deps'[p]
      /\ phase' \in {"order", "refused"}
  BY <1>0, <1>1 DEF Typed
<1>3. Typed' /\ Above'
  <2>1. Typed'
    BY <1>0, <1>2 DEF Typed, N
  <2>2. Above'
    BY <1>0, AboveKept
  <2> QED
    BY <2>1, <2>2
<1>4. Listed' /\ Members(sorted)' = Members(sorted)
  BY <1>0, <1>2, ListedKept
<1>5. Pending'
  BY <1>0, <1>2, <1>4 DEF Pending
<1>6. Noted' /\ Finished' /\ Begun'
  BY <1>0, <1>2 DEF Noted, Finished, Begun, Members
<1>7. ChildrenFirst'
  <2>1. ChildrenFirst /\ phase = "order" /\ sorted' = sorted /\ schema' = schema
    BY <1>0
  <2> QED
    BY <2>1 DEF ChildrenFirst
<1> QED
  BY <1>3, <1>4, <1>5, <1>6, <1>7 DEF IInv

(* Turning the order round puts every type after its parents. *)
LEMMA TurnedRound ==
  ASSUME Typed, Listed, Pending, ChildrenFirst, phase = "order", Members(sorted) = Types
  PROVE  ParentsBefore(Backwards(sorted))
<1> DEFINE n == Len(sorted)
           s == Backwards(sorted)
<1>1. sorted \in Seq(Types) /\ n \in Nat
  BY DEF Listed
<1>2. Len(s) = n /\ \A i \in 1 .. n : s[i] = sorted[n - i + 1]
  BY <1>1, BackwardsFacts
<1> SUFFICES ASSUME NEW i \in 1 .. n, NEW p \in schema.supers[s[i]] \ {s[i]}
             PROVE  \E j \in 1 .. i - 1 : s[j] = p
  BY <1>2 DEF ParentsBefore
<1>3. n - i + 1 \in 1 .. n /\ s[i] = sorted[n - i + 1] /\ s[i] \in Types
  BY <1>1, <1>2
<1>4. p \in Types
  BY <1>3 DEF Pending
<1>5. PICK k \in 1 .. n : sorted[k] = p
  BY <1>4, MembersAre
<1>6. PICK j \in 1 .. k - 1 : sorted[j] = s[i]
  BY <1>3, <1>5 DEF ChildrenFirst
<1>7. j = n - i + 1
  BY <1>1, <1>3, <1>5, <1>6 DEF Listed
<1>8. n - k + 1 \in 1 .. i - 1 /\ n - k + 1 \in 1 .. n /\ n - (n - k + 1) + 1 = k
  BY <1>1, <1>3, <1>5, <1>6, <1>7
<1> QED
  BY <1>2, <1>5, <1>8

(* The passes over the types end, with all of them in order or without. *)
LEMMA OrderEndsIInv == IInv /\ OrderEnds => IInv'
<1> SUFFICES ASSUME IInv, OrderEnds PROVE IInv'
  OBVIOUS
<1>0. /\ Typed /\ Listed /\ Above /\ Pending /\ ChildrenFirst /\ Begun
      /\ phase = "order" /\ pos > N
      /\ UNCHANGED <<schema, order, anc, props, deps, changed, back, pushed, failed>>
      /\ \/ pos' = 1 /\ phase' = "order" /\ sorted' = sorted
         \/ pos' = pos /\ phase' = "refused" /\ sorted' = sorted
         \/ /\ Len(sorted) >= N /\ pos' = pos
            /\ phase' = "reverse" /\ sorted' = Backwards(sorted)
  BY DEF IInv, OrderEnds
<1>1. N \in Nat /\ N' = N
  BY <1>0, OrderFacts DEF Typed, N
<1>2. Typed' /\ Above'
  <2>1. pos' \in 1 .. N' + 1
    BY <1>0, <1>1 DEF Typed
  <2>2. Typed'
    BY <1>0, <1>1, <2>1 DEF Typed
  <2>3. Above'
    BY <1>0, AboveKept
  <2> QED
    BY <2>2, <2>3
<1>3. CASE sorted' = sorted /\ phase' \in {"order", "refused"}
  <2>1. Listed' /\ Members(sorted)' = Members(sorted)
    BY <1>0, <1>3, ListedKept
  <2>2. Pending'
    BY <1>0, <1>3, <2>1 DEF Pending
  <2>3. Noted' /\ ChildrenFirst' /\ Finished' /\ Begun'
    BY <1>0, <1>3 DEF Noted, ChildrenFirst, Finished, Begun, Members
  <2> QED
    BY <1>2, <2>1, <2>2, <2>3 DEF IInv
<1>4. CASE Len(sorted) >= N /\ phase' = "reverse" /\ sorted' = Backwards(sorted)
  <2>1. Members(sorted) = Types
    BY <1>0, <1>4, AllListed
  <2>2. sorted \in Seq(Types) /\ Len(sorted) \in Nat
    BY <1>0 DEF Listed
  <2>3. /\ sorted' \in Seq(Types) /\ Len(sorted') = Len(sorted)
        /\ \A i \in 1 .. Len(sorted) : sorted'[i] = sorted[Len(sorted) - i + 1]
        /\ Members(sorted') = Types
    BY <1>4, <2>1, <2>2, BackwardsFacts
  <2>4. Listed'
    <3>1. \A i, j \in 1 .. Len(sorted) :
            sorted[Len(sorted) - i + 1] = sorted[Len(sorted) - j + 1] => i = j
      <4> SUFFICES ASSUME NEW i \in 1 .. Len(sorted), NEW j \in 1 .. Len(sorted),
                          sorted[Len(sorted) - i + 1] = sorted[Len(sorted) - j + 1]
                   PROVE  i = j
        OBVIOUS
      <4>1. Len(sorted) - i + 1 \in 1 .. Len(sorted) /\ Len(sorted) - j + 1 \in 1 .. Len(sorted)
        BY <2>2
      <4>2. Len(sorted) - i + 1 = Len(sorted) - j + 1
        BY <1>0, <4>1 DEF Listed
      <4> QED
        BY <2>2, <4>2
    <3>2. \A i, j \in 1 .. Len(sorted') : sorted'[i] = sorted'[j] => i = j
      BY <2>3, <3>1
    <3>3. Cardinality(Members(sorted')) = Len(sorted')
      BY <1>0, <2>1, <2>3 DEF Listed
    <3> QED
      BY <1>4, <2>3, <3>2, <3>3 DEF Listed, Members
  <2>5. ParentsBefore(sorted')
    BY <1>0, <1>4, <2>1, TurnedRound
  <2>6. Finished'
    BY <1>0, <1>4, <2>3, <2>5 DEF Finished, ParentsBefore, Members
  <2>7. Begun'
    <3>1. Len(pushed) = 0 /\ pushed \in Seq(Types)
      BY <1>0 DEF Begun, Members
    <3> QED
      BY <1>0, <2>2, <2>3, <3>1 DEF Begun, Members
  <2> QED
    BY <1>2, <1>4, <2>4, <2>6, <2>7 DEF IInv, Noted, Pending, ChildrenFirst
<1> QED
  BY <1>0, <1>3, <1>4

LEMMA PairIInv == IInv /\ Pair => IInv'
<1> SUFFICES ASSUME IInv, Pair PROVE IInv'
  OBVIOUS
<1>0. /\ Typed /\ Listed /\ Above /\ Begun /\ phase = "reverse"
      /\ UNCHANGED <<schema, order, anc, props, deps, pos, changed, sorted, pushed, failed>>
      /\ \/ phase' \in {"refused", "crashed"} /\ back' = back
         \/ /\ phase' = "push"
            /\ back' = [q \in Types |->
                 IF \E p \in Completions : schema.reverse[p] = q
                 THEN CHOOSE p \in Completions : schema.reverse[p] = q ELSE back[q]]
  BY DEF IInv, Pair
<1>1. back' \in [Types -> Types \cup {None, Absent}]
  <2>1. Completions \subseteq Types
    BY DEF Completions, Primary, Reverses, Declared
  <2>2. \A q \in Types : (\E p \in Completions : schema.reverse[p] = q) =>
          (CHOOSE p \in Completions : schema.reverse[p] = q) \in Types
    BY <2>1
  <2> QED
    BY <1>0, <2>2 DEF Typed
<1>2. Typed' /\ Above'
  <2>1. Typed'
    BY <1>0, <1>1 DEF Typed, N
  <2>2. Above'
    BY <1>0, AboveKept
  <2> QED
    BY <2>1, <2>2
<1>3. /\ Finished /\ phase = "reverse" /\ phase' \in {"refused", "crashed", "push"}
      /\ sorted' = sorted /\ schema' = schema /\ pushed' = pushed
  BY <1>0 DEF IInv
<1>4. Listed
  BY <1>0
<1>5. Listed' /\ Members(sorted)' = Members(sorted)
  BY <1>3, <1>4, ListedKept
<1>6. Noted' /\ Pending' /\ ChildrenFirst'
  BY <1>3 DEF Noted, Pending, ChildrenFirst
<1>7. Finished'
  BY <1>3 DEF Finished, ParentsBefore, Members
<1>8. Begun'
  BY <1>0, <1>3 DEF Begun, Members
<1> QED
  BY <1>2, <1>5, <1>7, <1>8, <1>6 DEF IInv

(* The next type of the order is tried, or the load ends with an exception. *)
LEMMA PushIInv == IInv /\ Push => IInv'
<1> SUFFICES ASSUME IInv, Push PROVE IInv'
  OBVIOUS
<1> DEFINE k == Len(pushed) + 1
<1>0. /\ Typed /\ Listed /\ Above /\ Finished /\ Begun /\ phase = "push"
      /\ phase' \in {"push", "crashed"} /\ Len(pushed) < Len(sorted)
      /\ UNCHANGED <<schema, order, anc, props, deps, pos, changed, sorted, back>>
  BY DEF IInv, Push
<1>1. sorted \in Seq(Types) /\ pushed \in Seq(Types) /\ k \in 1 .. Len(sorted)
      /\ sorted[k] \in Types
  BY <1>0 DEF Listed, Begun
<1>2. ASSUME pushed' = Append(pushed, sorted[k]),
             failed' \in {failed, failed \cup {sorted[k]}}
      PROVE  Begun'
  <2>1. /\ pushed' \in Seq(Types) /\ Len(pushed') = k /\ pushed'[k] = sorted[k]
        /\ \A i \in 1 .. Len(pushed) : pushed'[i] = pushed[i]
    BY <1>0, <1>1, <1>2
  <2>2. \A i \in 1 .. k : i = k \/ i \in 1 .. Len(pushed)
    BY <1>1
  <2>3. \A i \in 1 .. Len(pushed') : pushed'[i] = sorted[i]
    BY <1>0, <1>1, <2>1, <2>2 DEF Begun
  <2>4. Members(pushed') = Members(pushed) \cup {sorted[k]}
    BY <1>1, <1>2, MembersOfAppend
  <2>5. failed' \subseteq Members(pushed')
    <3>1. failed \subseteq Members(pushed)
      BY <1>0 DEF Begun
    <3> QED
      BY <1>2, <2>4, <3>1
  <2>6. Members(pushed)' = Members(pushed')
    BY DEF Members
  <2> QED
    BY <1>0, <1>1, <2>1, <2>3, <2>5, <2>6 DEF Begun
<1>3. ASSUME UNCHANGED <<pushed, failed>> PROVE Begun'
  BY <1>0, <1>3 DEF Begun, Members
<1>4. Begun'
  BY <1>2, <1>3 DEF Push
<1>5. Typed' /\ Above'
  <2>1. Typed'
    BY <1>0 DEF Typed, N
  <2>2. Above'
    BY <1>0, AboveKept
  <2> QED
    BY <2>1, <2>2
<1>6. Listed' /\ Members(sorted)' = Members(sorted)
  BY <1>0, ListedKept
<1>7. Noted' /\ Pending' /\ ChildrenFirst'
  BY <1>0 DEF Noted, Pending, ChildrenFirst
<1>8. Finished'
  BY <1>0 DEF Finished, ParentsBefore, Members
<1> QED
  BY <1>4, <1>5, <1>6, <1>7, <1>8 DEF IInv

LEMMA PushedIInv == IInv /\ Pushed => IInv'
<1> SUFFICES ASSUME IInv, Pushed PROVE IInv'
  OBVIOUS
<1>0. /\ Typed /\ Listed /\ Above /\ Finished /\ Begun /\ phase = "push" /\ phase' = "ready"
      /\ UNCHANGED <<schema, order, anc, props, deps, pos, changed, sorted, back, pushed, failed>>
  BY DEF IInv, Pushed
<1>1. Typed' /\ Above'
  <2>1. Typed'
    BY <1>0 DEF Typed, N
  <2>2. Above'
    BY <1>0, AboveKept
  <2> QED
    BY <2>1, <2>2
<1>2. Listed' /\ Members(sorted)' = Members(sorted)
  BY <1>0, ListedKept
<1>3. Noted' /\ Pending' /\ ChildrenFirst'
  BY <1>0 DEF Noted, Pending, ChildrenFirst
<1>4. Finished'
  BY <1>0 DEF Finished, ParentsBefore, Members
<1>5. Begun'
  BY <1>0 DEF Begun, Members
<1> QED
  BY <1>1, <1>2, <1>4, <1>5, <1>3 DEF IInv

LEMMA StutterIInv == IInv /\ UNCHANGED vars => IInv'
<1> SUFFICES ASSUME IInv, UNCHANGED vars PROVE IInv'
  OBVIOUS
<1>0. /\ Typed /\ Listed /\ Above /\ Noted /\ Pending /\ ChildrenFirst /\ Finished /\ Begun
      /\ UNCHANGED <<schema, order, phase, anc, props, deps, pos, changed, sorted, back, pushed, failed>>
  BY DEF vars, IInv
<1>1. Typed' /\ Above'
  <2>1. Typed'
    BY <1>0 DEF Typed, N
  <2>2. Above'
    BY <1>0, AboveKept
  <2> QED
    BY <2>1, <2>2
<1>2. Listed' /\ Members(sorted)' = Members(sorted)
  BY <1>0, ListedKept
<1>3. Noted' /\ Pending' /\ ChildrenFirst'
  <2>1. Noted'
    BY <1>0 DEF Noted
  <2>2. Pending'
    BY <1>0, <1>2 DEF Pending
  <2>3. ChildrenFirst'
    BY <1>0 DEF ChildrenFirst
  <2> QED
    BY <2>1, <2>2, <2>3
<1>4. Finished'
  <2>1. ParentsBefore(sorted)' <=> ParentsBefore(sorted)
    BY <1>0 DEF ParentsBefore
  <2> QED
    BY <1>0, <1>2, <2>1 DEF Finished
<1>5. Begun'
  BY <1>0 DEF Begun, Members
<1> QED
  BY <1>1, <1>2, <1>4, <1>5, <1>3 DEF IInv

LEMMA NextIInv == IInv /\ [Next]_vars => IInv'
<1> SUFFICES ASSUME IInv, [Next]_vars PROVE IInv'
  OBVIOUS
<1>1. CASE Inherit BY <1>1, InheritIInv
<1>2. CASE Unknown BY <1>2, UnknownIInv
<1>3. CASE PassEnds BY <1>3, PassEndsIInv
<1>4. CASE Take BY <1>4, TakeIInv
<1>5. CASE PassOver BY <1>5, PassOverIInv
<1>6. CASE OrderEnds BY <1>6, OrderEndsIInv
<1>7. CASE Pair BY <1>7, PairIInv
<1>8. CASE Push BY <1>8, PushIInv
<1>9. CASE Pushed BY <1>9, PushedIInv
<1>10. CASE UNCHANGED vars BY <1>10, StutterIInv
<1> QED
  BY <1>1, <1>2, <1>3, <1>4, <1>5, <1>6, <1>7, <1>8, <1>9, <1>10 DEF Next

THEOREM InvariantHolds == Spec => []IInv
<1> QED
  BY InitIInv, NextIInv, PTL DEF Spec
-----------------------------------------------------------------------------
(* What follows from the invariant. *)

(* The variables keep their types, and no type is put in order twice           *)
(* (schema.py 225-322).                                                       *)
THEOREM TypesHold == Spec => []TypeOK
<1>1. IInv => TypeOK
  <2> SUFFICES ASSUME IInv PROVE TypeOK
    OBVIOUS
  <2>1. Typed /\ Listed /\ failed \subseteq Members(pushed)
    BY DEF IInv, Begun
  <2>2. Members(sorted) \subseteq Types
    BY <2>1, MembersAre DEF Listed
  <2> QED
    BY <2>1, <2>2 DEF Typed, Listed, TypeOK
<1> QED
  BY <1>1, InvariantHolds, PTL

(* No type gets an ancestor or a property that is not its own or above it      *)
(* (schema.py 257-270), whatever the passes miss.                             *)
THEOREM ClosureIsSound == Spec => []ClosureSound
<1>1. IInv => ClosureSound
  BY DEF IInv, Above
<1> QED
  BY <1>1, InvariantHolds, PTL

(* No type is tried before every type it is made from was (schema.py 289-320,  *)
(* 415-427), although their lists of ancestors may be incomplete, so that only *)
(* what failed itself is missing when a type is created.                      *)
THEOREM OrderIsSound == Spec => []OrderSound
<1>1. IInv => OrderSound
  <2> SUFFICES ASSUME IInv, NEW i \in 1 .. Len(pushed),
                      NEW p \in schema.supers[pushed[i]] \ {pushed[i]}
               PROVE  \E j \in 1 .. i - 1 : pushed[j] = p
    BY DEF OrderSound, Created
  <2>1. Begun /\ Finished /\ Listed
    BY DEF IInv
  <2>2. Len(pushed) \in Nat /\ Len(sorted) \in Nat /\ Len(pushed) <= Len(sorted)
    BY <2>1 DEF Begun, Listed
  <2>3. i \in 1 .. Len(sorted) /\ pushed[i] = sorted[i] /\ Len(pushed) > 0
    BY <2>1, <2>2 DEF Begun
  <2>4. PICK j \in 1 .. i - 1 : sorted[j] = p
    BY <2>1, <2>3 DEF Finished, ParentsBefore
  <2>5. j \in 1 .. Len(pushed) /\ pushed[j] = sorted[j]
    BY <2>1, <2>2, <2>4 DEF Begun
  <2> QED
    BY <2>4, <2>5
<1> QED
  BY <1>1, InvariantHolds, PTL

(* A hierarchy in which two types are above each other never gets as far as    *)
(* the pairs of property types or the database: what is above a type comes    *)
(* before it in the order (schema.py 288-322).                                *)
THEOREM CircularIsNeverPushed ==
  Spec => [](phase \in {"reverse", "push", "ready"} => ~Circular)
<1>1. IInv => (phase \in {"reverse", "push", "ready"} => ~Circular)
  <2> SUFFICES ASSUME IInv, phase \in {"reverse", "push", "ready"},
                      NEW t \in Types, NEW u \in Types, t # u, t \in Reach(u), u \in Reach(t)
               PROVE  FALSE
    BY DEF Circular
  <2>1. Typed /\ Listed /\ Members(sorted) = Types /\ ParentsBefore(sorted)
    BY DEF IInv, Finished
  <2>2. sorted \in Seq(Types) /\ Len(sorted) \in Nat
    BY <2>1 DEF Listed
  <2>3. ASSUME NEW x \in Types, NEW i \in 1 .. Len(sorted), sorted[i] = x
        PROVE  \A y \in Reach(x) : \E j \in 1 .. i : sorted[j] = y
    <3> DEFINE S == {sorted[j] : j \in 1 .. i}
    <3>1. S \subseteq Types
      BY <2>2
    <3>2. \A j \in 1 .. i : schema.supers[sorted[j]] \subseteq S
      <4> SUFFICES ASSUME NEW j \in 1 .. i, NEW p \in schema.supers[sorted[j]] PROVE p \in S
        OBVIOUS
      <4>1. j \in 1 .. Len(sorted)
        BY <2>2
      <4>2. CASE p = sorted[j]
        BY <4>2
      <4>3. CASE p # sorted[j]
        <5>1. PICK k \in 1 .. j - 1 : sorted[k] = p
          BY <2>1, <4>1, <4>3 DEF ParentsBefore
        <5>2. k \in 1 .. i
          BY <2>2, <4>1, <5>1
        <5> QED
          BY <5>1, <5>2
      <4> QED
        BY <4>2, <4>3
    <3>3. Closed(S)
      <4> SUFFICES ASSUME NEW y \in S PROVE schema.supers[y] \subseteq S
        BY DEF Closed
      <4>1. PICK j \in 1 .. i : y = sorted[j]
        OBVIOUS
      <4> QED
        BY <3>2, <4>1
    <3>5. schema.supers[x] \subseteq S
      <4>1. i \in 1 .. i
        OBVIOUS
      <4> QED
        BY <2>3, <3>2, <4>1
    <3>4. Reach(x) \subseteq S
      BY <3>1, <3>3, <3>5, ReachLeast
    <3> QED
      BY <3>4
  <2>4. PICK i \in 1 .. Len(sorted) : sorted[i] = t
    BY <2>1, MembersAre
  <2>5. PICK j \in 1 .. i : sorted[j] = u
    BY <2>3, <2>4
  <2>6. PICK k \in 1 .. j : sorted[k] = t
    BY <2>2, <2>3, <2>5
  <2>7. k = i
    BY <2>1, <2>2, <2>4, <2>5, <2>6 DEF Listed
  <2> QED
    BY <2>2, <2>4, <2>5, <2>6, <2>7
<1> QED
  BY <1>1, InvariantHolds, PTL
-----------------------------------------------------------------------------
(* All ancestors are found where the dictionary lists parents first. *)

(* What stays when the schema and the dictionary do. *)
LEMMA SameHierarchy ==
  ASSUME UNCHANGED <<schema, order>>
  PROVE  /\ \A t : Reach(t)' = Reach(t)
         /\ ParentsFirst' <=> ParentsFirst
         /\ Circular' <=> Circular
         /\ N' = N
BY DEF Reach, ParentsFirst, Circular, N

(* What is above a type is listed before it. *)
LEMMA AncestorsListed ==
  ASSUME Typed, Noted, ParentsFirst, phase = "resolve", pos <= N,
         schema.supers[order[pos]] \subseteq Types
  PROVE  Reach(order[pos]) \subseteq {order[i] : i \in 1 .. pos}
<1> DEFINE S == {order[i] : i \in 1 .. pos}
<1>1. pos \in 1 .. N /\ N \in Nat /\ order \in Seq(Types) /\ Len(order) = N
  BY TurnIsType, OrderFacts DEF Typed, N
<1>2. \A t \in Types : \E i \in 1 .. N : order[i] = t
  BY OrderFacts DEF Typed, N
<1>3. S \subseteq Types
  BY <1>1
<1>4. \A i \in 1 .. pos : schema.supers[order[i]] \subseteq S
  <2> SUFFICES ASSUME NEW i \in 1 .. pos, NEW p \in schema.supers[order[i]] PROVE p \in S
    OBVIOUS
  <2>1. i = pos \/ i \in 1 .. pos - 1
    BY <1>1
  <2>2. p \in Types
    BY <2>1 DEF Noted
  <2>3. PICK j \in 1 .. N : order[j] = p
    BY <1>2, <2>2
  <2>4. j <= i
    BY <1>1, <2>3 DEF ParentsFirst
  <2> QED
    BY <1>1, <2>3, <2>4
<1>5. Closed(S)
  BY <1>4 DEF Closed
<1>6. schema.supers[order[pos]] \subseteq S /\ order[pos] \in Types
  BY <1>1, <1>4
<1> QED
  BY <1>3, <1>5, <1>6, ReachLeast

(* A type that takes over from parents that are whole is whole. *)
LEMMA InheritGathered == IInv /\ Gathered /\ Inherit => Gathered'
<1> SUFFICES ASSUME IInv, Gathered, Inherit PROVE Gathered'
  OBVIOUS
<1> DEFINE t == order[pos]
<1>0. /\ Typed /\ Above /\ Noted /\ phase = "resolve" /\ phase' = "resolve"
      /\ pos <= N /\ anc[t] \subseteq Types /\ pos' = pos + 1
      /\ UNCHANGED <<schema, order>>
  BY DEF IInv, Inherit
<1>1. t \in Types /\ pos \in 1 .. N /\ N \in Nat
  BY <1>0, TurnIsType
<1>2. /\ anc \in [Types -> SUBSET (Types \cup {Absent})]
      /\ props \in [Types -> SUBSET Types]
  BY <1>0 DEF Typed
<1>3. /\ anc'[t] = anc[t] \cup UNION {anc[p] : p \in anc[t]}
      /\ props'[t] = props[t] \cup UNION {props[p] : p \in anc[t]}
      /\ \A x \in Types \ {t} : anc'[x] = anc[x] /\ props'[x] = props[x]
      /\ \A x \in Types : props[x] \subseteq props'[x]
  BY <1>1, <1>2 DEF Inherit
<1>4. /\ \A x \in Types : anc'[x] \subseteq Reach(x) /\ props'[x] \subseteq {x} \cup Reach(x)
      /\ \A x \in Types : schema.supers[x] \subseteq anc[x]
      /\ \A x \in Types : anc[x] \subseteq Reach(x)
  <2>1. Above'
    BY InheritIInv DEF IInv
  <2> QED
    BY <1>0, <2>1, SameHierarchy DEF Above, ClosureSound
<1>5. \A x \in Types : x \in props[x] /\ x \in props'[x]
  BY <1>3 DEF Gathered
<1>6. ASSUME ParentsFirst
      PROVE  anc'[t] = Reach(t) /\ props'[t] = {t} \cup Reach(t)
  <2>1. Reach(t) \subseteq {order[i] : i \in 1 .. pos}
    BY <1>0, <1>1, <1>4, <1>6, AncestorsListed
  <2>2. \A p \in anc[t] \ {t} : p \in Types /\ Whole(p)
    <3> SUFFICES ASSUME NEW p \in anc[t] \ {t} PROVE p \in Types /\ Whole(p)
      OBVIOUS
    <3>1. PICK i \in 1 .. pos : p = order[i]
      BY <1>1, <1>4, <2>1
    <3>2. i \in 1 .. pos - 1
      BY <1>1, <3>1
    <3> QED
      BY <1>0, <1>6, <3>1, <3>2 DEF Gathered
  <2>3. Closed(anc'[t])
    <3> SUFFICES ASSUME NEW x \in anc'[t] \cap Types, NEW y \in schema.supers[x]
                 PROVE  y \in anc'[t]
      BY DEF Closed
    <3>1. CASE x \in anc[t]
      BY <1>3, <1>4, <3>1
    <3>2. CASE x \notin anc[t]
      <4>1. PICK p \in anc[t] \ {t} : x \in anc[p]
        BY <1>3, <3>2
      <4>2. p \in Types /\ anc[p] = Reach(p)
        BY <2>2, <4>1 DEF Whole
      <4>3. Reach(x) \subseteq Reach(p)
        BY <4>1, <4>2, ReachUpwards
      <4>4. y \in Reach(x)
        BY <1>4
      <4> QED
        BY <1>3, <4>1, <4>2, <4>3, <4>4
    <3> QED
      BY <3>1, <3>2
  <2>4. anc'[t] \in SUBSET (Types \cup {Absent}) /\ schema.supers[t] \subseteq anc'[t]
    BY <1>0, <1>1, <1>2, <1>3, <1>4
  <2>5. anc'[t] = Reach(t)
    BY <1>1, <1>4, <2>3, <2>4, ReachLeast
  <2>6. Reach(t) \subseteq props'[t]
    <3> SUFFICES ASSUME NEW x \in anc'[t] PROVE x \in props'[t]
      BY <2>5
    <3>1. CASE x \in anc[t]
      BY <1>0, <1>3, <1>5, <3>1
    <3>2. CASE x \notin anc[t]
      <4>1. PICK p \in anc[t] \ {t} : x \in anc[p]
        BY <1>3, <3>2
      <4>2. x \in props[p]
        BY <2>2, <4>1 DEF Whole
      <4> QED
        BY <1>3, <4>1, <4>2
    <3> QED
      BY <3>1, <3>2
  <2> QED
    BY <1>1, <1>4, <1>5, <2>5, <2>6
<1>7. ASSUME ParentsFirst', NEW i \in 1 .. pos
      PROVE  anc'[order[i]] = Reach(order[i]) /\ props'[order[i]] = {order[i]} \cup Reach(order[i])
  <2>1. ParentsFirst
    BY <1>0, <1>7, SameHierarchy
  <2>2. CASE order[i] = t
    BY <1>6, <2>1, <2>2
  <2>3. CASE order[i] # t
    <3>0. i \in 1 .. pos - 1 /\ i \in 1 .. N
      BY <1>1, <2>3
    <3>1. i \in 1 .. pos - 1 /\ order[i] \in Types
      BY <1>0, <3>0, EachIsType
    <3>2. Whole(order[i])
      BY <1>0, <2>1, <3>1 DEF Gathered
    <3> QED
      BY <1>3, <2>3, <3>1, <3>2 DEF Whole
  <2> QED
    BY <2>2, <2>3
<1>8. ParentsFirst' => \A i \in 1 .. pos' - 1 : Whole(order[i])'
  BY <1>0, <1>1, <1>7, SameHierarchy DEF Whole
<1> QED
  BY <1>0, <1>5, <1>8 DEF Gathered, ParentsFirstWhole

LEMMA NextGathered == IInv /\ Gathered /\ [Next]_vars => Gathered'
<1> SUFFICES ASSUME IInv, Gathered, [Next]_vars PROVE Gathered'
  OBVIOUS
<1>1. CASE Inherit
  BY <1>1, InheritGathered
<1>2. CASE Unknown
  BY <1>2, SameHierarchy DEF Unknown, Gathered, ParentsFirstWhole
<1>3. CASE PassEnds
  <2>1. /\ phase = "resolve" /\ pos > N /\ Typed
        /\ UNCHANGED <<schema, order, anc, props>>
        /\ (pos' = 1 /\ phase' = phase) \/ phase' = "order"
    BY <1>3 DEF PassEnds, IInv
  <2>2. N \in Nat /\ pos = N + 1
    BY <2>1, OrderFacts DEF Typed, N
  <2>3. ParentsFirst => \A t \in Types : Whole(t)
    <3>1. \A t \in Types : \E i \in 1 .. N : order[i] = t
      BY <2>1, OrderFacts DEF Typed, N
    <3> QED
      BY <2>1, <2>2, <3>1 DEF Gathered
  <2>4. CASE pos' = 1 /\ phase' = phase
    BY <2>1, <2>4 DEF Gathered, ParentsFirstWhole
  <2>5. CASE phase' = "order"
    BY <2>1, <2>3, <2>5, SameHierarchy DEF Gathered, ParentsFirstWhole, Whole
  <2> QED
    BY <2>1, <2>4, <2>5
<1>4. ASSUME UNCHANGED <<schema, order, anc, props>>, phase' # "resolve",
             phase' \in {"order", "reverse", "push", "ready"} =>
               phase \in {"order", "reverse", "push", "ready"}
      PROVE  Gathered'
  BY <1>4, SameHierarchy DEF Gathered, ParentsFirstWhole
<1>5. CASE Take
  BY <1>4, <1>5 DEF Take
<1>6. CASE PassOver
  BY <1>4, <1>6 DEF PassOver
<1>7. CASE OrderEnds
  BY <1>4, <1>7 DEF OrderEnds
<1>8. CASE Pair
  BY <1>4, <1>8 DEF Pair
<1>9. CASE Push
  BY <1>4, <1>9 DEF Push
<1>10. CASE Pushed
  BY <1>4, <1>10 DEF Pushed
<1>11. CASE UNCHANGED vars
  BY <1>11, SameHierarchy DEF vars, Gathered, ParentsFirstWhole, Whole
<1> QED
  BY <1>1, <1>2, <1>3, <1>5, <1>6, <1>7, <1>8, <1>9, <1>10, <1>11 DEF Next

(* Where the dictionary lists parents before children, every type has all its  *)
(* ancestors and the properties of all of them once the loop of schema.py     *)
(* 257-270 ends, although it ends as soon as the last type gains nothing.     *)
THEOREM AncestorsAreWhole == Spec => []ParentsFirstWhole
<1>1. Init => Gathered
  <2> SUFFICES ASSUME Init PROVE Gathered
    OBVIOUS
  <2>1. \A t \in Types : t \in props[t]
    BY DEF Init
  <2>2. 1 .. pos - 1 = {} /\ phase = "resolve"
    BY DEF Init
  <2> QED
    BY <2>1, <2>2 DEF Gathered, ParentsFirstWhole
<1>2. Gathered => ParentsFirstWhole
  BY DEF Gathered
<1> QED
  BY <1>1, <1>2, InvariantHolds, NextGathered, PTL DEF Spec
-----------------------------------------------------------------------------
(* Pairs of property types. *)

(* What is paired is mutual: nothing names a primary type but its own reverse. *)
LEMMA PairReversed ==
  ASSUME Typed, Reversed, Pair
  PROVE  Reversed'
<1>0. /\ phase = "reverse" /\ schema' = schema /\ back = schema.reverse
      /\ schema.reverse \in [Types -> Types \cup {None, Absent}] /\ None \notin Types
      /\ schema.primary \subseteq Types
  BY SchemasAssumption, TypesAssumption DEF Pair, Reversed, Typed
<1>1. CASE phase' \in {"refused", "crashed"}
  BY <1>1 DEF Reversed, PrimaryPairs
<1>2. CASE phase' = "push"
  <2> DEFINE named(q) == \E p \in Completions : schema.reverse[p] = q
  <2>1. /\ ~Claimed /\ ~Inconsistent
        /\ back' = [q \in Types |->
             IF named(q) THEN CHOOSE p \in Completions : schema.reverse[p] = q ELSE back[q]]
    BY <1>2 DEF Pair
  <2>2. Completions \subseteq Declared /\ Primary \subseteq Declared /\ Declared \subseteq Types
    BY DEF Completions, Primary, Reverses, Declared
  <2>3. \A p, q \in Declared : schema.reverse[p] = schema.reverse[q] => p = q
    BY <2>1 DEF Claimed
  <2>4. \A p \in Declared : schema.reverse[p] \in Types
    <3>1. \A p \in Completions : schema.reverse[p] \in Types
      BY <1>2 DEF Pair
    <3>2. \A p \in Declared \ Completions : schema.reverse[p] \in Primary \cup Reverses
      BY DEF Completions, Primary, Reverses
    <3> QED
      BY <2>2, <3>1, <3>2 DEF Reverses
  <2>5. \A q \in Types : ~named(q) => back'[q] = schema.reverse[q]
    BY <1>0, <2>1
  <2>6. \A p \in Completions : back'[schema.reverse[p]] = p
    <3> SUFFICES ASSUME NEW p \in Completions PROVE back'[schema.reverse[p]] = p
      OBVIOUS
    <3> DEFINE q == schema.reverse[p]
    <3>1. p \in Declared /\ q \in Types /\ named(q)
      BY <2>2, <2>4
    <3>2. back'[q] = CHOOSE x \in Completions : schema.reverse[x] = q
      BY <2>1, <3>1
    <3>3. back'[q] \in Completions /\ schema.reverse[back'[q]] = q
      BY <3>1, <3>2
    <3> QED
      BY <2>2, <2>3, <3>1, <3>3
  <2>7. \A p \in Primary : ~named(p)
    <3> SUFFICES ASSUME NEW p \in Primary, NEW q \in Completions, schema.reverse[q] = p
                 PROVE  FALSE
      OBVIOUS
    <3>1. q \notin Primary
      BY <2>1 DEF Inconsistent
    <3> QED
      BY <3>1 DEF Completions
  <2>8. ASSUME NEW p \in Primary
        PROVE  back'[back'[p]] = p
    <3> DEFINE r == schema.reverse[p]
    <3>1. back'[p] = r /\ r \in Types /\ p \in Declared
      BY <2>2, <2>4, <2>5, <2>7, <2>8
    <3>2. CASE r \in Reverses
      <4>1. schema.reverse[r] = p
        BY <2>1, <2>8, <3>2 DEF Inconsistent
      <4>2. ~named(r)
        <5> SUFFICES ASSUME NEW q \in Completions, schema.reverse[q] = r PROVE FALSE
          OBVIOUS
        <5>1. q = p
          BY <2>2, <2>3, <3>1
        <5> QED
          BY <2>8, <3>2, <5>1 DEF Completions, Reverses, Primary
      <4> QED
        BY <2>5, <3>1, <4>1, <4>2
    <3>3. CASE r \notin Reverses
      <4>1. p \in Completions
        BY <2>8, <3>3 DEF Completions
      <4> QED
        BY <2>6, <3>1, <4>1
    <3> QED
      BY <3>2, <3>3
  <2>9. ASSUME NEW p \in schema.primary \ Primary, back'[p] # None
        PROVE  back'[back'[p]] = p
    <3>1. p \in Types /\ schema.reverse[p] = None
      BY <1>0, <2>9 DEF Primary, Declared
    <3>2. PICK q \in Completions : schema.reverse[q] = p
      BY <2>5, <2>9, <3>1
    <3>3. back'[p] = q /\ q \in Declared
      BY <2>2, <2>6, <3>2
    <3>4. ~named(q)
      <4>1. CASE q \in Primary
        BY <2>7, <4>1
      <4>2. CASE q \in Reverses
        <5> SUFFICES ASSUME NEW x \in Completions, schema.reverse[x] = q PROVE FALSE
          OBVIOUS
        <5>1. x \notin Reverses
          BY <2>1, <4>2 DEF Inconsistent
        <5> QED
          BY <4>2, <5>1 DEF Completions
      <4> QED
        BY <3>2, <4>1, <4>2 DEF Completions
    <3> QED
      BY <2>2, <2>5, <3>2, <3>3, <3>4
  <2> QED
    BY <1>0, <1>2, <2>8, <2>9 DEF Reversed, PrimaryPairs
<1> QED
  BY <1>1, <1>2 DEF Pair

LEMMA NextReversed == IInv /\ Reversed /\ [Next]_vars => Reversed'
<1> SUFFICES ASSUME IInv, Reversed, [Next]_vars PROVE Reversed'
  OBVIOUS
<1>1. CASE Pair
  BY <1>1, PairReversed DEF IInv
<1>2. ASSUME UNCHANGED <<schema, back>>,
             phase' \in {"resolve", "order", "reverse"} =>
               phase \in {"resolve", "order", "reverse"},
             phase' \in {"push", "ready"} => phase \in {"push", "ready"}
      PROVE  Reversed'
  BY <1>2 DEF Reversed, PrimaryPairs
<1>3. CASE Inherit
  BY <1>2, <1>3 DEF Inherit
<1>4. CASE Unknown
  BY <1>2, <1>4 DEF Unknown
<1>5. CASE PassEnds
  BY <1>2, <1>5 DEF PassEnds
<1>6. CASE Take
  BY <1>2, <1>6 DEF Take
<1>7. CASE PassOver
  BY <1>2, <1>7 DEF PassOver
<1>8. CASE OrderEnds
  BY <1>2, <1>8 DEF OrderEnds
<1>9. CASE Push
  BY <1>2, <1>9 DEF Push
<1>10. CASE Pushed
  BY <1>2, <1>10 DEF Pushed
<1>11. CASE UNCHANGED vars
  BY <1>2, <1>11 DEF vars
<1> QED
  BY <1>1, <1>3, <1>4, <1>5, <1>6, <1>7, <1>8, <1>9, <1>10, <1>11 DEF Next

(* In a schema that was not refused a primary property type and the one it     *)
(* names as its reverse name each other, whichever of the two declared it     *)
(* (schema.py 325-382).                                                       *)
THEOREM PrimaryTypesPair == Spec => []PrimaryPairs
<1>1. Init => Reversed
  BY DEF Init, Reversed, PrimaryPairs
<1>2. Reversed => PrimaryPairs
  BY DEF Reversed
<1> QED
  BY <1>1, <1>2, InvariantHolds, NextReversed, PTL DEF Spec
-----------------------------------------------------------------------------
(* The passes suffice for a hierarchy that is not circular. *)

(* The least element of a set of numbers. *)
LEMMA LeastNumber ==
  ASSUME NEW T \in SUBSET Nat, T # {}
  PROVE  \E m \in T : \A n \in T : m <= n
<1> DEFINE R == OpToRel(<, Nat)
<1>1. IsWellFoundedOn(R, Nat)
  BY NatLessThanWellFounded
<1>2. \A m, n \in Nat : m < n => <<m, n>> \in R
  BY DEF OpToRel
<1> HIDE DEF R
<1>3. PICK m \in T : \A n \in T : <<n, m>> \notin R
  BY <1>1, WFMin
<1>4. \A n \in T : m <= n
  <2> SUFFICES ASSUME NEW n \in T, n < m PROVE FALSE
    BY <1>3
  <2> QED
    BY <1>2, <1>3
<1> QED
  BY <1>4

(* Among some types of a hierarchy that is not circular there is one that is   *)
(* above none of the others: one with most ancestors.                         *)
LEMMA LowestType ==
  ASSUME schema \in Schemas, ~Circular, NEW U \in SUBSET Types, U # {}
  PROVE  \E m \in U : \A t \in U \ {m} : m \notin Reach(t)
<1> DEFINE Rest(t) == Types \ ({t} \cup Reach(t))
           D == {n \in Nat : \E t \in U : n = Cardinality(Rest(t))}
<1>1. \A t : IsFiniteSet(Rest(t)) /\ Cardinality(Rest(t)) \in Nat
  <2> SUFFICES ASSUME NEW t PROVE IsFiniteSet(Rest(t)) /\ Cardinality(Rest(t)) \in Nat
    OBVIOUS
  <2>1. IsFiniteSet(Rest(t))
    BY TypesAssumption, FS_Difference
  <2> QED
    BY <2>1, FS_CardinalityType
<1>2. D # {}
  BY <1>1
<1>3. PICK n \in D : \A k \in D : n <= k
  BY <1>2, LeastNumber
<1>4. PICK m \in U : n = Cardinality(Rest(m))
  OBVIOUS
<1>5. ASSUME NEW t \in U \ {m}, m \in Reach(t)
      PROVE  FALSE
  <2>1. t \notin Reach(m)
    BY <1>5 DEF Circular
  <2>2. Reach(m) \subseteq Reach(t)
    BY <1>5, ReachUpwards
  <2>3. Rest(t) \subseteq Rest(m) /\ t \in Rest(m) /\ t \notin Rest(t)
    BY <1>5, <2>1, <2>2
  <2>4. Cardinality(Rest(t)) < Cardinality(Rest(m))
    <3> HIDE DEF Rest
    <3>1. Cardinality(Rest(t)) <= Cardinality(Rest(m))
          /\ (Cardinality(Rest(t)) = Cardinality(Rest(m)) => Rest(t) = Rest(m))
      BY <1>1, <2>3, FS_Subset
    <3> QED
      BY <1>1, <2>3, <3>1
  <2>5. Cardinality(Rest(t)) \in D
    BY <1>1
  <2>6. n <= Cardinality(Rest(t))
    BY <1>3, <2>5
  <2> QED
    <3> HIDE DEF Rest, D
    <3> QED
      BY <1>1, <1>4, <2>4, <2>6
<1> QED
  BY <1>5

(* As long as types are left, one of them is ready to be put in order. *)
LEMMA SomeReady ==
  ASSUME Typed, Listed, Above, Waiting, ~Circular, phase = "order", passes > 1, passes \in Nat,
         Len(sorted) < N
  PROVE  \E m \in Types \ Members(sorted) : deps[m] = {}
<1> DEFINE U == Types \ Members(sorted)
<1>1. U # {}
  <2> SUFFICES ASSUME U = {} PROVE FALSE
    OBVIOUS
  <2>1. Members(sorted) = Types
    <3>1. sorted \in Seq(Types)
      BY DEF Listed
    <3> QED
      BY <3>1, MembersAre
  <2>2. N = Cardinality(Types) /\ Cardinality(Types) \in Nat
    BY OrderFacts DEF Typed, N
  <2> QED
    BY <2>1, <2>2 DEF Listed
<1>2. PICK m \in U : \A t \in U \ {m} : m \notin Reach(t)
  BY <1>1, LowestType DEF Typed
<1>3. deps[m] \subseteq U
  BY <1>2 DEF Waiting, Typed
<1>4. \A t \in deps[m] : m \in Reach(t)
  BY <1>2, <1>3 DEF Waiting, Above, ClosureSound
<1>5. m \notin deps[m]
  BY <1>2 DEF Waiting
<1> QED
  BY <1>2, <1>3, <1>4, <1>5

LEMMA TakeWaiting ==
  ASSUME IInv, Waiting, Progressing, Take
  PROVE  Waiting' /\ Progressing'
<1> DEFINE t == order[pos]
<1>0. /\ Typed /\ Listed /\ phase = "order" /\ phase' = "order" /\ pos <= N
      /\ deps[t] = {} /\ t \notin Members(sorted) /\ sorted' = Append(sorted, t)
      /\ deps' = [a \in Types |-> IF a \in anc[t] THEN deps[a] \ {t} ELSE deps[a]]
      /\ pos' = pos + 1
      /\ UNCHANGED <<schema, order, anc, passes>>
  BY DEF IInv, Take
<1>1. t \in Types /\ pos \in 1 .. N /\ N \in Nat /\ N' = N
  BY <1>0, TurnIsType DEF N
<1>2. sorted \in Seq(Types) /\ Len(sorted) \in Nat /\ Len(sorted') = Len(sorted) + 1
      /\ Members(sorted') = Members(sorted) \cup {t}
  BY <1>0, <1>1, MembersOfAppend DEF Listed
<1>3. deps \in [Types -> SUBSET Types] /\ deps' \in [Types -> SUBSET Types]
  BY <1>0 DEF Typed
<1>4. \A x \in Types : deps'[x] \subseteq deps[x] /\ t \notin deps'[x]
  BY <1>0, <1>1, <1>3 DEF Waiting
<1>5. Waiting'
  <2>1. \A x \in Types : \A y \in deps'[x] : x \in anc'[y]
    BY <1>0, <1>4 DEF Waiting
  <2>2. \A x \in Types : deps'[x] \cap Members(sorted') = {}
    BY <1>0, <1>2, <1>4 DEF Waiting
  <2>3. passes > 1 => \A x \in Types : x \notin deps'[x]
    BY <1>0, <1>4 DEF Waiting
  <2>4. passes # 0
    BY <1>0, <1>1 DEF Waiting
  <2>5. ASSUME passes = 1, NEW i \in 1 .. pos
        PROVE  order[i] \notin deps'[order[i]]
    <3>0. i \in 1 .. N /\ (i = pos \/ i \in 1 .. pos - 1)
      BY <1>1
    <3>1. order[i] \in Types /\ (i = pos \/ i \in 1 .. pos - 1)
      BY <1>0, <3>0, EachIsType
    <3> QED
      BY <1>0, <1>4, <2>5, <3>1 DEF Waiting
  <2>6. /\ phase' = "order" /\ passes' = passes /\ pos' = pos + 1 /\ order' = order
        /\ pos' - 1 = pos
    BY <1>0, <1>1
  <2> QED
    BY <2>1, <2>2, <2>3, <2>4, <2>5, <2>6 DEF Waiting
<1>6. Progressing'
  BY <1>0, <1>2, SameHierarchy DEF Progressing
<1> QED
  BY <1>5, <1>6

LEMMA PassOverWaiting ==
  ASSUME IInv, Waiting, Progressing, PassOver
  PROVE  Waiting' /\ Progressing'
<1> DEFINE t == order[pos]
<1>0. /\ Typed /\ Listed /\ phase = "order" /\ pos <= N
      /\ deps[t] # {} \/ t \in Members(sorted)
      /\ \/ schema.test /\ phase' = "refused" /\ deps' = deps
         \/ deps' = [deps EXCEPT ![t] = @ \ {t}] /\ pos' = pos + 1 /\ phase' = "order"
      /\ UNCHANGED <<schema, order, anc, passes, sorted>>
  BY DEF IInv, PassOver
<1>1. t \in Types /\ pos \in 1 .. N /\ N \in Nat /\ N' = N /\ passes \in Nat
  BY <1>0, TurnIsType DEF N, Progressing
<1>2. Circular' <=> Circular
  BY <1>0, SameHierarchy
<1>3. CASE schema.test /\ phase' = "refused" /\ deps' = deps
  <2>1. Waiting'
    BY <1>0, <1>3 DEF Waiting
  <2>2. Progressing'
    BY <1>0, <1>1, <1>2, <1>3 DEF Progressing
  <2> QED
    BY <2>1, <2>2
<1>4. CASE deps' = [deps EXCEPT ![t] = @ \ {t}] /\ pos' = pos + 1 /\ phase' = "order"
  <2>1. deps \in [Types -> SUBSET Types]
    BY <1>0 DEF Typed
  <2>2. /\ deps'[t] = deps[t] \ {t}
        /\ \A x \in Types : deps'[x] \subseteq deps[x]
        /\ \A x \in Types : x # t => deps'[x] = deps[x]
    BY <1>1, <1>4, <2>1
  <2>3. \A i \in 1 .. pos : order[i] \in Types /\ (i = pos \/ i \in 1 .. pos - 1)
    <3>1. \A i \in 1 .. pos : i \in 1 .. N /\ (i = pos \/ i \in 1 .. pos - 1)
      BY <1>1
    <3> QED
      BY <1>0, <3>1, EachIsType
  <2>4. passes # 0
    BY <1>0, <1>1 DEF Waiting
  <2>5. passes > 1 => deps' = deps
    <3>1. passes > 1 => t \notin deps[t]
      BY <1>0, <1>1 DEF Waiting
    <3> QED
      BY <1>1, <1>4, <2>1, <3>1
  <2>6. passes = 1 => \A i \in 1 .. pos : order[i] \notin deps'[order[i]]
    BY <1>0, <2>2, <2>3 DEF Waiting
  <2>7. Members(sorted)' = Members(sorted)
    BY <1>0 DEF Members
  <2>8. Waiting'
    <3>1. \A x \in Types : \A y \in deps'[x] : x \in anc'[y]
      BY <1>0, <2>2 DEF Waiting
    <3>2. \A x \in Types : deps'[x] \cap Members(sorted)' = {}
      BY <1>0, <2>2, <2>7 DEF Waiting
    <3>3. passes > 1 => \A x \in Types : x \notin deps'[x]
      BY <1>0, <2>2 DEF Waiting
    <3> QED
      BY <1>0, <1>1, <1>4, <2>4, <2>6, <3>1, <3>2, <3>3 DEF Waiting
  <2>9. Progressing'
    <3>1. ASSUME passes > 1, ~Circular,
                 \A i \in 1 .. pos - 1 : order[i] \in Members(sorted) \/ deps[order[i]] # {}
          PROVE  \A i \in 1 .. pos : order[i] \in Members(sorted) \/ deps'[order[i]] # {}
      BY <1>0, <2>3, <2>5, <3>1
    <3> QED
      BY <1>0, <1>1, <1>2, <1>4, <2>7, <3>1 DEF Progressing
  <2> QED
    BY <2>8, <2>9
<1> QED
  BY <1>0, <1>3, <1>4

LEMMA OrderEndsWaiting ==
  ASSUME IInv, Waiting, Progressing, OrderEnds
  PROVE  Waiting' /\ Progressing'
<1>0. /\ Typed /\ Listed /\ Above /\ phase = "order" /\ pos > N
      /\ UNCHANGED <<schema, order, anc, deps>>
  BY DEF IInv, OrderEnds
<1>1. N \in Nat /\ N' = N /\ pos = N + 1 /\ passes \in Nat /\ Len(sorted) \in Nat
  <2>1. N \in Nat /\ N' = N /\ pos = N + 1
    BY <1>0, OrderFacts DEF Typed, N
  <2>2. passes \in Nat
    BY DEF Progressing
  <2>3. Len(sorted) \in Nat
    BY <1>0 DEF Listed
  <2> QED
    BY <2>1, <2>2, <2>3
<1>2. Circular' <=> Circular
  BY <1>0, SameHierarchy
<1>3. ASSUME Len(sorted) < N, passes > 1, ~Circular
      PROVE  Len(sorted) >= passes - 1
  <2>1. PICK m \in Types \ Members(sorted) : deps[m] = {}
    BY <1>0, <1>1, <1>3, SomeReady
  <2>2. PICK i \in 1 .. N : order[i] = m
    BY <1>0, OrderFacts DEF Typed, N
  <2>3. i \in 1 .. pos - 1
    BY <1>1
  <2> QED
    BY <1>0, <1>3, <2>1, <2>2, <2>3 DEF Progressing
<1>4. CASE /\ Len(sorted) < N /\ passes <= 2 * N
           /\ passes' = passes + 1 /\ pos' = 1 /\ UNCHANGED <<phase, sorted>>
  <2>1. Members(sorted)' = Members(sorted)
    BY <1>4 DEF Members
  <2>2. 1 .. pos' - 1 = {}
    BY <1>4
  <2>3. Waiting'
    <3>1. ASSUME passes' > 1, NEW x \in Types
          PROVE  x \notin deps'[x]
      <4>1. CASE passes > 1
        BY <1>0, <4>1 DEF Waiting
      <4>2. CASE passes = 1
        <5>1. PICK i \in 1 .. N : order[i] = x
          BY <1>0, OrderFacts DEF Typed, N
        <5>2. i \in 1 .. pos - 1
          BY <1>1
        <5> QED
          BY <1>0, <4>2, <5>1, <5>2 DEF Waiting
      <4> QED
        BY <1>1, <1>4, <3>1, <4>1, <4>2
    <3>2. \A x \in Types : \A y \in deps'[x] : x \in anc'[y]
      BY <1>0 DEF Waiting
    <3>3. \A x \in Types : deps'[x] \cap Members(sorted)' = {}
      BY <1>0, <2>1 DEF Waiting
    <3>4. passes' # 0 /\ phase' = "order"
      BY <1>0, <1>1, <1>4
    <3> QED
      BY <2>2, <3>1, <3>2, <3>3, <3>4 DEF Waiting
  <2>4. Progressing'
    <3>1. passes' \in Nat /\ phase' = "order"
      BY <1>0, <1>1, <1>4
    <3>2. passes' > 1 /\ ~Circular => Len(sorted) >= passes' - 2
      BY <1>1, <1>3, <1>4
    <3> QED
      BY <1>2, <1>4, <2>2, <3>1, <3>2 DEF Progressing
  <2> QED
    BY <2>3, <2>4
<1>5. CASE /\ Len(sorted) < N /\ passes > 2 * N
           /\ phase' = "refused" /\ UNCHANGED <<passes, pos, sorted>>
  <2>1. Circular
    <3> SUFFICES ASSUME ~Circular PROVE FALSE
      OBVIOUS
    <3>1. passes > 1
      BY <1>1, <1>5
    <3> QED
      BY <1>1, <1>3, <1>5, <3>1
  <2> QED
    BY <1>0, <1>1, <1>2, <1>5, <2>1 DEF Waiting, Progressing
<1>6. CASE phase' = "reverse" /\ passes' = passes
  BY <1>0, <1>6 DEF Waiting, Progressing
<1> QED
  BY <1>4, <1>5, <1>6 DEF OrderEnds

LEMMA InheritWaiting ==
  ASSUME IInv, Waiting, Progressing, Inherit
  PROVE  Waiting' /\ Progressing'
<1> DEFINE t == order[pos]
<1>0. /\ Typed /\ phase = "resolve" /\ phase' = "resolve" /\ pos <= N
      /\ anc' = [anc EXCEPT ![t] = @ \cup UNION {anc[p] : p \in anc[t]}]
      /\ deps' = [p \in Types |-> IF p \in anc[t] THEN deps[p] \cup {t} ELSE deps[p]]
      /\ passes' = passes
  BY DEF IInv, Inherit
<1>1. t \in Types /\ anc \in [Types -> SUBSET (Types \cup {Absent})]
      /\ deps \in [Types -> SUBSET Types]
  BY <1>0, TurnIsType DEF Typed
<1>2. \A x \in Types : anc[x] \subseteq anc'[x]
  BY <1>0, <1>1
<1>3. \A x \in Types : \A y \in deps'[x] : x \in anc'[y]
  BY <1>0, <1>1, <1>2 DEF Waiting
<1> QED
  BY <1>0, <1>3 DEF Waiting, Progressing

LEMMA NextWaiting ==
  IInv /\ Waiting /\ Progressing /\ [Next]_vars => Waiting' /\ Progressing'
<1> SUFFICES ASSUME IInv, Waiting, Progressing, [Next]_vars PROVE Waiting' /\ Progressing'
  OBVIOUS
<1>1. CASE Inherit
  BY <1>1, InheritWaiting
<1>2. CASE Take
  BY <1>2, TakeWaiting
<1>3. CASE PassOver
  BY <1>3, PassOverWaiting
<1>4. CASE OrderEnds
  BY <1>4, OrderEndsWaiting
<1>5. CASE Unknown
  BY <1>5 DEF Unknown, Waiting, Progressing
<1>6. CASE PassEnds
  <2>1. /\ UNCHANGED <<schema, order, anc, deps, sorted, passes>> /\ phase = "resolve"
        /\ phase' = "resolve" \/ (phase' = "order" /\ pos' = N' + 1)
    BY <1>6 DEF PassEnds, N
  <2>2. sorted = <<>> /\ Members(sorted)' = Members(sorted)
    BY <2>1 DEF IInv, Listed, Members
  <2>3. Members(sorted) = {}
    BY <2>2, MembersAre
  <2>4. passes = 0
    BY <2>1 DEF Waiting
  <2> QED
    BY <2>1, <2>2, <2>3, <2>4 DEF Waiting, Progressing
<1>7. CASE Pair
  <2>1. /\ phase = "reverse" /\ phase' \in {"refused", "crashed", "push"} /\ IInv
        /\ UNCHANGED <<schema, order, anc, deps, sorted, passes>>
    BY <1>7 DEF Pair
  <2>2. ~(Len(sorted') < N')
    <3>1. Members(sorted) = Types /\ Len(sorted) = Cardinality(Members(sorted))
      BY <2>1 DEF IInv, Finished, Listed
    <3>2. N = Cardinality(Types) /\ Cardinality(Types) \in Nat
      BY OrderFacts DEF IInv, Typed, N
    <3> QED
      BY <2>1, <3>1, <3>2 DEF N
  <2> QED
    BY <2>1, <2>2 DEF Waiting, Progressing
<1>8. CASE Push
  BY <1>8 DEF Push, Waiting, Progressing
<1>9. CASE Pushed
  BY <1>9 DEF Pushed, Waiting, Progressing
<1>10. CASE UNCHANGED vars
  <2>1. UNCHANGED <<schema, order, phase, anc, deps, pos, passes, sorted>>
    BY <1>10 DEF vars
  <2>2. Members(sorted)' = Members(sorted) /\ (Circular' <=> Circular) /\ N' = N
    BY <2>1, SameHierarchy DEF Members
  <2> QED
    BY <2>1, <2>2 DEF Waiting, Progressing
<1> QED
  BY <1>1, <1>2, <1>3, <1>4, <1>5, <1>6, <1>7, <1>8, <1>9, <1>10 DEF Next

(* A schema is refused for its hierarchy only if that is circular, so the      *)
(* bound of schema.py 298-301 on the passes never refuses a good one however  *)
(* the dictionary lists the types, and a circular one never gets further.     *)
THEOREM RefusedMeansCircular == Spec => []RefusedIffCircular
<1>1. Init => Waiting /\ Progressing
  BY DEF Init, Waiting, Progressing
<1>2. Progressing /\ (phase \in {"reverse", "push", "ready"} => ~Circular) => RefusedIffCircular
  BY DEF Progressing, RefusedIffCircular
<1> QED
  BY <1>1, <1>2, InvariantHolds, NextWaiting, CircularIsNeverPushed, PTL DEF Spec
=============================================================================
