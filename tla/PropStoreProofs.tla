--------------------------- MODULE PropStoreProofs ---------------------------
(***************************************************************************)
(* Theorems about PropStore, for every number of entities, guids, values,  *)
(* users and types.                                                        *)
(*                                                                         *)
(* Every step is brought to one of two normal forms (NextNormal): Merge, a *)
(* version that is already there takes the place of another, or Put, a     *)
(* record is written and the links that waited for it are completed.       *)
(* PutEffect says once what Put does to each record; the theorems are      *)
(* proved from it and from Merge.                                          *)
(***************************************************************************)
EXTENDS PropStore, TLAPS

(* A candidate before its ID is resolved. *)
Proposed(c) ==
  /\ c \in Link
  /\ c.replaced_by = None
  /\ IF c.type \in Literals THEN c.from # None /\ c.to = None /\ c.value # None
     ELSE IF c.value = None THEN c.from # None /\ c.to # None
     ELSE (c.from = None) # (c.to = None)

(* A record create_property may write. *)
Ready(c) ==
  /\ c \in Link
  /\ c.replaced_by = None
  /\ Shape(c)
  /\ ~c.complete => Owners(c.value) = {}

Within(c, E) == {c.from, c.to} \subseteq E \cup {None}

Replaceable(p, c) == /\ p \in Current
                     /\ link[p].type = c.type
                     /\ SameCreator(link[p], c)

Merge == \E p, g \in Current : /\ Replaceable(p, link[g])
                               /\ link' = [link EXCEPT ![p].replaced_by = g]

Put == \E c \in Link, olds \in SUBSET Current :
         /\ Ready(c)
         /\ Within(c, entities')
         /\ \A p \in olds : Replaceable(p, c)
         /\ \A p, q \in olds : p = q
         /\ Write(c, olds)

------------------------------------------------------------------------------
(* What resolving a candidate gives. *)
LEMMA OwnersAreEntities ==
  ASSUME TypeOK, NEW v
  PROVE  Owners(v) \subseteq entities
<1> SUFFICES ASSUME NEW g \in Holders(v)
             PROVE  link[g].from \in entities
  BY DEF Owners
<1>1. g \in Written /\ link[g].type = Id
  BY DEF Holders, Live, Current
<1>2. Shape(link[g]) /\ link[g].from \in entities \cup {None}
  BY <1>1 DEF TypeOK
<1> QED
  BY <1>1, <1>2, TypesAssumption DEF Shape

LEMMA AttachShape ==
  ASSUME NEW c \in Link, NEW e \in Entities,
         c.type \notin Literals, (c.from = None) # (c.to = None)
  PROVE  LET a == Attach(c, e)
         IN /\ a \in Link
            /\ Shape(a)
            /\ a.complete
            /\ a.type = c.type /\ a.creator = c.creator /\ a.alive = c.alive
            /\ a.replaced_by = c.replaced_by
            /\ {a.from, a.to} \subseteq {c.from, c.to, e}
            /\ a.from # None /\ a.to # None /\ a.value = None
BY NoneAssumption DEF Attach, Link, Shape

LEMMA ResolvedReady ==
  ASSUME TypeOK, NEW E, entities \subseteq E, E \subseteq Entities,
         NEW c, Proposed(c), Within(c, E), NEW r \in Resolved(c)
  PROVE  /\ Ready(r) /\ Within(r, E)
         /\ r.type = c.type /\ r.creator = c.creator /\ r.alive = c.alive
<1>1. CASE c.type \in Literals \/ c.value = None
  <2>1. r = [c EXCEPT !.complete = TRUE]
    BY <1>1 DEF Resolved
  <2> QED
    BY <1>1, <2>1 DEF Proposed, Ready, Within, Shape, Link
<1>2. CASE ~(c.type \in Literals \/ c.value = None) /\ Owners(c.value) = {}
  <2>1. r = [c EXCEPT !.complete = FALSE]
    BY <1>2 DEF Resolved
  <2> QED
    BY <1>2, <2>1 DEF Proposed, Ready, Within, Shape, Link
<1>3. CASE ~(c.type \in Literals \/ c.value = None) /\ Owners(c.value) # {}
  <2>1. PICK e \in Owners(c.value) : r = Attach(c, e)
    BY <1>3 DEF Resolved
  <2>2. e \in entities /\ e \in Entities
    BY OwnersAreEntities
  <2> QED
    BY <1>3, <2>1, <2>2, AttachShape DEF Proposed, Ready, Within
<1> QED
  BY <1>1, <1>2, <1>3

------------------------------------------------------------------------------
(* Every step in normal form *)

LEMMA ExistingFacts ==
  ASSUME NEW c, NEW g \in Existing(c)
  PROVE  g \in Current /\ link[g].type = c.type /\ SameCreator(link[g], c)
BY DEF Existing, SameKey

(* An update leads to a merge or to a write. *)
LEMMA ReplaceNormal ==
  ASSUME TypeOK, NEW p \in Written, Updatable(p), UNCHANGED entities,
         NEW c, Proposed(c), Within(c, entities),
         c.type = link[p].type, c.creator = link[p].creator,
         Replace(p, c)
  PROVE  Merge \/ Put
<1> PICK r \in Resolved(c) :
      \/ /\ r.alive
         /\ \E g \in Existing(r) : link' = [link EXCEPT ![p].replaced_by = g]
      \/ Write(r, {p})
  BY DEF Replace
<1>1. /\ Ready(r) /\ Within(r, entities)
      /\ r.type = c.type /\ r.creator = c.creator
  BY ResolvedReady DEF TypeOK
<1>2. p \in Current
  BY DEF Updatable, Current
<1>3. CASE \E g \in Existing(r) : link' = [link EXCEPT ![p].replaced_by = g]
  <2> PICK g \in Existing(r) : link' = [link EXCEPT ![p].replaced_by = g]
    BY <1>3
  <2>1. g \in Current /\ link[g].type = r.type /\ SameCreator(link[g], r)
    BY ExistingFacts
  <2>2. Replaceable(p, link[g])
    BY <1>1, <1>2, <2>1 DEF Replaceable, SameCreator
  <2> QED
    BY <1>2, <2>1, <2>2 DEF Merge
<1>4. CASE Write(r, {p})
  <2>1. \A q \in {p} : Replaceable(q, r)
    BY <1>1, <1>2 DEF Replaceable, SameCreator
  <2> QED
    BY <1>1, <1>2, <1>4, <2>1 DEF Put, Ready
<1> QED
  BY <1>3, <1>4

(* A creation leads to a write. *)
LEMMA CreateNormal ==
  ASSUME TypeOK, entities \subseteq entities', entities' \subseteq Entities,
         NEW c, Proposed(c), Within(c, entities'),
         \E r \in Resolved(c) : Write(r, {})
  PROVE  Put
<1> PICK r \in Resolved(c) : Write(r, {})
  OBVIOUS
<1>1. Ready(r) /\ Within(r, entities')
  BY ResolvedReady
<1> QED
  BY <1>1 DEF Put, Ready

(* The fields of a written record that an update starts from. *)
LEMMA RecordFacts ==
  ASSUME TypeOK, NEW p \in Written
  PROVE  /\ p \in Guids
         /\ link[p] \in Link
         /\ Shape(link[p])
         /\ Within(link[p], entities)
BY DEF TypeOK, Within

LEMMA NextNormal ==
  ASSUME TypeOK, Next
  PROVE  /\ entities \subseteq entities'
         /\ entities' \subseteq Entities
         /\ Merge \/ Put
<1> USE DEF Candidate, Proposed, Within
<1>1. entities \subseteq Entities
  BY DEF TypeOK
<1>2. ASSUME NEW e \in Entities, NEW v \in Values, NEW u \in Users,
             CreateEntity(e, v, u)
      PROVE  entities \subseteq entities' /\ entities' \subseteq Entities /\ Put
  <2>1. entities' = entities \cup {e}
    BY <1>2 DEF CreateEntity
  <2>2. Proposed(Candidate(Id, e, None, v, u, TRUE))
    BY NoneAssumption, TypesAssumption DEF Link, PropTypes
  <2>3. Within(Candidate(Id, e, None, v, u, TRUE), entities')
    BY <2>1
  <2>4. Put
    BY ONLY <1>1, <1>2, <2>1, <2>2, <2>3, TypeOK, CreateNormal DEF CreateEntity
  <2> QED
    BY <1>1, <2>1, <2>4
<1>3. ASSUME NEW t \in Literals, NEW e \in entities, NEW v \in Values,
             NEW u \in Users, NEW a \in BOOLEAN,
             CreateLiteral(t, e, v, u, a)
      PROVE  UNCHANGED entities /\ Put
  <2>1. Proposed(Candidate(t, e, None, v, u, a))
    BY <1>1, NoneAssumption DEF Link, PropTypes
  <2>2. Within(Candidate(t, e, None, v, u, a), entities)
    OBVIOUS
  <2> QED
    BY ONLY <1>1, <1>3, <2>1, <2>2, TypeOK, CreateNormal DEF CreateLiteral
<1>4. ASSUME NEW t \in LinkTypes, NEW e \in entities,
             NEW x \in entities \cup {None}, NEW v \in Values \cup {None},
             (x = None) # (v = None),
             NEW u \in Users, NEW a \in BOOLEAN, NEW reverse \in BOOLEAN,
             CreateLink(t, e, x, v, u, a, reverse)
      PROVE  UNCHANGED entities /\ Put
  <2>1. /\ Proposed(Candidate(t, x, e, v, u, a))
        /\ Proposed(Candidate(t, e, x, v, u, a))
    BY <1>1, <1>4, NoneAssumption, TypesAssumption DEF Link, PropTypes
  <2>2. /\ Within(Candidate(t, x, e, v, u, a), entities)
        /\ Within(Candidate(t, e, x, v, u, a), entities)
    OBVIOUS
  <2>3. /\ UNCHANGED entities
        /\ \/ \E r \in Resolved(Candidate(t, x, e, v, u, a)) : Write(r, {})
           \/ \E r \in Resolved(Candidate(t, e, x, v, u, a)) : Write(r, {})
    BY ONLY <1>4 DEF CreateLink
  <2> QED
    BY ONLY <1>1, <2>1, <2>2, <2>3, TypeOK, CreateNormal
<1>5. ASSUME NEW p \in Written, NEW e \in entities, NEW a \in BOOLEAN, Updatable(p),
             NEW x \in entities \cup {None}, NEW v \in Values \cup {None},
             IF link[p].type \in Literals THEN x = None /\ v # None
             ELSE (x = None) # (v = None),
             UNCHANGED entities,
             Replace(p, Candidate(link[p].type, e, x, v, link[p].creator, a))
      PROVE  Merge \/ Put
  <2> DEFINE c == Candidate(link[p].type, e, x, v, link[p].creator, a)
  <2>1. Proposed(c)
    BY <1>1, <1>5, RecordFacts, NoneAssumption DEF Link
  <2>2. Within(c, entities) /\ c.type = link[p].type /\ c.creator = link[p].creator
    OBVIOUS
  <2>3. Replace(p, c)
    BY <1>5
  <2> HIDE DEF c
  <2> QED
    BY ONLY <1>5, <2>1, <2>2, <2>3, TypeOK, ReplaceNormal
<1>6. ASSUME NEW p \in Written, NEW e \in entities, NEW a \in BOOLEAN,
             NEW v \in Values, UpdateValue(p, e, v, a)
      PROVE  UNCHANGED entities /\ (Merge \/ Put)
  <2>1. /\ Updatable(p) /\ UNCHANGED entities
        /\ \/ /\ link[p].to = None
              /\ Replace(p, Candidate(link[p].type, e, None, v, link[p].creator, a))
           \/ /\ link[p].to # None
              /\ Replace(p, Candidate(link[p].type, e, link[p].to, None, link[p].creator, a))
           \/ /\ link[p].to # None
              /\ \E x \in Owners(v) : Replace(p, Candidate(link[p].type, e, x, None, link[p].creator, a))
    BY ONLY <1>6 DEF UpdateValue
  <2>2. link[p].to \in entities \cup {None} /\ Shape(link[p])
    BY RecordFacts
  <2>3. CASE link[p].to = None /\ Replace(p, Candidate(link[p].type, e, None, v, link[p].creator, a))
    BY ONLY <1>5, <2>1, <2>3, NoneAssumption, e \in entities, a \in BOOLEAN, v \in Values, p \in Written
  <2>4. CASE link[p].to # None /\ Replace(p, Candidate(link[p].type, e, link[p].to, None, link[p].creator, a))
    BY ONLY <1>5, <2>1, <2>2, <2>4, e \in entities, a \in BOOLEAN, p \in Written DEF Shape
  <2>5. CASE link[p].to # None /\ \E x \in Owners(v) : Replace(p, Candidate(link[p].type, e, x, None, link[p].creator, a))
    <3>1. PICK x \in Owners(v) : Replace(p, Candidate(link[p].type, e, x, None, link[p].creator, a))
      BY <2>5
    <3>2. x \in entities /\ x # None
      BY <1>1, OwnersAreEntities, NoneAssumption
    <3> QED
      BY ONLY <1>5, <2>1, <2>2, <2>5, <3>1, <3>2, e \in entities, a \in BOOLEAN, p \in Written DEF Shape
  <2> QED
    BY <2>1, <2>3, <2>4, <2>5
<1>7. ASSUME NEW p \in Written, NEW e \in entities, NEW a \in BOOLEAN,
             NEW x \in entities, UpdateTarget(p, e, x, a)
      PROVE  UNCHANGED entities /\ (Merge \/ Put)
  <2>1. /\ Updatable(p) /\ UNCHANGED entities
        /\ link[p].to # None \/ ~link[p].complete
        /\ Replace(p, Candidate(link[p].type, e, x, None, link[p].creator, a))
    BY ONLY <1>7 DEF UpdateTarget
  <2>2. link[p].type \notin Literals /\ x # None
    BY <1>1, <2>1, RecordFacts, NoneAssumption DEF Shape
  <2> QED
    BY ONLY <1>5, <2>1, <2>2, e \in entities, a \in BOOLEAN, p \in Written, x \in entities
<1>8. ASSUME NEW p \in Written, NEW e \in entities, NEW a \in BOOLEAN,
             UpdateState(p, e, a)
      PROVE  UNCHANGED entities /\ (Merge \/ Put)
  <2> DEFINE c == [link[p] EXCEPT !.from = e, !.alive = a]
  <2>1. /\ Updatable(p) /\ UNCHANGED entities /\ Replace(p, c)
    BY ONLY <1>8 DEF UpdateState
  <2>2. /\ link[p] \in Link /\ Shape(link[p]) /\ Within(link[p], entities)
        /\ link[p].replaced_by = None /\ link[p].from # None
    BY <2>1, RecordFacts DEF Updatable
  <2>3. Proposed(c)
    BY <1>1, <2>2, NoneAssumption DEF Link, Shape
  <2>4. Within(c, entities) /\ c.type = link[p].type /\ c.creator = link[p].creator
    BY <2>2 DEF Link
  <2> HIDE DEF c
  <2> QED
    BY ONLY <2>1, <2>3, <2>4, TypeOK, ReplaceNormal, p \in Written
<1> QED
  <2>1. CASE Create
    BY ONLY <2>1, <1>1, <1>2, <1>3, <1>4, NoneAssumption DEF Create
  <2>2. CASE Update
    BY ONLY <2>2, <1>1, <1>6, <1>7, <1>8 DEF Update
  <2> QED
    BY <2>1, <2>2 DEF Next

------------------------------------------------------------------------------
(* What a write does to each record: c becomes new, olds are replaced by   *)
(* it, each waiting d by f[d], which is there already or is new too: made  *)
(* of d, or of another waiting link that says the same.                    *)
PutFacts(c, olds, new, f) ==
  /\ new \in Fresh
  /\ f \in [Waiting(c) -> Guids \ {new}]
  /\ \A d \in Waiting(c) :
       /\ d \in Live /\ ~link[d].complete
       /\ IF f[d] \in Written THEN f[d] \in Existing(Attach(link[d], c.from))
          ELSE Existing(Attach(link[d], c.from)) = {}
  /\ \A d, b \in Waiting(c) :
       (f[d] \notin Written /\ f[b] \notin Written) =>
         (f[d] = f[b] <=> SameKey(Attach(link[d], c.from), Attach(link[b], c.from)))
  /\ Written' = Written \cup {new} \cup {f[d] : d \in Waiting(c)}
  /\ link'[new] = c
  /\ \A g \in olds : link'[g] = [link[g] EXCEPT !.replaced_by = new]
  /\ \A g \in Waiting(c) \ olds : link'[g] = [link[g] EXCEPT !.replaced_by = f[g]]
  /\ \A g \in Written \ (olds \cup Waiting(c)) : link'[g] = link[g]
  /\ \A d \in Waiting(c) : f[d] \notin Written =>
       \E b \in Waiting(c) : f[b] = f[d] /\ link'[f[d]] = Attach(link[b], c.from)
  /\ c.alive => Existing(c) = {}
  /\ c.type = Id => IdFree(c)

LEMMA PutEffect ==
  ASSUME TypeOK, NEW c \in Link, NEW olds \in SUBSET Current,
         Write(c, olds)
  PROVE  \E new, f : PutFacts(c, olds, new, f)
<1> PICK new \in Fresh : \E f \in Completions(Waiting(c), c.from, new) : \E first \in Firsts(f) :
      link' = After(c, new, olds, f, first)
  BY DEF Write
<1> PICK f \in Completions(Waiting(c), c.from, new) : \E first \in Firsts(f) :
      link' = After(c, new, olds, f, first)
  OBVIOUS
<1> PICK first \in Firsts(f) : link' = After(c, new, olds, f, first)
  OBVIOUS
<1>1. olds \subseteq Written /\ Waiting(c) \subseteq Live /\ Waiting(c) \subseteq Written
  BY DEF Current, Waiting, Danglers, Live
<1>2. \A X : Existing(X) \subseteq Written
  BY DEF Existing, Current
<1>3. new \in Guids /\ new \notin Written
  BY DEF Fresh
<1>4. f \in [Waiting(c) -> Guids]
  BY DEF Completions
<1>5. \A d \in Waiting(c) :
        /\ f[d] \in Guids \ {new}
        /\ IF f[d] \in Written THEN f[d] \in Existing(Attach(link[d], c.from))
           ELSE Existing(Attach(link[d], c.from)) = {}
  BY <1>2, <1>3 DEF Completions, Fresh
<1>6. \A d, b \in Waiting(c) :
        (f[d] \notin Written /\ f[b] \notin Written) =>
          (f[d] = f[b] <=> SameKey(Attach(link[d], c.from), Attach(link[b], c.from)))
  BY <1>5 DEF Completions
<1>7. Written' = Written \cup {new} \cup {f[d] : d \in Waiting(c)}
  BY <1>4 DEF After, Written
<1>8. \A d \in Waiting(c) : d \in Live /\ ~link[d].complete
  BY DEF Waiting, Danglers
<1>9. \A g \in Written \cup {new} \cup {f[d] : d \in Waiting(c)} :
        link'[g] = Version(g, c, new, olds, f, first)
  BY <1>4 DEF After
<1>10. /\ link'[new] = c
       /\ \A g \in olds : link'[g] = [link[g] EXCEPT !.replaced_by = new]
       /\ \A g \in Waiting(c) \ olds : link'[g] = [link[g] EXCEPT !.replaced_by = f[g]]
       /\ \A g \in Written \ (olds \cup Waiting(c)) : link'[g] = link[g]
  <2>1. link'[new] = c
    BY <1>9 DEF Version
  <2>2. ASSUME NEW g \in olds PROVE link'[g] = [link[g] EXCEPT !.replaced_by = new]
    BY <1>1, <1>3, <1>9, Zenon DEF Version
  <2>3. ASSUME NEW g \in Waiting(c) \ olds
        PROVE  link'[g] = [link[g] EXCEPT !.replaced_by = f[g]]
    BY <1>1, <1>3, <1>4, <1>9, Zenon DEF Version
  <2>4. ASSUME NEW g \in Written \ (olds \cup Waiting(c)) PROVE link'[g] = link[g]
    BY <1>3, <1>4, <1>9, Zenon DEF Version
  <2> QED
    BY <2>1, <2>2, <2>3, <2>4
<1>12. ASSUME NEW d \in Waiting(c), f[d] \notin Written
       PROVE  \E b \in Waiting(c) : f[b] = f[d] /\ link'[f[d]] = Attach(link[b], c.from)
  <2>1. first[f[d]] \in Waiting(c) /\ f[first[f[d]]] = f[d]
    BY <1>4 DEF Firsts
  <2>2. f[d] # new /\ f[d] \notin olds /\ f[d] \notin Waiting(c)
    BY <1>1, <1>5, <1>12
  <2>3. link'[f[d]] = Attach(link[first[f[d]]], c.from)
    BY <1>4, <1>9, <1>12, <2>2, Zenon DEF Version
  <2> QED
    BY <2>1, <2>3
<1>11. (c.alive => Existing(c) = {}) /\ (c.type = Id => IdFree(c))
  BY DEF Write
<1>13. f \in [Waiting(c) -> Guids \ {new}]
  BY <1>4, <1>5
<1>14. \A d \in Waiting(c) :
         /\ d \in Live /\ ~link[d].complete
         /\ IF f[d] \in Written THEN f[d] \in Existing(Attach(link[d], c.from))
            ELSE Existing(Attach(link[d], c.from)) = {}
  BY <1>5, <1>8
<1>15. \A d \in Waiting(c) : f[d] \notin Written =>
         \E b \in Waiting(c) : f[b] = f[d] /\ link'[f[d]] = Attach(link[b], c.from)
  BY <1>12
<1>16. PutFacts(c, olds, new, f)
  BY ONLY new \in Fresh, <1>6, <1>7, <1>10, <1>11, <1>13, <1>14, <1>15, Zenon DEF PutFacts
<1> QED
  BY <1>16

(* The records of the store after a write. *)
LEMMA PutRecords ==
  ASSUME TypeOK, NEW c \in Link, Ready(c), Within(c, entities'),
         entities \subseteq entities', entities' \subseteq Entities,
         NEW olds \in SUBSET Current, \A p \in olds : Replaceable(p, c),
         NEW new, NEW f, PutFacts(c, olds, new, f)
  PROVE  /\ new \in Guids \ Written
         /\ \A d \in Waiting(c) :
              LET a == Attach(link[d], c.from)
              IN /\ c.type = Id /\ c.from \in Entities
                 /\ a \in Link /\ Shape(a) /\ a.complete
                 /\ a.type = link[d].type /\ a.creator = link[d].creator
                 /\ a.alive /\ a.replaced_by = None
                 /\ a.type \in LinkTypes
                 /\ Within(a, entities')
<1>1. new \in Guids \ Written
  BY DEF PutFacts, Fresh
<1>2. ASSUME NEW d \in Waiting(c)
      PROVE  LET a == Attach(link[d], c.from)
             IN /\ c.type = Id /\ c.from \in Entities
                /\ a \in Link /\ Shape(a) /\ a.complete
                /\ a.type = link[d].type /\ a.creator = link[d].creator
                /\ a.alive /\ a.replaced_by = None
                /\ a.type \in LinkTypes
                /\ Within(a, entities')
  <2>1. d \in Live /\ ~link[d].complete
    BY DEF PutFacts
  <2>2. /\ d \in Written /\ link[d].alive /\ link[d].replaced_by = None
        /\ link[d] \in Link /\ Shape(link[d]) /\ Within(link[d], entities)
    BY <2>1, RecordFacts DEF Live, Current
  <2>3. /\ link[d].type \notin Literals
        /\ (link[d].from = None) # (link[d].to = None)
        /\ link[d].type \in LinkTypes
    BY <2>1, <2>2 DEF Shape, Link, PropTypes
  <2>4. c.type = Id
    BY DEF Waiting
  <2>5. c.from \in entities' /\ c.from \in Entities
    BY <2>4, TypesAssumption, NoneAssumption DEF Ready, Shape, Within
  <2> QED
    BY <2>2, <2>3, <2>4, <2>5, AttachShape DEF Within
<1> QED
  BY <1>1, <1>2

(* What a waiting link is replaced by says what it says when completed.    *)
LEMMA PutCompleted ==
  ASSUME TypeOK, NEW c \in Link, Ready(c), Within(c, entities'),
         entities \subseteq entities', entities' \subseteq Entities,
         NEW olds \in SUBSET Current, \A p \in olds : Replaceable(p, c),
         NEW new, NEW f, PutFacts(c, olds, new, f),
         NEW d \in Waiting(c), f[d] \notin Written
  PROVE  LET a == link'[f[d]]
         IN /\ a \in Link /\ Shape(a) /\ a.complete
            /\ a.alive /\ a.replaced_by = None
            /\ a.type = link[d].type /\ SameCreator(a, link[d])
            /\ SameKey(a, Attach(link[d], c.from))
            /\ a.type \in LinkTypes /\ Existing(a) = {}
            /\ Within(a, entities')
<1>1. PICK b \in Waiting(c) : f[b] = f[d] /\ link'[f[d]] = Attach(link[b], c.from)
  BY DEF PutFacts
<1>2. /\ SameKey(Attach(link[b], c.from), Attach(link[d], c.from))
      /\ Existing(Attach(link[b], c.from)) = {}
  BY <1>1 DEF PutFacts
<1>3. \A w \in {d, b} : LET a == Attach(link[w], c.from)
                        IN /\ a \in Link /\ Shape(a) /\ a.complete
                           /\ a.type = link[w].type /\ a.creator = link[w].creator
                           /\ a.alive /\ a.replaced_by = None
                           /\ a.type \in LinkTypes /\ Within(a, entities')
  BY PutRecords
<1> QED
  BY <1>1, <1>2, <1>3 DEF SameKey, SameCreator

------------------------------------------------------------------------------
(* Type correctness *)

LEMMA MergeType ==
  ASSUME TypeOK, Merge, entities \subseteq entities', entities' \subseteq Entities
  PROVE  TypeOK'
<1> PICK p \in Current, g \in Current : link' = [link EXCEPT ![p].replaced_by = g]
  BY DEF Merge
<1>1. p \in Written /\ g \in Written /\ g \in Guids
  BY RecordFacts DEF Current
<1>2. Written' = Written
  BY DEF Written, TypeOK
<1>3. \A h \in Written : link'[h] = IF h = p THEN [link[p] EXCEPT !.replaced_by = g] ELSE link[h]
  BY <1>1 DEF TypeOK
<1>4. \A h \in Written : link'[h] \in Link /\ Shape(link'[h]) /\ Within(link'[h], entities')
  BY <1>1, <1>3, RecordFacts DEF Link, Shape, Within
<1>5. link' \in [Written' -> Link]
  BY <1>1, <1>2, <1>4 DEF TypeOK
<1> QED
  BY <1>2, <1>4, <1>5 DEF TypeOK, Within, Shape

LEMMA PutType ==
  ASSUME TypeOK, Put, entities \subseteq entities', entities' \subseteq Entities
  PROVE  TypeOK'
<1> PICK c \in Link, olds \in SUBSET Current :
      /\ Ready(c) /\ Within(c, entities')
      /\ \A p \in olds : Replaceable(p, c)
      /\ Write(c, olds)
  BY DEF Put
<1> PICK new, f : PutFacts(c, olds, new, f)
  BY PutEffect
<1>1. /\ new \in Guids \ Written
      /\ \A d \in Waiting(c) : LET a == Attach(link[d], c.from)
                               IN a \in Link /\ Shape(a) /\ Within(a, entities')
  BY PutRecords
<1>2. /\ Written' = Written \cup {new} \cup {f[d] : d \in Waiting(c)}
      /\ f \in [Waiting(c) -> Guids]
      /\ Waiting(c) \subseteq Written /\ olds \subseteq Written
  BY DEF PutFacts, Live, Current
<1>3. ASSUME NEW g \in Written'
      PROVE  link'[g] \in Link /\ Shape(link'[g]) /\ Within(link'[g], entities')
  <2>1. CASE g = new
    BY <2>1 DEF PutFacts, Ready
  <2>2. CASE g \in olds
    <3>1. link'[g] = [link[g] EXCEPT !.replaced_by = new]
      BY <2>2 DEF PutFacts
    <3> QED
      BY <1>1, <1>2, <2>2, <3>1, RecordFacts DEF Link, Shape, Within
  <2>3. CASE g \in Waiting(c) \ olds
    <3>1. link'[g] = [link[g] EXCEPT !.replaced_by = f[g]] /\ f[g] \in Guids
      BY <1>2, <2>3 DEF PutFacts
    <3> QED
      BY <1>2, <2>3, <3>1, RecordFacts DEF Link, Shape, Within
  <2>4. CASE g \in Written \ (olds \cup Waiting(c))
    <3>1. link'[g] = link[g]
      BY <2>4 DEF PutFacts
    <3> QED
      BY <2>4, <3>1, RecordFacts DEF Within
  <2>5. CASE g \notin Written /\ g # new
    <3>1. PICK d \in Waiting(c) : g = f[d]
      BY <1>2, <2>5
    <3> QED
      BY <2>5, <3>1, PutCompleted
  <2> QED
    BY <1>2, <2>1, <2>2, <2>3, <2>4, <2>5
<1>4. Written' \subseteq Guids
  BY <1>1, <1>2 DEF TypeOK
<1>5. link' \in [Written' -> Link]
  <2>1. link' = [g \in Written' |-> link'[g]]
    <3> PICK n, h, first : link' = After(c, n, olds, h, first)
      BY DEF Write
    <3> QED
      BY DEF After, Written
  <2> QED
    BY <1>3, <2>1
<1> QED
  BY <1>3, <1>4, <1>5 DEF TypeOK, Within, Shape

(* The store's records keep their types and the shape of their kind. *)
THEOREM TypeCorrect == Spec => []TypeOK
<1>1. Init => TypeOK
  BY DEF Init, TypeOK, Written
<1>2. TypeOK /\ [Next]_vars => TypeOK'
  <2> SUFFICES ASSUME TypeOK, [Next]_vars PROVE TypeOK'
    OBVIOUS
  <2>1. CASE Next
    BY <2>1, NextNormal, MergeType, PutType
  <2>2. CASE UNCHANGED vars
    BY <2>2 DEF vars, TypeOK, Written, Shape
  <2> QED
    BY <2>1, <2>2
<1> QED
  BY <1>1, <1>2, PTL DEF Spec

------------------------------------------------------------------------------
(* What lives after a step *)

LEMMA SameValueEquivalence ==
  ASSUME NEW v, NEW w, SameValue(v, w)
  PROVE  /\ SameValue(w, v)
         /\ \A x : SameValue(w, x) => SameValue(v, x)
BY DEF SameValue

(* A merge only takes the replaced version out of sight. *)
LEMMA MergeEffect ==
  ASSUME TypeOK, NEW p \in Current, NEW g \in Current,
         link' = [link EXCEPT ![p].replaced_by = g]
  PROVE  /\ Written' = Written
         /\ p \in Written /\ g \in Written
         /\ link'[p] = [link[p] EXCEPT !.replaced_by = g]
         /\ \A h \in Written \ {p} : link'[h] = link[h]
         /\ \A h \in Live' : h \in Live /\ link'[h] = link[h]
<1>1. p \in Written /\ g \in Written /\ g # None /\ link[p] \in Link
  BY RecordFacts, NoneAssumption DEF Current
<1>2. Written' = Written
  BY DEF Written, TypeOK
<1>3. link'[p] = [link[p] EXCEPT !.replaced_by = g]
  BY <1>1 DEF TypeOK
<1>4. \A h \in Written \ {p} : link'[h] = link[h]
  BY DEF TypeOK
<1>5. link'[p].replaced_by = g
  BY <1>1, <1>3 DEF Link
<1>6. ASSUME NEW h \in Live' PROVE h \in Live /\ link'[h] = link[h]
  BY <1>1, <1>2, <1>4, <1>5 DEF Live, Current
<1> QED
  BY <1>1, <1>2, <1>3, <1>4, <1>6

(* After a write there live the new record, the new completed links, and   *)
(* what lived before and was neither replaced nor completed.               *)
LEMMA PutLive ==
  ASSUME TypeOK, NEW c \in Link, Ready(c), Within(c, entities'),
         entities \subseteq entities', entities' \subseteq Entities,
         NEW olds \in SUBSET Current, \A p \in olds : Replaceable(p, c),
         NEW new, NEW f, PutFacts(c, olds, new, f),
         NEW g \in Live'
  PROVE  \/ g = new /\ c.alive
         \/ g \in Live \ (olds \cup Waiting(c)) /\ link'[g] = link[g]
         \/ \E d \in Waiting(c) : /\ g = f[d] /\ f[d] \notin Written
                                  /\ link'[g] = Attach(link[d], c.from)
<1>1. g \in Written' /\ link'[g].alive /\ link'[g].replaced_by = None
  BY DEF Live, Current
<1>2. /\ Written' = Written \cup {new} \cup {f[d] : d \in Waiting(c)}
      /\ f \in [Waiting(c) -> Guids \ {new}]
      /\ olds \subseteq Written /\ Waiting(c) \subseteq Written
      /\ new \in Guids
  BY DEF PutFacts, Live, Current, Fresh
<1>3. CASE g = new
  BY <1>1, <1>3 DEF PutFacts
<1>4. g \notin olds
  <2> SUFFICES ASSUME g \in olds PROVE FALSE
    OBVIOUS
  <2>1. link'[g] = [link[g] EXCEPT !.replaced_by = new] /\ link[g] \in Link
    BY <1>2, RecordFacts DEF PutFacts
  <2>2. link'[g].replaced_by = new
    BY <2>1 DEF Link
  <2> QED
    BY <1>1, <1>2, <2>2, NoneAssumption
<1>5. g \notin Waiting(c)
  <2> SUFFICES ASSUME g \in Waiting(c) PROVE FALSE
    OBVIOUS
  <2>1. link'[g] = [link[g] EXCEPT !.replaced_by = f[g]] /\ link[g] \in Link
    BY <1>2, <1>4, RecordFacts DEF PutFacts
  <2>2. link'[g].replaced_by = f[g] /\ f[g] \in Guids
    BY <1>2, <2>1 DEF Link
  <2> QED
    BY <1>1, <2>2, NoneAssumption
<1>6. CASE g \in Written
  <2>1. link'[g] = link[g]
    BY <1>4, <1>5, <1>6 DEF PutFacts
  <2> QED
    BY <1>1, <1>4, <1>5, <1>6, <2>1 DEF Live, Current
<1>7. CASE g \notin Written /\ g # new
  <2>1. PICK d \in Waiting(c) : g = f[d]
    BY <1>1, <1>2, <1>7
  <2> QED
    BY <1>7, <2>1 DEF PutFacts
<1> QED
  BY <1>3, <1>6, <1>7

(* A step that writes, with its choices named. *)
Putting(c, olds, new, f) ==
  /\ c \in Link /\ olds \in SUBSET Current
  /\ Ready(c) /\ Within(c, entities')
  /\ \A p \in olds : Replaceable(p, c)
  /\ \A p, q \in olds : p = q
  /\ PutFacts(c, olds, new, f)

Growing == entities \subseteq entities' /\ entities' \subseteq Entities

LEMMA StepCases ==
  ASSUME TypeOK, Next
  PROVE  /\ Growing
         /\ Merge \/ \E c, olds, new, f : Putting(c, olds, new, f)
<1>1. Growing /\ (Merge \/ Put)
  BY NextNormal DEF Growing
<1>2. ASSUME Put PROVE \E c, olds, new, f : Putting(c, olds, new, f)
  <2> PICK c \in Link, olds \in SUBSET Current :
        /\ Ready(c) /\ Within(c, entities')
        /\ \A p \in olds : Replaceable(p, c)
        /\ \A p, q \in olds : p = q
        /\ Write(c, olds)
    BY <1>2 DEF Put
  <2> PICK new, f : PutFacts(c, olds, new, f)
    BY PutEffect
  <2>1. Putting(c, olds, new, f)
    BY DEF Putting
  <2> QED
    BY <2>1
<1> QED
  BY <1>1, <1>2

(* PutLive in these terms. *)
LEMMA PuttingLive ==
  ASSUME TypeOK, Growing, NEW c, NEW olds, NEW new, NEW f,
         Putting(c, olds, new, f)
  PROVE  /\ link'[new] = c
         /\ \A g \in Live' :
              \/ g = new /\ c.alive
              \/ g \in Live \ (olds \cup Waiting(c)) /\ link'[g] = link[g]
              \/ \E d \in Waiting(c) :
                   /\ g = f[d] /\ f[d] \notin Written
                   /\ link'[g] = Attach(link[d], c.from)
                   /\ link'[g].type # Id /\ link'[g].complete
                   /\ Existing(link'[g]) = {}
                   /\ link'[g].value = None /\ link'[g].alive
                   /\ link'[g].replaced_by = None
                   /\ link'[g].type \in LinkTypes
<1>1. link'[new] = c
  BY DEF Putting, PutFacts
<1>2. ASSUME NEW d \in Waiting(c), f[d] \notin Written
      PROVE  /\ link'[f[d]].type # Id /\ link'[f[d]].complete
             /\ Existing(link'[f[d]]) = {}
             /\ link'[f[d]].value = None /\ link'[f[d]].alive
             /\ link'[f[d]].replaced_by = None
             /\ link'[f[d]].type \in LinkTypes
  <2>1. LET a == link'[f[d]]
        IN /\ a \in Link /\ Shape(a) /\ a.complete
           /\ a.alive /\ a.replaced_by = None /\ a.type \in LinkTypes
           /\ Existing(a) = {}
    BY <1>2, PutCompleted DEF Putting, Growing
  <2> QED
    BY <2>1, TypesAssumption DEF Shape
<1>3. ASSUME NEW g \in Live'
      PROVE  \/ g = new /\ c.alive
             \/ g \in Live \ (olds \cup Waiting(c)) /\ link'[g] = link[g]
             \/ \E d \in Waiting(c) : /\ g = f[d] /\ f[d] \notin Written
                                      /\ link'[g] = Attach(link[d], c.from)
  BY PutLive DEF Putting, Growing
<1> SUFFICES ASSUME NEW g \in Live'
             PROVE  \/ g = new /\ c.alive
                    \/ g \in Live \ (olds \cup Waiting(c)) /\ link'[g] = link[g]
                    \/ \E d \in Waiting(c) :
                         /\ g = f[d] /\ f[d] \notin Written
                         /\ link'[g] = Attach(link[d], c.from)
                         /\ link'[g].type # Id /\ link'[g].complete
                         /\ Existing(link'[g]) = {}
                         /\ link'[g].value = None /\ link'[g].alive
                         /\ link'[g].replaced_by = None
                         /\ link'[g].type \in LinkTypes
  BY <1>1
<1>4. ASSUME NEW d \in Waiting(c), g = f[d], f[d] \notin Written
      PROVE  /\ link'[g].type # Id /\ link'[g].complete
             /\ Existing(link'[g]) = {}
             /\ link'[g].value = None /\ link'[g].alive
             /\ link'[g].replaced_by = None
             /\ link'[g].type \in LinkTypes
  BY <1>2, <1>4
<1> QED
  BY <1>3, <1>4, Zenon

------------------------------------------------------------------------------
(* An ID is of one entity *)

LEMMA IdUniqueStep ==
  ASSUME TypeOK, IdUnique, Next
  PROVE  IdUnique'
<1>1. CASE Merge
  <2> PICK p \in Current, q \in Current : link' = [link EXCEPT ![p].replaced_by = q]
    BY <1>1 DEF Merge
  <2>1. \A h \in Live' : h \in Live /\ link'[h] = link[h]
    BY MergeEffect
  <2> QED
    BY <2>1 DEF IdUnique, SameValue
<1>2. ASSUME NEW c, NEW olds, NEW new, NEW f, Putting(c, olds, new, f)
      PROVE  IdUnique'
  <2>1. Growing
    BY StepCases
  <2>2. ASSUME NEW g \in Live', link'[g].type = Id
        PROVE  \/ g = new /\ c.alive /\ c.type = Id /\ link'[g] = c
               \/ g \in Live /\ link'[g] = link[g] /\ link[g].type = Id
    BY <1>2, <2>1, <2>2, PuttingLive
  <2>3. ASSUME c.type = Id, c.alive,
               NEW h \in Live, link[h].type = Id, SameValue(link[h].value, c.value)
        PROVE  FALSE
    <3>1. Existing(c) = {} /\ IdFree(c)
      BY <1>2, <2>3 DEF Putting, PutFacts
    <3>2. h \in Holders(c.value)
      BY <2>3 DEF Holders
    <3>3. ~link[h].complete
      BY <3>1, <3>2 DEF IdFree
    <3>4. Shape(link[h])
      BY RecordFacts DEF Live, Current
    <3> QED
      BY <2>3, <3>3, <3>4, TypesAssumption DEF Shape
  <2>4. ASSUME NEW g \in Live', NEW h \in Live',
               link'[g].type = Id, link'[h].type = Id,
               SameValue(link'[g].value, link'[h].value)
        PROVE  g = h
    <3>1. SameValue(link'[h].value, link'[g].value)
      BY <2>4, SameValueEquivalence
    <3>2. CASE g = new /\ h = new
      BY <3>2
    <3>3. CASE g \in Live /\ h \in Live /\ link'[g] = link[g] /\ link'[h] = link[h]
      BY <2>4, <3>3 DEF IdUnique
    <3>4. CASE g = new /\ h \in Live /\ link'[h] = link[h] /\ c.alive /\ c.type = Id /\ link'[g] = c
      BY <2>3, <2>4, <3>1, <3>4
    <3>5. CASE h = new /\ g \in Live /\ link'[g] = link[g] /\ c.alive /\ c.type = Id /\ link'[h] = c
      BY <2>3, <2>4, <3>5
    <3> QED
      BY <2>2, <2>4, <3>2, <3>3, <3>4, <3>5
  <2> QED
    BY <2>4 DEF IdUnique, SameValue
<1> QED
  BY <1>1, <1>2, StepCases

(* No sequence of requests gives an ID to two entities, or twice to one:   *)
(* create_property's search for the ID (lridb.py 134-142) is enough as     *)
(* long as requests are served one after another.                          *)
THEOREM IdsAreUnique == Spec => []IdUnique
<1>1. Init => IdUnique
  BY DEF Init, IdUnique, Live, Current, Written
<1>2. TypeOK /\ IdUnique /\ [Next]_vars => IdUnique'
  <2>1. TypeOK /\ IdUnique /\ UNCHANGED vars => IdUnique'
    BY DEF vars, IdUnique, Live, Current, Written, SameValue
  <2> QED
    BY <2>1, IdUniqueStep
<1> QED
  BY <1>1, <1>2, TypeCorrect, PTL DEF Spec

------------------------------------------------------------------------------
(* No link waits in vain *)

LEMMA NoStrandedStep ==
  ASSUME TypeOK, NoStrandedLink, Next
  PROVE  NoStrandedLink'
<1>1. CASE Merge
  <2> PICK p \in Current, q \in Current : link' = [link EXCEPT ![p].replaced_by = q]
    BY <1>1 DEF Merge
  <2>1. \A h \in Live' : h \in Live /\ link'[h] = link[h]
    BY MergeEffect
  <2> QED
    BY <2>1 DEF NoStrandedLink, Owners, Holders, SameValue
<1>2. ASSUME NEW c, NEW olds, NEW new, NEW f, Putting(c, olds, new, f)
      PROVE  NoStrandedLink'
  <2>1. Growing
    BY StepCases
  <2>2. ASSUME NEW d \in Live', ~link'[d].complete,
               NEW h \in Live', link'[h].type = Id,
               SameValue(link'[h].value, link'[d].value)
        PROVE  FALSE
    <3>1. \/ d = new /\ link'[d] = c
          \/ d \in Live \ Waiting(c) /\ link'[d] = link[d]
      BY <1>2, <2>1, <2>2, PuttingLive
    <3>2. \/ h = new /\ link'[h] = c /\ c.type = Id
          \/ h \in Live /\ link'[h] = link[h]
      BY <1>2, <2>1, <2>2, PuttingLive
    <3>3. c.type = Id => c.complete
      BY <1>2, TypesAssumption DEF Putting, Ready, Shape
    <3>4. ASSUME d = new, link'[d] = c PROVE FALSE
      <4>1. c.type # Id /\ Owners(c.value) = {}
        BY <1>2, <2>2, <3>3, <3>4 DEF Putting, Ready
      <4>2. h \in Holders(c.value)
        BY <2>2, <3>2, <3>4, <4>1 DEF Holders
      <4> QED
        BY <4>1, <4>2 DEF Owners
    <3>5. ASSUME d \in Live \ Waiting(c), link'[d] = link[d] PROVE FALSE
      <4>1. Owners(link[d].value) = {}
        BY <2>2, <3>5 DEF NoStrandedLink
      <4>2. CASE h \in Live /\ link'[h] = link[h]
        <5>1. h \in Holders(link[d].value)
          BY <2>2, <3>5, <4>2 DEF Holders
        <5> QED
          BY <4>1, <5>1 DEF Owners
      <4>3. CASE h = new /\ link'[h] = c /\ c.type = Id
        <5>1. SameValue(link[d].value, c.value)
          BY <2>2, <3>5, <4>3, SameValueEquivalence
        <5>2. d \in Waiting(c)
          BY <2>2, <3>5, <4>3, <5>1 DEF Waiting, Danglers
        <5> QED
          BY <3>5, <5>2
      <4> QED
        BY <3>2, <4>2, <4>3
    <3> QED
      BY <3>1, <3>4, <3>5
  <2> QED
    BY <2>2 DEF NoStrandedLink, Owners, Holders, SameValue
<1> QED
  BY <1>1, <1>2, StepCases

(* Whenever an entity has an ID, in any spelling, no living link is left   *)
(* waiting for it: resolving on creation and completing on naming leave no *)
(* gap between them while requests are served one after another.           *)
THEOREM NoLinkIsStranded == Spec => []NoStrandedLink
<1>1. Init => NoStrandedLink
  BY DEF Init, NoStrandedLink, Live, Current, Written
<1>2. TypeOK /\ NoStrandedLink /\ [Next]_vars => NoStrandedLink'
  <2>1. TypeOK /\ NoStrandedLink /\ UNCHANGED vars => NoStrandedLink'
    BY DEF vars, NoStrandedLink, Live, Current, Written, SameValue, Owners, Holders
  <2> QED
    BY <2>1, NoStrandedStep
<1> QED
  BY <1>1, <1>2, TypeCorrect, PTL DEF Spec

------------------------------------------------------------------------------
(* Each fact lives once *)

LEMMA NoDuplicatesStep ==
  ASSUME TypeOK, NoDuplicates, Next
  PROVE  NoDuplicates'
<1>1. CASE Merge
  <2> PICK p \in Current, q \in Current : link' = [link EXCEPT ![p].replaced_by = q]
    BY <1>1 DEF Merge
  <2>1. \A h \in Live' : h \in Live /\ link'[h] = link[h]
    BY MergeEffect
  <2> QED
    BY <2>1 DEF NoDuplicates, SameKey, SameCreator, SameValue
<1>2. ASSUME NEW c, NEW olds, NEW new, NEW f, Putting(c, olds, new, f)
      PROVE  NoDuplicates'
  <2> DEFINE Old(g) == g \in Live /\ link'[g] = link[g]
             Done(g) == \E d \in Waiting(c) :
                          /\ g = f[d] /\ f[d] \notin Written
                          /\ link'[g] = Attach(link[d], c.from)
                          /\ link'[g].type # Id /\ link'[g].complete
                          /\ Existing(link'[g]) = {}
                          /\ link'[g].value = None /\ link'[g].alive
                          /\ link'[g].replaced_by = None
                          /\ link'[g].type \in LinkTypes
  <2>1. Growing
    BY StepCases
  <2>2. \A g \in Live' : (g = new /\ c.alive) \/ Old(g) \/ Done(g)
    BY <1>2, <2>1, PuttingLive
  <2>3. link'[new] = c /\ (c.alive => Existing(c) = {})
    BY <1>2 DEF Putting, PutFacts
  <2>4. ASSUME NEW g, NEW h, (g = new /\ c.alive) \/ Done(g), Old(h), g \in Live',
               link'[g].complete, SameKey(link'[h], link'[g])
        PROVE  FALSE
    <3>1. Existing(link'[g]) = {} /\ link'[g].alive
      BY <2>3, <2>4
    <3>2. h \in Existing(link'[g])
      BY <2>4, <3>1 DEF Existing, Live
    <3> QED
      BY <3>1, <3>2
  <2>5. ASSUME NEW g, NEW h, Done(g), Done(h), SameKey(link'[g], link'[h])
        PROVE  g = h
    <3>1. PICK d \in Waiting(c) : g = f[d] /\ f[d] \notin Written
                                  /\ link'[g] = Attach(link[d], c.from)
      BY <2>5
    <3>2. PICK b \in Waiting(c) : h = f[b] /\ f[b] \notin Written
                                  /\ link'[h] = Attach(link[b], c.from)
      BY <2>5
    <3>3. f[d] = f[b]
      BY <1>2, <2>5, <3>1, <3>2 DEF Putting, PutFacts
    <3> QED
      BY <3>1, <3>2, <3>3
  <2>6. ASSUME NEW g, Done(g), SameKey(link'[g], c) \/ SameKey(c, link'[g]) PROVE FALSE
    <3>1. c.type = Id
      BY <2>6 DEF Waiting
    <3> QED
      BY <2>6, <3>1 DEF SameKey
  <2>7. \A l, m : SameKey(l, m) => SameKey(m, l)
    BY SameValueEquivalence DEF SameKey, SameCreator
  <2>8. ASSUME NEW g \in Live', NEW h \in Live',
               link'[g].complete, link'[h].complete, SameKey(link'[g], link'[h])
        PROVE  g = h
    <3> HIDE DEF Old, Done
    <3>1. CASE Old(g) /\ Old(h)
      BY <2>8, <3>1 DEF NoDuplicates, Old
    <3>2. CASE Old(h) /\ ((g = new /\ c.alive) \/ Done(g))
      BY <2>4, <2>7, <2>8, <3>2
    <3>3. CASE Old(g) /\ ((h = new /\ c.alive) \/ Done(h))
      BY <2>4, <2>8, <3>3
    <3>4. CASE Done(g) /\ Done(h)
      BY <2>5, <2>8, <3>4
    <3>5. CASE (g = new /\ Done(h)) \/ (h = new /\ Done(g))
      BY <2>3, <2>6, <2>8, <3>5
    <3>6. CASE g = new /\ h = new
      BY <3>6
    <3>7. /\ (g = new /\ c.alive) \/ Old(g) \/ Done(g)
          /\ (h = new /\ c.alive) \/ Old(h) \/ Done(h)
      BY <2>2
    <3> QED
      BY ONLY <3>1, <3>2, <3>3, <3>4, <3>5, <3>6, <3>7
  <2> QED
    BY <2>8 DEF NoDuplicates, SameKey, SameCreator, SameValue
<1> QED
  BY <1>1, <1>2, StepCases

(* Whatever is created, updated, deleted, undeleted or completed, no two   *)
(* living complete properties say the same of the same entities for the    *)
(* same creator, in any case: the "existing" searches of create_property    *)
(* suffice.                                                                *)
THEOREM FactsLiveOnce == Spec => []NoDuplicates
<1>1. Init => NoDuplicates
  BY DEF Init, NoDuplicates, Live, Current, Written
<1>2. TypeOK /\ NoDuplicates /\ [Next]_vars => NoDuplicates'
  <2>1. TypeOK /\ NoDuplicates /\ UNCHANGED vars => NoDuplicates'
    BY DEF vars, NoDuplicates, Live, Current, Written, SameKey, SameCreator, SameValue
  <2> QED
    BY <2>1, NoDuplicatesStep
<1> QED
  BY <1>1, <1>2, TypeCorrect, PTL DEF Spec

------------------------------------------------------------------------------
(* History *)

(* What a step does to the records already written, and where it points    *)
(* those it replaces: to themselves, or to a version that is current then. *)
LEMMA HistoryStep ==
  ASSUME TypeOK, Next
  PROVE  /\ Written \subseteq Written'
         /\ \A g \in Written' \ Written : link'[g].replaced_by = None
         /\ \A g \in Written :
              \/ link'[g] = link[g]
              \/ LET r == link'[g].replaced_by
                 IN /\ link[g].replaced_by = None
                    /\ link'[g] = [link[g] EXCEPT !.replaced_by = r]
                    /\ r \in Written'
                    /\ r = g \/ link'[r].replaced_by = None
                    /\ link'[r].type = link[g].type
                    /\ SameCreator(link'[r], link[g])
<1>1. CASE Merge
  <2> PICK p \in Current, q \in Current :
        /\ Replaceable(p, link[q])
        /\ link' = [link EXCEPT ![p].replaced_by = q]
    BY <1>1 DEF Merge
  <2>1. /\ Written' = Written /\ p \in Written /\ q \in Written
        /\ link'[p] = [link[p] EXCEPT !.replaced_by = q]
        /\ \A h \in Written \ {p} : link'[h] = link[h]
    BY MergeEffect
  <2>2. /\ link[p] \in Link /\ link[p].replaced_by = None /\ link[q].replaced_by = None
        /\ link[p].type = link[q].type /\ SameCreator(link[p], link[q])
    BY <2>1, RecordFacts DEF Current, Replaceable
  <2>3. /\ link'[p].replaced_by = q
        /\ link'[p].type = link[p].type /\ link'[p].creator = link[p].creator
    BY <2>1, <2>2 DEF Link
  <2> QED
    BY <2>1, <2>2, <2>3 DEF SameCreator
<1>2. ASSUME NEW c, NEW olds, NEW new, NEW f, Putting(c, olds, new, f)
      PROVE  /\ Written \subseteq Written'
             /\ \A g \in Written' \ Written : link'[g].replaced_by = None
             /\ \A g \in Written :
                  \/ link'[g] = link[g]
                  \/ LET r == link'[g].replaced_by
                     IN /\ link[g].replaced_by = None
                        /\ link'[g] = [link[g] EXCEPT !.replaced_by = r]
                        /\ r \in Written'
                        /\ r = g \/ link'[r].replaced_by = None
                        /\ link'[r].type = link[g].type
                        /\ SameCreator(link'[r], link[g])
  <2>1. Growing
    BY StepCases
  <2>2. /\ Written' = Written \cup {new} \cup {f[d] : d \in Waiting(c)}
        /\ link'[new] = c /\ c.replaced_by = None /\ new \notin Written
        /\ \A g \in Written \ (olds \cup Waiting(c)) : link'[g] = link[g]
    BY <1>2 DEF Putting, PutFacts, Ready, Fresh
  <2>3. ASSUME NEW d \in Waiting(c)
        PROVE  LET a == Attach(link[d], c.from)
               IN /\ c.type = Id
                  /\ a.type = link[d].type /\ a.creator = link[d].creator
                  /\ a.type \in LinkTypes /\ a.complete /\ a.replaced_by = None
                  /\ d \in Written /\ link[d].replaced_by = None
                  /\ link[d] \in Link
    <3>1. LET a == Attach(link[d], c.from)
          IN /\ c.type = Id
             /\ a.type = link[d].type /\ a.creator = link[d].creator
             /\ a.type \in LinkTypes /\ a.complete /\ a.replaced_by = None
      BY <1>2, <2>1, PutRecords DEF Putting, Growing
    <3>2. d \in Written /\ link[d].replaced_by = None
      BY DEF Waiting, Danglers, Live, Current
    <3> QED
      BY <3>1, <3>2, RecordFacts
  <2>4. ASSUME NEW g \in Written' \ Written PROVE link'[g].replaced_by = None
    <3>1. CASE g = new
      BY <2>2, <3>1
    <3>2. CASE g # new
      <4>1. PICK d \in Waiting(c) : g = f[d]
        BY <2>2, <3>2
      <4>2. f[d] \notin Written
        BY <2>4, <4>1
      <4> QED
        BY <1>2, <2>1, <4>1, <4>2, PutCompleted DEF Putting, Growing
    <3> QED
      BY <3>1, <3>2
  <2>5. ASSUME NEW g \in olds
        PROVE  LET r == link'[g].replaced_by
               IN /\ link[g].replaced_by = None
                  /\ link'[g] = [link[g] EXCEPT !.replaced_by = r]
                  /\ r \in Written'
                  /\ r = g \/ link'[r].replaced_by = None
                  /\ link'[r].type = link[g].type
                  /\ SameCreator(link'[r], link[g])
    <3>1. /\ link'[g] = [link[g] EXCEPT !.replaced_by = new]
          /\ link[g].replaced_by = None /\ g \in Written
          /\ link[g].type = c.type /\ SameCreator(link[g], c)
      BY <1>2 DEF Putting, PutFacts, Replaceable, Current
    <3>2. link'[g].replaced_by = new
      BY <3>1, RecordFacts DEF Link
    <3> QED
      BY <2>2, <3>1, <3>2 DEF SameCreator
  <2>6. ASSUME NEW d \in Waiting(c) \ olds
        PROVE  LET r == link'[d].replaced_by
               IN /\ link[d].replaced_by = None
                  /\ link'[d] = [link[d] EXCEPT !.replaced_by = r]
                  /\ r \in Written'
                  /\ r = d \/ link'[r].replaced_by = None
                  /\ link'[r].type = link[d].type
                  /\ SameCreator(link'[r], link[d])
    <3>1. link'[d] = [link[d] EXCEPT !.replaced_by = f[d]]
      BY <1>2 DEF Putting, PutFacts
    <3>2. link'[d].replaced_by = f[d]
      BY <2>3, <3>1 DEF Link
    <3>3. f[d] \in Written'
      BY <2>2
    <3>4. CASE f[d] \notin Written
      <4>1. LET a == link'[f[d]]
            IN /\ a.type = link[d].type /\ SameCreator(a, link[d])
               /\ a.replaced_by = None
        BY <1>2, <2>1, <3>4, PutCompleted DEF Putting, Growing
      <4> QED
        BY <2>3, <3>1, <3>2, <3>3, <4>1
    <3>5. CASE f[d] \in Written
      <4>1. f[d] \in Existing(Attach(link[d], c.from))
        BY <1>2, <3>5 DEF Putting, PutFacts
      <4>2. /\ link[f[d]].replaced_by = None
            /\ link[f[d]].type = link[d].type /\ SameCreator(link[f[d]], link[d])
            /\ link[f[d]].type \in LinkTypes
            /\ link[f[d]].from = Attach(link[d], c.from).from
            /\ link[f[d]].to = Attach(link[d], c.from).to
        BY <2>3, <4>1 DEF Existing, SameKey, SameCreator, Current
      <4>3. f[d] \notin olds
        BY <1>2, <2>3, <4>2, TypesAssumption DEF Putting, Replaceable
      <4>4. f[d] \notin Waiting(c)
        <5>1. Shape(Attach(link[d], c.from))
          BY <1>2, <2>1, PutRecords DEF Putting, Growing
        <5>2. link[f[d]].from # None /\ link[f[d]].to # None
          BY <2>3, <4>2, <5>1, TypesAssumption DEF Shape
        <5>3. link[f[d]].complete
          BY <3>5, <4>2, <5>2, TypesAssumption, RecordFacts DEF Shape
        <5> QED
          BY <5>3 DEF Waiting, Danglers
      <4>5. link'[f[d]] = link[f[d]]
        BY <2>2, <3>5, <4>3, <4>4
      <4> QED
        BY <2>3, <3>1, <3>2, <3>3, <4>2, <4>5
    <3> QED
      BY <3>4, <3>5
  <2> QED
    BY <2>2, <2>4, <2>5, <2>6
<1> QED
  BY <1>1, <1>2, StepCases

(* A written record is changed once at most, by being replaced, and is     *)
(* never lost: prop.update's check of replaced_by and the one assignment   *)
(* of update_property are all that touches it.                             *)
THEOREM HistoryIsKept == Spec => HistoryKept
<1>1. TypeOK /\ [Next]_vars =>
        [\A g \in Written :
           /\ g \in Written'
           /\ \/ link'[g] = link[g]
              \/ /\ link[g].replaced_by = None
                 /\ link'[g] = [link[g] EXCEPT !.replaced_by = link'[g].replaced_by]]_vars
  <2>1. ASSUME TypeOK, Next, NEW g \in Written
        PROVE  /\ g \in Written'
               /\ \/ link'[g] = link[g]
                  \/ /\ link[g].replaced_by = None
                     /\ link'[g] = [link[g] EXCEPT !.replaced_by = link'[g].replaced_by]
    BY <2>1, HistoryStep
  <2> QED
    BY <2>1
<1> QED
  BY <1>1, TypeCorrect, PTL DEF Spec, HistoryKept

LEMMA VersionsAgreeStep ==
  ASSUME TypeOK, VersionsAgree, Next
  PROVE  VersionsAgree'
<1>1. /\ Written \subseteq Written'
      /\ \A g \in Written' \ Written : link'[g].replaced_by = None
  BY HistoryStep
<1>2. \A g \in Written : link'[g].type = link[g].type /\ link'[g].creator = link[g].creator
  <2> SUFFICES ASSUME NEW g \in Written
               PROVE  link'[g].type = link[g].type /\ link'[g].creator = link[g].creator
    OBVIOUS
  <2>1. CASE link'[g] = link[g]
    BY <2>1
  <2>2. CASE link'[g] = [link[g] EXCEPT !.replaced_by = link'[g].replaced_by]
    BY <2>2, RecordFacts DEF Link
  <2> QED
    BY <2>1, <2>2, HistoryStep
<1>3. ASSUME NEW g \in Written', link'[g].replaced_by # None
      PROVE  LET r == link'[g].replaced_by
             IN /\ r \in Written'
                /\ link'[r].type = link'[g].type
                /\ SameCreator(link'[r], link'[g])
  <2>1. g \in Written
    BY <1>1, <1>3
  <2>2. CASE link'[g] = link[g]
    <3>1. LET r == link[g].replaced_by
          IN r \in Written /\ link[r].type = link[g].type /\ SameCreator(link[r], link[g])
      BY <1>3, <2>1, <2>2 DEF VersionsAgree
    <3> QED
      BY <1>1, <1>2, <2>1, <2>2, <3>1 DEF SameCreator
  <2>3. CASE link'[g] # link[g]
    BY <1>2, <2>1, <2>3, HistoryStep DEF SameCreator
  <2> QED
    BY <2>2, <2>3
<1> QED
  BY <1>3 DEF VersionsAgree, SameCreator

(* Every version is followed by a version of the same type and of the same *)
(* creator but for case.                                                   *)
THEOREM VersionsStayTogether == Spec => []VersionsAgree
<1>1. Init => VersionsAgree
  BY DEF Init, VersionsAgree, Written
<1>2. TypeOK /\ VersionsAgree /\ [Next]_vars => VersionsAgree'
  <2>1. TypeOK /\ VersionsAgree /\ UNCHANGED vars => VersionsAgree'
    BY DEF vars, VersionsAgree, SameCreator, Written
  <2> QED
    BY <2>1, VersionsAgreeStep
<1> QED
  BY <1>1, <1>2, TypeCorrect, PTL DEF Spec

(* A step replaces versions only by ones current after it, so it closes no *)
(* circle but that of a version replaced by itself.                        *)
LEMMA ChainsEndStep ==
  ASSUME TypeOK, ChainsEnd, Next
  PROVE  ChainsEnd'
<1>1. ASSUME NEW S \in SUBSET Written', S # {},
             \A g \in S : link'[g].replaced_by \in S
      PROVE  \E g \in S : link'[g].replaced_by = g
  <2>1. Written' \subseteq Guids
    BY StepCases, MergeType, PutType, NextNormal DEF TypeOK
  <2>2. None \notin S
    BY <1>1, <2>1, NoneAssumption
  <2>3. S \subseteq Written
    BY <1>1, <2>2, HistoryStep
  <2>4. CASE \A g \in S : link'[g] = link[g]
    <3>1. PICK g \in S : link[g].replaced_by = g
      BY <1>1, <2>3, <2>4 DEF ChainsEnd
    <3> QED
      BY <2>4, <3>1
  <2>5. CASE \E g \in S : link'[g] # link[g]
    <3>1. PICK g \in S : link'[g] # link[g]
      BY <2>5
    <3>2. link'[g].replaced_by = g \/ link'[link'[g].replaced_by].replaced_by = None
      BY <2>3, <3>1, HistoryStep
    <3> QED
      BY <1>1, <2>2, <3>2
  <2> QED
    BY <2>4, <2>5
<1> QED
  BY <1>1 DEF ChainsEnd

(* The versions of a property form no circle, however often it is updated, *)
(* deleted, undeleted and merged: a chain of replaced_by ends in a current *)
(* version or in one that replaced itself.                                 *)
THEOREM HistoryEnds == Spec => []ChainsEnd
<1>1. Init => ChainsEnd
  BY DEF Init, ChainsEnd, Written
<1>2. TypeOK /\ ChainsEnd /\ [Next]_vars => ChainsEnd'
  <2>1. TypeOK /\ ChainsEnd /\ UNCHANGED vars => ChainsEnd'
    BY DEF vars, ChainsEnd, Written
  <2> QED
    BY <2>1, ChainsEndStep
<1> QED
  BY <1>1, <1>2, TypeCorrect, PTL DEF Spec
------------------------------------------------------------------------------
(* A new entity takes up what waited for its ID *)

(* Completed links that say the same differ in their creators' case alone. *)
LEMMA CompletedAlike ==
  ASSUME NEW a \in Link, Shape(a), a.complete, a.alive, a.type \in LinkTypes, a.replaced_by = None,
         NEW l \in Link, Shape(l), l.complete, l.alive, l.replaced_by = None, SameKey(l, a)
  PROVE  AlikeButCase(l, a)
<1>1. /\ l.type = a.type /\ l.from = a.from /\ l.to = a.to /\ SameCreator(l, a)
      /\ l.value = a.value
  BY TypesAssumption DEF SameKey, Shape
<1>2. [l EXCEPT !.creator = a.creator] = a
  BY <1>1 DEF Link
<1> QED
  BY <1>1, <1>2 DEF AlikeButCase

(* What is found in place of a completed link says the same. *)
LEMMA FoundIsCompletion ==
  ASSUME TypeOK, NEW a \in Link, Shape(a), a.complete, a.alive,
         a.type \in LinkTypes, a.replaced_by = None, NEW g \in Existing(a)
  PROVE  g \in Live /\ link[g].complete /\ AlikeButCase(link[g], a)
<1>1. /\ g \in Written /\ link[g].replaced_by = None /\ link[g].alive
      /\ SameKey(link[g], a)
  BY DEF Existing, Current
<1>2. link[g] \in Link /\ Shape(link[g])
  BY <1>1, RecordFacts
<1>3. a.type \notin Literals /\ a.from # None /\ a.to # None /\ a.value = None
  BY TypesAssumption DEF Shape
<1>4. /\ link[g].type = a.type /\ link[g].from = a.from /\ link[g].to = a.to
  BY <1>1 DEF SameKey
<1>5. link[g].complete
  BY <1>2, <1>3, <1>4 DEF Shape, Link
<1>6. AlikeButCase(link[g], a)
  BY <1>1, <1>2, <1>5, CompletedAlike
<1> QED
  BY <1>1, <1>5, <1>6 DEF Live, Current

LEMMA CompletionStep ==
  ASSUME TypeOK, NEW e \in Entities, NEW v \in Values, NEW u \in Users,
         CreateEntity(e, v, u), NEW d \in Live, ~link[d].complete
  PROVE  \/ d \in Live'
         \/ \E g \in Live', x \in Owners(link[d].value)' :
               AlikeButCase(link'[g], Attach(link[d], x))
<1>1. /\ entities \subseteq entities' /\ entities' \subseteq Entities
      /\ e \in entities'
  BY DEF CreateEntity, TypeOK
<1> PICK c \in Resolved(Candidate(Id, e, None, v, u, TRUE)) : Write(c, {})
  BY DEF CreateEntity
<1>2. c = [Candidate(Id, e, None, v, u, TRUE) EXCEPT !.complete = TRUE]
  BY TypesAssumption DEF Resolved, Candidate
<1>3. /\ c \in Link /\ Ready(c) /\ Within(c, entities')
      /\ c.type = Id /\ c.alive /\ c.from = e /\ c.replaced_by = None
  BY <1>1, <1>2, NoneAssumption, TypesAssumption
     DEF Candidate, Link, PropTypes, Ready, Shape, Within
<1> PICK new, f : PutFacts(c, {}, new, f)
  BY <1>3, PutEffect
<1>4. /\ d \in Written /\ link[d].alive /\ link[d].replaced_by = None
      /\ Written \subseteq Written' /\ new \in Written' /\ link'[new] = c
  BY DEF Live, Current, PutFacts
<1>5. CASE d \notin Waiting(c)
  <2>1. link'[d] = link[d]
    BY <1>4, <1>5 DEF PutFacts
  <2> QED
    BY <1>4, <2>1 DEF Live, Current
<1>6. CASE d \in Waiting(c)
  <2> DEFINE a == Attach(link[d], e)
  <2>1. /\ a \in Link /\ Shape(a) /\ a.complete /\ a.alive
        /\ a.replaced_by = None /\ a.type \in LinkTypes
    BY <1>1, <1>3, <1>6, PutRecords DEF Replaceable
  <2>2. f[d] \in Live' /\ AlikeButCase(link'[f[d]], a)
    <3>1. CASE f[d] \notin Written
      <4>1. f[d] \in Written'
        BY <1>6 DEF PutFacts
      <4>2. LET w == link'[f[d]]
            IN /\ w \in Link /\ Shape(w) /\ w.complete /\ w.alive /\ w.replaced_by = None
               /\ SameKey(w, a)
        BY <1>1, <1>3, <1>6, <3>1, PutCompleted
      <4>3. AlikeButCase(link'[f[d]], a)
        BY <2>1, <4>2, CompletedAlike
      <4> QED
        BY <4>1, <4>2, <4>3 DEF Live, Current
    <3>2. CASE f[d] \in Written
      <4>1. f[d] \in Existing(a)
        BY <1>3, <1>6, <3>2 DEF PutFacts
      <4>2. f[d] \in Live /\ link[f[d]].complete /\ AlikeButCase(link[f[d]], a)
        BY <2>1, <4>1, FoundIsCompletion
      <4>3. f[d] \notin Waiting(c)
        BY <2>1, <4>2 DEF PutFacts
      <4>4. link'[f[d]] = link[f[d]]
        BY <3>2, <4>3 DEF PutFacts
      <4> QED
        BY <1>4, <3>2, <4>2, <4>4 DEF Live, Current
    <3> QED
      BY <3>1, <3>2
  <2>3. SameValue(c.value, link[d].value)
    BY <1>3, <1>6, SameValueEquivalence DEF Waiting, Danglers
  <2>4. new \in Live' /\ link'[new].type = Id /\ link'[new].from = e
        /\ SameValue(link'[new].value, link[d].value)
    BY <1>3, <1>4, <2>3 DEF Live, Current
  <2>5. link'[d].value = link[d].value
    <3>1. link'[d] = [link[d] EXCEPT !.replaced_by = f[d]]
      BY <1>6 DEF PutFacts
    <3> QED
      BY <1>4, <3>1, RecordFacts DEF Link
  <2>6. e \in Owners(link[d].value)'
    BY <2>4, <2>5 DEF Owners, Holders, SameValue
  <2> QED
    BY <2>2, <2>6
<1> QED
  BY <1>5, <1>6

(* Whatever waited for the ID of a new entity is completed to it, or found     *)
(* completed already, and nothing else is touched: the loop of                *)
(* complete_property (lridb.py 902-934) loses no link.                        *)
THEOREM CompletionIsWhole == Spec => CompletionLosesNoLink
<1>1. TypeOK /\ [Next]_vars =>
        [entities' # entities => \A d \in Live :
           ~link[d].complete =>
             \/ d \in Live'
             \/ \E g \in Live', e \in Owners(link[d].value)' :
                  AlikeButCase(link'[g], Attach(link[d], e))]_vars
  <2> SUFFICES ASSUME TypeOK, Next, entities' # entities, NEW d \in Live, ~link[d].complete
               PROVE  \/ d \in Live'
                      \/ \E g \in Live', e \in Owners(link[d].value)' :
                           AlikeButCase(link'[g], Attach(link[d], e))
    OBVIOUS
  <2>0. Next /\ ~UNCHANGED entities
    OBVIOUS
  <2>1. \E e \in Entities, v \in Values, u \in Users : CreateEntity(e, v, u)
    <3>1. /\ \A t, e, v, u, a : CreateLiteral(t, e, v, u, a) => UNCHANGED entities
          /\ \A t, e, x, v, u, a, r : CreateLink(t, e, x, v, u, a, r) => UNCHANGED entities
      <4>1. ASSUME NEW t, NEW e, NEW v, NEW u, NEW a, CreateLiteral(t, e, v, u, a)
            PROVE  UNCHANGED entities
        BY ONLY <4>1 DEF CreateLiteral
      <4>2. ASSUME NEW t, NEW e, NEW x, NEW v, NEW u, NEW a, NEW r,
                   CreateLink(t, e, x, v, u, a, r)
            PROVE  UNCHANGED entities
        BY ONLY <4>2 DEF CreateLink
      <4> QED
        BY <4>1, <4>2
    <3>2. \A p, e, x, v, a :
            /\ UpdateValue(p, e, v, a) => UNCHANGED entities
            /\ UpdateTarget(p, e, x, a) => UNCHANGED entities
            /\ UpdateState(p, e, a) => UNCHANGED entities
      BY DEF UpdateValue, UpdateTarget, UpdateState
    <3> QED
      BY <2>0, <3>1, <3>2 DEF Next, Create, Update
  <2> QED
    BY <2>1, CompletionStep
<1> QED
  BY <1>1, TypeCorrect, PTL DEF Spec, CompletionLosesNoLink

------------------------------------------------------------------------------
(* The registry of IDs *)

(* The living current property that gives the ID k. *)
Names(g, k) == g \in Live /\ link[g].type = Id /\ Fold[link[g].value] = k

(* The owner of an ID is the entity of the property that gives it. *)
OwnerNamed ==
  /\ \A k \in Keys : (\A g : ~Names(g, k)) => ownerOf[k] = None
  /\ ownerOf = [k \in Keys |-> ownerOf[k]]
  /\ \A k, g, h : Names(g, k) /\ Names(h, k) => g = h
  /\ \A k \in Keys : \A g : Names(g, k) =>
       ownerOf[k] = link[g].from /\ link[g].from \in Entities /\ link[g].value \in Values
  /\ \A g \in Live : link[g].type = Id =>
       Names(g, Fold[link[g].value]) /\ Fold[link[g].value] \in Keys

LEMMA OwnerIs == TypeOK /\ IdUnique => OwnerNamed
<1> SUFFICES ASSUME TypeOK, IdUnique PROVE OwnerNamed
  OBVIOUS
<1>1. ASSUME NEW g \in Live, link[g].type = Id
      PROVE  link[g].from \in Entities /\ link[g].value \in Values
  <2>1. link[g] \in Link /\ Shape(link[g])
    BY RecordFacts DEF Live, Current
  <2> QED
    BY <1>1, <2>1, TypesAssumption DEF Link, Shape
<1>2. ASSUME NEW k, NEW g, NEW h, Names(g, k), Names(h, k)
      PROVE  g = h
  <2>1. SameValue(link[g].value, link[h].value)
    BY <1>1, <1>2 DEF Names, SameValue
  <2> QED
    BY <1>2, <2>1 DEF Names, IdUnique
<1>3. \A k \in Keys : ownerOf[k] =
        IF \E g : Names(g, k)
        THEN link[CHOOSE g \in Live : link[g].type = Id /\ Fold[link[g].value] = k].from
        ELSE None
  BY DEF ownerOf, Names
<1>4. ASSUME NEW k \in Keys, NEW g, Names(g, k)
      PROVE  ownerOf[k] = link[g].from
  <2> DEFINE h == CHOOSE x \in Live : link[x].type = Id /\ Fold[link[x].value] = k
  <2>1. Names(h, k)
    BY <1>4 DEF Names
  <2>2. ownerOf[k] = link[h].from
    BY <1>3, <1>4
  <2> HIDE DEF h
  <2> QED
    BY <1>2, <1>4, <2>1, <2>2
<1> QED
  <2>1. ownerOf = [k \in Keys |-> ownerOf[k]]
    BY DEF ownerOf
  <2>2. \A k \in Keys : (\A g : ~Names(g, k)) => ownerOf[k] = None
    BY <1>3
  <2> QED
    BY <1>1, <1>2, <1>4, <2>1, <2>2 DEF Names, Keys, OwnerNamed

LEMMA OwnerIsNext == TypeOK' /\ IdUnique' => OwnerNamed'
BY OwnerIs, PTL

(* A step that drops at most one name and gives at most one, free before, is   *)
(* one of the registry's.                                                     *)
Renaming(gone, new, taken) ==
  /\ \A p, q \in gone : p = q
  /\ taken \subseteq Keys /\ \A j, k \in taken : j = k
  /\ \A k \in Keys : \A g :
       Names(g, k)' <=> (Names(g, k) /\ g \notin gone) \/ (g = new /\ k \in taken)
  /\ \A k \in Keys : \A g :
       Names(g, k) /\ g \notin gone => link'[g].from = link[g].from
  /\ \A k \in taken : ownerOf[k] = None /\ link'[new].from \in Entities

LEMMA RegistryMoves ==
  ASSUME OwnerNamed, OwnerNamed', NEW gone, NEW new, NEW taken, Renaming(gone, new, taken)
  PROVE  [Registry!RegistryNext]_ownerOf
<1>0. /\ \A p, q \in gone : p = q
      /\ taken \subseteq Keys /\ \A j, k \in taken : j = k
      /\ \A k \in Keys : \A g :
           Names(g, k)' <=> (Names(g, k) /\ g \notin gone) \/ (g = new /\ k \in taken)
      /\ \A k \in Keys : \A g :
           Names(g, k) /\ g \notin gone => link'[g].from = link[g].from
      /\ \A k \in taken : ownerOf[k] = None /\ link'[new].from \in Entities
  BY DEF Renaming
<1> USE <1>0
<1> DEFINE lost == {k \in Keys : \E g \in gone : Names(g, k)}
           e == link'[new].from
<1>1. \A j, k \in lost : j = k
  BY DEF Names
<1>2. \A k \in lost : ownerOf[k] # None
  BY NoneAssumption DEF OwnerNamed
<1>3. ASSUME NEW k \in taken
      PROVE  ownerOf'[k] = e
  <2>1. Names(new, k)'
    OBVIOUS
  <2> QED
    BY <2>1 DEF OwnerNamed
<1>4. ASSUME NEW k \in lost \ taken
      PROVE  ownerOf'[k] = None
  <2>1. \A g : ~Names(g, k)'
    BY DEF OwnerNamed
  <2> QED
    BY <2>1 DEF OwnerNamed
<1>5. ASSUME NEW k \in Keys \ (lost \cup taken)
      PROVE  ownerOf'[k] = ownerOf[k]
  <2>1. CASE \E g : Names(g, k)
    <3>1. PICK g : Names(g, k)
      BY <2>1
    <3>2. g \notin gone /\ Names(g, k)' /\ link'[g].from = link[g].from
      BY <3>1
    <3> QED
      BY <3>1, <3>2 DEF OwnerNamed
  <2>2. CASE \A g : ~Names(g, k)
    <3>1. \A g : ~Names(g, k)'
      BY <2>2
    <3> QED
      BY <2>2, <3>1 DEF OwnerNamed
  <2> QED
    BY <2>1, <2>2
<1>6. ownerOf = [k \in Keys |-> ownerOf[k]] /\ ownerOf' = [k \in Keys |-> ownerOf'[k]]
  BY DEF OwnerNamed
<1>7. \A k \in Keys : ownerOf'[k] =
        IF k \in taken THEN e ELSE IF k \in lost THEN None ELSE ownerOf[k]
  BY <1>3, <1>4, <1>5
<1> HIDE DEF lost, e
<1>8. CASE lost = {} /\ taken = {}
  <2>1. ownerOf' = ownerOf
    BY <1>6, <1>7, <1>8
  <2> QED
    BY <2>1
<1>9. ASSUME NEW j \in lost, taken = {}
      PROVE  Registry!Release(j)
  <2>1. lost = {j} /\ j \in Keys
    BY <1>1 DEF lost
  <2>2. ownerOf' = [ownerOf EXCEPT ![j] = None]
    BY <1>6, <1>7, <1>9, <2>1
  <2> QED
    BY <1>2, <2>2 DEF Registry!Release
<1>10. ASSUME lost = {}, NEW k \in taken
       PROVE  Registry!Claim(e, k)
  <2>1. taken = {k}
    OBVIOUS
  <2>2. ownerOf' = [ownerOf EXCEPT ![k] = e]
    BY <1>6, <1>7, <1>10, <2>1
  <2> QED
    BY <2>2 DEF Registry!Claim
<1>11. ASSUME NEW j \in lost, NEW k \in taken
       PROVE  Registry!Rename(j, e, k)
  <2>1. lost = {j} /\ taken = {k} /\ j \in Keys /\ j # k
    BY <1>1, <1>2 DEF lost
  <2>2. ownerOf' = [ownerOf EXCEPT ![j] = None, ![k] = e]
    BY <1>6, <1>7, <2>1
  <2> QED
    BY <1>2, <2>2 DEF Registry!Rename
<1>12. lost \subseteq Keys /\ (taken # {} => e \in Entities)
  BY DEF lost, e
<1> QED
  BY <1>8, <1>9, <1>10, <1>11, <1>12 DEF Registry!RegistryNext

LEMMA RegistryStep ==
  ASSUME TypeOK, IdUnique, TypeOK', IdUnique', Next
  PROVE  [Registry!RegistryNext]_ownerOf
<1>1. OwnerNamed /\ OwnerNamed'
  BY OwnerIs, OwnerIsNext
<1>2. CASE Merge
  <2> PICK p \in Current, q \in Current : link' = [link EXCEPT ![p].replaced_by = q]
    BY <1>2 DEF Merge
  <2>1. /\ Written' = Written /\ p \in Written /\ q \in Written
        /\ link'[p] = [link[p] EXCEPT !.replaced_by = q]
        /\ \A h \in Written \ {p} : link'[h] = link[h]
        /\ \A h \in Live' : h \in Live /\ link'[h] = link[h]
    BY MergeEffect
  <2>2. link'[p].replaced_by # None
    BY <2>1, RecordFacts, NoneAssumption DEF Link
  <2>3. \A h : h \in Live' <=> h \in Live \ {p}
    BY <2>1, <2>2 DEF Live, Current
  <2>4. \A k \in Keys : \A g : Names(g, k)' <=> (Names(g, k) /\ g \notin {p})
    BY <2>1, <2>3 DEF Names, Live, Current
  <2>5. \A k \in Keys : \A g : Names(g, k) /\ g \notin {p} => link'[g].from = link[g].from
    BY <2>1 DEF Names, Live, Current
  <2>6. \A k \in {} : ownerOf[k] = None /\ link'[p].from \in Entities
    OBVIOUS
  <2>7. Renaming({p}, p, {})
    BY <2>4, <2>5, <2>6 DEF Renaming
  <2> QED
    BY <1>1, <2>7, RegistryMoves
<1>3. ASSUME NEW c, NEW olds, NEW new, NEW f, Putting(c, olds, new, f)
      PROVE  [Registry!RegistryNext]_ownerOf
  <2> DEFINE taken == {k \in Keys : c.alive /\ c.type = Id /\ Fold[c.value] = k}
  <2>1. Growing
    BY StepCases
  <2>2. ASSUME NEW k \in Keys, NEW g, Names(g, k), g \notin olds
        PROVE  link'[g] = link[g] /\ Names(g, k)'
    <3>1. g \in Written /\ g \in Live /\ link[g].type = Id /\ Shape(link[g])
      BY <2>2, RecordFacts DEF Names, Live, Current
    <3>2. g \notin Waiting(c)
      BY <3>1, TypesAssumption DEF Waiting, Danglers, Shape
    <3>3. link'[g] = link[g] /\ g \in Written'
      BY <1>3, <2>2, <3>1, <3>2 DEF Putting, PutFacts
    <3> QED
      BY <2>2, <3>1, <3>3 DEF Names, Live, Current
  <2>3. ASSUME NEW k \in taken
        PROVE  ownerOf[k] = None /\ link'[new].from \in Entities /\ Names(new, k)'
    <3>1. c.alive /\ c.type = Id /\ Fold[c.value] = k /\ c.value \in Values
          /\ c.from \in Entities /\ c.replaced_by = None
      BY <1>3, TypesAssumption DEF Putting, Ready, Shape, Link
    <3>2. link'[new] = c /\ new \in Written' /\ Existing(c) = {} /\ IdFree(c)
      BY <1>3, <3>1 DEF Putting, PutFacts
    <3>3. ASSUME NEW g, Names(g, k) PROVE FALSE
      <4>1. g \in Live /\ link[g].type = Id /\ link[g].value \in Values /\ Shape(link[g])
        BY <1>1, <3>3, RecordFacts DEF OwnerNamed, Names, Live, Current
      <4>2. g \in Holders(c.value)
        BY <3>1, <3>3, <4>1 DEF Holders, SameValue, Names
      <4> QED
        BY <3>2, <4>1, <4>2, TypesAssumption DEF IdFree, Shape
    <3>4. ownerOf[k] = None
      BY <1>1, <3>3 DEF OwnerNamed
    <3> QED
      BY <3>1, <3>2, <3>4 DEF Names, Live, Current
  <2>4. ASSUME NEW k \in Keys, NEW g, Names(g, k)'
        PROVE  (Names(g, k) /\ g \notin olds) \/ (g = new /\ k \in taken)
    <3>1. g \in Live' /\ link'[g].type = Id /\ Fold[link'[g].value] = k
      BY <2>4 DEF Names
    <3>2. \/ g = new /\ c.alive /\ link'[g] = c
          \/ g \in Live \ olds /\ link'[g] = link[g]
      BY <1>3, <2>1, <3>1, PuttingLive
    <3> QED
      BY <3>1, <3>2 DEF Names
  <2>5. \A k \in Keys : \A g :
          Names(g, k)' <=> (Names(g, k) /\ g \notin olds) \/ (g = new /\ k \in taken)
    BY <2>2, <2>3, <2>4
  <2>6. \A k \in Keys : \A g :
          Names(g, k) /\ g \notin olds => link'[g].from = link[g].from
    BY <2>2
  <2>7. /\ \A p, q \in olds : p = q
        /\ \A j, k \in taken : j = k
        /\ taken \in SUBSET Keys
        /\ \A k \in taken : ownerOf[k] = None /\ link'[new].from \in Entities
    BY <1>3, <2>3 DEF Putting
  <2> HIDE DEF taken
  <2>8. Renaming(olds, new, taken)
    BY <2>5, <2>6, <2>7, Zenon DEF Renaming
  <2> QED
    BY <1>1, <2>8, RegistryMoves
<1> QED
  BY <1>2, <1>3, StepCases

(* The store keeps the promise of IdRegistry: an ID passes to an entity only   *)
(* while nobody has it, and never straight from one entity to another,        *)
(* whatever the request (lridb.py 126-208, 244-251).                          *)
THEOREM StoreKeepsRegistry == Spec => KeepsRegistry
<1>1. Init => Registry!RegistryInit
  <2> SUFFICES ASSUME Init PROVE Registry!RegistryInit
    OBVIOUS
  <2>1. Live = {}
    BY DEF Init, Live, Current, Written
  <2> QED
    BY <2>1 DEF Registry!RegistryInit, ownerOf
<1>2. TypeOK /\ IdUnique /\ TypeOK' /\ IdUnique' /\ [Next]_vars =>
        [Registry!RegistryNext]_ownerOf
  <2> SUFFICES ASSUME TypeOK, IdUnique, TypeOK', IdUnique', [Next]_vars
               PROVE  [Registry!RegistryNext]_ownerOf
    OBVIOUS
  <2>1. CASE Next
    BY <2>1, RegistryStep
  <2>2. CASE UNCHANGED vars
    BY <2>2 DEF vars, ownerOf, Live, Current, Written
  <2> QED
    BY <2>1, <2>2
<1> QED
  BY <1>1, <1>2, TypeCorrect, IdsAreUnique, PTL
     DEF Spec, KeepsRegistry, Registry!RegistrySpec
==============================================================================
