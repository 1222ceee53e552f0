------------------------------ MODULE PropStore ------------------------------
(***************************************************************************)
(* The property store of lri-b (src/lri-b/lridb.py, prop.py, neorest.py,   *)
(* entity.py) as one request after another sees it.                        *)
(*                                                                         *)
(* An entity is a node; everything known of it is a property, kept as a    *)
(* relationship of the graph database: a literal carries a value, a link   *)
(* joins two entities.  A link may name its far end by an ID nobody has    *)
(* yet (it dangles) and is completed when an entity receives that ID.      *)
(* A property is never changed: an update writes a new version and points  *)
(* the old one at it (replaced_by); a deletion is a new version that is    *)
(* not alive.                                                              *)
(*                                                                         *)
(* One action is one write request that succeeds; a request that is        *)
(* refused changes nothing.                                                *)
(***************************************************************************)
EXTENDS FiniteSets

CONSTANTS Entities,       \* guids that nodes may get
          Guids,          \* guids that properties may get; bounds the writes
          Values,         \* literal values and IDs, as written
          Fold,           \* Fold[v]: v as the index stores it, in lower case
          Users,          \* creators, as written
          FoldUser,       \* FoldUser[u]: u as the index stores it, in lower case
          Literals,       \* property types whose range is a data type
          LinkTypes,      \* property types whose range is an entity type
          Id,             \* the literal urn:lri:property_type:id
          UniqueForward,  \* property types with is_unique
          UniqueReverse,  \* property types whose reverse has is_unique
          None            \* an absent field

PropTypes == Literals \cup LinkTypes

ASSUME FoldAssumption == Fold \in [Values -> Values] /\ FoldUser \in [Users -> Users]
ASSUME TypesAssumption == /\ Id \in Literals
                          /\ Literals \cap LinkTypes = {}
                          /\ UniqueForward \cup UniqueReverse \subseteq PropTypes
ASSUME NoneAssumption == None \notin Entities \cup Guids \cup Values

VARIABLES entities,       \* the nodes created
          link            \* the properties written, by guid

vars == <<entities, link>>

Link == [type : PropTypes, from : Entities \cup {None},
         to : Entities \cup {None}, value : Values \cup {None},
         creator : Users, alive : BOOLEAN, complete : BOOLEAN,
         replaced_by : Guids \cup {None}]

Written == DOMAIN link
Fresh == Guids \ Written

------------------------------------------------------------------------------
(* Searching *)

(* The index keeps and compares lower-cased values. *)
SameValue(v, w) == v = w \/ ({v, w} \subseteq Values /\ Fold[v] = Fold[w])
SameCreator(l, c) == FoldUser[l.creator] = FoldUser[c.creator]

(* Mutant: the search does not ask for the latest version. *)
AnyVersion == Written

(* A search without other instructions sees the latest versions that live. *)
Current == {g \in Written : link[g].replaced_by = None}
Live == {g \in Current : link[g].alive}

(* Mutant: the creator is left out of the search. *)
SameKeyAnyCreator(l, c) == /\ l.type = c.type
                           /\ l.from = c.from
                           /\ l.to = c.to
                           /\ SameValue(l.value, c.value)

(* Mutant: the resolved target is left out of the search. *)
SameKeyAnyTarget(l, c) == /\ l.type = c.type
                          /\ l.from = c.from
                          /\ SameCreator(l, c)
                          /\ SameValue(l.value, c.value)

SameKey(l, c) == /\ l.type = c.type
                 /\ l.from = c.from
                 /\ l.to = c.to
                 /\ SameCreator(l, c)
                 /\ SameValue(l.value, c.value)

(* Mutant: links are not searched for. *)
ExistingLiteral(c) ==
  {g \in Current : /\ c.type \in Literals
                   /\ SameKey(link[g], c)
                   /\ link[g].alive = c.alive}

(* create_property's "existing": an alive literal is looked for among the  *)
(* living, a dead one among the dead, a link always among the living; the  *)
(* search for a dangling link resolves its ID, fails, and finds nothing.   *)
Existing(c) ==
  {g \in Current : /\ c.complete
                   /\ SameKey(link[g], c)
                   /\ link[g].alive = (c.alive \/ c.type \in LinkTypes)}

(* The ID properties that answer to v, and the entities they are of. *)
Holders(v) == {g \in Live : link[g].type = Id /\ SameValue(link[g].value, v)}
Owners(v) == {link[g].from : g \in Holders(v)}

(* The links waiting for an entity called v. *)
Danglers(v) == {g \in Live : ~link[g].complete /\ SameValue(link[g].value, v)}

(* Mutant: the ID is compared as written. *)
IdFreeExact(c) == \/ Existing(c) # {}
                  \/ \A g \in Holders(c.value) : link[g].value # c.value

(* Mutant: the check is made for an entity's first ID only. *)
IdFreeUnlessOld(c) == \/ \E g \in Current : link[g].from = c.from /\ link[g].type = Id
                      \/ Holders(c.value) = {}

(* The check made before an ID is written, skipped when the entity already *)
(* has a version of it in the same state.                                  *)
IdFree(c) == \/ Existing(c) # {}
             \/ \A g \in Holders(c.value) : ~link[g].complete

(* Properties the request's direction of the type already has at its entity. *)
UniqueHits(c, reverse) ==
  {g \in Live : /\ link[g].type = c.type
                /\ SameCreator(link[g], c)
                /\ IF reverse THEN link[g].to = c.to ELSE link[g].from = c.from}

------------------------------------------------------------------------------
(* Writing one property *)

(* Mutant: the ID is kept beside the target. *)
AttachKeepValue(c, e) ==
  [c EXCEPT !.from = IF c.from = None THEN e ELSE c.from,
            !.to = IF c.from = None THEN c.to ELSE e,
            !.complete = TRUE]

(* A dangling link's open end is closed with entity e. *)
Attach(c, e) ==
  [c EXCEPT !.from = IF c.from = None THEN e ELSE c.from,
            !.to = IF c.from = None THEN c.to ELSE e,
            !.value = None, !.complete = TRUE]

(* What create_property makes of a candidate: a literal, and a link whose  *)
(* target was given, are complete; a link to an ID is resolved, or dangles *)
(* when no entity has that ID.                                             *)
Resolved(c) ==
  IF c.type \in Literals \/ c.value = None
  THEN {[c EXCEPT !.complete = TRUE]}
  ELSE IF Owners(c.value) = {} THEN {[c EXCEPT !.complete = FALSE]}
  ELSE {Attach(c, e) : e \in Owners(c.value)}

(* Where each completed dangling link leads: to a completed link that is   *)
(* already there, or to a new one.  One that says the same, of a creator   *)
(* in another case perhaps, finds the new one of the first.                *)
Completions(D, e, new) ==
  {f \in [D -> Guids] :
     /\ \A d \in D : LET X == Existing(Attach(link[d], e))
                     IN f[d] \in IF X = {} THEN Fresh \ {new} ELSE X
     /\ \A d, b \in D : \/ Existing(Attach(link[d], e)) # {}
                        \/ f[d] = f[b] <=> SameKey(Attach(link[d], e), Attach(link[b], e))}
Firsts(f) == {first \in [{f[d] : d \in DOMAIN f} -> DOMAIN f] : \A g \in DOMAIN first : f[first[g]] = g}

(* Mutant: only links that lack their target are completed. *)
WaitingForward(c) == IF c.type = Id THEN {d \in Danglers(c.value) : link[d].to = None} ELSE {}

Waiting(c) == IF c.type = Id THEN Danglers(c.value) ELSE {}

(* The store after c is written as new, olds are replaced by it, and the   *)
(* dangling links completed as f says, each new one from the first it has. *)
Version(g, c, new, olds, f, first) ==
  IF g = new THEN c
  ELSE IF g \in olds THEN [link[g] EXCEPT !.replaced_by = new]
  ELSE IF g \in DOMAIN f THEN [link[g] EXCEPT !.replaced_by = f[g]]
  ELSE IF g \in Written THEN link[g]
  ELSE Attach(link[first[g]], c.from)

After(c, new, olds, f, first) ==
  [g \in Written \cup {new} \cup {f[d] : d \in DOMAIN f} |->
     Version(g, c, new, olds, f, first)]

(* A new record is written: not alive, or alive and not found. *)
Write(c, olds) ==
  /\ c.alive => Existing(c) = {}
  /\ c.type = Id => IdFree(c)
  /\ \E new \in Fresh : \E f \in Completions(Waiting(c), c.from, new) : \E first \in Firsts(f) :
       link' = After(c, new, olds, f, first)

------------------------------------------------------------------------------
(* Requests *)

Candidate(t, f, x, v, u, a) ==
  [type |-> t, from |-> f, to |-> x, value |-> v, creator |-> u,
   alive |-> a, complete |-> FALSE, replaced_by |-> None]

(* entity/create, with the one ID every entity needs.  Its other           *)
(* properties are written as CreateProperty does.                          *)
CreateEntity(e, v, u) ==
  /\ e \notin entities
  /\ entities' = entities \cup {e}
  /\ \E c \in Resolved(Candidate(Id, e, None, v, u, TRUE)) : Write(c, {})

(* property/create of a literal. *)
CreateLiteral(t, e, v, u, a) ==
  LET c == Candidate(t, e, None, v, u, a)
  IN /\ a /\ t \in UniqueForward => UniqueHits(c, FALSE) = {}
     /\ \E r \in Resolved(c) : Write(r, {})
     /\ UNCHANGED entities

(* property/create of a link from e, under its primary type or under the   *)
(* reverse one, to entity x or to ID v (the other is None).                *)
CreateLink(t, e, x, v, u, a, reverse) ==
  LET c == IF reverse THEN Candidate(t, x, e, v, u, a)
                      ELSE Candidate(t, e, x, v, u, a)
      unique == IF reverse THEN UniqueReverse ELSE UniqueForward
  IN /\ a /\ t \in unique => UniqueHits(c, reverse) = {}
     /\ \E r \in Resolved(c) : Write(r, {})
     /\ UNCHANGED entities

(* property/update of version p to candidate c: a version that is already  *)
(* there takes its place, or a new one is written.                         *)
Replace(p, c) ==
  \E r \in Resolved(c) :
    \/ /\ r.alive
       /\ \E g \in Existing(r) : link' = [link EXCEPT ![p].replaced_by = g]
    \/ Write(r, {p})

(* Mutant: a version already replaced may be updated again. *)
UpdatableAgain(p) == link[p].from # None

(* What prop.update asks of the version to be updated. *)
Updatable(p) == link[p].replaced_by = None /\ link[p].from # None

(* property/update with a new value v. *)
UpdateValue(p, e, v, a) ==
  LET old == link[p]
      to(x, w) == Candidate(old.type, e, x, w, old.creator, a)
  IN /\ Updatable(p)
     /\ \/ /\ old.to = None
           /\ v # old.value
           /\ Replace(p, to(None, v))
        \/ /\ old.to # None
           /\ Owners(v) = {}
           /\ Replace(p, to(old.to, None))
        \/ /\ old.to # None
           /\ \E x \in Owners(v) \ {old.to} : Replace(p, to(x, None))
     /\ UNCHANGED entities

(* property/update with a new target x, also of a dangling link. *)
UpdateTarget(p, e, x, a) ==
  /\ Updatable(p)
  /\ x # link[p].to
  /\ link[p].to # None \/ ~link[p].complete
  /\ Replace(p, Candidate(link[p].type, e, x, None, link[p].creator, a))
  /\ UNCHANGED entities

(* property/update with neither: a deletion, an undeletion, a new from. *)
UpdateState(p, e, a) ==
  /\ Updatable(p)
  /\ Replace(p, [link[p] EXCEPT !.from = e, !.alive = a])
  /\ UNCHANGED entities

Init == entities = {} /\ link = [g \in {} |-> None]

Create ==
  \/ \E e \in Entities, v \in Values, u \in Users : CreateEntity(e, v, u)
  \/ \E t \in Literals, e \in entities, v \in Values, u \in Users, a \in BOOLEAN :
       CreateLiteral(t, e, v, u, a)
  \/ \E t \in LinkTypes, e, x \in entities, u \in Users, a, reverse \in BOOLEAN :
       CreateLink(t, e, x, None, u, a, reverse)
  \/ \E t \in LinkTypes, e \in entities, v \in Values, u \in Users, a, reverse \in BOOLEAN :
       CreateLink(t, e, None, v, u, a, reverse)

Update ==
  \E p \in Written, e \in entities, a \in BOOLEAN :
    \/ \E v \in Values : UpdateValue(p, e, v, a)
    \/ \E x \in entities : UpdateTarget(p, e, x, a)
    \/ UpdateState(p, e, a)

Next == Create \/ Update

Spec == Init /\ [][Next]_vars
------------------------------------------------------------------------------
(* Properties *)

(* Every record has the shape its kind of property has: a literal has no   *)
(* target, a completed link has both ends and no value, a dangling link    *)
(* has one end and the ID of the other; all ends are entities.             *)
Shape(l) ==
  IF l.type \in Literals THEN l.from # None /\ l.to = None /\ l.value # None /\ l.complete
  ELSE IF l.complete THEN l.from # None /\ l.to # None /\ l.value = None
  ELSE (l.from = None) # (l.to = None) /\ l.value # None

TypeOK == /\ entities \subseteq Entities
          /\ Written \subseteq Guids
          /\ link \in [Written -> Link]
          /\ \A g \in Written : /\ {link[g].from, link[g].to} \subseteq entities \cup {None}
                                /\ Shape(link[g])

(* An ID, in any spelling, is a living current property of one entity at   *)
(* most: the check of create_property (lridb.py 134-142) holds whatever    *)
(* is created, updated, deleted and undeleted, by whichever user.          *)
IdUnique == \A g, h \in Live :
  /\ link[g].type = Id /\ link[h].type = Id
  /\ SameValue(link[g].value, link[h].value)
  => g = h

(* No link waits for an ID that an entity has: creating links resolves     *)
(* known IDs and giving an ID completes the links that wait for it         *)
(* (lridb.py 164-193, 244-251), also across renamed, deleted and undeleted *)
(* IDs and relabelled links.                                               *)
NoStrandedLink == \A d \in Live : ~link[d].complete => Owners(link[d].value) = {}

(* The "existing" searches of create_property (lridb.py 126-208) leave one *)
(* living version of each fact: no two current living properties say the   *)
(* same of the same entities for the same creator, in any case.  Dangling  *)
(* links are the exception: the search for them finds nothing.             *)
NoDuplicates == \A g, h \in Live :
  link[g].complete /\ link[h].complete /\ SameKey(link[g], link[h]) => g = h

(* The history of a property stays its own: a version is replaced by a     *)
(* version of the same type and of the same creator but for case, which    *)
(* the index does not keep (neorest.py 153-158, 184-188, 259-265, 286-296).*)
VersionsAgree == \A g \in Written :
  LET r == link[g].replaced_by
  IN r # None => /\ r \in Written
                 /\ link[r].type = link[g].type
                 /\ SameCreator(link[r], link[g])

(* Following replaced_by never runs in a circle of several versions: a set *)
(* of versions all replaced within the set holds one replaced by itself.   *)
ChainsEnd == \A S \in SUBSET Written :
  /\ S # {}
  /\ \A g \in S : link[g].replaced_by \in S
  => \E g \in S : link[g].replaced_by = g

(* History is append-only: a written record changes once at most, by being *)
(* replaced, and never disappears (prop.update's "already updated" check   *)
(* and update_property's writes).                                          *)
HistoryKept == [][\A g \in Written :
  /\ g \in Written'
  /\ \/ link'[g] = link[g]
     \/ /\ link[g].replaced_by = None
        /\ link'[g] = [link[g] EXCEPT !.replaced_by = link'[g].replaced_by]]_vars

AlikeButCase(l, a) == SameCreator(l, a) /\ [l EXCEPT !.creator = a.creator] = a

(* A new entity takes up every link that waited for its ID and loses none: *)
(* a living dangling link goes on waiting, or a living completed link with *)
(* the same type, creator but for case, and known end leads to an owner of *)
(* the ID (complete_property, lridb.py 902-934).                           *)
CompletionLosesNoLink == [][entities' # entities => \A d \in Live :
  ~link[d].complete =>
    \/ d \in Live'
    \/ \E g \in Live', e \in Owners(link[d].value)' :
          AlikeButCase(link'[g], Attach(link[d], e))]_vars

(* What test_dup_id.yaml and the check at lridb.py 134 stand for: the      *)
(* store keeps the promise of IdRegistry.                                  *)
Keys == {Fold[v] : v \in Values}
ownerOf == [k \in Keys |->
  IF \E g \in Live : link[g].type = Id /\ Fold[link[g].value] = k
  THEN link[CHOOSE g \in Live : link[g].type = Id /\ Fold[link[g].value] = k].from
  ELSE None]
Registry == INSTANCE IdRegistry WITH owner <- ownerOf
KeepsRegistry == Registry!RegistrySpec

(* "Point old property to its replacement" (neorest.py 287): an updated    *)
(* property is followed by another version of it.                          *)
NoSelfReplacement == \A g \in Written : link[g].replaced_by # g

(* "Boolean indicating whether no more than one instance of this property  *)
(* is allowed" (lri_schema/bootstrap.json, is_unique), and "the disaster   *)
(* of there being more than one hit" (lridb.py 117).                       *)
UniqueOneHit == \A g, h \in Live :
  /\ link[g].type \in UniqueForward
  /\ link[h].type = link[g].type
  /\ link[h].from = link[g].from
  /\ SameCreator(link[h], link[g])
  => g = h

(* The same of a reverse type, such as is_anchored_to (cc_schema.json),    *)
(* whose links are also written under their primary type, anchors.         *)
UniqueReverseOneHit == \A g, h \in Live :
  /\ link[g].type \in UniqueReverse
  /\ link[h].type = link[g].type
  /\ link[h].to = link[g].to
  /\ SameCreator(link[h], link[g])
  => g = h
==============================================================================
