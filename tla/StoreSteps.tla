------------------------------ MODULE StoreSteps ------------------------------
(***************************************************************************)
(* The write requests of PropStore.tla as lri-b carries them out: a worker *)
(* sends the graph database one call after another, without a transaction, *)
(* and may be killed between two of them (harakiri in wsgi_config.json).   *)
(* uWSGI runs one worker (processes: 1); the server that webapp.py starts  *)
(* itself runs each request in a thread of its own on one shared store.    *)
(*                                                                         *)
(* A version is kept three times: as properties of a relationship (store), *)
(* as the JSON text rec among them, from which entities are read, and in   *)
(* the index, in which properties are searched.  The searches a request    *)
(* makes before it writes a version are one step.  Types with is_unique    *)
(* are left out.                                                           *)
(***************************************************************************)
EXTENDS Naturals, FiniteSets

CONSTANTS Entities, Guids, Values, Fold, Users, FoldUser, Literals, LinkTypes, Id, None,
          Workers,        \* processes or threads serving requests
          Kills,          \* whether workers may be killed
          MaxRequests     \* bound on the requests received

ASSUME ConstantsAssumption == /\ Id \in Literals
                              /\ Literals \cap LinkTypes = {}
                              /\ None \notin Entities \cup Guids \cup Values

VARIABLES entities,       \* the nodes that have an ID or had one
          store,          \* the relationships, by guid
          rec,            \* what the JSON text of each says: nothing yet,
          idx,            \* that it is current, that it is replaced; the index
          work,           \* what each worker is doing
          requests        \* requests received so far

vars == <<entities, store, rec, idx, work, requests>>

Stored == DOMAIN store
States == {"none", "current", "replaced"}

(* The versions as a search finds them. *)
Indexed == [g \in {h \in Stored : idx[h] # "none"} |->
              IF idx[g] = "current" THEN [store[g] EXCEPT !.replaced_by = None] ELSE store[g]]

Search == INSTANCE PropStore WITH link <- Indexed, UniqueForward <- {}, UniqueReverse <- {}

(* A worker writes candidate c, for the new node made if there is one, and *)
(* then has its version new replace old.  While it completes the links     *)
(* todo with an entity, outer is the work it will resume.  seen, the       *)
(* entities and versions there were when it began, is kept for the proof   *)
(* that requests implement PropStore.                                      *)
Step(pc, made, c, old, seen) ==
  [pc |-> pc, made |-> made, c |-> c, old |-> old, new |-> None, todo |-> {},
   outer |-> None, seen |-> seen]

Idle == Step("idle", None, None, None, None)
Quiet == \A w \in Workers : work[w] = Idle
At(w, pc) == work[w].pc = pc
Goto(w, s) == work' = [work EXCEPT ![w] = s]
Move(w, pc) == Goto(w, [work[w] EXCEPT !.pc = pc])

------------------------------------------------------------------------------
(* Receiving a request *)

Begin(w, made, c, old) ==
  /\ At(w, "idle")
  /\ requests < MaxRequests
  /\ requests' = requests + 1
  /\ Goto(w, Step("look", made, c, old, [entities |-> entities, link |-> Indexed]))
  /\ UNCHANGED <<entities, store, rec, idx>>

(* entity/create.  The node is seen through its properties only and        *)
(* destroyed when its ID is refused, so it appears when the ID is written. *)
BeginEntity(w) ==
  \E e \in Entities \ (entities \cup {work[x].made : x \in Workers}), v \in Values, u \in Users :
    Begin(w, e, Search!Candidate(Id, e, None, v, u, TRUE), None)

BeginCreate(w) ==
  \E e \in entities, u \in Users, a \in BOOLEAN :
    \/ \E t \in Literals, v \in Values :
         Begin(w, None, Search!Candidate(t, e, None, v, u, a), None)
    \/ \E t \in LinkTypes, x \in entities :
         Begin(w, None, Search!Candidate(t, e, x, None, u, a), None)
    \/ \E t \in LinkTypes, v \in Values :
         \/ Begin(w, None, Search!Candidate(t, e, None, v, u, a), None)
         \/ Begin(w, None, Search!Candidate(t, None, e, v, u, a), None)

(* property/update finds its version by guid, asks the relationship itself *)
(* whether it was updated already, and looks for the entity called v.      *)
BeginUpdate(w) ==
  \E p \in DOMAIN Indexed, e \in entities, a \in BOOLEAN :
    LET old == store[p]
        Renew(x, v) == Begin(w, None, Search!Candidate(old.type, e, x, v, old.creator, a), p)
    IN /\ old.replaced_by = None
       /\ old.from # None
       /\ \/ old.to = None /\ \E v \in Values \ {old.value} : Renew(None, v)
          \/ /\ old.to # None
             /\ \E v \in Values : \/ Search!Owners(v) = {} /\ Renew(old.to, None)
                                  \/ \E x \in Search!Owners(v) \ {old.to} : Renew(x, None)
          \/ /\ old.to # None \/ ~old.complete
             /\ \E x \in entities \ {old.to} : Renew(x, None)
          \/ Begin(w, None, [old EXCEPT !.from = e, !.alive = a], p)

------------------------------------------------------------------------------
(* Serving it *)

(* Mutant: the ID is not looked for. *)
LookUnchecked(w) ==
  /\ At(w, "look")
  /\ \E c \in Search!Resolved(work[w].c) :
       /\ c.alive => Search!Existing(c) = {}
       /\ Goto(w, [work[w] EXCEPT !.pc = "write", !.c = c])
  /\ UNCHANGED <<entities, store, rec, idx, requests>>

(* create_property's searches.  An existing version is taken, an ID that   *)
(* another entity has is refused, or a new version is to be written.       *)
Look(w) ==
  /\ At(w, "look")
  /\ \E c \in Search!Resolved(work[w].c) :
       \/ /\ c.alive
          /\ \E g \in Search!Existing(c) :
               Goto(w, IF work[w].old = None THEN Idle
                       ELSE [work[w] EXCEPT !.pc = "point", !.new = g])
       \/ /\ c.alive => Search!Existing(c) = {}
          /\ Goto(w, IF c.type = Id /\ ~Search!IdFree(c) THEN Idle
                     ELSE [work[w] EXCEPT !.pc = "write", !.c = c])
  /\ UNCHANGED <<entities, store, rec, idx, requests>>

Extend(f, g, x) == [h \in DOMAIN f \cup {g} |-> IF h = g THEN x ELSE f[h]]

(* Mutant: the index is written before rec. *)
WriteIndexed(w) ==
  /\ At(w, "write")
  /\ \E g \in Guids \ Stored :
       /\ store' = Extend(store, g, work[w].c)
       /\ rec' = Extend(rec, g, "none")
       /\ idx' = Extend(idx, g, "current")
       /\ Goto(w, [work[w] EXCEPT !.pc = "record", !.new = g])
  /\ entities' = entities \cup ({work[w].made} \ {None})
  /\ UNCHANGED requests

(* create_relationship_to *)
Write(w) ==
  /\ At(w, "write")
  /\ \E g \in Guids \ Stored :
       /\ store' = Extend(store, g, work[w].c)
       /\ rec' = Extend(rec, g, "none")
       /\ idx' = Extend(idx, g, "none")
       /\ Goto(w, [work[w] EXCEPT !.pc = "record", !.new = g])
  /\ entities' = entities \cup ({work[w].made} \ {None})
  /\ UNCHANGED requests

(* Mutant: the old version is pointed at the new one before that is indexed. *)
RecordAndPoint(w) ==
  /\ At(w, "record")
  /\ rec' = [rec EXCEPT ![work[w].new] = "current"]
  /\ Move(w, IF work[w].old = None THEN "index" ELSE "point")
  /\ UNCHANGED <<entities, store, idx, requests>>

(* link["rec"] = ... *)
Record(w) ==
  /\ At(w, "record")
  /\ rec' = [rec EXCEPT ![work[w].new] = "current"]
  /\ Move(w, "index")
  /\ UNCHANGED <<entities, store, idx, requests>>

(* batch.submit *)
Index(w) ==
  /\ At(w, "index")
  /\ idx' = [idx EXCEPT ![work[w].new] = "current"]
  /\ IF work[w].c.type = Id THEN Move(w, "search")
     ELSE IF work[w].old # None THEN Move(w, "point")
     ELSE Goto(w, Idle)
  /\ UNCHANGED <<entities, store, rec, requests>>

(* The links that wait for the ID just written. *)
FindWaiting(w) ==
  /\ At(w, "search")
  /\ Goto(w, [work[w] EXCEPT !.pc = "next", !.outer = work[w],
                             !.todo = Search!Danglers(work[w].c.value)])
  /\ UNCHANGED <<entities, store, rec, idx, requests>>

(* complete_property of the next one; after the last, the update resumes. *)
(* The version to be written follows no other.                            *)
Complete(w) ==
  LET s == work[w]
  IN /\ At(w, "next")
     /\ \/ \E d \in s.todo :
             Goto(w, [s EXCEPT !.pc = "look", !.todo = s.todo \ {d}, !.old = d, !.made = None,
                               !.c = [Search!Attach(Indexed[d], s.outer.c.from) EXCEPT !.replaced_by = None]])
        \/ /\ s.todo = {}
           /\ Goto(w, IF s.outer.old = None THEN Idle ELSE [s.outer EXCEPT !.pc = "point"])
     /\ UNCHANGED <<entities, store, rec, idx, requests>>

(* update_property points the old version at the new one: on the           *)
(* relationship, in its rec, in the index.                                 *)
Point(w) ==
  /\ At(w, "point")
  /\ store' = [store EXCEPT ![work[w].old].replaced_by = work[w].new]
  /\ Move(w, "rerecord")
  /\ UNCHANGED <<entities, rec, idx, requests>>

Rerecord(w) ==
  /\ At(w, "rerecord")
  /\ rec' = [rec EXCEPT ![work[w].old] = "replaced"]
  /\ Move(w, "reindex")
  /\ UNCHANGED <<entities, store, idx, requests>>

(* Mutant: the index is not told. *)
ReindexForgotten(w) ==
  /\ At(w, "reindex")
  /\ IF work[w].outer = None THEN Goto(w, Idle) ELSE Move(w, "next")
  /\ UNCHANGED <<entities, store, rec, idx, requests>>

Reindex(w) ==
  /\ At(w, "reindex")
  /\ idx' = [idx EXCEPT ![work[w].old] = "replaced"]
  /\ IF work[w].outer = None THEN Goto(w, Idle) ELSE Move(w, "next")
  /\ UNCHANGED <<entities, store, rec, requests>>

Kill(w) ==
  /\ Kills
  /\ work[w] # Idle
  /\ Goto(w, Idle)
  /\ UNCHANGED <<entities, store, rec, idx, requests>>

Init == /\ entities = {}
        /\ store = [g \in {} |-> None]
        /\ rec = store
        /\ idx = store
        /\ requests = 0
        /\ work = [w \in Workers |-> Idle]

Serve(w) == \/ Look(w) \/ Write(w) \/ Record(w) \/ Index(w)
            \/ FindWaiting(w) \/ Complete(w)
            \/ Point(w) \/ Rerecord(w) \/ Reindex(w)

Next == \E w \in Workers :
  BeginEntity(w) \/ BeginCreate(w) \/ BeginUpdate(w) \/ Serve(w) \/ Kill(w)

Spec == Init /\ [][Next]_vars
------------------------------------------------------------------------------
(* Properties *)

(* With one worker that is never killed, every request, whatever calls it  *)
(* takes, amounts to one request of PropStore or to nothing; the versions  *)
(* and entities are compared whenever no request is under way.             *)
Now == [entities |-> entities, link |-> Indexed]
Shown == IF Quiet THEN Now ELSE work[CHOOSE w \in Workers : work[w] # Idle].seen
Store == INSTANCE PropStore
  WITH entities <- Shown.entities, link <- Shown.link,
       UniqueForward <- {}, UniqueReverse <- {}
KeepsStore == Store!Spec

(* "Make sure this ID has not already been used" (lridb.py 134): no search *)
(* ever finds an ID twice, at any moment of any request.                   *)
OneHolder == Search!IdUnique

(* A property never falls out of the searches: when a version is marked as *)
(* replaced anywhere, the version that follows it is already in the index. *)
SuccessorFound == \A g \in Stored :
  "replaced" \in {rec[g], idx[g]} \/ store[g].replaced_by # None
  => /\ store[g].replaced_by \in Stored
     /\ idx[store[g].replaced_by] # "none"

(* The three copies are written in an order a kill cannot spoil: what the  *)
(* index finds has its rec, and what the index or the rec calls replaced   *)
(* is replaced on the relationship, which property/update asks.            *)
CopiesInOrder == \A g \in Stored :
  /\ idx[g] # "none" => rec[g] # "none"
  /\ idx[g] = "replaced" => rec[g] = "replaced"
  /\ rec[g] = "replaced" => store[g].replaced_by # None

(* "Property ... already updated." (prop.py 235): a version that has been  *)
(* replaced is not given another successor.                                *)
NoFork == [][\A g \in Stored :
  store[g].replaced_by # None => store'[g].replaced_by = store[g].replaced_by]_vars

(* "look for incomplete link properties that point to this entity and      *)
(* complete" them (lridb.py 244): when all requests have ended, no link    *)
(* waits for an ID that is taken.                                          *)
NoneLeftWaiting == Quiet => Search!NoStrandedLink

(* "only get non-deleted latest versions of links" (lridb.py 755): when    *)
(* all requests have ended, a search finds no version that was replaced.   *)
LatestFound == Quiet => \A g \in Stored : idx[g] = "current" => store[g].replaced_by = None
=============================================================================
