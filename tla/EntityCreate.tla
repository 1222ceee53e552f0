----------------------------- MODULE EntityCreate -----------------------------
(***************************************************************************)
(* entity/create of lri-b (entity.py, create_entity and                    *)
(* write_and_index_property of neorest.py) against a graph database whose  *)
(* calls fail: the node, then the IDs, then the other properties, each a   *)
(* relationship with its rec and its index entries, and the roll-back.     *)
(* No link waits for the IDs, and no other request is under way.           *)
(***************************************************************************)
EXTENDS Naturals, FiniteSets

CONSTANTS Nodes,        \* guids that nodes may get
          Ids,          \* IDs, in lower case
          Others,       \* the other properties an entity has: types, guid, ...
          MaxTries,     \* max_tries of create_entity and write_and_index_property
          Faults,       \* what may fail: "node", "link" (a call that is tried again),
                        \*   "lost" (such a call is carried out but not answered),
                        \*   "abort" (any other call, or the worker is killed)
          MaxFaults,    \* bound on the failures
          None

ASSUME TriesAssumption == MaxTries \in Nat \ {0} /\ MaxFaults \in Nat
ASSUME OthersAssumption == Ids \cap Others = {}
ASSUME NoneAssumption == None \notin Nodes

VARIABLES nodes,        \* nodes of the database
          rels,         \* its relationships: a property of a node, and the try that made it
          recorded,     \* those with their rec
          indexed,      \* those in the index
          req,          \* the request being served
          faults        \* failures so far

vars == <<nodes, rels, recorded, indexed, req, faults>>
database == <<nodes, rels, recorded, indexed>>

Props == Ids \cup Others
Rels == [node : Nodes, prop : Props, try : 0..MaxTries]
Fresh == CHOOSE n \in Nodes : n \notin nodes
OfNode(n) == {r \in rels : r.node = n}
Taken == {r.prop : r \in indexed} \cap Ids

(* ids and others are what is left to write; prop what is being written;   *)
(* done the ID relationships written.                                      *)
Request(pc, ids) == [pc |-> pc, asked |-> ids, node |-> None, tries |-> 0, ids |-> ids,
                     others |-> Others, prop |-> None, done |-> {}, failed |-> FALSE]

Ended == req.pc \in {"none", "created", "refused", "error", "aborted"}
At(pc) == req.pc = pc
To(pc) == req' = [req EXCEPT !.pc = pc]
Fail(f) == f \in Faults /\ faults < MaxFaults /\ faults' = faults + 1
Fine == UNCHANGED faults

(* The guard bounds the requests: it leaves nodes enough for this one. *)
Receive(ids) ==
  /\ Ended
  /\ Cardinality(nodes) + MaxFaults < Cardinality(Nodes)
  /\ req' = Request("node", ids)
  /\ Fine /\ UNCHANGED database

------------------------------------------------------------------------------
(* create_entity *)

(* The loop goes on "while not success or tries == max_tries". *)
LoopsOn(made, tries) == ~made \/ tries = MaxTries

MakeNode ==
  /\ At("node")
  /\ nodes # Nodes
  /\ nodes' = nodes \cup {Fresh}
  /\ req' = [req EXCEPT !.node = Fresh, !.pc = IF LoopsOn(TRUE, req.tries) THEN "node" ELSE "ids"]
  /\ Fine /\ UNCHANGED <<rels, recorded, indexed>>

NodeFails ==
  /\ At("node")
  /\ Fail("node")
  /\ \/ nodes' = nodes
     \/ "lost" \in Faults /\ nodes # Nodes /\ nodes' = nodes \cup {Fresh}
  /\ req' = [req EXCEPT !.tries = req.tries + 1,
                        !.pc = IF LoopsOn(req.node # None, req.tries + 1) THEN "node" ELSE "ids"]
  /\ UNCHANGED <<rels, recorded, indexed>>

------------------------------------------------------------------------------
(* The properties *)

(* Mutant: the ID is not looked for. *)
NextIdUnchecked ==
  /\ At("ids")
  /\ \E i \in req.ids :
       req' = [req EXCEPT !.ids = req.ids \ {i}, !.prop = i, !.tries = 0, !.pc = "link"]
  /\ Fine /\ UNCHANGED database

(* Mutant: an ID that is taken is asked for again. *)
NextIdAgain ==
  /\ At("ids")
  /\ \E i \in req.ids :
       req' = [req EXCEPT !.ids = req.ids \ ({i} \ Taken), !.prop = i, !.tries = 0,
                          !.pc = IF i \in Taken THEN "ids" ELSE "link"]
  /\ Fine /\ UNCHANGED database

(* The next ID, if it is free.  After an ID that is not, the others are    *)
(* tried none the less.                                                    *)
NextId ==
  /\ At("ids")
  /\ \E i \in req.ids :
       req' = [req EXCEPT !.ids = req.ids \ {i}, !.prop = i, !.tries = 0,
                          !.pc = IF i \in Taken THEN "ids" ELSE "link",
                          !.failed = req.failed \/ i \in Taken]
  /\ Fine /\ UNCHANGED database

IdsDone ==
  /\ At("ids")
  /\ req.ids = {}
  /\ To(IF req.failed THEN "undo" ELSE "others")
  /\ Fine /\ UNCHANGED database

NextOther ==
  /\ At("others")
  /\ \E p \in req.others :
       req' = [req EXCEPT !.others = req.others \ {p}, !.prop = p, !.tries = 0, !.pc = "link"]
  /\ Fine /\ UNCHANGED database

Finish ==
  /\ At("others")
  /\ req.others = {}
  /\ To("created")
  /\ Fine /\ UNCHANGED database

Phase == IF req.prop \in Ids THEN "ids" ELSE "others"
Rel == [node |-> req.node, prop |-> req.prop, try |-> req.tries]

(* Mutant: the relationship is put in the index before it has its rec. *)
CreateUnrecorded ==
  /\ At("link")
  /\ rels' = rels \cup {Rel}
  /\ To("index")
  /\ Fine /\ UNCHANGED <<nodes, recorded, indexed>>

CreateRelationship ==
  /\ At("link")
  /\ rels' = rels \cup {Rel}
  /\ To("rec")
  /\ Fine /\ UNCHANGED <<nodes, recorded, indexed>>

(* Mutant: a property that could not be written is passed over. *)
PassesOver ==
  /\ At("link")
  /\ Fail("link")
  /\ rels' = rels
  /\ LET given == req.tries + 1 = MaxTries
     IN req' = [req EXCEPT !.tries = req.tries + 1, !.pc = IF given THEN Phase ELSE "link"]
  /\ UNCHANGED <<nodes, recorded, indexed>>

(* After max_tries failures the property has failed: an ID lets the loop   *)
(* over the IDs go on, another property ends the creation.                 *)
RelationshipFails ==
  /\ At("link")
  /\ Fail("link")
  /\ \/ rels' = rels
     \/ "lost" \in Faults /\ rels' = rels \cup {Rel}
  /\ LET given == req.tries + 1 = MaxTries
     IN req' = [req EXCEPT !.tries = req.tries + 1,
                           !.failed = req.failed \/ given,
                           !.pc = IF ~given THEN "link"
                                  ELSE IF req.prop \in Ids THEN "ids" ELSE "undo"]
  /\ UNCHANGED <<nodes, recorded, indexed>>

WriteRec ==
  /\ At("rec")
  /\ recorded' = recorded \cup {Rel}
  /\ To("index")
  /\ Fine /\ UNCHANGED <<nodes, rels, indexed>>

(* Mutant: what is written is not remembered. *)
WriteIndexForgetful ==
  /\ At("index")
  /\ indexed' = indexed \cup {Rel}
  /\ To(Phase)
  /\ Fine /\ UNCHANGED <<nodes, rels, recorded>>

(* Only the IDs are remembered for the roll-back. *)
WriteIndex ==
  /\ At("index")
  /\ indexed' = indexed \cup {Rel}
  /\ req' = [req EXCEPT !.pc = Phase, !.done = IF req.prop \in Ids THEN req.done \cup {Rel} ELSE req.done]
  /\ Fine /\ UNCHANGED <<nodes, rels, recorded>>

------------------------------------------------------------------------------
(* The roll-back *)

DeleteId ==
  /\ At("undo")
  /\ \E r \in req.done :
       /\ rels' = rels \ {r}
       /\ recorded' = recorded \ {r}
       /\ indexed' = indexed \ {r}
       /\ req' = [req EXCEPT !.done = req.done \ {r}]
  /\ Fine /\ UNCHANGED nodes

(* The database refuses to delete a node that has relationships. *)
DeleteNode ==
  /\ At("undo")
  /\ req.done = {}
  /\ IF OfNode(req.node) = {} THEN nodes' = nodes \ {req.node} /\ To("refused")
     ELSE nodes' = nodes /\ To("error")
  /\ Fine /\ UNCHANGED <<rels, recorded, indexed>>

(* An exception that is not caught, or a kill. *)
Abort ==
  /\ ~Ended
  /\ Fail("abort")
  /\ To("aborted")
  /\ UNCHANGED database

Init == /\ nodes = {} /\ rels = {} /\ recorded = {} /\ indexed = {}
        /\ req = Request("none", {})
        /\ faults = 0

Progress == \/ MakeNode \/ NextId \/ IdsDone \/ NextOther \/ Finish
            \/ CreateRelationship \/ WriteRec \/ WriteIndex \/ DeleteId \/ DeleteNode

Next == \/ \E ids \in SUBSET Ids \ {{}} : Receive(ids)
        \/ Progress \/ NodeFails \/ RelationshipFails \/ Abort

Spec == Init /\ [][Next]_vars
FairSpec == Spec /\ WF_vars(Progress)
------------------------------------------------------------------------------
(* Properties *)

TypeOK ==
  /\ nodes \subseteq Nodes
  /\ rels \subseteq Rels
  /\ indexed \subseteq recorded
  /\ recorded \subseteq rels
  /\ \A r \in rels : r.node \in nodes
  /\ req.done \subseteq {r \in OfNode(req.node) : r.prop \in Ids}
  /\ faults \in 0..MaxFaults

(* Whatever fails, and with what earlier requests left behind, an ID is in *)
(* the index once: "Cannot be assigned" twice (lridb.py 140).              *)
IdOnce == \A r, s \in indexed : r.prop = s.prop /\ r.prop \in Ids => r = s

(* A request that is answered without an error has written everything it   *)
(* asked for, readable and searchable, whatever failed on the way.         *)
CreatedComplete == At("created") =>
  \A p \in req.asked \cup Others : \E r \in OfNode(req.node) : r.prop = p /\ r \in indexed

(* When an ID is taken, or cannot be written, no search finds anything of  *)
(* the entity and its other IDs are free again (entity.py 161-171): unless *)
(* a call failed outside the loops that try again.                         *)
RolledBack == req.pc \in {"refused", "error"} /\ req.others = Others =>
  OfNode(req.node) \cap indexed = {}

(* Once its node was created within max_tries, a request is answered,      *)
(* whatever else fails.                                                    *)
Answered == ~Ended /\ ~At("node") ~> Ended

(* "Make sure nothing is left over" (test_atomic_creation.yaml): nothing   *)
(* of an entity that could not be created is found by a search.            *)
NothingLeftOver == At("refused") \/ At("error") \/ At("aborted") => OfNode(req.node) \cap indexed = {}

(* "Too many Neo4J BadRequest errors in node creation!" (neorest.py 81):   *)
(* after max_tries failures the node is given up.                          *)
GivesUp == At("node") => req.tries < MaxTries
=============================================================================
