--------------------------- MODULE EntityCreateProofs ---------------------------
(***************************************************************************)
(* Theorems about EntityCreate, for any IDs, properties, tries and         *)
(* failures: an ID is in the index once, an entity said to be created has  *)
(* all it was to have, and one whose IDs could not all be written cannot   *)
(* be found.                                                               *)
(*                                                                         *)
(* The inductive invariant follows one request through its calls: what is  *)
(* in the index of its node is what it has done so far, and whatever is    *)
(* neither left to do nor under way is there unless something has failed.  *)
(***************************************************************************)
EXTENDS EntityCreate, TLAPS

Pcs == {"none", "node", "ids", "link", "rec", "index", "others", "undo",
        "created", "refused", "error", "aborted"}
Requests == [pc : Pcs, asked : SUBSET Ids, node : Nodes \cup {None}, tries : Nat,
             ids : SUBSET Ids, others : SUBSET Others, prop : Props \cup {None},
             done : SUBSET Rels, failed : BOOLEAN]

Writing == req.pc \in {"link", "rec", "index"}
Working == req.pc \in {"ids", "others", "undo"} \/ Writing

(* The database: what is in the index has its rec, what has its rec is a       *)
(* relationship of a node.                                                    *)
DatabaseOK ==
  /\ nodes \subseteq Nodes
  /\ rels \subseteq Rels
  /\ indexed \subseteq recorded /\ recorded \subseteq rels
  /\ \A r \in rels : r.node \in nodes
  /\ faults \in 0 .. MaxFaults

(* The node is there from when the IDs are written, and new before. *)
NodeOK ==
  /\ Working => req.node \in nodes
  /\ At("node") => /\ req.node # None => req.node \in nodes
                   /\ OfNode(req.node) = {} /\ req.done = {}
                   /\ req.ids = req.asked /\ req.others = Others /\ ~req.failed

(* What is under way. *)
StepOK ==
  /\ Writing => req.prop \in Props /\ req.tries < MaxTries
  /\ Writing /\ req.prop \in Ids => req.prop \notin Taken /\ req.others = Others
  /\ Writing /\ req.prop \notin Ids => ~req.failed /\ req.ids = {} /\ req.prop \notin req.others
  /\ At("rec") => Rel \in rels
  /\ At("index") => Rel \in recorded
  /\ At("ids") => req.others = Others
  /\ At("others") => ~req.failed /\ req.ids = {}

(* What was done: IDs of the node. *)
DoneOK == req.done \subseteq {r \in OfNode(req.node) : r.prop \in Ids}

(* What is in the index of the node. *)
There(p) == \E r \in OfNode(req.node) : r.prop = p /\ r \in indexed
Kept == req.others = Others /\ Working => OfNode(req.node) \cap indexed \subseteq req.done
Covered ==
  Working /\ ~At("undo") /\ ~req.failed =>
    \A p \in (req.asked \ req.ids) \cup (Others \ req.others) :
      There(p) \/ (Writing /\ req.prop = p)

IInv == /\ req \in Requests /\ DatabaseOK /\ NodeOK /\ StepOK /\ DoneOK
        /\ IdOnce /\ Kept /\ Covered /\ CreatedComplete /\ RolledBack
-----------------------------------------------------------------------------
LEMMA Constants == MaxTries \in Nat /\ MaxTries # 0 /\ MaxFaults \in Nat /\ Ids \cap Others = {}
                   /\ Props = Ids \cup Others
BY TriesAssumption, OthersAssumption DEF Props

LEMMA InitIInv == Init => IInv
<1> SUFFICES ASSUME Init PROVE IInv
  OBVIOUS
<1>1. /\ nodes = {} /\ rels = {} /\ recorded = {} /\ indexed = {} /\ faults = 0
      /\ req = [pc |-> "none", asked |-> {}, node |-> None, tries |-> 0, ids |-> {},
                others |-> Others, prop |-> None, done |-> {}, failed |-> FALSE]
  BY DEF Init, Request
<1>2. req \in Requests
  BY <1>1 DEF Requests, Pcs
<1>3. DatabaseOK
  BY <1>1, Constants DEF DatabaseOK
<1> QED
  BY <1>1, <1>2, <1>3 DEF IInv, NodeOK, StepOK, DoneOK, IdOnce, Kept, Covered, CreatedComplete,
     RolledBack, At, Writing, Working

(* A new request starts from nothing. *)
LEMMA ReceiveIInv == ASSUME IInv, NEW asked \in SUBSET Ids, Receive(asked) PROVE IInv'
<1>1. /\ DatabaseOK /\ IdOnce /\ UNCHANGED <<nodes, rels, recorded, indexed, faults>>
      /\ req' = [pc |-> "node", asked |-> asked, node |-> None, tries |-> 0, ids |-> asked,
                 others |-> Others, prop |-> None, done |-> {}, failed |-> FALSE]
  BY DEF IInv, Receive, Request, Fine, database
<1>2. req' \in Requests
  BY <1>1 DEF Requests, Pcs
<1>3. /\ req'.pc = "node" /\ req'.node = None /\ req'.done = {} /\ req'.ids = req'.asked
      /\ req'.others = Others /\ req'.failed = FALSE
  BY <1>1
<1>4. OfNode(req.node)' = {}
  BY <1>1, <1>3, NoneAssumption DEF OfNode, DatabaseOK
<1>5. DatabaseOK' /\ IdOnce'
  BY <1>1 DEF DatabaseOK, IdOnce
<1>6. NodeOK' /\ StepOK' /\ DoneOK' /\ Kept' /\ Covered' /\ CreatedComplete' /\ RolledBack'
  BY <1>3, <1>4 DEF NodeOK, StepOK, DoneOK, Kept, Covered, CreatedComplete, RolledBack,
     At, Writing, Working
<1> QED
  BY <1>2, <1>5, <1>6 DEF IInv

-----------------------------------------------------------------------------
(* The node. *)

LEMMA FreshIsNew ==
  ASSUME DatabaseOK, nodes # Nodes
  PROVE  Fresh \in Nodes \ nodes /\ OfNode(Fresh) = {}
<1>1. \E n \in Nodes : n \notin nodes
  BY DEF DatabaseOK
<1>2. Fresh \in Nodes \ nodes
  BY <1>1 DEF Fresh
<1> QED
  BY <1>2 DEF OfNode, DatabaseOK

(* With a node, or before one is made, nothing is written. *)
LEMMA NodeStep ==
  ASSUME IInv, At("node"), req' \in Requests, DatabaseOK',
         UNCHANGED <<rels, recorded, indexed>>,
         req'.pc \in {"node", "ids"},
         req'.pc = "ids" => req'.node # None,
         req'.node # None => req'.node \in nodes' /\ OfNode(req.node)' = {},
         req'.asked = req.asked, req'.ids = req.ids, req'.others = req.others,
         req'.done = req.done, req'.failed = req.failed
  PROVE  IInv'
<1>1. /\ req.done = {} /\ req.ids = req.asked /\ req.others = Others /\ req.failed = FALSE
      /\ IdOnce /\ DatabaseOK
  BY DEF IInv, NodeOK, Requests
<1>2. OfNode(req.node)' = {}
  BY <1>1, NoneAssumption DEF OfNode, DatabaseOK
<1>3. IdOnce'
  BY <1>1 DEF IdOnce
<1>4. NodeOK' /\ StepOK'
  BY <1>1, <1>2 DEF NodeOK, StepOK, At, Writing, Working
<1>5. DoneOK' /\ Kept' /\ Covered' /\ CreatedComplete' /\ RolledBack'
  BY <1>1, <1>2 DEF DoneOK, Kept, Covered, CreatedComplete, RolledBack, At, Writing, Working
<1> QED
  BY <1>3, <1>4, <1>5 DEF IInv

LEMMA MakeNodeIInv == IInv /\ MakeNode => IInv'
<1> SUFFICES ASSUME IInv, MakeNode PROVE IInv'
  OBVIOUS
<1>1. /\ req \in Requests /\ DatabaseOK /\ At("node") /\ nodes # Nodes
      /\ nodes' = nodes \cup {Fresh}
      /\ UNCHANGED <<faults, rels, recorded, indexed>>
      /\ req' = [req EXCEPT !.node = Fresh,
                            !.pc = IF LoopsOn(TRUE, req.tries) THEN "node" ELSE "ids"]
  BY DEF IInv, MakeNode, Fine
<1>2. Fresh \in Nodes \ nodes /\ OfNode(Fresh) = {}
  BY <1>1, FreshIsNew
<1>3. /\ req'.pc \in {"node", "ids"} /\ req'.node = Fresh /\ req'.asked = req.asked
      /\ req'.ids = req.ids /\ req'.others = req.others /\ req'.done = req.done
      /\ req'.failed = req.failed
  BY <1>1 DEF Requests
<1>4. req' \in Requests
  BY <1>1, <1>2 DEF Requests, Pcs
<1>5. DatabaseOK'
  BY <1>1, <1>2 DEF DatabaseOK
<1>6. OfNode(req.node)' = {} /\ req'.node \in nodes' /\ req'.node # None
  BY <1>1, <1>2, <1>3, NoneAssumption DEF OfNode
<1> QED
  BY <1>1, <1>3, <1>4, <1>5, <1>6, NodeStep

LEMMA NodeFailsIInv == IInv /\ NodeFails => IInv'
<1> SUFFICES ASSUME IInv, NodeFails PROVE IInv'
  OBVIOUS
<1>1. /\ req \in Requests /\ DatabaseOK /\ NodeOK /\ At("node")
      /\ nodes' = nodes \/ (nodes # Nodes /\ nodes' = nodes \cup {Fresh})
      /\ faults < MaxFaults /\ faults' = faults + 1
      /\ UNCHANGED <<rels, recorded, indexed>>
      /\ req' = [req EXCEPT !.tries = req.tries + 1,
              !.pc = IF LoopsOn(req.node # None, req.tries + 1) THEN "node" ELSE "ids"]
  BY DEF IInv, NodeFails, Fail
<1>2. /\ req'.pc \in {"node", "ids"} /\ req'.node = req.node /\ req'.asked = req.asked
      /\ req'.ids = req.ids /\ req'.others = req.others /\ req'.done = req.done
      /\ req'.failed = req.failed /\ req'.tries = req.tries + 1
      /\ req'.pc = "ids" => req.node # None
  BY <1>1 DEF Requests, LoopsOn
<1>3. req' \in Requests
  <2>1. PICK pc \in {"node", "ids"} :
          req' = [req EXCEPT !.tries = req.tries + 1, !.pc = pc]
    BY <1>1
  <2>2. pc \in Pcs
    BY DEF Pcs
  <2>3. req \in Requests /\ req.tries \in Nat
    BY <1>1 DEF Requests
  <2>4. req.tries + 1 \in Nat
    BY <2>3
  <2> QED
    BY <2>1, <2>2, <2>3, <2>4 DEF Requests
<1>4. DatabaseOK'
  <2>1. nodes' \subseteq Nodes /\ nodes \subseteq nodes'
    BY <1>1, FreshIsNew DEF DatabaseOK
  <2>2. faults' \in 0 .. MaxFaults
    BY <1>1, Constants DEF DatabaseOK
  <2> QED
    BY <1>1, <2>1, <2>2 DEF DatabaseOK
<1>5. req'.node # None => req'.node \in nodes' /\ OfNode(req.node)' = {}
  BY <1>1, <1>2 DEF NodeOK, OfNode
<1> QED
  BY <1>1, <1>2, <1>3, <1>4, <1>5, NodeStep
-----------------------------------------------------------------------------
(* Steps that write nothing: what is in the index of the node stays. *)

LEMMA NothingWritten ==
  ASSUME IInv, UNCHANGED <<nodes, rels, recorded, indexed, faults>>
  PROVE  /\ DatabaseOK' /\ IdOnce' /\ Taken' = Taken
         /\ req'.node = req.node => OfNode(req.node)' = OfNode(req.node)
BY DEF IInv, DatabaseOK, IdOnce, OfNode, Taken

LEMMA NextIdIInv == IInv /\ NextId => IInv'
<1> SUFFICES ASSUME IInv, NextId PROVE IInv'
  OBVIOUS
<1>1. PICK i \in req.ids :
       req' = [req EXCEPT !.ids = req.ids \ {i}, !.prop = i, !.tries = 0,
                          !.pc = IF i \in Taken THEN "ids" ELSE "link",
                          !.failed = req.failed \/ i \in Taken]
  BY DEF NextId
<1>2. /\ req \in Requests /\ At("ids") /\ UNCHANGED <<nodes, rels, recorded, indexed, faults>>
      /\ NodeOK /\ StepOK /\ DoneOK /\ Kept /\ Covered
  BY DEF IInv, NextId, Fine, database
<1>3. /\ req'.ids = req.ids \ {i} /\ req'.prop = i /\ req'.tries = 0 /\ req'.asked = req.asked
      /\ req'.others = req.others /\ req'.node = req.node /\ req'.done = req.done
      /\ req'.pc = (IF i \in Taken THEN "ids" ELSE "link")
      /\ req'.failed = (req.failed \/ i \in Taken)
  BY <1>1, <1>2 DEF Requests
<1>4. i \in Ids /\ i \in Props
  BY <1>2 DEF Requests, Props
<1>5. req' \in Requests
  BY <1>1, <1>2, <1>4 DEF Requests, Pcs
<1>6. DatabaseOK' /\ IdOnce' /\ Taken' = Taken /\ OfNode(req.node)' = OfNode(req.node)
  BY <1>2, <1>3, NothingWritten
<1>7. NodeOK' /\ StepOK' /\ DoneOK'
  BY <1>2, <1>3, <1>4, <1>6, Constants DEF NodeOK, StepOK, DoneOK, At, Writing, Working
<1>8. Kept'
  BY <1>2, <1>3, <1>6 DEF Kept, At, Writing, Working
<1>9. Covered'
  BY <1>2, <1>3, <1>6 DEF Covered, There, At, Writing, Working
<1>10. CreatedComplete' /\ RolledBack'
  BY <1>3 DEF CreatedComplete, RolledBack, At
<1> QED
  BY <1>5, <1>6, <1>7, <1>8, <1>9, <1>10 DEF IInv

LEMMA IdsDoneIInv == IInv /\ IdsDone => IInv'
<1> SUFFICES ASSUME IInv, IdsDone PROVE IInv'
  OBVIOUS
<1>1. /\ req \in Requests /\ At("ids") /\ req.ids = {}
      /\ UNCHANGED <<nodes, rels, recorded, indexed, faults>>
      /\ req' = [req EXCEPT !.pc = IF req.failed THEN "undo" ELSE "others"]
      /\ NodeOK /\ StepOK /\ DoneOK /\ Kept /\ Covered
  BY DEF IInv, IdsDone, To, Fine, database
<1>2. /\ req'.ids = req.ids /\ req'.prop = req.prop /\ req'.asked = req.asked
      /\ req'.others = req.others /\ req'.node = req.node /\ req'.done = req.done
      /\ req'.pc = (IF req.failed THEN "undo" ELSE "others") /\ req'.failed = req.failed
  BY <1>1 DEF Requests
<1>3. req' \in Requests
  BY <1>1 DEF Requests, Pcs
<1>4. DatabaseOK' /\ IdOnce' /\ Taken' = Taken /\ OfNode(req.node)' = OfNode(req.node)
  BY <1>1, <1>2, NothingWritten
<1>5. NodeOK' /\ StepOK' /\ DoneOK' /\ Kept'
  BY <1>1, <1>2, <1>4 DEF NodeOK, StepOK, DoneOK, Kept, At, Writing, Working
<1>6. Covered'
  BY <1>1, <1>2, <1>4 DEF Covered, There, At, Writing, Working
<1>7. CreatedComplete' /\ RolledBack'
  BY <1>2 DEF CreatedComplete, RolledBack, At
<1> QED
  BY <1>3, <1>4, <1>5, <1>6, <1>7 DEF IInv

LEMMA NextOtherIInv == IInv /\ NextOther => IInv'
<1> SUFFICES ASSUME IInv, NextOther PROVE IInv'
  OBVIOUS
<1>1. PICK p \in req.others :
       req' = [req EXCEPT !.others = req.others \ {p}, !.prop = p, !.tries = 0, !.pc = "link"]
  BY DEF NextOther
<1>2. /\ req \in Requests /\ At("others") /\ UNCHANGED <<nodes, rels, recorded, indexed, faults>>
      /\ NodeOK /\ StepOK /\ DoneOK /\ Covered
  BY DEF IInv, NextOther, Fine, database
<1>3. /\ req'.ids = req.ids /\ req'.prop = p /\ req'.asked = req.asked
      /\ req'.tries = 0 /\ req'.others = req.others \ {p} /\ req'.node = req.node /\ req'.done = req.done
      /\ req'.pc = "link" /\ req'.failed = req.failed
  BY <1>1, <1>2 DEF Requests
<1>4. p \in Others /\ p \notin Ids /\ p \in Props
  BY <1>2, Constants DEF Requests
<1>5. req' \in Requests
  BY <1>1, <1>2, <1>4 DEF Requests, Pcs
<1>6. DatabaseOK' /\ IdOnce' /\ Taken' = Taken /\ OfNode(req.node)' = OfNode(req.node)
  BY <1>2, <1>3, NothingWritten
<1>7. NodeOK' /\ StepOK' /\ DoneOK' /\ Kept'
  BY <1>2, <1>3, <1>4, <1>6, Constants DEF NodeOK, StepOK, DoneOK, Kept, At, Writing, Working
<1>8. Covered'
  BY <1>2, <1>3, <1>6 DEF Covered, There, At, Writing, Working
<1>9. CreatedComplete' /\ RolledBack'
  BY <1>3 DEF CreatedComplete, RolledBack, At
<1> QED
  BY <1>5, <1>6, <1>7, <1>8, <1>9 DEF IInv

LEMMA FinishIInv == IInv /\ Finish => IInv'
<1> SUFFICES ASSUME IInv, Finish PROVE IInv'
  OBVIOUS
<1>1. /\ req \in Requests /\ At("others") /\ req.others = {}
      /\ UNCHANGED <<nodes, rels, recorded, indexed, faults>>
      /\ req' = [req EXCEPT !.pc = "created"]
      /\ StepOK /\ DoneOK /\ Covered
  BY DEF IInv, Finish, To, Fine, database
<1>2. /\ req'.asked = req.asked /\ req'.others = req.others /\ req'.node = req.node
      /\ req'.done = req.done /\ req'.pc = "created"
  BY <1>1 DEF Requests
<1>3. req' \in Requests
  BY <1>1 DEF Requests, Pcs
<1>4. DatabaseOK' /\ IdOnce' /\ OfNode(req.node)' = OfNode(req.node)
  BY <1>1, <1>2, NothingWritten
<1>5. NodeOK' /\ StepOK' /\ DoneOK' /\ Kept' /\ Covered' /\ RolledBack'
  BY <1>1, <1>2, <1>4 DEF NodeOK, StepOK, DoneOK, Kept, Covered, RolledBack, At, Writing, Working
<1>6. CreatedComplete'
  <2>1. \A p \in req.asked \cup Others : There(p)
    BY <1>1 DEF Covered, StepOK, At, Writing, Working
  <2> QED
    BY <1>1, <1>2, <1>4, <2>1 DEF CreatedComplete, There
<1> QED
  BY <1>3, <1>4, <1>5, <1>6 DEF IInv
-----------------------------------------------------------------------------
(* The copies of a property. *)

LEMMA RelFacts ==
  ASSUME IInv, Writing
  PROVE  /\ Rel \in Rels
         /\ Rel.node = req.node /\ Rel.prop = req.prop /\ req.node \in nodes
<1>1. /\ req.node \in nodes /\ nodes \subseteq Nodes /\ req.prop \in Props
      /\ req.tries \in Nat /\ req.tries < MaxTries
  BY DEF IInv, Requests, NodeOK, StepOK, DatabaseOK, Working
<1>2. req.tries \in 0 .. MaxTries
  BY <1>1, Constants
<1> QED
  BY <1>1, <1>2 DEF Rel, Rels

(* A relationship more, in no index yet, changes nothing that can be found. *)
LEMMA OneMore ==
  ASSUME IInv, Writing, rels' = rels \/ rels' = rels \cup {Rel},
         UNCHANGED <<nodes, recorded, indexed>>, faults' \in 0 .. MaxFaults,
         req'.node = req.node
  PROVE  /\ DatabaseOK' /\ IdOnce' /\ Taken' = Taken
         /\ OfNode(req.node) \subseteq OfNode(req.node)'
         /\ OfNode(req.node)' \cap indexed' = OfNode(req.node) \cap indexed
<1>1. /\ Rel \in Rels /\ Rel.node \in nodes
      /\ DatabaseOK /\ IdOnce
  BY RelFacts DEF IInv
<1>2. DatabaseOK'
  BY <1>1 DEF DatabaseOK
<1>3. IdOnce' /\ Taken' = Taken
  BY <1>1 DEF IdOnce, Taken
<1>4. rels \subseteq rels' /\ indexed \subseteq rels
  BY <1>1 DEF DatabaseOK
<1> QED
  BY <1>2, <1>3, <1>4 DEF OfNode

LEMMA CreateRelationshipIInv == IInv /\ CreateRelationship => IInv'
<1> SUFFICES ASSUME IInv, CreateRelationship PROVE IInv'
  OBVIOUS
<1>1. /\ req \in Requests /\ At("link") /\ Writing /\ rels' = rels \cup {Rel}
      /\ UNCHANGED <<nodes, recorded, indexed, faults>>
      /\ req' = [req EXCEPT !.pc = "rec"]
      /\ NodeOK /\ StepOK /\ DoneOK /\ Kept /\ Covered /\ DatabaseOK
  BY DEF IInv, CreateRelationship, To, Fine, Writing, At
<1>2. /\ req'.ids = req.ids /\ req'.prop = req.prop /\ req'.asked = req.asked
      /\ req'.others = req.others /\ req'.node = req.node /\ req'.done = req.done
      /\ req'.pc = "rec" /\ req'.failed = req.failed /\ req'.tries = req.tries
  BY <1>1 DEF Requests
<1>3. req' \in Requests
  BY <1>1 DEF Requests, Pcs
<1>4. /\ DatabaseOK' /\ IdOnce' /\ Taken' = Taken
      /\ OfNode(req.node) \subseteq OfNode(req.node)'
      /\ OfNode(req.node)' \cap indexed' = OfNode(req.node) \cap indexed
  BY <1>1, <1>2, OneMore DEF DatabaseOK
<1>5. Rel' = Rel
  BY <1>2 DEF Rel
<1>6. NodeOK' /\ StepOK'
  BY <1>1, <1>2, <1>4, <1>5 DEF NodeOK, StepOK, At, Writing, Working
<1>7. DoneOK' /\ Kept'
  BY <1>1, <1>2, <1>4 DEF DoneOK, Kept, At, Writing, Working
<1>8. Covered'
  BY <1>1, <1>2, <1>4 DEF Covered, There, At, Writing, Working
<1>9. CreatedComplete' /\ RolledBack'
  BY <1>2 DEF CreatedComplete, RolledBack, At
<1> QED
  BY <1>3, <1>4, <1>6, <1>7, <1>8, <1>9 DEF IInv

LEMMA RelationshipFailsIInv == IInv /\ RelationshipFails => IInv'
<1> SUFFICES ASSUME IInv, RelationshipFails PROVE IInv'
  OBVIOUS
<1> DEFINE given == req.tries + 1 = MaxTries
<1>1. /\ req \in Requests /\ At("link") /\ Writing
      /\ rels' = rels \/ rels' = rels \cup {Rel}
      /\ UNCHANGED <<nodes, recorded, indexed>> /\ faults < MaxFaults /\ faults' = faults + 1
      /\ req' = [req EXCEPT !.tries = req.tries + 1,
                            !.failed = req.failed \/ given,
                            !.pc = IF ~given THEN "link"
                                   ELSE IF req.prop \in Ids THEN "ids" ELSE "undo"]
      /\ NodeOK /\ StepOK /\ DoneOK /\ Kept /\ Covered /\ DatabaseOK
  BY DEF IInv, RelationshipFails, Fail, Writing, At
<1>2. /\ req'.ids = req.ids /\ req'.prop = req.prop /\ req'.asked = req.asked
      /\ req'.others = req.others /\ req'.node = req.node /\ req'.done = req.done
      /\ req'.failed = (req.failed \/ given) /\ req'.tries = req.tries + 1
      /\ req'.pc = (IF ~given THEN "link" ELSE IF req.prop \in Ids THEN "ids" ELSE "undo")
  BY <1>1 DEF Requests
<1>3. req' \in Requests
  <2>1. PICK pc \in {"link", "ids", "undo"}, f \in BOOLEAN :
          req' = [req EXCEPT !.tries = req.tries + 1, !.failed = f, !.pc = pc]
    BY <1>1
  <2>2. pc \in Pcs
    BY DEF Pcs
  <2>3. req \in Requests /\ req.tries \in Nat
    BY <1>1 DEF Requests
  <2>4. req.tries + 1 \in Nat
    BY <2>3
  <2> QED
    BY <2>1, <2>2, <2>3, <2>4 DEF Requests
<1>4. faults' \in 0 .. MaxFaults
  BY <1>1, Constants DEF DatabaseOK
<1>5. /\ DatabaseOK' /\ IdOnce' /\ Taken' = Taken
      /\ OfNode(req.node) \subseteq OfNode(req.node)'
      /\ OfNode(req.node)' \cap indexed' = OfNode(req.node) \cap indexed
  BY <1>1, <1>2, <1>4, OneMore
<1>6. NodeOK' /\ StepOK'
  <2>1. req.node \in nodes /\ req'.pc \in {"link", "ids", "undo"}
    BY <1>1, <1>2 DEF NodeOK, Working
  <2>2. NodeOK'
    BY <1>1, <1>2, <2>1 DEF NodeOK, At
  <2>3. ~given => req'.tries < MaxTries
    BY <1>1, Constants DEF StepOK, Requests
  <2>4. CASE ~given
    <3>1. /\ req'.pc = "link" /\ req'.failed = req.failed /\ req'.prop = req.prop
          /\ req'.ids = req.ids /\ req'.others = req.others /\ req'.tries < MaxTries
          /\ Taken' = Taken
      BY <1>1, <1>2, <1>5, <2>3, <2>4 DEF Requests
    <3> QED
      BY <1>1, <2>2, <3>1 DEF StepOK, At, Writing
  <2>5. CASE given
    BY <1>1, <1>2, <1>5, <2>2, <2>5 DEF StepOK, At, Writing
  <2> QED
    BY <2>2, <2>4, <2>5
<1>7. DoneOK' /\ Kept'
  BY <1>1, <1>2, <1>5 DEF DoneOK, Kept, At, Writing, Working
<1>8. Covered'
  BY <1>1, <1>2, <1>5 DEF Covered, There, At, Writing, Working
<1>9. CreatedComplete' /\ RolledBack'
  BY <1>2 DEF CreatedComplete, RolledBack, At
<1> QED
  BY <1>3, <1>5, <1>6, <1>7, <1>8, <1>9 DEF IInv

LEMMA WriteRecIInv == IInv /\ WriteRec => IInv'
<1> SUFFICES ASSUME IInv, WriteRec PROVE IInv'
  OBVIOUS
<1>1. /\ req \in Requests /\ At("rec") /\ recorded' = recorded \cup {Rel} /\ Rel \in rels
      /\ UNCHANGED <<nodes, rels, indexed, faults>>
      /\ req' = [req EXCEPT !.pc = "index"]
      /\ NodeOK /\ StepOK /\ DoneOK /\ Kept /\ Covered /\ DatabaseOK /\ IdOnce
  BY DEF IInv, WriteRec, To, Fine, StepOK
<1>2. /\ req'.ids = req.ids /\ req'.prop = req.prop /\ req'.asked = req.asked
      /\ req'.others = req.others /\ req'.node = req.node /\ req'.done = req.done
      /\ req'.pc = "index" /\ req'.failed = req.failed /\ req'.tries = req.tries
  BY <1>1 DEF Requests
<1>3. req' \in Requests
  BY <1>1 DEF Requests, Pcs
<1>4. DatabaseOK' /\ IdOnce'
  BY <1>1 DEF DatabaseOK, IdOnce
<1>5. Rel' = Rel /\ Taken' = Taken /\ OfNode(req.node)' = OfNode(req.node)
  BY <1>1, <1>2 DEF Rel, Taken, OfNode
<1>6. NodeOK' /\ StepOK' /\ DoneOK' /\ Kept'
  BY <1>1, <1>2, <1>5 DEF NodeOK, StepOK, DoneOK, Kept, At, Writing, Working
<1>7. Covered'
  BY <1>1, <1>2, <1>5 DEF Covered, There, At, Writing, Working
<1>8. CreatedComplete' /\ RolledBack'
  BY <1>2 DEF CreatedComplete, RolledBack, At
<1> QED
  BY <1>3, <1>4, <1>6, <1>7, <1>8 DEF IInv

(* A property enters the index, an ID only if nobody else has it. *)
LEMMA WriteIndexIInv == IInv /\ WriteIndex => IInv'
<1> SUFFICES ASSUME IInv, WriteIndex PROVE IInv'
  OBVIOUS
<1>1. /\ req \in Requests /\ At("index") /\ Writing /\ Rel \in recorded
      /\ indexed' = indexed \cup {Rel}
      /\ UNCHANGED <<nodes, rels, recorded, faults>>
      /\ req' = [req EXCEPT !.pc = Phase,
              !.done = IF req.prop \in Ids THEN req.done \cup {Rel} ELSE req.done]
      /\ NodeOK /\ StepOK /\ DoneOK /\ Kept /\ Covered /\ DatabaseOK /\ IdOnce
  BY DEF IInv, WriteIndex, Fine, StepOK, Writing, At
<1>2. /\ req'.ids = req.ids /\ req'.asked = req.asked
      /\ req'.others = req.others /\ req'.node = req.node
      /\ req'.done = (IF req.prop \in Ids THEN req.done \cup {Rel} ELSE req.done)
      /\ req'.pc = Phase /\ req'.failed = req.failed
  BY <1>1 DEF Requests
<1>3. /\ Rel \in Rels /\ Rel \in OfNode(req.node)
      /\ Rel.prop = req.prop /\ req.prop \in Props
  BY <1>1, RelFacts DEF OfNode, DatabaseOK, StepOK
<1>4. req' \in Requests
  <2>1. PICK pc \in {"ids", "others"}, d \in SUBSET Rels :
          req' = [req EXCEPT !.pc = pc, !.done = d]
    BY <1>1, <1>3 DEF Phase, Requests
  <2> QED
    BY <1>1, <2>1 DEF Requests, Pcs
<1>5. DatabaseOK'
  BY <1>1 DEF DatabaseOK
<1>6. IdOnce'
  BY <1>1, <1>3 DEF IdOnce, StepOK, Taken
<1>7. OfNode(req.node)' = OfNode(req.node)
  BY <1>1, <1>2 DEF OfNode
<1>8. NodeOK' /\ StepOK' /\ DoneOK'
  BY <1>1, <1>2, <1>3, <1>7 DEF NodeOK, StepOK, DoneOK, Phase, At, Writing, Working
<1>9. Kept'
  <2>1. CASE req.prop \in Ids
    BY <1>1, <1>2, <1>7, <2>1 DEF Kept, At, Writing, Working
  <2>2. CASE req.prop \notin Ids
    BY <1>1, <1>2, <1>3, <2>2, Constants DEF Kept, StepOK
  <2> QED
    BY <2>1, <2>2
<1>10. Covered'
  BY <1>1, <1>2, <1>3, <1>7 DEF Covered, There, Phase, At, Writing, Working
<1>11. CreatedComplete' /\ RolledBack'
  BY <1>2 DEF CreatedComplete, RolledBack, At, Phase
<1> QED
  BY <1>4, <1>5, <1>6, <1>8, <1>9, <1>10, <1>11 DEF IInv
-----------------------------------------------------------------------------
(* The roll-back. *)

LEMMA DeleteIdIInv == IInv /\ DeleteId => IInv'
<1> SUFFICES ASSUME IInv, DeleteId PROVE IInv'
  OBVIOUS
<1>1. PICK r \in req.done : /\ rels' = rels \ {r} /\ recorded' = recorded \ {r}
                            /\ indexed' = indexed \ {r}
                            /\ req' = [req EXCEPT !.done = req.done \ {r}]
  BY DEF DeleteId
<1>2. /\ req \in Requests /\ At("undo") /\ UNCHANGED <<nodes, faults>>
      /\ NodeOK /\ DoneOK /\ Kept /\ DatabaseOK /\ IdOnce
  BY DEF IInv, DeleteId, Fine
<1>3. /\ req'.others = req.others /\ req'.node = req.node /\ req'.done = req.done \ {r}
      /\ req'.pc = "undo"
  BY <1>1, <1>2 DEF Requests, At
<1>4. req' \in Requests
  BY <1>1, <1>2 DEF Requests
<1>5. DatabaseOK' /\ IdOnce'
  BY <1>1, <1>2 DEF DatabaseOK, IdOnce
<1>6. OfNode(req.node)' = OfNode(req.node) \ {r}
  BY <1>1, <1>3 DEF OfNode
<1>7. NodeOK' /\ StepOK' /\ DoneOK' /\ Kept'
  BY <1>1, <1>2, <1>3, <1>6 DEF NodeOK, StepOK, DoneOK, Kept, At, Writing, Working
<1>8. Covered' /\ CreatedComplete' /\ RolledBack'
  BY <1>3 DEF Covered, CreatedComplete, RolledBack, At
<1> QED
  BY <1>4, <1>5, <1>7, <1>8 DEF IInv

LEMMA DeleteNodeIInv == IInv /\ DeleteNode => IInv'
<1> SUFFICES ASSUME IInv, DeleteNode PROVE IInv'
  OBVIOUS
<1>1. /\ req \in Requests /\ At("undo") /\ req.done = {}
      /\ UNCHANGED <<rels, recorded, indexed, faults>>
      /\ NodeOK /\ DoneOK /\ Kept /\ DatabaseOK /\ IdOnce
      /\ IF OfNode(req.node) = {} THEN nodes' = nodes \ {req.node} /\ req' = [req EXCEPT !.pc = "refused"]
         ELSE nodes' = nodes /\ req' = [req EXCEPT !.pc = "error"]
  BY DEF IInv, DeleteNode, Fine, To
<1>2. /\ req'.others = req.others /\ req'.node = req.node /\ req'.done = {}
      /\ req'.pc \in {"refused", "error"}
  BY <1>1 DEF Requests
<1>3. req' \in Requests
  BY <1>1 DEF Requests, Pcs
<1>4. DatabaseOK' /\ IdOnce'
  BY <1>1 DEF DatabaseOK, IdOnce, OfNode
<1>5. OfNode(req.node)' = OfNode(req.node)
  BY <1>1, <1>2 DEF OfNode
<1>6. NodeOK' /\ StepOK' /\ DoneOK' /\ Kept' /\ Covered' /\ CreatedComplete'
  BY <1>2 DEF NodeOK, StepOK, DoneOK, Kept, Covered, CreatedComplete, At, Writing, Working
<1>7. RolledBack'
  BY <1>1, <1>2, <1>5 DEF RolledBack, Kept, At, Working
<1> QED
  BY <1>3, <1>4, <1>6, <1>7 DEF IInv

LEMMA AbortIInv == IInv /\ Abort => IInv'
<1> SUFFICES ASSUME IInv, Abort PROVE IInv'
  OBVIOUS
<1>1. /\ req \in Requests /\ UNCHANGED <<nodes, rels, recorded, indexed>>
      /\ faults < MaxFaults /\ faults' = faults + 1
      /\ req' = [req EXCEPT !.pc = "aborted"] /\ DoneOK /\ DatabaseOK /\ IdOnce
  BY DEF IInv, Abort, Fail, To, database
<1>2. req'.node = req.node /\ req'.done = req.done /\ req'.pc = "aborted"
  BY <1>1 DEF Requests
<1>3. req' \in Requests
  BY <1>1 DEF Requests, Pcs
<1>4. faults' \in 0 .. MaxFaults
  BY <1>1, Constants DEF DatabaseOK
<1>5. DatabaseOK' /\ IdOnce'
  BY <1>1, <1>4 DEF DatabaseOK, IdOnce
<1>6. DoneOK'
  BY <1>1, <1>2 DEF DoneOK, OfNode
<1>7. NodeOK' /\ StepOK' /\ Kept' /\ Covered' /\ CreatedComplete' /\ RolledBack'
  BY <1>2 DEF NodeOK, StepOK, Kept, Covered, CreatedComplete, RolledBack, At, Writing, Working
<1> QED
  BY <1>3, <1>5, <1>6, <1>7 DEF IInv

LEMMA StutterIInv == IInv /\ UNCHANGED vars => IInv'
<1> SUFFICES ASSUME IInv, UNCHANGED vars PROVE IInv'
  OBVIOUS
<1>1. /\ req \in Requests /\ DatabaseOK /\ IdOnce
      /\ UNCHANGED <<nodes, rels, recorded, indexed, req, faults>>
  BY DEF IInv, vars
<1>2. DatabaseOK' /\ IdOnce' /\ req' \in Requests
  BY <1>1 DEF DatabaseOK, IdOnce
<1>3. Rel' = Rel /\ Taken' = Taken /\ OfNode(req.node)' = OfNode(req.node)
  BY <1>1 DEF Rel, Taken, OfNode
<1>4. NodeOK' /\ StepOK' /\ DoneOK' /\ Kept' /\ RolledBack'
  BY <1>1, <1>3 DEF IInv, NodeOK, StepOK, DoneOK, Kept, RolledBack, At, Writing, Working
<1>5. Covered' /\ CreatedComplete'
  BY <1>1, <1>3 DEF IInv, Covered, There, CreatedComplete, At, Writing, Working
<1> QED
  BY <1>2, <1>4, <1>5 DEF IInv

LEMMA NextIInv == IInv /\ [Next]_vars => IInv'
<1> SUFFICES ASSUME IInv, [Next]_vars PROVE IInv'
  OBVIOUS
<1>1. CASE \E asked \in SUBSET Ids \ {{}} : Receive(asked)
  BY <1>1, ReceiveIInv
<1>2. CASE MakeNode BY <1>2, MakeNodeIInv
<1>3. CASE NodeFails BY <1>3, NodeFailsIInv
<1>4. CASE NextId BY <1>4, NextIdIInv
<1>5. CASE IdsDone BY <1>5, IdsDoneIInv
<1>6. CASE NextOther BY <1>6, NextOtherIInv
<1>7. CASE Finish BY <1>7, FinishIInv
<1>8. CASE CreateRelationship BY <1>8, CreateRelationshipIInv
<1>9. CASE RelationshipFails BY <1>9, RelationshipFailsIInv
<1>10. CASE WriteRec BY <1>10, WriteRecIInv
<1>11. CASE WriteIndex BY <1>11, WriteIndexIInv
<1>12. CASE DeleteId BY <1>12, DeleteIdIInv
<1>13. CASE DeleteNode BY <1>13, DeleteNodeIInv
<1>14. CASE Abort BY <1>14, AbortIInv
<1>15. CASE UNCHANGED vars BY <1>15, StutterIInv
<1> QED
  BY <1>1, <1>2, <1>3, <1>4, <1>5, <1>6, <1>7, <1>8, <1>9, <1>10, <1>11, <1>12, <1>13, <1>14,
     <1>15 DEF Next, Progress

THEOREM InvariantHolds == Spec => []IInv
<1> QED
  BY InitIInv, NextIInv, PTL DEF Spec
-----------------------------------------------------------------------------
(* The database keeps its shape, whatever fails (neorest.py 57-162). *)
THEOREM TypesHold == Spec => []TypeOK
<1>1. IInv => TypeOK
  <2> SUFFICES ASSUME IInv PROVE TypeOK
    OBVIOUS
  <2>1. DatabaseOK /\ DoneOK
    BY DEF IInv
  <2> QED
    BY <2>1 DEF DatabaseOK, DoneOK, TypeOK
<1> QED
  BY <1>1, InvariantHolds, PTL

(* An ID is in the index once, whatever fails and is left behind              *)
(* (lridb.py 135-142, entity.py 149-172).                                     *)
THEOREM IdIsOnce == Spec => []IdOnce
<1>1. IInv => IdOnce
  BY DEF IInv
<1> QED
  BY <1>1, InvariantHolds, PTL

(* An entity said to be created has every property it was to have, in the      *)
(* index (entity.py 149-195).                                                 *)
THEOREM CreatedIsComplete == Spec => []CreatedComplete
<1>1. IInv => CreatedComplete
  BY DEF IInv
<1> QED
  BY <1>1, InvariantHolds, PTL

(* An entity whose IDs could not all be written cannot be found when the       *)
(* request is answered (entity.py 161-199).                                   *)
THEOREM RolledBackIsGone == Spec => []RolledBack
<1>1. IInv => RolledBack
  BY DEF IInv
<1> QED
  BY <1>1, InvariantHolds, PTL
=============================================================================
