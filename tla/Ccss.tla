-------------------------------- MODULE Ccss --------------------------------
(* What clients of the CCSS middleware may rely on when documents are POSTed  *)
(* (CcssPost) and read back (CcssGet).                                        *)
EXTENDS CcssGet

(* The path builder posts chains: the first step has no previous, every other *)
(* step follows the one before it.                                            *)
Chain(d) ==
  /\ d.type = "competency_path" /\ d.steps # <<>>
  /\ \A i \in 1 .. Len(d.steps) :
       /\ d.steps[i].previous = IF i = 1 THEN None ELSE d.steps[i - 1].orderId
       /\ \A j \in 1 .. i - 1 : d.steps[j].orderId # d.steps[i].orderId

(* The chains whose path entity is in the LRI, by the POST that put it there. *)
StoredChains ==
  {n \in Posts : /\ post[n].doc # None /\ post[n].doc.action = "create"
                 /\ Chain(post[n].doc)
                 /\ post[n].doc.id \in DOMAIN lri /\ lri[post[n].doc.id].by = n}

(* What the steps of a path teach, as the reader gets them. *)
Taught(steps) ==
  [i \in 1 .. Len(steps) |->
     UNION {lri[c].contains : c \in lri[steps[i]].competency_in_path \cap DOMAIN lri}]

Wanted(d) == [i \in 1 .. Len(d.steps) |-> d.steps[i].competencies]

(* A path whose POST lost no request is read back in the order of the          *)
(* document, each step with its competencies, in whatever order the LRI lists *)
(* the steps and whatever other POSTs do (insert.py 780-885, sort.py 112-157). *)
ReadsWhole == \A n \in StoredChains :
  post[n].lost = {} =>
    {Taught(s) : s \in Reads(post[n].doc.id)} = {Wanted(post[n].doc)}

(* With requests lost, what is read is the beginning of the path or nothing:   *)
(* steps are never read in a wrong order or across a gap.                     *)
ReadsInOrder == \A n \in StoredChains :
  \A steps \in Reads(post[n].doc.id) :
    LET made == Walked(n, post[n].doc).steps
    IN IsPrefix(steps, [i \in 1 .. Len(made) |-> made[i].id])

(* A path is not seen before its steps, nor a step before its container, nor a *)
(* grade before the one it follows: whatever of the same document an entity   *)
(* holds is there, or known to be lost (insert.py 836-885, 1225-1253).        *)
RefsFirst == \A n \in Posts : \A id \in DOMAIN lri :
  LET sent == {e.id : e \in ToSet(Inserts(n, post[n].doc))}
      follows == IF "path_step" \in lri[id].types THEN {} ELSE lri[id].previous
      refs == lri[id].path_step \cup lri[id].competency_in_path \cup follows
  IN post[n].phase # "idle" /\ post[n].doc.action = "create" /\ ~Refused(post[n].doc)
       /\ lri[id].by = n
     => refs \cap sent \subseteq DOMAIN lri \cup post[n].lost

-----------------------------------------------------------------------------
(* The listings an entity of a document belongs in: path and options. *)
ListedUnder(type, option, e) ==
  LET parents == {p \in DOMAIN lri : p \in e.contained_by \/ e.id \in lri[p].contains}
  IN {<<type, [o \in {option} |-> p]>> : p \in parents \ DOMAIN Orderings}

Everywhere == [o \in {} |-> None]

Listings(e) ==
  CASE "initiative" \in e.types -> {<<"initiatives", Everywhere>>}
    [] "framework" \in e.types ->
         {<<"frameworks", Everywhere>>} \cup ListedUnder("frameworks", "initiative", e)
    [] "set" \in e.types -> {<<"sets", Everywhere>>} \cup ListedUnder("sets", "framework", e)
    [] "grade_level" \in e.types ->
         {<<"grade_levels", Everywhere>>} \cup ListedUnder("grade_levels", "set", e)
    [] "learning_resource" \in e.types ->
         {<<"learning_resources", Everywhere>>}
           \cup {<<"learning_resources", [competency |-> c]>> : c \in e.teaches \cap DOMAIN lri}
    [] "competency_path" \in e.types -> {<<"competency_paths", Everywhere>>}
    [] "anchor_standard" \in e.types ->
         {<<"anchor_standards", Everywhere>>}
           \cup {<<"anchor_standards", [standard |-> s]>> : s \in e.anchors \cap DOMAIN lri}
    [] "competency_container" \in e.types ->
         ListedUnder("competency_containers", "parent", e)
    [] OTHER -> ListedUnder("competencys", "parent", e)

(* Whatever was stored is listed with its kind and, once its parent is there,  *)
(* under its parent, whether the parent or the child names the other and       *)
(* whichever came first, as long as one page holds the list; the exception are *)
(* frameworks read by orderings (lridb.py 718-731, ccss.py 555-640).           *)
ImportedIsFound == \A id \in DOMAIN lri : \A l \in Listings(lri[id]) :
  LET q == CreateQuery(l[1], l[2])
  IN Cardinality(Hits(q)) <= Limit(l[1]) =>
       \A a \in Answers(l[1], l[2]) : a.code = 200 /\ id \in a.items

-----------------------------------------------------------------------------
(* Statements of the documentation that the code does not keep. *)

(* "201 Created" is told when the document's entities are there. *)
ToldCreated == \A n \in Posts :
  post[n].phase = "done" /\ Told(post[n].code) = "201 Created" =>
    /\ post[n].doc.action = "create" => post[n].lost = {} /\ lri[post[n].doc.id].by = n
    /\ post[n].doc.action \in {"create", "update"}

(* The steps of a path are all read, also where two follow the same step. *)
ForksRead == \A n \in Posts :
  /\ post[n].phase = "done" /\ post[n].lost = {} /\ post[n].doc.type = "competency_path"
  /\ post[n].doc.id \in DOMAIN lri /\ lri[post[n].doc.id].by = n
  => \A steps \in Reads(post[n].doc.id) : Len(steps) = Len(post[n].doc.steps)
=============================================================================
