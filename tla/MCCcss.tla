------------------------------- MODULE MCCcss -------------------------------
(* A small instance of Ccss for TLC: the documents and the entities that are  *)
(* there from the start.                                                      *)
EXTENDS Ccss, TLC

CONSTANTS c1, c2, path1, init1, frame1, frame2, frame3, set1, gradeK, gradeL,
          holder, comp, resource, ordering, author, std, anchor

Doc(type, id) ==
  [type |-> type, action |-> "create", format |-> "", complete |-> TRUE, id |-> id,
   parent |-> {}, contains |-> {}]

Step(orderId, previous, competencies) ==
  [type |-> "step", orderId |-> orderId, previous |-> previous, competencies |-> competencies]

PathDoc(id, steps) ==
  [Doc("competency_path", id) EXCEPT !.complete = TRUE] @@ [steps |-> steps, authored_by |-> {author}]

Three == PathDoc(path1, <<Step(0, None, {c1}), Step(1, 0, {c2}), Step(2, 1, {c1, c2})>>)
Two == PathDoc(path1, <<Step(0, None, {c2}), Step(1, 0, {c1})>>)
Backwards == PathDoc(path1, <<Step(1, 0, {c2}), Step(0, None, {c1}), Step(0, None, {c2})>>)
Forked == PathDoc(path1, <<Step(0, None, {c1}), Step(1, 0, {c2}), Step(2, 0, {c1})>>)
Ordered == PathDoc(path1, <<[Step(0, None, {}) EXCEPT !.type = "ordering"], Step(1, 0, {c1})>>)

MCDocs ==
  {Three, Two, Backwards, Ordered, [Two EXCEPT !.format = "xml"],
   [Doc("initiative", init1) EXCEPT !.contains = {frame1, frame3}],
   [Doc("framework", frame1) EXCEPT !.parent = {init1}],
   [Doc("framework", frame3) EXCEPT !.contains = {set1}],
   [Doc("set", set1) EXCEPT !.parent = {frame1}],
   Doc("grade_level", gradeK) @@ [grades |-> <<Doc("grade_level", gradeK), Doc("grade_level", gradeL)>>],
   [Doc("grade_level", gradeK) EXCEPT !.parent = {set1}]
      @@ [grades |-> <<[Doc("grade_level", gradeK) EXCEPT !.contains = {comp}], Doc("grade_level", gradeL)>>],
   [Doc("competency_container", holder) EXCEPT !.parent = {set1}],
   [Doc("competency", comp) EXCEPT !.parent = {holder}],
   Doc("learning_resource", resource) @@ [teaches |-> {comp, c1}],
   [Doc("learning_resource", resource) EXCEPT !.format = "yaml"] @@ [teaches |-> {comp, c1}],
   [Doc("set", set1) EXCEPT !.format = "json"],
   Doc("domain", frame1),
   [Doc("set", set1) EXCEPT !.action = "update"] @@ [properties |-> {"name"}],
   [Doc("set", set1) EXCEPT !.action = "delete"]}

ForkDocs == {Forked}
PathDocs == {Three, Two}

Given(id, types) == Entity(None, id, types)

MCLoaded ==
  frame2 :> [Given(frame2, {"framework"}) EXCEPT !.contains = {gradeL, set1}]
    @@ ordering :> Given(ordering, {"competency_path"})
    @@ std :> Given(std, {"standard"})
    @@ anchor :> [Given(anchor, {"anchor_standard"}) EXCEPT !.anchors = {std}]

MCOrderings == frame2 :> ordering
=============================================================================
