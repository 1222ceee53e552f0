------------------------------- MODULE MCHarvest -------------------------------
(* Instances of Harvest: two documents about one resource, the first with a *)
(* child object, both with a value of one enumeration.                      *)
EXTENDS Harvest

Says(t, v) == [type |-> t, value |-> v]

MCItems == {"work", "again", "alignment"}
MCId == [work |-> <<"url">>, again |-> <<"url">>, alignment |-> <<"hash">>]
MCProps == [work |-> {Says("educational_alignment", "alignment"), Says("learning_resource_type", "student")},
            again |-> {Says("learning_resource_type", "student"), Says("time_required", "hour")},
            alignment |-> {Says("target_name", "standard"), Says("educational_framework", "core")}]
OtherProps == [MCProps EXCEPT !["again"] = {Says("learning_resource_type", "stud"), Says("time_required", "hour")}]
PartOf == {<<"stud", "student">>}

From(key, tagger, curator, item) ==
  [accepted |-> TRUE, key |-> key, tagger |-> tagger, curator |-> curator,
   submitter |-> "submitter", item |-> item]

MCEnvelope == [d1 |-> From("node", TRUE, "user", "work"), d2 |-> From("key", TRUE, None, "again")]
==============================================================================
