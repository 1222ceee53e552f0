----------------------------- MODULE MCStandards -----------------------------
(* A small instance of StandardsRead for TLC. *)
EXTENDS StandardsRead

Id(framework, rest) == <<"CCSS", framework>> \o rest
Line(n, path) == [code |-> n, path |-> path]

A1 == Id("Math", <<"Content", "K", "CC", "A", "1">>)
A1a == Append(A1, "a")
A2 == Id("Math", <<"Content", "K", "CC", "A", "2">>)
MP1 == Id("Math", <<"Practice", "MP1">>)
ClusterA == Id("Math", <<"Content", "K", "CC", "A">>)
R1 == Id("ELA-Literacy", <<"CCRA", "R", "1">>)
RL1 == Id("ELA-Literacy", <<"RL", "K", "1">>)
RL1a == Append(RL1, "a")
RL2 == Id("ELA-Literacy", <<"RI", "K", "1">>)
RH1 == Id("ELA-Literacy", <<"RH", "6-8", "1">>)
RH2 == Id("ELA-Literacy", <<"RH", "6-8", "2">>)
Doc(math, ela) == [math |-> math, ela |-> ela]

MCDocuments ==
  {Doc(<<Line(1, A1a), Line(None, A2), Line(2, A1)>>, <<Line(3, RL1), Line(4, RL2), Line(5, R1)>>),
   Doc(<<Line(1, MP1)>>, <<Line(2, RL1a), Line(3, RL1), Line(4, R1)>>),
   Doc(<<Line(1, A1), Line(2, A2)>>, <<Line(3, RH1), Line(4, RH1), Line(5, RH2)>>),
   Doc(<<Line(1, A1)>>, <<Line(1, RH1)>>),
   Doc(<<Line(1, A1a)>>, <<Line(2, R1)>>),
   Doc(<<Line(1, A1), Line(2, ClusterA)>>, <<>>),
   Doc(<<Line(1, Id("Math", <<"Other", "K">>))>>, <<>>),
   Doc(<<Line(1, A1)>>, <<Line(2, RL1)>>),
   Doc(<<>>, <<Line(2, RL1), Line(3, R1)>>),
   Doc(<<Line(1, MP1)>>, <<Line(2, RH1), Line(3, Id("ELA-Literacy", <<"RH", "6-8">>))>>)}

None4 == [domain |-> None, cluster |-> None, grade_level |-> None, anchor_standard |-> None,
          children |-> FALSE, anchors |-> FALSE]

MCRequests ==
  {[None4 EXCEPT !.children = TRUE],
   [None4 EXCEPT !.cluster = <<"cluster", ClusterA>>, !.children = TRUE],
   [None4 EXCEPT !.domain = <<"domain", Part(A1, 5)>>],
   [None4 EXCEPT !.domain = <<"domain", Part(RH1, 3)>>, !.grade_level = <<"grade", Part(RH1, 4)>>],
   [None4 EXCEPT !.domain = <<"domain", Part(RL1, 3)>>, !.grade_level = <<"grade", Part(RL1, 4)>>],
   [None4 EXCEPT !.domain = <<"domain", Part(RL1, 3)>>],
   [None4 EXCEPT !.grade_level = <<"grade", Part(RL1, 4)>>, !.children = TRUE, !.anchors = TRUE],
   [None4 EXCEPT !.grade_level = <<"grade", Part(RH1, 4)>>],
   [None4 EXCEPT !.grade_level = <<"grade", Part(A1, 4)>>],
   [None4 EXCEPT !.anchor_standard = <<"anchor_standard", R1>>, !.anchors = TRUE]}

MCStrand == [d \in {"RL", "RI"} |-> "R"]
=============================================================================
