------------------------------ MODULE CcssPost ------------------------------
(* Documents POSTed to the CCSS middleware (lri-middleware/ccss).  The        *)
(* middleware keeps no state: it turns a document into entity/create requests *)
(* and sends them to the LRI one after another.  POSTs run in threads.        *)
(* The LRI appears as the set of the entities it holds; what becomes of one   *)
(* request inside it is the matter of PropStore and EntityCreate.             *)
EXTENDS Integers, Sequences, FiniteSets, SequencesExt

CONSTANTS Posts,      \* the POSTs; the number stands for makeRandom()
          Docs,       \* the documents clients may post
          Loaded,     \* entities lri-b's loaders have put there, by their ID
          MaxFaults,  \* bound on the requests that fail
          NoName,     \* the ID of an entity whose document was not looked into
          None

VARIABLES lri,        \* entities of the LRI by their ID
          post,       \* what each POST is doing
          faults      \* failures so far

vars == <<lri, post, faults>>

-----------------------------------------------------------------------------
(* What is sent to create an entity: its links, each a set of IDs. *)
Entity(n, id, types) ==
  [id |-> id, by |-> n, types |-> types, contains |-> {}, contained_by |-> {},
   path_step |-> {}, competency_in_path |-> {}, previous |-> {}, teaches |-> {},
   authored_by |-> {}, anchors |-> {}]

(* The format a POST asks for, "" when it asks for none, is taken for that of  *)
(* its document, and it is sent on to the LRI, which answers in it.           *)
IsXml(d) == d.format \in {"", "xml"}
AnswersJson(d) == d.format \in {"", "json"}

(* A document is read only as XML with every common property in it. *)
Readable(d) == IsXml(d) /\ d.complete

Base(n, d) ==
  [Entity(n, d.id, {"competency", "learning_objective", "thing"})
     EXCEPT !.contains = d.contains]

(* The entity of a document, of the given kinds, under its parent if it has one. *)
Within(n, d, kinds) ==
  [Base(n, d) EXCEPT !.types = @ \cup kinds, !.contained_by = d.parent]

Initiative(n, d) ==
  <<[Base(n, d) EXCEPT !.types = @ \cup {"ccss container", "initiative"}]>>

Framework(n, d) == <<Within(n, d, {"ccss container", "framework"})>>
SetOf(n, d) == <<Within(n, d, {"ccss container", "set"})>>
Competency(n, d) == <<Within(n, d, {"competency"})>>
Container(n, d) == <<Within(n, d, {"competency_container"})>>

(* A document holds several grades: each follows the one before it, and the   *)
(* first contained_by of the document is the parent of them all.              *)
Grades(n, d) ==
  [i \in 1 .. Len(d.grades) |->
     [Within(n, [d.grades[i] EXCEPT !.parent = d.parent], {"ccss container", "grade_level"})
        EXCEPT !.previous = IF i = 1 THEN {} ELSE {d.grades[i - 1].id}]]

(* A resource that is neither XML nor JSON is not read, but sent all the same. *)
Resource(n, d) ==
  <<IF IsXml(d)
    THEN [Entity(n, d.id, {"thing", "learning_resource"}) EXCEPT !.teaches = d.teaches]
    ELSE Entity(n, NoName, {"thing", "learning_resource"})>>

-----------------------------------------------------------------------------
\* Mutant: the same name again for a second step or container.
MakeIdAgain(n, kind, seen) == <<kind, n, 0>>

(* A path: its steps are walked once; seen are the IDs made so far.           *)
MakeId(n, kind, seen) ==
  LET id == <<kind, n, 0>>
  IN IF id \in ToSet(seen) THEN <<kind, n, Len(seen) + 1>> ELSE id

MakeContainer(n, id, competencies) ==
  [Entity(n, id, {"thing", "competency", "competency_container"})
     EXCEPT !.contains = competencies]

MakeStep(n, id, container) ==
  [Entity(n, id, {"thing", "path_step"}) EXCEPT !.competency_in_path = {container}]

(* One step of the document; a second step of the same orderId is skipped. *)
Walk(n, w, step) ==
  IF \E i \in 1 .. Len(w.steps) : w.steps[i].orderId = step.orderId THEN w
  ELSE LET id == MakeId(n, "step", w.seen)
           container == MakeId(n, "container", Append(w.seen, id))
       IN [seen |-> w.seen \o <<id, container>>,
           steps |-> Append(w.steps, [orderId |-> step.orderId, previous |-> step.previous,
                                      id |-> id]),
           queries |-> w.queries \o <<MakeContainer(n, container, step.competencies),
                                      MakeStep(n, id, container)>>]

Walks(n, d) ==
  LET walk[i \in 0 .. Len(d.steps)] ==
        IF i = 0 THEN [seen |-> <<>>, steps |-> <<>>, queries |-> <<>>]
        ELSE Walk(n, walk[i - 1], d.steps[i])
  IN walk

Walked(n, d) == Walks(n, d)[Len(d.steps)]

(* previous names the last other step of that orderId, if there is one. *)
StepOf(w, id) == CHOOSE step \in ToSet(w.steps) : step.id = id

Others(w, id, orderId) ==
  {i \in 1 .. Len(w.steps) : w.steps[i].id # id /\ w.steps[i].orderId = orderId}

Before(w, id) ==
  LET previous == StepOf(w, id).previous
      named == Others(w, id, previous)
  IN IF previous = None \/ named = {} THEN {} ELSE {w.steps[Max(named)].id}

MakePath(n, d, steps) ==
  [Entity(n, d.id, {"thing", "competency", "competency_path"})
     EXCEPT !.path_step = steps, !.authored_by = d.authored_by]

\* Mutant: the path is sent before its steps.
PathInsertsFirst(n, d) ==
  LET w == Walked(n, d)
      ordered(q) == IF "path_step" \in q.types THEN [q EXCEPT !.previous = Before(w, q.id)]
                    ELSE q
  IN <<MakePath(n, d, {w.steps[i].id : i \in 1 .. Len(w.steps)})>>
       \o [i \in 1 .. Len(w.queries) |-> ordered(w.queries[i])]

PathInserts(n, d) ==
  LET w == Walked(n, d)
      ordered(q) == IF "path_step" \in q.types THEN [q EXCEPT !.previous = Before(w, q.id)]
                    ELSE q
  IN Append([i \in 1 .. Len(w.queries) |-> ordered(w.queries[i])],
            MakePath(n, d, {w.steps[i].id : i \in 1 .. Len(w.steps)}))

(* An ordering of steps calls a function that does not exist (makeId without  *)
(* self): the POST ends before anything is sent.                              *)
PathRefused(d) ==
  ~IsXml(d) \/ \E i \in 1 .. Len(d.steps) : d.steps[i].type = "ordering"

-----------------------------------------------------------------------------
(* Kinds whose class only raises NotImplementedError. *)
Unbuilt == {"domain", "cluster", "standard", "standard_component", "strand",
            "anchor_standard_section", "anchor_standard"}

Built == {"initiative", "framework", "set", "competency", "competency_container"}

(* What cannot be read raises an exception, and nothing is sent. *)
Refused(d) ==
  CASE d.type \in Built -> ~Readable(d)
    [] d.type = "grade_level" -> ~IsXml(d) \/ \E i \in 1 .. Len(d.grades) : ~d.grades[i].complete
    [] d.type = "learning_resource" -> d.format = "json" \/ (IsXml(d) /\ ~d.complete)
    [] d.type = "competency_path" -> PathRefused(d)
    [] OTHER -> TRUE

(* The requests a create document is turned into, in order. *)
Inserts(n, d) ==
  CASE d.type = "initiative" -> Initiative(n, d)
    [] d.type = "framework" -> Framework(n, d)
    [] d.type = "set" -> SetOf(n, d)
    [] d.type = "grade_level" -> Grades(n, d)
    [] d.type = "competency" -> Competency(n, d)
    [] d.type = "competency_container" -> Container(n, d)
    [] d.type = "learning_resource" -> Resource(n, d)
    [] d.type = "competency_path" -> PathInserts(n, d)

(* An update reads the entity and then asks the answer for its status in a    *)
(* way the pinned requests library does not allow: nothing is ever written.   *)
(* A document with no property to update asks nothing.                        *)
UpdateCode(d) == IF d.properties = {} THEN 201 ELSE 500

(* The status line the client is given for the code of the POST. *)
Told(code) ==
  CASE code \in {200, 201} -> "201 Created"
    [] code = 404 -> "404 Not Found"
    [] code = 500 -> "500 Internal Server Error"
    [] OTHER -> ""

(* The names made for the steps of a path and for what they hold. *)
Made == {"step", "container"} \X Posts \X Nat

(* A document's entities have names, and no client guesses those made here. *)
IsName(id) == id # None /\ id \notin Made

ASSUME DocsAssumption ==
  /\ None \notin Docs /\ None \notin Made /\ IsName(NoName)
  /\ \A d \in Docs : d.action = "create" /\ ~Refused(d) =>
       /\ IsName(d.id)
       /\ d.type \in Built \cup {"grade_level"} => None \notin d.parent
       /\ d.type = "learning_resource" => None \notin d.teaches
       /\ d.type = "grade_level" =>
            /\ d.grades \in Seq(ToSet(d.grades))
            /\ \A g \in ToSet(d.grades) : {"id", "parent", "contains"} \subseteq DOMAIN g /\ IsName(g.id)
       /\ d.type = "competency_path" =>
            /\ d.steps \in Seq(ToSet(d.steps))
            /\ \A step \in ToSet(d.steps) : step.orderId # None

(* What the loaders put there came from no POST. *)
ASSUME LoadedAssumption ==
  /\ Loaded = [id \in DOMAIN Loaded |-> Loaded[id]]
  /\ \A id \in DOMAIN Loaded :
       /\ IsName(id) /\ Loaded[id].id = id /\ Loaded[id].by \notin Posts
       /\ None \notin Loaded[id].contained_by \cup Loaded[id].teaches

-----------------------------------------------------------------------------
Idle == [phase |-> "idle", doc |-> None, todo |-> <<>>, code |-> 0, lost |-> {}]

Init ==
  /\ lri = Loaded
  /\ post = [n \in Posts |-> Idle]
  /\ faults = 0

Become(n, phase, d, todo, code) ==
  post' = [post EXCEPT ![n] =
             [@ EXCEPT !.phase = phase, !.doc = d, !.todo = todo, !.code = code]]

(* A document arrives and is turned into requests. *)
Begin(n) == \E d \in Docs :
  /\ post[n].phase = "idle"
  /\ d.action = "create" /\ ~Refused(d)
  /\ Become(n, "sending", d, Inserts(n, d), 0)
  /\ UNCHANGED <<lri, faults>>

(* A document that is not turned into requests: refused, an update, or an     *)
(* action the middleware does not know, which it answers as if it were done.  *)
Turn(n) == \E d \in Docs :
  /\ post[n].phase = "idle"
  /\ \/ /\ d.action = "create" /\ Refused(d)
        /\ Become(n, "done", d, <<>>, IF d.type \in Unbuilt THEN 501 ELSE 500)
     \/ d.action = "update" /\ Become(n, "done", d, <<>>, UpdateCode(d))
     \/ d.action \notin {"create", "update"} /\ Become(n, "done", d, <<>>, 201)
  /\ UNCHANGED <<lri, faults>>

Created(e) == lri' = [id \in DOMAIN lri \cup {e.id} |-> IF id = e.id THEN e ELSE lri[id]]

Answered(n, code, lost) ==
  post' = [post EXCEPT ![n].todo = Tail(@), ![n].code = code, ![n].lost = @ \cup lost]

(* The next request is answered: the entity is there, or its ID was taken,    *)
(* which the LRI says in the body of a 200 that nobody reads.                 *)
Send(n) ==
  LET e == Head(post[n].todo)
  IN /\ post[n].phase = "sending" /\ post[n].todo # <<>> /\ AnswersJson(post[n].doc)
     /\ IF e.id \in DOMAIN lri THEN UNCHANGED lri ELSE Created(e)
     /\ Answered(n, 200, {})
     /\ UNCHANGED faults

(* The LRI answers 500: the entity is rolled back, or all there.  The loop    *)
(* goes on, and the code is forgotten with the next answer.                   *)
SendFails(n) ==
  LET e == Head(post[n].todo)
  IN /\ post[n].phase = "sending" /\ post[n].todo # <<>> /\ AnswersJson(post[n].doc)
     /\ faults < MaxFaults /\ faults' = faults + 1
     /\ \/ UNCHANGED lri /\ Answered(n, 500, {e.id} \ DOMAIN lri)
        \/ e.id \notin DOMAIN lri /\ Created(e) /\ Answered(n, 500, {})

(* No answer comes, or one that is not JSON: an exception ends the POST.      *)
SendBreaks(n) ==
  LET e == Head(post[n].todo)
      rest == {post[n].todo[i].id : i \in 1 .. Len(post[n].todo)}
      broken(lost) == post' = [post EXCEPT ![n] =
                        [post[n] EXCEPT !.phase = "done", !.todo = <<>>, !.code = 500,
                                        !.lost = @ \cup lost]]
  IN /\ post[n].phase = "sending" /\ post[n].todo # <<>>
     /\ IF AnswersJson(post[n].doc) THEN faults < MaxFaults /\ faults' = faults + 1
        ELSE UNCHANGED faults
     /\ \/ UNCHANGED lri /\ broken(rest \ DOMAIN lri)
        \/ e.id \notin DOMAIN lri /\ Created(e) /\ broken(rest \ (DOMAIN lri \cup {e.id}))

(* After the last request the client is told the code of the last answer. *)
Finish(n) ==
  /\ post[n].phase = "sending" /\ post[n].todo = <<>>
  /\ post' = [post EXCEPT ![n].phase = "done"]
  /\ UNCHANGED <<lri, faults>>

Next == \E n \in Posts :
  Begin(n) \/ Turn(n) \/ Send(n) \/ SendFails(n) \/ SendBreaks(n) \/ Finish(n)

Spec == Init /\ [][Next]_vars
=============================================================================
