--------------------------- MODULE StandardsRead ---------------------------
(* GET /standards of the CCSS middleware (query.py 312-559): one search and    *)
(* then one request per entity that is needed, while the standards are being  *)
(* loaded.  A request that finds nothing ends with 500.                       *)
EXTENDS StandardsLoad

CONSTANTS Readers,    \* GETs, each served once
          Requests,   \* what is asked: [domain, cluster, grade_level, anchor_standard, children, anchors]
          PageSize    \* entities in one page of a search (the LRI's default limit)

ASSUME PageAssumption == PageSize \in Nat

VARIABLE read         \* what each GET is doing

vars == <<loadVars, read>>

-----------------------------------------------------------------------------
(* What the LRI shows of an entity: its links, also those to entities that are *)
(* not there yet, and the links back from entities that are.                  *)
To(l, id, relation) == {link[2] : link \in {k \in l[id] : k[1] = relation}}
From(l, id, relation) == {x \in DOMAIN l : <<relation, id>> \in l[x]}

(* The parent asked for: the first of these options that is given.  The fifth, *)
(* competency_container, comes last and names containers that clients make:   *)
(* the loader makes none, and requests with it are not here.                  *)
Parent(q) ==
  IF q.domain # None THEN q.domain
  ELSE IF q.cluster # None THEN q.cluster
  ELSE IF q.grade_level # None THEN q.grade_level ELSE q.anchor_standard

(* An option is given an ID of its kind. *)
ASSUME RequestsAssumption == \A q \in Requests :
  /\ q.domain # None => q.domain[1] = "domain"
  /\ q.cluster # None => q.cluster[1] = "cluster"
  /\ q.grade_level # None => q.grade_level[1] = "grade"
  /\ q.anchor_standard # None => q.anchor_standard[1] = "anchor_standard"

(* The search: what the parent contains or anchors, or every standard. *)
Hits(l, q) ==
  LET parent == Parent(q)
  IN IF parent = None THEN {id \in DOMAIN l : id[1] = "standard" /\ Kind(id[2]) = "standard"}
     ELSE IF parent \notin DOMAIN l THEN {}
     ELSE To(l, parent, IF parent[1] = "anchor_standard" THEN "anchors" ELSE "contains") \cap DOMAIN l

-----------------------------------------------------------------------------
IsMath(id) == id[2][2] = "Math"

(* An item of ELA must have a parent: without one the answer lacks a key. *)
Orphan(l, id) == ~IsMath(id) /\ From(l, id, "contains") = {}

(* A grade that holds one standard gives its ID as a text, not as a list, and   *)
(* the letters of the text are taken for IDs.                                 *)
Lone(l, q, id) ==
  /\ ~IsMath(id) /\ id = q.grade_level
  /\ \E p \in From(l, id, "contains") : p[1] = "domain"
  /\ Cardinality(To(l, id, "contains")) = 1

\* Mutant: the standards of every grade of the domain.
WantedAnyGrade(l, q, id) ==
  LET above == From(l, id, "contains")
  IN IF IsMath(id) THEN {}
     ELSE ({p \in above : p[1] = "domain"} \X To(l, id, "contains"))
            \cup ({p \in above : p[1] = "grade"} \X {id})

(* The standards to fetch, each with the entity that leads to it: those of the *)
(* grade asked for, and each ELA standard found, once for each of its grades. *)
(* What has no ccid, a standard of a client's own, is read from the search    *)
(* itself; all that the loader makes has one.                                 *)
Wanted(l, q, id) ==
  LET above == From(l, id, "contains")
  IN IF IsMath(id) THEN {}
     ELSE (IF q.grade_level # None /\ id = q.grade_level
           THEN {p \in above : p[1] = "domain"} \X To(l, id, "contains") ELSE {})
            \cup ({p \in above : p[1] = "grade"} \X {id})

\* Mutant: links to entities that are not there yet are left out.
ItemComplete(l, by, id) ==
  [by |-> by, id |-> id, contains |-> To(l, id, "contains") \cap DOMAIN l,
   anchor |-> From(l, id, "anchors")]

(* An entity as it is read: later changes of the LRI do not reach it. *)
Item(l, by, id) ==
  [by |-> by, id |-> id, contains |-> To(l, id, "contains"), anchor |-> From(l, id, "anchors")]

(* Standards of Math are in the answer to the search already. *)
Ready(l, found) ==
  {Item(l, None, id) : id \in {x \in found : IsMath(x) /\ x[1] = "standard" /\ Kind(x[2]) = "standard"}}

-----------------------------------------------------------------------------
Unread == [phase |-> "idle", q |-> None, got |-> {}, need |-> {}, parts |-> {},
           code |-> 0, before |-> {}, settled |-> FALSE]

Init == LoadInit /\ read = [r \in Readers |-> Unread]

Become(r, record) == read' = [read EXCEPT ![r] = record]
Fails(r) == Become(r, [read[r] EXCEPT !.phase = "done", !.code = 500])

(* A GET begins with the search; before and settled are kept for the properties. *)
Begin(r) == \E q \in Requests :
  /\ read[r].phase = "idle"
  /\ Become(r, [read[r] EXCEPT !.phase = "search", !.q = q, !.before = DOMAIN lri,
                               !.settled = phase = "loaded"])
  /\ UNCHANGED loadVars

Page(l, q) ==
  IF Cardinality(Hits(l, q)) <= PageSize THEN {Hits(l, q)} ELSE kSubset(PageSize, Hits(l, q))

Find(r) ==
  /\ read[r].phase = "search"
  /\ \E found \in Page(lri, read[r].q) :
       \/ /\ \E id \in found : Orphan(lri, id) \/ Lone(lri, read[r].q, id)
          /\ Fails(r)
       \/ /\ \A id \in found : ~Orphan(lri, id) /\ ~Lone(lri, read[r].q, id)
          /\ Become(r, [read[r] EXCEPT
                !.phase = "standards", !.got = Ready(lri, found),
                !.need = UNION {Wanted(lri, read[r].q, id) : id \in found}])
  /\ UNCHANGED loadVars

(* The next of them is fetched; whether it is there is found out then. *)
Fetch(r) == \E pair \in read[r].need :
  /\ read[r].phase = "standards"
  /\ IF pair[2] \in DOMAIN lri
     THEN Become(r, [read[r] EXCEPT !.got = @ \cup {Item(lri, pair[1], pair[2])},
                                    !.need = @ \ {pair}])
     ELSE Fails(r)
  /\ UNCHANGED loadVars

(* What belongs to the standards read: their components, then their anchors. *)
Components(got) == UNION {{<<item.id, x>> : x \in item.contains} : item \in got}
Anchors(got) == UNION {{<<item.id, x>> : x \in item.anchor} : item \in got}

Expand(r) ==
  /\ read[r].phase = "standards" /\ read[r].need = {}
  /\ Become(r, [read[r] EXCEPT !.phase = "components",
                  !.need = IF read[r].q.children THEN Components(read[r].got) ELSE {}])
  /\ UNCHANGED loadVars

Anchor(r) ==
  /\ read[r].phase = "components" /\ read[r].need = {}
  /\ Become(r, [read[r] EXCEPT !.phase = "anchors",
                  !.need = IF read[r].q.anchors THEN Anchors(read[r].got) ELSE {}])
  /\ UNCHANGED loadVars

FetchPart(r) == \E pair \in read[r].need :
  /\ read[r].phase \in {"components", "anchors"}
  /\ IF pair[2] \in DOMAIN lri
     THEN Become(r, [read[r] EXCEPT !.parts = @ \cup {pair}, !.need = @ \ {pair}])
     ELSE Fails(r)
  /\ UNCHANGED loadVars

Answer(r) ==
  /\ read[r].phase = "anchors" /\ read[r].need = {}
  /\ Become(r, [read[r] EXCEPT !.phase = "done", !.code = 200])
  /\ UNCHANGED loadVars

ReadNext(r) == Begin(r) \/ Find(r) \/ Fetch(r) \/ Expand(r) \/ Anchor(r) \/ FetchPart(r) \/ Answer(r)

Next == (LoadNext /\ UNCHANGED read) \/ \E r \in Readers : ReadNext(r)

Spec == Init /\ [][Next]_vars

-----------------------------------------------------------------------------
(* The tree the standards form, said of their IDs alone. *)
Types(p) ==
  CASE p[2] = "Math" /\ Kind(p) = "practice_standard" ->
         {Initiative(p), Framework(p), SetOf(p), <<"standard", Part(p, 4)>>}
    [] p[2] = "Math" /\ Kind(p) = "standard" ->
         ToSet(MathBranch(p)) \cup {<<"standard", p>>}
    [] p[2] = "Math" /\ Kind(p) = "component" ->
         ToSet(MathBranch(p)) \cup {<<"standard", Part(p, 7)>>, <<"standard_component", Part(p, 8)>>}
    [] p[2] # "Math" /\ Kind(p) = "anchor_standard" ->
         {Initiative(p), Framework(p), SetOf(p), <<"strand", Part(p, 4)>>,
          <<"anchor_standard", Part(p, 5)>>}
    [] p[2] # "Math" /\ Kind(p) = "standard" -> ToSet(ElaBranch(p)) \cup {<<"standard", p>>}
    [] p[2] # "Math" /\ Kind(p) = "component" ->
         ToSet(ElaBranch(p)) \cup {<<"standard", Part(p, 5)>>, <<"standard_component", Part(p, 6)>>}
    [] OTHER -> {Initiative(p), Framework(p)}

(* Whether an entity contains another: it is the next one above it, or the     *)
(* domain of a standard of Math.  Strands include anchors and domains instead *)
(* of containing them.                                                        *)
Above(a, b) ==
  \/ Len(b[2]) = Len(a[2]) + 1 /\ a[1] # "strand" /\ IsPrefix(a[2], b[2])
  \/ a[1] = "domain" /\ b[1] = "standard" /\ IsMath(a) /\ IsStrictPrefix(a[2], b[2])

InStrand(id) == ~IsMath(id) /\ id[2][3] \in DOMAIN Strand

IncludesAnchor(a, b) == a[1] = "strand" /\ b[1] = "anchor_standard" /\ IsPrefix(a[2], b[2])
IncludesDomain(a, b) == a[1] = "strand" /\ b[1] = "domain" /\ InStrand(b) /\ a = StrandOf(b[2])
IsAnchorOf(a, b) == a[1] = "anchor_standard" /\ b[1] = "standard" /\ InStrand(b) /\ a = AnchorOf(b[2])

Relations(ids) ==
  [a \in ids |-> {<<"contains", b>> : b \in {x \in ids : Above(a, x)}}
                  \cup {<<"includes_anchor_standard", b>> : b \in {x \in ids : IncludesAnchor(a, x)}}
                  \cup {<<"includes_domain", b>> : b \in {x \in ids : IncludesDomain(a, x)}}
                  \cup {<<"anchors", b>> : b \in {x \in ids : IsAnchorOf(a, x)}}]

Paths(d) == {i.path : i \in {x \in ToSet(d.math) \cup ToSet(d.ela) : x.code # None}}

-----------------------------------------------------------------------------
(* What the loader writes is the tree that the IDs of the items describe: every *)
(* entity once, each link to an entity that is there, none left out, whatever  *)
(* the order of the lists (parseccssxml.py 304-601).                          *)
LoadedWhole ==
  phase \in {"send", "loaded"} =>
    tree = Relations(UNION {Types(p) : p \in Paths(given)})

(* The standards a request is about, said of IDs alone: none for a grade of    *)
(* Math, which contains domains.                                              *)
Asked(q, ids) ==
  LET parent == Parent(q)
      all == {id \in ids : id[1] = "standard" /\ Kind(id[2]) = "standard"}
      below(a) == {id \in all : a \in ids /\ IsStrictPrefix(a[2], id[2])}
  IN CASE parent = None -> all
       [] parent # None /\ parent[1] = "anchor_standard" ->
            {id \in all : parent \in ids /\ IsAnchorOf(parent, id)}
       [] parent # None /\ parent[1] = "grade" /\ IsMath(parent) -> {}
       [] parent # None /\ parent[1] = "domain" /\ ~IsMath(parent) ->
            IF q.grade_level = None \/ parent \notin ids \/ ~IsStrictPrefix(parent[2], q.grade_level[2])
            THEN {} ELSE below(q.grade_level)
       [] OTHER -> below(parent)

Got(r) == {item.id : item \in read[r].got}

(* An answer holds each standard once: all those that were in the LRI when the *)
(* GET began and none that is not there when it ends.  The list of what one   *)
(* page does not hold is cut.                                                 *)
AnswersBetween == \A r \in Readers :
  read[r].phase = "done" /\ read[r].code = 200 =>
    /\ \A x, y \in read[r].got : x.id = y.id => x = y
    /\ Got(r) \subseteq Asked(read[r].q, DOMAIN lri)
    /\ Cardinality(Hits(lri, read[r].q)) <= PageSize =>
         Asked(read[r].q, read[r].before) \subseteq Got(r)

(* The components in an answer are those of its standards, and all of them. *)
PartsWhole == \A r \in Readers :
  read[r].phase = "done" /\ read[r].code = 200 /\ read[r].q.children =>
    {x \in read[r].parts : x[2][1] = "standard_component"} =
      {x \in Got(r) \X {c \in DOMAIN tree : c[1] = "standard_component"} :
         IsStrictPrefix(x[1][2], x[2][2])}

(* After all is loaded a GET does not fail, but for a grade of one standard. *)
LoadedIsRead == \A r \in Readers :
  read[r].settled /\ lost = {} /\ read[r].phase = "done"
    => \/ read[r].code = 200
       \/ /\ read[r].q.grade_level \in DOMAIN lri
          /\ Cardinality(To(lri, read[r].q.grade_level, "contains")) = 1

-----------------------------------------------------------------------------
(* What clients might expect and do not get: a standard is read once it is     *)
(* listed, also while the standards are being loaded, and in a grade of its   *)
(* own.                                                                       *)
NeverFails == \A r \in Readers : read[r].code # 500
=============================================================================
