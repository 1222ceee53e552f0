------------------------------ MODULE CcssGet -------------------------------
(* What the CCSS middleware answers to a GET: one search in the LRI, whose    *)
(* first page is pruned and sorted.  Everything here is a function of the     *)
(* entities the LRI holds; the order in which it lists them is arbitrary.     *)
EXTENDS CcssPost

CONSTANTS PageSize,    \* entities in one page of a search (the LRI's default limit)
          PathsLimit,  \* the limit asked for with competency_paths
          Orderings    \* frameworks whose grades are read from an ordering path

(* The kinds that are listed without naming a parent. *)
Kinds == {"initiative", "framework", "set", "grade_level", "learning_resource", "competency_path",
          "anchor_standard"}

ASSUME PagesAssumption ==
  PageSize \in Nat \ {0} /\ PathsLimit \in Nat \ {0} /\ None \notin DOMAIN Orderings /\ None \notin Kinds

-----------------------------------------------------------------------------
(* Searches, one operator per kind.  opts maps the names of options to values. *)
Search(by, value) == [by |-> by, value |-> value, deep |-> FALSE]
OfType(type) == Search("types", type)

(* The value of the first of the options that is given. *)
Option(opts, keys) ==
  LET i == SelectInSeq(keys, LAMBDA k : k \in DOMAIN opts)
  IN IF i = 0 THEN None ELSE opts[keys[i]]

Under(opts, keys, type) ==
  IF Option(opts, keys) = None THEN OfType(type)
  ELSE Search("contained_by", Option(opts, keys))

InitiativeQuery(opts) == OfType("initiative")
FrameworkQuery(opts) == Under(opts, <<"initiative">>, "framework")
SetQuery(opts) == Under(opts, <<"framework">>, "set")

GradeQuery(opts) ==
  LET parent == Option(opts, <<"framework", "set", "domain">>)
  IN IF parent \in DOMAIN Orderings
     THEN [Search("id", Orderings[parent]) EXCEPT !.deep = TRUE]
     ELSE Under(opts, <<"framework", "set", "domain">>, "grade_level")

(* Without a parent the text of the search is not JSON and the LRI refuses it. *)
ContainerQuery(opts) == Search("contained_by", Option(opts, <<"parent">>))
CompetencyQuery(opts) == Search("contained_by", Option(opts, <<"parent">>))

DomainQuery(opts) ==
  LET parent == Option(opts, <<"grade_level", "framework">>)
  IN IF \E f \in DOMAIN Orderings : parent = Orderings[f]
     THEN [Search("id", parent) EXCEPT !.deep = TRUE]
     ELSE Under(opts, <<"grade_level", "framework">>, "domain")

ClusterQuery(opts) == Under(opts, <<"domain">>, "cluster")
ComponentQuery(opts) == Under(opts, <<"standard">>, "standard_component")
SectionQuery(opts) == OfType("anchor_standard_section")
StrandQuery(opts) == Under(opts, <<"set">>, "strand")

(* The link is chosen by the kind the parent's ID names. *)
AnchorQuery(opts) ==
  LET parent == Option(opts, <<"strand", "standard">>)
  IN IF parent = None THEN OfType("anchor_standard") ELSE Search("anchors", parent)

(* The steps of paths come with a path or an author, not with all paths. *)
PathQuery(opts) ==
  IF "competency_path" \in DOMAIN opts
  THEN [Search("id", opts.competency_path) EXCEPT !.deep = TRUE]
  ELSE IF "authored_by" \in DOMAIN opts
       THEN [Search("authored_by", opts.authored_by) EXCEPT !.deep = TRUE]
       ELSE OfType("competency_path")

ResourceQuery(opts) ==
  IF "learning_resource" \in DOMAIN opts THEN Search("id", opts.learning_resource)
  ELSE IF "competency" \in DOMAIN opts THEN Search("teaches", opts.competency)
       ELSE OfType("learning_resource")

(* Not here are standards, which StandardsRead answers, and the names of the   *)
(* properties of a type, which come from the schema.                          *)
Queries ==
  {"initiatives", "frameworks", "sets", "grade_levels", "competency_containers",
   "competencys", "domains", "clusters", "standard_components", "strands",
   "anchor_standards", "anchor_standard_sections", "competency_paths", "learning_resources"}

CreateQuery(path, opts) ==
  CASE path = "initiatives" -> InitiativeQuery(opts)
    [] path = "frameworks" -> FrameworkQuery(opts)
    [] path = "sets" -> SetQuery(opts)
    [] path = "grade_levels" -> GradeQuery(opts)
    [] path = "competency_containers" -> ContainerQuery(opts)
    [] path = "competencys" -> CompetencyQuery(opts)
    [] path = "domains" -> DomainQuery(opts)
    [] path = "clusters" -> ClusterQuery(opts)
    [] path = "standard_components" -> ComponentQuery(opts)
    [] path = "strands" -> StrandQuery(opts)
    [] path = "anchor_standards" -> AnchorQuery(opts)
    [] path = "anchor_standard_sections" -> SectionQuery(opts)
    [] path = "competency_paths" -> PathQuery(opts)
    [] path = "learning_resources" -> ResourceQuery(opts)

\* Mutant: an entity is found under its parent only if it names it itself.
HitsForward(q) ==
  {id \in DOMAIN lri :
     CASE q.by = "id" -> id = q.value
       [] q.by = "types" -> q.value \in lri[id].types
       [] OTHER -> q.value \in DOMAIN lri /\ q.value \in lri[id][q.by]}

(* What the LRI finds.  The other searches name a link: nothing is found under *)
(* an ID that no entity has; contained_by is the other direction of contains. *)
Hits(q) ==
  {id \in DOMAIN lri :
     CASE q.by = "id" -> id = q.value
       [] q.by = "types" -> q.value \in lri[id].types
       [] OTHER ->
            /\ q.value \in DOMAIN lri
            /\ \/ q.value \in lri[id][q.by]
               \/ q.by = "contained_by" /\ id \in lri[q.value].contains}

(* One page of them is read; the cursor to the rest is dropped. *)
Limit(path) == IF path = "competency_paths" THEN PathsLimit ELSE PageSize

Pages(path, q) ==
  IF Cardinality(Hits(q)) <= Limit(path) THEN {Hits(q)} ELSE kSubset(Limit(path), Hits(q))

-----------------------------------------------------------------------------
(* Pruning: which of the entities of a page are listed. *)
Failed == [code |-> 500, items |-> {}]
Listed(items) == [code |-> 200, items |-> items]

Steps(id) == lri[id].path_step \cap DOMAIN lri

SetPruner(found) == {id \in found : "set" \in lri[id].types}
ClusterPruner(found) == {id \in found : "standard" \notin lri[id].types}

DomainPruner(q, found) ==
  IF ~q.deep THEN found
  ELSE DOMAIN lri \cap UNION {lri[s].competency_in_path : s \in UNION {Steps(p) : p \in found}}

(* Sections are asked for a ccid under a name no entity has. *)
Prune(path, q, found) ==
  CASE path = "sets" -> Listed(SetPruner(found))
    [] path = "clusters" -> Listed(ClusterPruner(found))
    [] path = "domains" -> Listed(DomainPruner(q, found))
    [] path = "anchor_standard_sections" -> IF found = {} THEN Listed({}) ELSE Failed
    [] OTHER -> Listed(found)

-----------------------------------------------------------------------------
\* Mutant: a step is taken for the first when its previous is not in the path.
FirstsOrphans(steps) ==
  SelectSeq(steps, LAMBDA s : lri[s].previous \cap ToSet(steps) = {})

(* Sorting: only paths are put in another order than that of their names.     *)
Firsts(steps) ==
  LET first[i \in 0 .. Len(steps)] ==
        IF i = 0 THEN <<>>
        ELSE IF lri[steps[i]].previous = {} THEN Append(first[i - 1], steps[i]) ELSE first[i - 1]
  IN first[Len(steps)]

(* One pass over the steps: each that follows the last one ordered is added. *)
Follows(o, s) == lri[s].previous = {Last(o)} /\ s \notin ToSet(o)

Pass(ordered, steps) ==
  LET pass[i \in 0 .. Len(steps)] ==
        IF i = 0 THEN ordered
        ELSE IF Follows(pass[i - 1], steps[i]) THEN Append(pass[i - 1], steps[i]) ELSE pass[i - 1]
  IN pass[Len(steps)]

(* As many passes as there are steps.  Without a first step the sort looks    *)
(* for the name of a domain, finds none and fails.                            *)
SortByPrevious(steps) ==
  LET sorted[i \in 0 .. Len(steps)] ==
        IF i = 0 THEN Firsts(steps) ELSE Pass(sorted[i - 1], steps)
  IN sorted[Len(steps)]

Sortable(id) == Steps(id) = {} \/ Firsts(SetToSeq(Steps(id))) # <<>>

(* The orders in which the steps of a path may be answered. *)
Orders(id) == {SortByPrevious(steps) : steps \in SetToSeqs(Steps(id))}

(* What a step holds must be read as entities without steps of their own: the  *)
(* grades of an ordering are read without what their steps hold.              *)
Flat(path, id) ==
  LET held == UNION {lri[s].competency_in_path : s \in Steps(id)}
  IN IF path = "grade_levels" THEN held = {}
     ELSE \A c \in held \cap DOMAIN lri : lri[c].path_step = {}

(* Paths are sorted if all that is listed are paths; an empty list fails too. *)
PathSorter(path, q, items) ==
  IF /\ items # {}
     /\ \A id \in items : "competency_path" \in lri[id].types
     /\ q.deep => \A id \in items : Sortable(id) /\ Flat(path, id)
  THEN Listed(items) ELSE Failed

GradesAmong(items) == \E id \in items : "grade_level" \in lri[id].types

Sort(path, q, items) ==
  IF path \in {"competency_paths", "grade_levels"} /\ ~GradesAmong(items)
  THEN PathSorter(path, q, items) ELSE Listed(items)

-----------------------------------------------------------------------------
(* The answers a GET may have. *)
Filtered(opts) == "property" \in DOMAIN opts

Answer(path, opts, q, found) ==
  LET pruned == Prune(path, q, found)
  IN IF pruned = Failed \/ Filtered(opts) THEN pruned ELSE Sort(path, q, pruned.items)

Answers(path, opts) ==
  IF path \notin Queries THEN {[code |-> 404, items |-> {}]}
  ELSE LET q == CreateQuery(path, opts)
       IN IF q.value = None THEN {[code |-> 400, items |-> {}]}
          ELSE {Answer(path, opts, q, found) : found \in Pages(path, q)}

(* How the steps of a path are read: whole answers, or none. *)
Reads(id) ==
  IF Answers("competency_paths", [competency_path |-> id]) = {Failed} THEN {}
  ELSE Orders(id)
=============================================================================
