--------------------------- MODULE StandardsLoad ---------------------------
(* The loader of the Common Core standards (lri-b/parseccssxml.py): it reads   *)
(* two lists of items, builds the entities that contain each other, and sends *)
(* them to the LRI (query_sequencer.py).  A dotted ID is the sequence of its   *)
(* parts; an entity's ID is the pair of its type and a dotted ID.             *)
EXTENDS Integers, Sequences, FiniteSets, SequencesExt

CONSTANTS Documents,   \* the lists that may be loaded: [math |-> <<..>>, ela |-> <<..>>]
          MathGrades, ElaGrades,
          Strand,      \* the strand of those ELA domains that have one
          MaxLost,     \* bound on the entities the LRI does not create
          None

VARIABLES phase,   \* "parse", "math", "ela", "send", "loaded" or "stopped"
          given,   \* the lists being loaded
          left,    \* items still to parse, of both lists
          items,   \* what was parsed and is still to be processed, by list
          tree,    \* the links of the entities built so far, by their ID
          unsent,  \* IDs of the suite that are still to be sent
          lri,     \* the links of the entities the LRI holds, by their ID
          lost     \* IDs the LRI did not create

loadVars == <<phase, given, left, items, tree, unsent, lri, lost>>

-----------------------------------------------------------------------------
Part(p, n) == SubSeq(p, 1, n)

(* What a dotted ID names, by its number of parts; None is not understood. *)
MathKind(p) ==
  CASE p[3] = "Practice" -> "practice_standard"
    [] p[3] = "Content" /\ Len(p) = 4 -> IF p[4] \in MathGrades THEN "grade" ELSE "undef_domain"
    [] p[3] = "Content" /\ Len(p) = 5 -> "domain"
    [] p[3] = "Content" /\ Len(p) = 6 -> "cluster"
    [] p[3] = "Content" /\ Len(p) = 7 -> "standard"
    [] p[3] = "Content" /\ Len(p) >= 8 -> "component"
    [] OTHER -> None

ElaKind(p) ==
  CASE p[4] \notin ElaGrades -> "anchor_standard"
    [] p[4] \in ElaGrades /\ Len(p) = 4 -> "grade"
    [] p[4] \in ElaGrades /\ Len(p) = 5 -> "standard"
    [] OTHER -> "component"

Kind(p) == IF p[2] = "Math" THEN MathKind(p)
           ELSE IF p[2] = "ELA-Literacy" THEN ElaKind(p) ELSE None

-----------------------------------------------------------------------------
(* IDs end where the parser can still read them, and the two files hold what   *)
(* their names say.  CCRA is the only ELA domain without grades (parse_uri_id).*)
GoodId(p) ==
  /\ p \in Seq(ToSet(p)) /\ Len(p) >= 4
  /\ p[2] = "ELA-Literacy" => /\ p[3] = "CCRA" <=> p[4] \notin ElaGrades
                              /\ p[3] = "CCRA" => Len(p) >= 5

ASSUME DocumentsAssumption == \A d \in Documents :
  /\ DOMAIN d = {"math", "ela"}
  /\ d.math \in Seq(ToSet(d.math)) /\ d.ela \in Seq(ToSet(d.ela))
  /\ \A i \in ToSet(d.math) : i.code # None => GoodId(i.path) /\ i.path[2] # "ELA-Literacy"
  /\ \A i \in ToSet(d.ela) : i.code # None => GoodId(i.path) /\ i.path[2] # "Math"

-----------------------------------------------------------------------------
(* Building: an entity is made once, and links are added to what it holds; a   *)
(* link from an entity that is not there stops the program (KeyError), see     *)
(* Missing.                                                                   *)
Grown(t, made, links) ==
  [id \in DOMAIN t \cup made |->
     (IF id \in DOMAIN t THEN t[id] ELSE {}) \cup {<<k[2], k[3]>> : k \in {l \in links : l[1] = id}}]

Holds(from, to) == <<from, "contains", to>>
Chain(ids) == {Holds(ids[i], ids[i + 1]) : i \in 1 .. Len(ids) - 1}

Initiative(p) == <<"initiative", Part(p, 1)>>
Framework(p) == <<"framework", Part(p, 2)>>
SetOf(p) == <<"set", Part(p, 3)>>

PracticeBranch(p) == <<Initiative(p), Framework(p), SetOf(p), <<"standard", Part(p, 4)>>>>
MathBranch(p) ==
  <<Initiative(p), Framework(p), SetOf(p), <<"grade", Part(p, 4)>>,
    <<"domain", Part(p, 5)>>, <<"cluster", Part(p, 6)>>>>

\* Mutant: a component is named by its standard and never written.
MathMakesStandards(p) ==
  CASE Kind(p) = "practice_standard" -> ToSet(PracticeBranch(p))
    [] Kind(p) = "standard" -> ToSet(MathBranch(p)) \cup {<<"standard", p>>}
    [] Kind(p) = "component" -> ToSet(MathBranch(p))

(* The entities an item of Math makes. *)
MathMakes(p) ==
  CASE Kind(p) = "practice_standard" -> ToSet(PracticeBranch(p))
    [] Kind(p) = "standard" -> ToSet(MathBranch(p)) \cup {<<"standard", p>>}
    [] Kind(p) = "component" -> ToSet(MathBranch(p)) \cup {<<"standard_component", Part(p, 8)>>}

\* Mutant: a standard is put under its cluster only.
MathLinksOnce(p) ==
  CASE Kind(p) = "practice_standard" -> Chain(PracticeBranch(p))
    [] Kind(p) = "standard" ->
         Chain(MathBranch(p)) \cup {Holds(<<"cluster", Part(p, 6)>>, <<"standard", p>>)}
    [] Kind(p) = "component" ->
         Chain(MathBranch(p))
           \cup {Holds(<<"standard", Part(p, 7)>>, <<"standard_component", Part(p, 8)>>)}

(* A standard of the content is put under its cluster and under its domain. *)
MathLinks(p) ==
  CASE Kind(p) = "practice_standard" -> Chain(PracticeBranch(p))
    [] Kind(p) = "standard" ->
         Chain(MathBranch(p)) \cup {Holds(<<"cluster", Part(p, 6)>>, <<"standard", p>>),
                                    Holds(<<"domain", Part(p, 5)>>, <<"standard", p>>)}
    [] Kind(p) = "component" ->
         Chain(MathBranch(p))
           \cup {Holds(<<"standard", Part(p, 7)>>, <<"standard_component", Part(p, 8)>>)}

WithMath(t, p) == Grown(t, MathMakes(p), MathLinks(p))

StrandOf(p) == <<"strand", <<p[1], p[2], "CCRA", Strand[p[3]]>>>>
AnchorOf(p) == <<"anchor_standard", <<p[1], p[2], "CCRA", Strand[p[3]], p[5]>>>>
AnchorBranch(p) == <<Initiative(p), Framework(p), SetOf(p), <<"strand", Part(p, 4)>>>>
ElaBranch(p) ==
  <<Initiative(p), Framework(p), <<"domain", Part(p, 3)>>, <<"grade", Part(p, 4)>>>>

ElaMakes(p) ==
  CASE Kind(p) = "anchor_standard" ->
         ToSet(AnchorBranch(p)) \cup {<<"anchor_standard", Part(p, 5)>>}
    [] Kind(p) = "standard" -> ToSet(ElaBranch(p)) \cup {<<"standard", p>>}
    [] Kind(p) = "component" -> ToSet(ElaBranch(p)) \cup {<<"standard_component", Part(p, 6)>>}
    [] OTHER -> {Initiative(p), Framework(p)}

(* Standards and components put their domain into its strand, and standards    *)
(* are linked to their anchor, where there is a strand.                       *)
Bound(p) ==
  IF p[3] \notin DOMAIN Strand THEN {}
  ELSE {<<StrandOf(p), "includes_domain", <<"domain", Part(p, 3)>>>>}
         \cup IF Kind(p) = "standard" THEN {<<AnchorOf(p), "anchors", <<"standard", p>>>>} ELSE {}

ElaLinks(p) ==
  CASE Kind(p) = "anchor_standard" ->
         Chain(AnchorBranch(p))
           \cup {<<<<"strand", Part(p, 4)>>, "includes_anchor_standard",
                   <<"anchor_standard", Part(p, 5)>>>>}
    [] Kind(p) = "standard" ->
         Chain(ElaBranch(p)) \cup {Holds(<<"grade", Part(p, 4)>>, <<"standard", p>>)} \cup Bound(p)
    [] Kind(p) = "component" ->
         Chain(ElaBranch(p)) \cup Bound(p)
           \cup {Holds(<<"standard", Part(p, 5)>>, <<"standard_component", Part(p, 6)>>)}
    [] OTHER -> {Holds(Initiative(p), Framework(p))}

WithEla(t, p) == Grown(t, ElaMakes(p), ElaLinks(p))

(* The entities an item needs and does not make itself.  Headings of Math are  *)
(* asked for a standard they do not have, and stop the program too.           *)
Needs(p) ==
  CASE Kind(p) = "component" /\ p[2] = "Math" -> {<<"standard", Part(p, 7)>>}
    [] Kind(p) = "component" /\ p[2] # "Math" ->
         {Initiative(p), <<"standard", Part(p, 5)>>}
           \cup IF p[3] \in DOMAIN Strand THEN {StrandOf(p)} ELSE {}
    [] Kind(p) = "standard" /\ p[2] # "Math" ->
         {Initiative(p)} \cup IF p[3] \in DOMAIN Strand THEN {StrandOf(p), AnchorOf(p)} ELSE {}
    [] Kind(p) \in {"anchor_standard", "grade"} /\ p[2] # "Math" -> {Initiative(p)}
    [] OTHER -> {}

Heading(p) == p[2] = "Math" /\ Kind(p) \in {"grade", "undef_domain", "domain", "cluster"}

Missing(t, p) == Heading(p) \/ ~(Needs(p) \subseteq DOMAIN t)

-----------------------------------------------------------------------------
Empty == [x \in {} |-> {}]

LoadInit ==
  /\ phase = "parse"
  /\ given \in Documents /\ left = given
  /\ items = [math |-> {}, ela |-> {}]
  /\ tree = Empty /\ lri = Empty
  /\ unsent = {} /\ lost = {}

Stop == phase' = "stopped" /\ UNCHANGED <<given, left, items, tree, unsent, lri, lost>>

(* The next item of a list, Math first: skipped when it has no code; a code     *)
(* seen before, in either list, stops the program, which looks the other item *)
(* up among the guids.                                                        *)
Parse(list) ==
  LET i == Head(left[list])
      seen == {x.code : x \in items.math \cup items.ela}
  IN /\ phase = "parse" /\ left[list] # <<>>
     /\ list = "ela" => left.math = <<>>
     /\ \/ i.code = None
           /\ left' = [left EXCEPT ![list] = Tail(@)]
           /\ UNCHANGED <<phase, given, items, tree, unsent, lri, lost>>
        \/ i.code # None /\ i.code \notin seen
           /\ left' = [left EXCEPT ![list] = Tail(@)]
           /\ items' = [items EXCEPT ![list] = @ \cup {i}]
           /\ UNCHANGED <<phase, given, tree, unsent, lri, lost>>
        \/ i.code # None /\ i.code \in seen /\ Stop

Parsed ==
  /\ phase = "parse" /\ left.math = <<>> /\ left.ela = <<>>
  /\ phase' = "math" /\ UNCHANGED <<given, left, items, tree, unsent, lri, lost>>

(* The order of the dotted IDs as texts: what is above comes before what is    *)
(* below it, and anchor standards (CCRA) before every other standard.         *)
Precedes(p, q) ==
  \/ IsStrictPrefix(p, q)
  \/ p[2] # "Math" /\ q[2] # "Math" /\ p[3] = "CCRA" /\ q[3] # "CCRA"

First(list) ==
  {i \in items[list] : \A j \in items[list] : ~Precedes(j.path, i.path)}

(* The next item of a list is put into the tree; of items with one ID only     *)
(* one is used.  An ID that is not understood stops the program at once.      *)
Process(list, With(_, _)) ==
  /\ phase = list
  /\ \/ /\ \E i \in items[list] : Kind(i.path) = None
        /\ Stop
     \/ \E i \in First(list) :
          /\ \A j \in items[list] : Kind(j.path) # None
          /\ \/ Missing(tree, i.path) /\ Stop
             \/ /\ ~Missing(tree, i.path)
                /\ tree' = With(tree, i.path)
                /\ items' = [items EXCEPT ![list] = {j \in @ : j.path # i.path}]
                /\ UNCHANGED <<phase, given, left, unsent, lri, lost>>

ProcessMath == Process("math", WithMath)
ProcessEla == Process("ela", WithEla)

(* After Math comes ELA, and after ELA everything is written to the suite. *)
MathDone ==
  /\ phase = "math" /\ items.math = {}
  /\ phase' = "ela" /\ UNCHANGED <<given, left, items, tree, unsent, lri, lost>>

Render ==
  /\ phase = "ela" /\ items.ela = {}
  /\ phase' = "send" /\ unsent' = DOMAIN tree
  /\ UNCHANGED <<given, left, items, tree, lri, lost>>

(* The suite is sent in the order of the IDs, that is, type by type. *)
TypeOrder == <<"anchor_standard", "cluster", "domain", "framework", "grade", "initiative",
               "set", "standard", "standard_component", "strand">>
Rank(id) == CHOOSE i \in 1 .. Len(TypeOrder) : TypeOrder[i] = id[1]

(* An entity that the LRI does not create is not noticed: a step without tests *)
(* succeeds.                                                                  *)
Send ==
  LET id == CHOOSE x \in unsent : \A other \in unsent : Rank(x) <= Rank(other)
  IN /\ phase = "send" /\ unsent # {}
     /\ unsent' = unsent \ {id}
     /\ \/ /\ lri' = [x \in DOMAIN lri \cup {id} |-> IF x = id THEN tree[id] ELSE lri[x]]
           /\ UNCHANGED lost
        \/ /\ Cardinality(lost) < MaxLost
           /\ lost' = lost \cup {id} /\ UNCHANGED lri
     /\ UNCHANGED <<phase, given, left, items, tree>>

Sent ==
  /\ phase = "send" /\ unsent = {}
  /\ phase' = "loaded" /\ UNCHANGED <<given, left, items, tree, unsent, lri, lost>>

LoadNext ==
  \/ Parse("math") \/ Parse("ela") \/ Parsed
  \/ ProcessMath \/ MathDone \/ ProcessEla \/ Render
  \/ Send \/ Sent
=============================================================================
