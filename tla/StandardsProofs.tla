--------------------------- MODULE StandardsProofs ---------------------------
(***************************************************************************)
(* Proofs about the loader of the standards and the GETs that read them:   *)
(* the tree that is written is the one the dotted IDs describe, and what   *)
(* an answer holds follows from that tree, however loading and reading are *)
(* interleaved.                                                            *)
(***************************************************************************)
EXTENDS StandardsRead, FiniteSetTheorems, WellFoundedInduction, TLAPS

-----------------------------------------------------------------------------
(* Dotted IDs and their beginnings.  A name of its own for the length keeps    *)
(* the provers from replacing it by the domain of the sequence.               *)

Sequence(s) == s \in Seq(ToSet(s))
Size(s) == Len(s)

LEMMA SequenceFrom ==
  ASSUME NEW n \in Nat, NEW s, NEW S, s \in [1 .. n -> S]
  PROVE  s \in Seq(S)
OBVIOUS

LEMMA SizeIs ==
  ASSUME NEW p, Sequence(p)
  PROVE  Size(p) \in Nat /\ Len(p) = Size(p) /\ DOMAIN p = 1 .. Size(p)
BY DEF Sequence, Size

LEMMA PartIs ==
  ASSUME NEW p, Sequence(p), NEW n \in 1 .. Size(p)
  PROVE  /\ Sequence(Part(p, n)) /\ Size(Part(p, n)) = n
         /\ \A k \in 1 .. n : Part(p, n)[k] = p[k]
<1> PICK s : s = SubSeq(p, 1, n)
  OBVIOUS
<1>1. n \in Nat /\ n \in 1 .. Len(p) /\ Len(p) \in Nat /\ DOMAIN p = 1 .. Len(p) /\ p \in Seq(ToSet(p))
  BY DEF Sequence, Size
<1>2. s = [k \in 1 .. n |-> p[k]] /\ Len(s) = n /\ s \in Seq(ToSet(p))
  BY <1>1
<1>3. s \in [1 .. n -> ToSet(s)]
  BY <1>2 DEF ToSet
<1>4. s \in Seq(ToSet(s))
  BY <1>1, <1>3, SequenceFrom
<1> QED
  BY <1>2, <1>4 DEF Part, Sequence, Size

LEMMA PartWhole ==
  ASSUME NEW p, Sequence(p)
  PROVE  Part(p, Size(p)) = p
BY DEF Part, Sequence, Size

LEMMA PartOfPart ==
  ASSUME NEW p, Sequence(p), NEW n \in 1 .. Size(p), NEW k \in 1 .. n
  PROVE  Part(Part(p, n), k) = Part(p, k)
<1>1. p \in Seq(ToSet(p)) /\ Len(p) \in Nat /\ n \in 1 .. Len(p)
  BY DEF Sequence, Size
<1>2. SubSeq(p, 1, n) = [i \in 1 .. n |-> p[i]] /\ SubSeq(p, 1, n) \in Seq(ToSet(p))
  BY <1>1
<1>3. SubSeq(SubSeq(p, 1, n), 1, k) = [i \in 1 .. k |-> p[i]] /\ SubSeq(p, 1, k) = [i \in 1 .. k |-> p[i]]
  BY <1>1, <1>2
<1> QED
  BY <1>3 DEF Part

LEMMA PrefixIs ==
  ASSUME NEW s, Sequence(s), NEW t, Sequence(t)
  PROVE  IsPrefix(s, t) <=> Size(s) <= Size(t) /\ s = Part(t, Size(s))
<1>1. SubSeq(s, 1, Len(s)) = s
  BY DEF Sequence
<1> QED
  BY <1>1 DEF IsPrefix, Part, Size

-----------------------------------------------------------------------------
(* What may be an ID of an entity: its type follows from the dotted ID. *)

IsName(s) ==
  /\ Sequence(s) /\ 1 <= Size(s) /\ Size(s) <= 8
  /\ Size(s) >= 3 => s[2] \in {"Math", "ELA-Literacy"}
  /\ Size(s) >= 3 /\ s[2] = "Math" =>
       /\ s[3] \in {"Practice", "Content"}
       /\ s[3] = "Practice" => Size(s) <= 4
  /\ Size(s) >= 3 /\ s[2] = "ELA-Literacy" =>
       /\ Size(s) <= 6
       /\ s[3] = "CCRA" => Size(s) <= 5
       /\ Size(s) >= 4 => (s[3] = "CCRA" <=> s[4] \notin ElaGrades)

Practice(s) == s[2] = "Math" /\ s[3] = "Practice"
Content(s) == s[2] = "Math" /\ s[3] = "Content"
Ccra(s) == s[2] = "ELA-Literacy" /\ s[3] = "CCRA"
Ela(s) == s[2] = "ELA-Literacy" /\ s[3] # "CCRA"

Level(s) ==
  CASE Size(s) = 1 -> "initiative"
    [] Size(s) = 2 -> "framework"
    [] Size(s) = 3 -> IF Ela(s) THEN "domain" ELSE "set"
    [] Size(s) = 4 -> IF Practice(s) THEN "standard" ELSE IF Ccra(s) THEN "strand" ELSE "grade"
    [] Size(s) = 5 -> IF Content(s) THEN "domain" ELSE IF Ccra(s) THEN "anchor_standard" ELSE "standard"
    [] Size(s) = 6 -> IF Content(s) THEN "cluster" ELSE "standard_component"
    [] Size(s) = 7 -> "standard"
    [] Size(s) = 8 -> "standard_component"

At(s) == <<Level(s), s>>
IsNode(a) == IsName(a[2]) /\ a = At(a[2])

Node(p, n) == At(Part(p, n))

(* The entity next above another. *)
Up(b) == Node(b[2], Size(b[2]) - 1)

(* The links to an entity. *)
Into(b) ==
  (IF Size(b[2]) > 1 /\ Up(b)[1] # "strand" THEN {Holds(Up(b), b)} ELSE {})
    \cup (IF b[1] = "standard" /\ Size(b[2]) = 7 THEN {Holds(<<"domain", Part(b[2], 5)>>, b)} ELSE {})
    \cup (IF b[1] = "anchor_standard" THEN {<<Up(b), "includes_anchor_standard", b>>} ELSE {})
    \cup (IF b[1] = "domain" /\ InStrand(b) THEN {<<StrandOf(b[2]), "includes_domain", b>>} ELSE {})
    \cup (IF b[1] = "standard" /\ InStrand(b) THEN {<<AnchorOf(b[2]), "anchors", b>>} ELSE {})

(* Whether one entity is related to another, see Relations. *)
Related(a, r, b) ==
  \/ r = "contains" /\ Above(a, b)
  \/ r = "includes_anchor_standard" /\ IncludesAnchor(a, b)
  \/ r = "includes_domain" /\ IncludesDomain(a, b)
  \/ r = "anchors" /\ IsAnchorOf(a, b)

LEMMA NameSize ==
  ASSUME NEW s, IsName(s)
  PROVE  Sequence(s) /\ Size(s) \in Nat /\ 1 <= Size(s) /\ Size(s) <= 8
BY SizeIs DEF IsName

LEMMA NameBeginnings ==
  ASSUME NEW s, IsName(s), NEW n \in 1 .. Size(s)
  PROVE  IsName(Part(s, n))
<1>0. Sequence(s) /\ Size(s) \in Nat /\ 1 <= Size(s) /\ Size(s) <= 8
  BY NameSize
<1>1. PICK t : t = Part(s, n)
  OBVIOUS
<1>2. Sequence(t) /\ Size(t) = n /\ \A k \in 1 .. n : t[k] = s[k]
  BY <1>0, <1>1, PartIs
<1>3. /\ n >= 2 => t[2] = s[2]
      /\ n >= 3 => t[3] = s[3]
      /\ n >= 4 => t[4] = s[4]
  BY <1>0, <1>2
<1>4. IsName(t)
  BY <1>0, <1>2, <1>3 DEF IsName
<1> QED
  BY <1>1, <1>4

LEMMA NodeIs ==
  ASSUME NEW s, IsName(s), NEW n \in 1 .. Size(s)
  PROVE  IsNode(Node(s, n)) /\ Node(s, n)[2] = Part(s, n) /\ Node(s, n)[1] = Level(Part(s, n))
BY NameBeginnings DEF IsNode, Node, At

LEMMA PrefixNext ==
  ASSUME NEW s, IsName(s), NEW t, IsName(t), Size(t) = Size(s) + 1
  PROVE  IsPrefix(s, t) <=> s = Part(t, Size(t) - 1)
<1>1. /\ Sequence(s) /\ Sequence(t) /\ 1 <= Size(s) /\ Size(s) <= 8 /\ 1 <= Size(t) /\ Size(t) <= 8
      /\ Size(s) \in Nat /\ Size(t) \in Nat
  BY NameSize
<1>2. Size(t) - 1 = Size(s) /\ Size(s) <= Size(t) /\ Size(s) >= 1
  BY <1>1
<1> QED
  BY <1>1, <1>2, PrefixIs

(* Which dotted IDs have which type. *)
LEMMA LevelIs ==
  ASSUME NEW s, IsName(s)
  PROVE  /\ Level(s) = "standard" <=>
              \/ Size(s) = 4 /\ Practice(s)
              \/ Size(s) = 5 /\ Ela(s)
              \/ Size(s) = 7 /\ Content(s)
         /\ Level(s) = "domain" <=> (Size(s) = 3 /\ Ela(s)) \/ (Size(s) = 5 /\ Content(s))
         /\ Level(s) = "grade" <=> Size(s) = 4 /\ (Ela(s) \/ Content(s))
         /\ Level(s) = "cluster" <=> Size(s) = 6 /\ Content(s)
         /\ Level(s) = "strand" <=> Size(s) = 4 /\ Ccra(s)
         /\ Level(s) = "anchor_standard" <=> Size(s) = 5 /\ Ccra(s)
         /\ Level(s) = "standard_component" <=>
              (Size(s) = 6 /\ Ela(s)) \/ (Size(s) = 8 /\ Content(s))
         /\ Size(s) \in {7, 8} => Content(s)
         /\ Size(s) >= 3 => Practice(s) \/ Content(s) \/ Ela(s) \/ Ccra(s)
         /\ Size(s) \in Nat /\ 1 <= Size(s) /\ Size(s) <= 8
<1>1. Size(s) \in Nat /\ 1 <= Size(s) /\ Size(s) <= 8
  BY NameSize
<1>2. Size(s) >= 3 =>
        \/ Practice(s) /\ Size(s) <= 4 /\ ~Content(s) /\ ~Ela(s) /\ ~Ccra(s)
        \/ Content(s) /\ ~Practice(s) /\ ~Ela(s) /\ ~Ccra(s)
        \/ Ela(s) /\ Size(s) <= 6 /\ ~Content(s) /\ ~Practice(s) /\ ~Ccra(s)
        \/ Ccra(s) /\ Size(s) <= 5 /\ ~Content(s) /\ ~Practice(s) /\ ~Ela(s)
  BY <1>1 DEF IsName, Practice, Content, Ela, Ccra
<1> DEFINE L == Level(s)
<1>a. /\ Size(s) = 1 => L = "initiative"
      /\ Size(s) = 2 => L = "framework"
      /\ Size(s) = 3 => L = IF Ela(s) THEN "domain" ELSE "set"
      /\ Size(s) = 4 => L = IF Practice(s) THEN "standard" ELSE IF Ccra(s) THEN "strand" ELSE "grade"
      /\ Size(s) = 5 => L = IF Content(s) THEN "domain" ELSE IF Ccra(s) THEN "anchor_standard" ELSE "standard"
      /\ Size(s) = 6 => L = IF Content(s) THEN "cluster" ELSE "standard_component"
      /\ Size(s) = 7 => L = "standard"
      /\ Size(s) = 8 => L = "standard_component"
  BY DEF Level
<1>3. CASE Size(s) = 1
  BY <1>2, <1>a, <1>3
<1>4. CASE Size(s) = 2
  BY <1>2, <1>a, <1>4
<1>5. CASE Size(s) = 3
  BY <1>2, <1>a, <1>5
<1>6. CASE Size(s) = 4
  BY <1>2, <1>a, <1>6
<1>7. CASE Size(s) = 5
  BY <1>2, <1>a, <1>7
<1>8. CASE Size(s) = 6
  BY <1>2, <1>a, <1>8
<1>9. CASE Size(s) = 7
  BY <1>2, <1>a, <1>9
<1>10. CASE Size(s) = 8
  BY <1>2, <1>a, <1>10
<1>11. Size(s) = 1 \/ Size(s) = 2 \/ Size(s) = 3 \/ Size(s) = 4 \/ Size(s) = 5 \/ Size(s) = 6
        \/ Size(s) = 7 \/ Size(s) = 8
  BY <1>1
<1> QED
  BY <1>3, <1>4, <1>5, <1>6, <1>7, <1>8, <1>9, <1>10, <1>11

LEMMA AtIs ==
  ASSUME NEW s, NEW a, a = At(s)
  PROVE  a[1] = Level(s) /\ a[2] = s
BY DEF At

LEMMA UpIs ==
  ASSUME NEW t, IsName(t), Size(t) > 1, NEW b, b = At(t)
  PROVE  /\ Up(b) = At(Part(t, Size(t) - 1)) /\ IsName(Part(t, Size(t) - 1))
         /\ Size(Part(t, Size(t) - 1)) = Size(t) - 1
<1>1. Sequence(t) /\ Size(t) \in Nat /\ Size(t) - 1 \in 1 .. Size(t)
  BY NameSize
<1>2. Up(b) = At(Part(t, Size(t) - 1))
  BY AtIs DEF Up, Node
<1> QED
  BY <1>1, <1>2, NameBeginnings, PartIs

LEMMA AboveIs ==
  ASSUME NEW s, IsName(s), NEW t, IsName(t), NEW a, a = At(s), NEW b, b = At(t)
  PROVE  Above(a, b) <=> \/ Size(t) > 1 /\ Up(b)[1] # "strand" /\ a = Up(b)
                         \/ b[1] = "standard" /\ Size(t) = 7 /\ a = <<"domain", Part(t, 5)>>
<1>1. /\ Sequence(s) /\ Sequence(t) /\ 1 <= Size(s) /\ Size(s) <= 8 /\ 1 <= Size(t) /\ Size(t) <= 8
      /\ Size(s) \in Nat /\ Size(t) \in Nat
  BY NameSize
<1>2. a[1] = Level(s) /\ a[2] = s /\ b[1] = Level(t) /\ b[2] = t
  BY AtIs
<1>4. ASSUME Size(t) = Size(s) + 1 /\ a[1] # "strand" /\ IsPrefix(s, t)
      PROVE  Size(t) > 1 /\ Up(b)[1] # "strand" /\ a = Up(b)
  <2>1. s = Part(t, Size(t) - 1) /\ Size(t) > 1
    BY <1>1, <1>4, PrefixNext
  <2> QED
    BY <1>4, <2>1, UpIs
<1>5. ASSUME Size(t) > 1 /\ Up(b)[1] # "strand" /\ a = Up(b)
      PROVE  Size(t) = Size(s) + 1 /\ a[1] # "strand" /\ IsPrefix(s, t)
  <2>1. PICK u : u = Part(t, Size(t) - 1)
    OBVIOUS
  <2>2. a = At(u) /\ Size(u) = Size(t) - 1
    BY <1>5, <2>1, UpIs
  <2>3. s = u
    BY <1>2, <2>2, AtIs
  <2>4. Size(t) = Size(s) + 1
    BY <1>1, <2>2, <2>3
  <2> QED
    BY <1>5, <2>1, <2>3, <2>4, PrefixNext
<1>6. ASSUME a[1] = "domain" /\ b[1] = "standard" /\ IsMath(a) /\ IsStrictPrefix(s, t)
      PROVE  b[1] = "standard" /\ Size(t) = 7 /\ a = <<"domain", Part(t, 5)>>
  <2>0. s[2] = "Math"
    BY <1>2, <1>6 DEF IsMath
  <2>1. Size(s) = 5
    BY <1>2, <1>6, <2>0, LevelIs DEF Ela
  <2>2. IsPrefix(s, t)
    BY <1>6 DEF IsStrictPrefix
  <2>3. Size(s) >= 1
    BY <1>1
  <2>a. Size(s) <= Size(t) /\ s = Part(t, Size(s))
    BY <1>1, <2>2, <2>3, PrefixIs
  <2>b. s = Part(t, 5)
    BY <2>1, <2>a
  <2>e. 5 \in 1 .. Size(t) /\ 2 \in 1 .. 5
    BY <1>1, <2>1, <2>a
  <2>4. t[2] = "Math"
    BY <1>1, <2>0, <2>b, <2>e, PartIs
  <2>c. ~Ela(t) /\ Level(t) = "standard"
    BY <1>2, <1>6, <2>4 DEF Ela
  <2>d. Size(t) = 4 \/ Size(t) = 7
    BY <2>c, LevelIs
  <2>6. Size(t) = 7
    BY <1>1, <2>d, <2>1, <2>a
  <2> QED
    BY <1>2, <1>6, <2>b, <2>6 DEF At
<1>7. ASSUME b[1] = "standard" /\ Size(t) = 7 /\ a = <<"domain", Part(t, 5)>>
      PROVE  a[1] = "domain" /\ b[1] = "standard" /\ IsMath(a) /\ IsStrictPrefix(s, t)
  <2>1. s = Part(t, 5) /\ a[1] = "domain"
    BY <1>2, <1>7
  <2>2. 5 \in 1 .. Size(t) /\ 2 \in 1 .. 5
    BY <1>7
  <2>3. Size(s) = 5 /\ s[2] = t[2]
    BY <1>1, <2>1, <2>2, PartIs
  <2>4. t[2] = "Math"
    BY <1>7, LevelIs DEF Content
  <2>a. s = Part(t, Size(s))
    BY <2>1, <2>3
  <2>b. Size(s) <= Size(t) /\ Size(s) >= 1
    BY <1>7, <2>3
  <2>5. IsPrefix(s, t)
    BY <1>1, <2>a, <2>b, PrefixIs
  <2> QED
    BY <1>2, <1>7, <2>1, <2>3, <2>4, <2>5 DEF IsMath, IsStrictPrefix
<1>8. Above(a, b) <=> \/ Size(t) = Size(s) + 1 /\ a[1] # "strand" /\ IsPrefix(s, t)
                      \/ a[1] = "domain" /\ b[1] = "standard" /\ IsMath(a) /\ IsStrictPrefix(s, t)
  BY <1>2 DEF Above, Size
<1> QED
  BY <1>4, <1>5, <1>6, <1>7, <1>8

LEMMA IncludesAnchorIs ==
  ASSUME NEW s, IsName(s), NEW t, IsName(t), NEW a, a = At(s), NEW b, b = At(t)
  PROVE  IncludesAnchor(a, b) <=> b[1] = "anchor_standard" /\ a = Up(b)
<1>1. /\ Sequence(s) /\ Sequence(t) /\ 1 <= Size(s) /\ Size(s) <= 8 /\ 1 <= Size(t) /\ Size(t) <= 8
      /\ Size(s) \in Nat /\ Size(t) \in Nat
  BY NameSize
<1>2. a[1] = Level(s) /\ a[2] = s /\ b[1] = Level(t) /\ b[2] = t
  BY AtIs
<1>3. IncludesAnchor(a, b) <=> a[1] = "strand" /\ b[1] = "anchor_standard" /\ IsPrefix(s, t)
  BY <1>2 DEF IncludesAnchor
<1>4. ASSUME a[1] = "strand", b[1] = "anchor_standard", IsPrefix(s, t)
      PROVE  a = Up(b)
  <2>1. Size(s) = 4 /\ Size(t) = 5
    BY <1>2, <1>4, LevelIs
  <2>a. Size(t) = Size(s) + 1 /\ Size(t) > 1
    BY <2>1
  <2>2. s = Part(t, Size(t) - 1)
    BY <1>4, <2>a, PrefixNext
  <2> QED
    BY <2>a, <2>2, UpIs
<1>5. ASSUME b[1] = "anchor_standard", a = Up(b)
      PROVE  a[1] = "strand" /\ IsPrefix(s, t)
  <2>1. Size(t) = 5 /\ Ccra(t)
    BY <1>2, <1>5, LevelIs
  <2>2. PICK u : u = Part(t, Size(t) - 1)
    OBVIOUS
  <2>a. Size(t) > 1
    BY <2>1
  <2>3. a = At(u)
    BY <1>5, <2>a, <2>2, UpIs
  <2>4. s = Part(t, Size(t) - 1) /\ Size(t) - 1 = 4
    BY <1>2, <2>1, <2>2, <2>3, AtIs
  <2>5. s = Part(t, 4) /\ 4 \in 1 .. Size(t) /\ 2 \in 1 .. 4 /\ 3 \in 1 .. 4
    BY <2>1, <2>4
  <2>6. Size(s) = 4 /\ s[2] = t[2] /\ s[3] = t[3]
    BY <1>1, <2>5, PartIs
  <2>7. Level(s) = "strand"
    BY <2>1, <2>6, LevelIs DEF Ccra
  <2>8. Size(t) = Size(s) + 1
    BY <2>1, <2>6
  <2> QED
    BY <1>2, <2>4, <2>7, <2>8, PrefixNext
<1> QED
  BY <1>3, <1>4, <1>5

(* The relations to an entity are the links that Into names. *)
LEMMA RelatedIs ==
  ASSUME NEW a, IsNode(a), NEW b, IsNode(b), NEW r
  PROVE  Related(a, r, b) <=> <<a, r, b>> \in Into(b)
<1>1. PICK s, t : s = a[2] /\ t = b[2]
  OBVIOUS
<1>2. IsName(s) /\ IsName(t) /\ a = At(s) /\ b = At(t) /\ b[2] = t
  BY <1>1 DEF IsNode
<1>3. IncludesDomain(a, b) <=> b[1] = "domain" /\ InStrand(b) /\ a = StrandOf(t)
  BY <1>2 DEF IncludesDomain, StrandOf
<1>4. IsAnchorOf(a, b) <=> b[1] = "standard" /\ InStrand(b) /\ a = AnchorOf(t)
  BY <1>2 DEF IsAnchorOf, AnchorOf
<1>5. <<a, r, b>> \in Into(b) <=>
        \/ Size(t) > 1 /\ Up(b)[1] # "strand" /\ a = Up(b) /\ r = "contains"
        \/ b[1] = "standard" /\ Size(t) = 7 /\ a = <<"domain", Part(t, 5)>> /\ r = "contains"
        \/ b[1] = "anchor_standard" /\ a = Up(b) /\ r = "includes_anchor_standard"
        \/ b[1] = "domain" /\ InStrand(b) /\ a = StrandOf(t) /\ r = "includes_domain"
        \/ b[1] = "standard" /\ InStrand(b) /\ a = AnchorOf(t) /\ r = "anchors"
  BY <1>2 DEF Into, Holds
<1>6. Above(a, b) <=> \/ Size(t) > 1 /\ Up(b)[1] # "strand" /\ a = Up(b)
                      \/ b[1] = "standard" /\ Size(t) = 7 /\ a = <<"domain", Part(t, 5)>>
  BY <1>2, AboveIs
<1>7. IncludesAnchor(a, b) <=> b[1] = "anchor_standard" /\ a = Up(b)
  BY <1>2, IncludesAnchorIs
<1> QED
  BY <1>3, <1>4, <1>5, <1>6, <1>7 DEF Related

-----------------------------------------------------------------------------
(* What an item makes and links, by its kind, said with the beginnings of its  *)
(* dotted ID.                                                                 *)

OfPractice(p) == Sequence(p) /\ Practice(p) /\ 4 <= Size(p)
OfStandard(p) == Sequence(p) /\ Content(p) /\ Size(p) = 7
OfComponent(p) == Sequence(p) /\ Content(p) /\ 8 <= Size(p)
OfAnchor(p) == Sequence(p) /\ Ccra(p) /\ 5 <= Size(p) /\ p[4] \notin ElaGrades
OfElaGrade(p) == Sequence(p) /\ Ela(p) /\ Size(p) = 4 /\ p[4] \in ElaGrades
OfElaStandard(p) == Sequence(p) /\ Ela(p) /\ Size(p) = 5 /\ p[4] \in ElaGrades
OfElaComponent(p) == Sequence(p) /\ Ela(p) /\ 6 <= Size(p) /\ p[4] \in ElaGrades

(* How many parts of a dotted ID name entities. *)
Depth(p, n) ==
  \/ Practice(p) /\ n <= 4
  \/ Content(p) /\ n <= 8
  \/ Ccra(p) /\ n <= 5 /\ p[4] \notin ElaGrades
  \/ Ela(p) /\ n <= 6 /\ p[4] \in ElaGrades

LEMMA NamesOf ==
  ASSUME NEW p, Sequence(p), 4 <= Size(p), NEW n \in 1 .. Size(p), Depth(p, n)
  PROVE  /\ IsName(Part(p, n)) /\ Size(Part(p, n)) = n
         /\ n >= 3 => /\ Practice(Part(p, n)) <=> Practice(p)
                      /\ Content(Part(p, n)) <=> Content(p)
                      /\ Ccra(Part(p, n)) <=> Ccra(p)
                      /\ Ela(Part(p, n)) <=> Ela(p)
                      /\ Part(p, n)[2] = p[2] /\ Part(p, n)[3] = p[3]
<1>1. PICK t : t = Part(p, n)
  OBVIOUS
<1>2. Sequence(t) /\ Size(t) = n /\ \A k \in 1 .. n : t[k] = p[k]
  BY <1>1, PartIs
<1>3. n \in Nat /\ Size(p) \in Nat /\ 1 <= n
  BY SizeIs
<1>4. /\ n >= 2 => t[2] = p[2]
      /\ n >= 3 => t[3] = p[3]
      /\ n >= 4 => t[4] = p[4]
  BY <1>2, <1>3
<1>5. n >= 3 => /\ Practice(t) <=> Practice(p)
                /\ Content(t) <=> Content(p)
                /\ Ccra(t) <=> Ccra(p)
                /\ Ela(t) <=> Ela(p)
  BY <1>3, <1>4 DEF Practice, Content, Ccra, Ela
<1>6. IsName(t)
  BY <1>2, <1>3, <1>4 DEF IsName, Depth, Practice, Content, Ccra, Ela
<1>7. n >= 3 => t[2] = p[2] /\ t[3] = p[3]
  BY <1>3, <1>4
<1> QED
  BY <1>1, <1>2, <1>5, <1>6, <1>7

(* The types of the beginnings. *)
LEMMA NodesOf ==
  ASSUME NEW p, Sequence(p), 4 <= Size(p), NEW n \in 1 .. Size(p), Depth(p, n)
  PROVE  /\ IsNode(Node(p, n)) /\ Node(p, n)[2] = Part(p, n) /\ IsName(Part(p, n))
         /\ Node(p, n) = At(Part(p, n))
         /\ n = 1 => Node(p, n) = <<"initiative", Part(p, n)>>
         /\ n = 2 => Node(p, n) = <<"framework", Part(p, n)>>
         /\ n = 3 /\ Ela(p) => Node(p, n) = <<"domain", Part(p, n)>>
         /\ n = 3 /\ ~Ela(p) => Node(p, n) = <<"set", Part(p, n)>>
         /\ n = 4 /\ Practice(p) => Node(p, n) = <<"standard", Part(p, n)>>
         /\ n = 4 /\ Ccra(p) => Node(p, n) = <<"strand", Part(p, n)>>
         /\ n = 4 /\ (Ela(p) \/ Content(p)) => Node(p, n) = <<"grade", Part(p, n)>>
         /\ n = 5 /\ Content(p) => Node(p, n) = <<"domain", Part(p, n)>>
         /\ n = 5 /\ Ccra(p) => Node(p, n) = <<"anchor_standard", Part(p, n)>>
         /\ n = 5 /\ Ela(p) => Node(p, n) = <<"standard", Part(p, n)>>
         /\ n = 6 /\ Content(p) => Node(p, n) = <<"cluster", Part(p, n)>>
         /\ n = 6 /\ Ela(p) => Node(p, n) = <<"standard_component", Part(p, n)>>
         /\ n = 7 => Node(p, n) = <<"standard", Part(p, n)>>
         /\ n = 8 => Node(p, n) = <<"standard_component", Part(p, n)>>
<1>1. PICK t : t = Part(p, n)
  OBVIOUS
<1>2. /\ IsName(t) /\ Size(t) = n
      /\ n >= 3 => /\ Practice(t) <=> Practice(p)
                   /\ Content(t) <=> Content(p)
                   /\ Ccra(t) <=> Ccra(p)
                   /\ Ela(t) <=> Ela(p)
  BY <1>1, NamesOf
<1>3. n \in Nat /\ 1 <= n
  BY SizeIs
<1>4. /\ ~(Ela(p) /\ Content(p)) /\ ~(Ela(p) /\ Ccra(p)) /\ ~(Ela(p) /\ Practice(p))
      /\ ~(Ccra(p) /\ Practice(p)) /\ ~(Ccra(p) /\ Content(p)) /\ ~(Content(p) /\ Practice(p))
  BY DEF Ela, Content, Ccra, Practice
<1>5. Node(p, n) = At(t) /\ At(t) = <<Level(t), t>>
  BY <1>1 DEF Node, At
<1>6. n = 1 => Level(t) = "initiative"
  BY <1>2 DEF Level
<1>7. n = 2 => Level(t) = "framework"
  BY <1>2 DEF Level
<1>8. n = 3 /\ ~Ela(p) => Level(t) = "set"
  BY <1>2 DEF Level
<1>9. IsNode(At(t)) /\ At(t)[2] = t
  BY <1>2, AtIs DEF IsNode
<1>10. /\ n = 3 /\ Ela(p) => Level(t) = "domain"
       /\ n = 5 /\ Content(p) => Level(t) = "domain"
       /\ n = 4 /\ Practice(p) => Level(t) = "standard"
       /\ n = 4 /\ Ccra(p) => Level(t) = "strand"
       /\ n = 4 /\ (Ela(p) \/ Content(p)) => Level(t) = "grade"
       /\ n = 5 /\ Ccra(p) => Level(t) = "anchor_standard"
       /\ n = 5 /\ Ela(p) => Level(t) = "standard"
       /\ n = 6 /\ Content(p) => Level(t) = "cluster"
       /\ n = 6 /\ Ela(p) => Level(t) = "standard_component"
       /\ n = 7 => Level(t) = "standard"
       /\ n = 8 => Level(t) = "standard_component"
  BY <1>2, <1>3, LevelIs
<1> QED
  BY <1>1, <1>2, <1>5, <1>6, <1>7, <1>8, <1>9, <1>10

(* The links to a beginning. *)
LEMMA IntoNode ==
  ASSUME NEW p, Sequence(p), 4 <= Size(p), NEW n \in 1 .. Size(p), Depth(p, n)
  PROVE  Into(Node(p, n)) =
           (IF n > 1 /\ ~(n = 5 /\ Ccra(p)) THEN {Holds(Node(p, n - 1), Node(p, n))} ELSE {})
             \cup (IF n = 7 THEN {Holds(Node(p, 5), Node(p, n))} ELSE {})
             \cup (IF n = 5 /\ Ccra(p)
                   THEN {<<Node(p, 4), "includes_anchor_standard", Node(p, n)>>} ELSE {})
             \cup (IF n = 3 /\ Ela(p) /\ p[3] \in DOMAIN Strand
                   THEN {<<StrandOf(p), "includes_domain", Node(p, n)>>} ELSE {})
             \cup (IF n = 5 /\ Ela(p) /\ p[3] \in DOMAIN Strand
                   THEN {<<AnchorOf(p), "anchors", Node(p, n)>>} ELSE {})
<1>1. PICK t, b : t = Part(p, n) /\ b = Node(p, n)
  OBVIOUS
<1>2. n \in Nat /\ 1 <= n /\ Size(p) \in Nat /\ n <= Size(p)
  BY SizeIs
<1>3. /\ IsName(t) /\ Size(t) = n /\ Sequence(t)
      /\ n >= 3 => /\ Practice(t) <=> Practice(p)
                   /\ Content(t) <=> Content(p)
                   /\ Ccra(t) <=> Ccra(p)
                   /\ Ela(t) <=> Ela(p)
                   /\ t[2] = p[2] /\ t[3] = p[3]
  BY <1>1, NamesOf, NameSize
<1>4. b = At(t) /\ b[2] = t /\ b[1] = Level(t)
  BY <1>1, NodesOf, AtIs
<1>5. Size(b[2]) = n
  BY <1>3, <1>4
<1>6. ASSUME n > 1
      PROVE  /\ Up(b) = Node(p, n - 1)
             /\ Up(b)[1] = "strand" <=> (n = 5 /\ Ccra(p))
  <2>1. n - 1 \in 1 .. n /\ n - 1 \in 1 .. Size(p) /\ Size(t) > 1
    BY <1>2, <1>3, <1>6
  <2>2. Part(t, n - 1) = Part(p, n - 1)
    BY <1>1, <2>1, PartOfPart
  <2>3. PICK u : u = Part(p, n - 1)
    OBVIOUS
  <2>4. Up(b) = At(u) /\ IsName(u) /\ Size(u) = n - 1
    BY <1>3, <1>4, <2>1, <2>2, <2>3, UpIs
  <2>5. Up(b)[1] = Level(u)
    BY <2>4, AtIs
  <2>6. Depth(p, n - 1)
    BY <1>2, <1>6 DEF Depth
  <2>7. n - 1 >= 3 => (Ccra(u) <=> Ccra(p))
    BY <2>1, <2>3, <2>6, NamesOf
  <2>8. Level(u) = "strand" <=> Size(u) = 4 /\ Ccra(u)
    BY <2>4, LevelIs
  <2> QED
    BY <1>2, <2>3, <2>4, <2>5, <2>7, <2>8 DEF Node
<1>7. n >= 7 => Content(t)
  BY <1>2, <1>3, LevelIs, NameSize
<1>8. ASSUME n = 7 PROVE b[1] = "standard" /\ <<"domain", Part(t, 5)>> = Node(p, 5)
  <2>1. 5 \in 1 .. n /\ 5 \in 1 .. Size(p) /\ Content(p)
    BY <1>2, <1>3, <1>7, <1>8
  <2>2. Part(t, 5) = Part(p, 5)
    BY <1>1, <2>1, PartOfPart
  <2>3. Depth(p, 5)
    BY <2>1 DEF Depth
  <2>4. b[1] = "standard"
    BY <1>1, <1>8, NodesOf
  <2> QED
    BY <2>1, <2>2, <2>3, <2>4, NodesOf
<1>9. b[1] = "anchor_standard" <=> n = 5 /\ Ccra(p)
  BY <1>2, <1>3, <1>4, LevelIs
<1>10. b[1] = "domain" /\ InStrand(b) <=> n = 3 /\ Ela(p) /\ p[3] \in DOMAIN Strand
  <2>1. b[1] = "domain" <=> (n = 3 /\ Ela(p)) \/ (n = 5 /\ Content(p))
    BY <1>2, <1>3, <1>4, LevelIs
  <2> QED
    BY <1>2, <1>3, <1>4, <2>1 DEF InStrand, IsMath, Ela, Content
<1>11. b[1] = "standard" /\ InStrand(b) <=> n = 5 /\ Ela(p) /\ p[3] \in DOMAIN Strand
  <2>1. b[1] = "standard" <=> (n = 4 /\ Practice(p)) \/ (n = 5 /\ Ela(p)) \/ (n = 7 /\ Content(p))
    BY <1>2, <1>3, <1>4, LevelIs
  <2> QED
    BY <1>2, <1>3, <1>4, <2>1 DEF InStrand, IsMath, Ela, Content, Practice
<1>12. n >= 3 => StrandOf(t) = StrandOf(p)
  <2>1. n >= 3 => t[1] = p[1]
    BY <1>1, <1>2, PartIs
  <2> QED
    BY <1>3, <2>1 DEF StrandOf
<1>13. n >= 5 => AnchorOf(t) = AnchorOf(p)
  <2>1. n >= 5 => t[1] = p[1] /\ t[5] = p[5]
    BY <1>1, <1>2, PartIs
  <2> QED
    BY <1>2, <1>3, <2>1 DEF AnchorOf
<1>14. Into(b) =
         (IF n > 1 /\ Up(b)[1] # "strand" THEN {Holds(Up(b), b)} ELSE {})
           \cup (IF b[1] = "standard" /\ n = 7 THEN {Holds(<<"domain", Part(t, 5)>>, b)} ELSE {})
           \cup (IF b[1] = "anchor_standard" THEN {<<Up(b), "includes_anchor_standard", b>>} ELSE {})
           \cup (IF b[1] = "domain" /\ InStrand(b) THEN {<<StrandOf(t), "includes_domain", b>>} ELSE {})
           \cup (IF b[1] = "standard" /\ InStrand(b) THEN {<<AnchorOf(t), "anchors", b>>} ELSE {})
  BY <1>4, <1>5 DEF Into
<1>15. n = 5 => n - 1 = 4
  OBVIOUS
<1> QED
  BY <1>1, <1>2, <1>6, <1>8, <1>9, <1>10, <1>11, <1>12, <1>13, <1>14, <1>15

(* Lists of four and of six. *)
LEMMA FourLinked ==
  ASSUME NEW a, NEW b, NEW c, NEW d
  PROVE  /\ ToSet(<<a, b, c, d>>) = {a, b, c, d}
         /\ Chain(<<a, b, c, d>>) = {Holds(a, b), Holds(b, c), Holds(c, d)}
<1> DEFINE s == <<a, b, c, d>>
<1>1. s[1] = a /\ s[2] = b /\ s[3] = c /\ s[4] = d /\ DOMAIN s = 1 .. 4 /\ Len(s) = 4
  OBVIOUS
<1> HIDE DEF s
<1>2. ToSet(s) = {a, b, c, d}
  BY <1>1 DEF ToSet
<1>3. Chain(s) = {Holds(s[i], s[i + 1]) : i \in 1 .. 3}
  BY <1>1 DEF Chain
<1>4. \A i \in 1 .. 3 : i = 1 \/ i = 2 \/ i = 3
  OBVIOUS
<1>5. \A x : x \in Chain(s) <=> x = Holds(s[1], s[2]) \/ x = Holds(s[2], s[3]) \/ x = Holds(s[3], s[4])
  BY <1>3, <1>4
<1> QED
  BY <1>1, <1>2, <1>5 DEF s

LEMMA SixLinked ==
  ASSUME NEW a, NEW b, NEW c, NEW d, NEW e, NEW f
  PROVE  /\ ToSet(<<a, b, c, d, e, f>>) = {a, b, c, d, e, f}
         /\ Chain(<<a, b, c, d, e, f>>) = {Holds(a, b), Holds(b, c), Holds(c, d), Holds(d, e), Holds(e, f)}
<1> DEFINE s == <<a, b, c, d, e, f>>
<1>1. /\ s[1] = a /\ s[2] = b /\ s[3] = c /\ s[4] = d /\ s[5] = e /\ s[6] = f
      /\ DOMAIN s = 1 .. 6 /\ Len(s) = 6
  OBVIOUS
<1> HIDE DEF s
<1>2. ToSet(s) = {a, b, c, d, e, f}
  BY <1>1 DEF ToSet
<1>3. Chain(s) = {Holds(s[i], s[i + 1]) : i \in 1 .. 5}
  BY <1>1 DEF Chain
<1>4. \A i \in 1 .. 5 : i = 1 \/ i = 2 \/ i = 3 \/ i = 4 \/ i = 5
  OBVIOUS
<1>5. \A x : x \in Chain(s) <=> \/ x = Holds(s[1], s[2]) \/ x = Holds(s[2], s[3]) \/ x = Holds(s[3], s[4])
                                \/ x = Holds(s[4], s[5]) \/ x = Holds(s[5], s[6])
  BY <1>3, <1>4
<1> QED
  BY <1>1, <1>2, <1>5 DEF s

Makes(p) == IF p[2] = "Math" THEN MathMakes(p) ELSE ElaMakes(p)
Links(p) == IF p[2] = "Math" THEN MathLinks(p) ELSE ElaLinks(p)

(* What the other operators need to know of an item. *)
Shown(p) ==
  /\ Links(p) = UNION {Into(b) : b \in Makes(p)}
  /\ \A b \in Types(p) : IsNode(b)
  /\ Makes(p) \subseteq Types(p) /\ Types(p) \subseteq Makes(p) \cup Needs(p)
  /\ \A l \in Links(p) : l[1] \in Makes(p) \cup Needs(p)

LEMMA PracticeShown ==
  ASSUME NEW p, OfPractice(p)
  PROVE  Shown(p)
<1>1. Sequence(p) /\ Practice(p) /\ 4 <= Size(p) /\ Size(p) \in Nat
  BY SizeIs DEF OfPractice
<1>2. Kind(p) = "practice_standard" /\ p[2] = "Math" /\ ~Ccra(p) /\ ~Ela(p)
  BY <1>1 DEF Kind, MathKind, Practice, Ccra, Ela
<1>3. \A n \in 1 .. 4 : n \in 1 .. Size(p) /\ Depth(p, n)
  BY <1>1 DEF Depth
<1>4. \A n \in 1 .. 4 : IsNode(Node(p, n))
  BY <1>1, <1>3, NodesOf
<1>5. /\ Initiative(p) = Node(p, 1) /\ Framework(p) = Node(p, 2) /\ SetOf(p) = Node(p, 3)
      /\ <<"standard", Part(p, 4)>> = Node(p, 4)
  <2>1. 1 \in 1 .. 4 /\ 2 \in 1 .. 4 /\ 3 \in 1 .. 4 /\ 4 \in 1 .. 4
    OBVIOUS
  <2> QED
    BY <1>1, <1>2, <1>3, <2>1, NodesOf DEF Initiative, Framework, SetOf
<1>6. Makes(p) = {Node(p, 1), Node(p, 2), Node(p, 3), Node(p, 4)} /\ Types(p) = Makes(p)
  BY <1>2, <1>5, FourLinked DEF Makes, MathMakes, PracticeBranch, Types
<1>7. Links(p) = {Holds(Node(p, 1), Node(p, 2)), Holds(Node(p, 2), Node(p, 3)), Holds(Node(p, 3), Node(p, 4))}
  BY <1>2, <1>5, FourLinked DEF Links, MathLinks, PracticeBranch
<1>8. /\ Into(Node(p, 1)) = {} /\ Into(Node(p, 2)) = {Holds(Node(p, 1), Node(p, 2))}
      /\ Into(Node(p, 3)) = {Holds(Node(p, 2), Node(p, 3))}
      /\ Into(Node(p, 4)) = {Holds(Node(p, 3), Node(p, 4))}
  BY <1>1, <1>2, <1>3, IntoNode
<1>9. Links(p) = UNION {Into(b) : b \in Makes(p)}
  BY <1>6, <1>7, <1>8
<1>10. \A l \in Links(p) : l[1] \in Makes(p)
  BY <1>6, <1>7 DEF Holds
<1>11. \A b \in Types(p) : IsNode(b)
  BY <1>4, <1>6
<1> QED
  BY <1>6, <1>9, <1>10, <1>11 DEF Shown

LEMMA StandardShown ==
  ASSUME NEW p, OfStandard(p)
  PROVE  Shown(p)
<1>1. Sequence(p) /\ Content(p) /\ Size(p) = 7 /\ 4 <= Size(p)
  BY DEF OfStandard
<1>2. Kind(p) = "standard" /\ p[2] = "Math" /\ ~Ccra(p) /\ ~Ela(p)
  BY <1>1 DEF Kind, MathKind, Content, Ccra, Ela, Size
<1>3. \A n \in 1 .. 7 : n \in 1 .. Size(p) /\ Depth(p, n)
  BY <1>1 DEF Depth
<1>4. \A n \in 1 .. 7 : IsNode(Node(p, n))
  BY <1>1, <1>3, NodesOf
<1>a. 1 \in 1 .. 7 /\ 2 \in 1 .. 7 /\ 3 \in 1 .. 7 /\ 4 \in 1 .. 7 /\ 5 \in 1 .. 7 /\ 6 \in 1 .. 7 /\ 7 \in 1 .. 7
  OBVIOUS
<1>5. /\ Initiative(p) = Node(p, 1) /\ Framework(p) = Node(p, 2) /\ SetOf(p) = Node(p, 3)
      /\ <<"grade", Part(p, 4)>> = Node(p, 4) /\ <<"domain", Part(p, 5)>> = Node(p, 5)
      /\ <<"cluster", Part(p, 6)>> = Node(p, 6) /\ <<"standard", p>> = Node(p, 7)
  <2>1. Part(p, 7) = p
    BY <1>1, PartWhole
  <2> QED
    BY <1>1, <1>2, <1>3, <1>a, <2>1, NodesOf DEF Initiative, Framework, SetOf
<1>b. /\ ToSet(MathBranch(p)) = {Node(p, 1), Node(p, 2), Node(p, 3), Node(p, 4), Node(p, 5), Node(p, 6)}
      /\ Chain(MathBranch(p)) = {Holds(Node(p, 1), Node(p, 2)), Holds(Node(p, 2), Node(p, 3)),
           Holds(Node(p, 3), Node(p, 4)), Holds(Node(p, 4), Node(p, 5)), Holds(Node(p, 5), Node(p, 6))}
  BY <1>5, SixLinked DEF MathBranch
<1>6. /\ Makes(p) = {Node(p, 1), Node(p, 2), Node(p, 3), Node(p, 4), Node(p, 5), Node(p, 6), Node(p, 7)}
      /\ Types(p) = Makes(p)
  BY <1>2, <1>5, <1>b DEF Makes, MathMakes, Types
<1>7. Links(p) = {Holds(Node(p, 1), Node(p, 2)), Holds(Node(p, 2), Node(p, 3)),
                  Holds(Node(p, 3), Node(p, 4)), Holds(Node(p, 4), Node(p, 5)),
                  Holds(Node(p, 5), Node(p, 6)), Holds(Node(p, 6), Node(p, 7)), Holds(Node(p, 5), Node(p, 7))}
  BY <1>2, <1>5, <1>b DEF Links, MathLinks
<1>8. /\ Into(Node(p, 1)) = {} /\ Into(Node(p, 2)) = {Holds(Node(p, 1), Node(p, 2))}
      /\ Into(Node(p, 3)) = {Holds(Node(p, 2), Node(p, 3))}
      /\ Into(Node(p, 4)) = {Holds(Node(p, 3), Node(p, 4))}
      /\ Into(Node(p, 5)) = {Holds(Node(p, 4), Node(p, 5))}
      /\ Into(Node(p, 6)) = {Holds(Node(p, 5), Node(p, 6))}
      /\ Into(Node(p, 7)) = {Holds(Node(p, 6), Node(p, 7)), Holds(Node(p, 5), Node(p, 7))}
  BY <1>1, <1>2, <1>3, <1>a, IntoNode
<1>9. Links(p) = UNION {Into(b) : b \in Makes(p)}
  BY <1>6, <1>7, <1>8
<1>10. \A l \in Links(p) : l[1] \in Makes(p)
  BY <1>6, <1>7 DEF Holds
<1>11. \A b \in Types(p) : IsNode(b)
  BY <1>4, <1>6
<1> QED
  BY <1>6, <1>9, <1>10, <1>11 DEF Shown

LEMMA ComponentShown ==
  ASSUME NEW p, OfComponent(p)
  PROVE  Shown(p)
<1>1. Sequence(p) /\ Content(p) /\ 8 <= Size(p) /\ 4 <= Size(p) /\ Size(p) \in Nat
  BY SizeIs DEF OfComponent
<1>2. Kind(p) = "component" /\ p[2] = "Math" /\ ~Ccra(p) /\ ~Ela(p)
  BY <1>1 DEF Kind, MathKind, Content, Ccra, Ela, Size
<1>3. \A n \in 1 .. 8 : n \in 1 .. Size(p) /\ Depth(p, n)
  BY <1>1 DEF Depth
<1>4. \A n \in 1 .. 8 : IsNode(Node(p, n))
  BY <1>1, <1>3, NodesOf
<1>a. /\ 1 \in 1 .. 8 /\ 2 \in 1 .. 8 /\ 3 \in 1 .. 8 /\ 4 \in 1 .. 8 /\ 5 \in 1 .. 8 /\ 6 \in 1 .. 8
      /\ 7 \in 1 .. 8 /\ 8 \in 1 .. 8
  OBVIOUS
<1>5. /\ Initiative(p) = Node(p, 1) /\ Framework(p) = Node(p, 2) /\ SetOf(p) = Node(p, 3)
      /\ <<"grade", Part(p, 4)>> = Node(p, 4) /\ <<"domain", Part(p, 5)>> = Node(p, 5)
      /\ <<"cluster", Part(p, 6)>> = Node(p, 6) /\ <<"standard", Part(p, 7)>> = Node(p, 7)
      /\ <<"standard_component", Part(p, 8)>> = Node(p, 8)
  BY <1>1, <1>2, <1>3, <1>a, NodesOf DEF Initiative, Framework, SetOf
<1>b. /\ ToSet(MathBranch(p)) = {Node(p, 1), Node(p, 2), Node(p, 3), Node(p, 4), Node(p, 5), Node(p, 6)}
      /\ Chain(MathBranch(p)) = {Holds(Node(p, 1), Node(p, 2)), Holds(Node(p, 2), Node(p, 3)),
           Holds(Node(p, 3), Node(p, 4)), Holds(Node(p, 4), Node(p, 5)), Holds(Node(p, 5), Node(p, 6))}
  BY <1>5, SixLinked DEF MathBranch
<1>6. /\ Makes(p) = {Node(p, 1), Node(p, 2), Node(p, 3), Node(p, 4), Node(p, 5), Node(p, 6), Node(p, 8)}
      /\ Types(p) = Makes(p) \cup {Node(p, 7)} /\ Needs(p) = {Node(p, 7)}
  BY <1>2, <1>5, <1>b DEF Makes, MathMakes, Types, Needs
<1>7. Links(p) = {Holds(Node(p, 1), Node(p, 2)), Holds(Node(p, 2), Node(p, 3)),
                  Holds(Node(p, 3), Node(p, 4)), Holds(Node(p, 4), Node(p, 5)),
                  Holds(Node(p, 5), Node(p, 6)), Holds(Node(p, 7), Node(p, 8))}
  BY <1>2, <1>5, <1>b DEF Links, MathLinks
<1>8. /\ Into(Node(p, 1)) = {} /\ Into(Node(p, 2)) = {Holds(Node(p, 1), Node(p, 2))}
      /\ Into(Node(p, 3)) = {Holds(Node(p, 2), Node(p, 3))}
      /\ Into(Node(p, 4)) = {Holds(Node(p, 3), Node(p, 4))}
      /\ Into(Node(p, 5)) = {Holds(Node(p, 4), Node(p, 5))}
      /\ Into(Node(p, 6)) = {Holds(Node(p, 5), Node(p, 6))}
      /\ Into(Node(p, 8)) = {Holds(Node(p, 7), Node(p, 8))}
  BY <1>1, <1>2, <1>3, <1>a, IntoNode
<1>9. Links(p) = UNION {Into(b) : b \in Makes(p)}
  BY <1>6, <1>7, <1>8
<1>10. \A l \in Links(p) : l[1] \in Makes(p) \cup Needs(p)
  BY <1>6, <1>7 DEF Holds
<1>11. \A b \in Types(p) : IsNode(b)
  BY <1>4, <1>6
<1> QED
  BY <1>6, <1>9, <1>10, <1>11 DEF Shown

LEMMA AnchorShown ==
  ASSUME NEW p, OfAnchor(p)
  PROVE  Shown(p)
<1>1. Sequence(p) /\ Ccra(p) /\ 5 <= Size(p) /\ 4 <= Size(p) /\ Size(p) \in Nat /\ p[4] \notin ElaGrades
  BY SizeIs DEF OfAnchor
<1>2. Kind(p) = "anchor_standard" /\ p[2] # "Math" /\ Ccra(p) /\ ~Ela(p)
  BY <1>1 DEF Kind, ElaKind, Ccra, Ela
<1>3. \A n \in 1 .. 5 : n \in 1 .. Size(p) /\ Depth(p, n)
  BY <1>1 DEF Depth
<1>4. \A n \in 1 .. 5 : IsNode(Node(p, n))
  BY <1>1, <1>3, NodesOf
<1>a. 1 \in 1 .. 5 /\ 2 \in 1 .. 5 /\ 3 \in 1 .. 5 /\ 4 \in 1 .. 5 /\ 5 \in 1 .. 5
  OBVIOUS
<1>5. /\ Initiative(p) = Node(p, 1) /\ Framework(p) = Node(p, 2) /\ SetOf(p) = Node(p, 3)
      /\ <<"strand", Part(p, 4)>> = Node(p, 4) /\ <<"anchor_standard", Part(p, 5)>> = Node(p, 5)
  BY <1>1, <1>2, <1>3, <1>a, NodesOf DEF Initiative, Framework, SetOf
<1>b. /\ ToSet(AnchorBranch(p)) = {Node(p, 1), Node(p, 2), Node(p, 3), Node(p, 4)}
      /\ Chain(AnchorBranch(p)) = {Holds(Node(p, 1), Node(p, 2)), Holds(Node(p, 2), Node(p, 3)),
           Holds(Node(p, 3), Node(p, 4))}
  BY <1>5, FourLinked DEF AnchorBranch
<1>6. /\ Makes(p) = {Node(p, 1), Node(p, 2), Node(p, 3), Node(p, 4), Node(p, 5)}
      /\ Types(p) = Makes(p)
  BY <1>2, <1>5, <1>b DEF Makes, ElaMakes, Types
<1>7. Links(p) = {Holds(Node(p, 1), Node(p, 2)), Holds(Node(p, 2), Node(p, 3)),
                  Holds(Node(p, 3), Node(p, 4)), <<Node(p, 4), "includes_anchor_standard", Node(p, 5)>>}
  BY <1>2, <1>5, <1>b DEF Links, ElaLinks
<1>8. /\ Into(Node(p, 1)) = {} /\ Into(Node(p, 2)) = {Holds(Node(p, 1), Node(p, 2))}
      /\ Into(Node(p, 3)) = {Holds(Node(p, 2), Node(p, 3))}
      /\ Into(Node(p, 4)) = {Holds(Node(p, 3), Node(p, 4))}
      /\ Into(Node(p, 5)) = {<<Node(p, 4), "includes_anchor_standard", Node(p, 5)>>}
  BY <1>1, <1>2, <1>3, <1>a, IntoNode
<1>9. Links(p) = UNION {Into(b) : b \in Makes(p)}
  BY <1>6, <1>7, <1>8
<1>10. \A l \in Links(p) : l[1] \in Makes(p)
  BY <1>6, <1>7 DEF Holds
<1>11. \A b \in Types(p) : IsNode(b)
  BY <1>4, <1>6
<1> QED
  BY <1>6, <1>9, <1>10, <1>11 DEF Shown

LEMMA ElaGradeShown ==
  ASSUME NEW p, OfElaGrade(p)
  PROVE  Shown(p)
<1>1. Sequence(p) /\ Ela(p) /\ Size(p) = 4 /\ 4 <= Size(p) /\ p[4] \in ElaGrades
  BY DEF OfElaGrade
<1>2. Kind(p) = "grade" /\ p[2] # "Math" /\ ~Ccra(p)
  BY <1>1 DEF Kind, ElaKind, Ccra, Ela, Size
<1>3. \A n \in 1 .. 2 : n \in 1 .. Size(p) /\ Depth(p, n)
  BY <1>1 DEF Depth
<1>4. \A n \in 1 .. 2 : IsNode(Node(p, n))
  BY <1>1, <1>3, NodesOf
<1>a. 1 \in 1 .. 2 /\ 2 \in 1 .. 2
  OBVIOUS
<1>5. Initiative(p) = Node(p, 1) /\ Framework(p) = Node(p, 2)
  BY <1>1, <1>2, <1>3, <1>a, NodesOf DEF Initiative, Framework
<1>6. Makes(p) = {Node(p, 1), Node(p, 2)} /\ Types(p) = Makes(p)
  BY <1>2, <1>5 DEF Makes, ElaMakes, Types
<1>7. Links(p) = {Holds(Node(p, 1), Node(p, 2))}
  BY <1>2, <1>5 DEF Links, ElaLinks
<1>8. Into(Node(p, 1)) = {} /\ Into(Node(p, 2)) = {Holds(Node(p, 1), Node(p, 2))}
  BY <1>1, <1>2, <1>3, <1>a, IntoNode
<1>9. Links(p) = UNION {Into(b) : b \in Makes(p)}
  BY <1>6, <1>7, <1>8
<1>10. \A l \in Links(p) : l[1] \in Makes(p)
  BY <1>6, <1>7 DEF Holds
<1>11. \A b \in Types(p) : IsNode(b)
  BY <1>4, <1>6
<1> QED
  BY <1>6, <1>9, <1>10, <1>11 DEF Shown

(* The links of a strand that lead into a branch of ELA. *)
StrandLinks(p, n) ==
  IF p[3] \notin DOMAIN Strand THEN {}
  ELSE {<<StrandOf(p), "includes_domain", Node(p, 3)>>}
         \cup IF n = 5 THEN {<<AnchorOf(p), "anchors", Node(p, 5)>>} ELSE {}

LEMMA ElaStandardShown ==
  ASSUME NEW p, OfElaStandard(p)
  PROVE  Shown(p)
<1>1. Sequence(p) /\ Ela(p) /\ Size(p) = 5 /\ 4 <= Size(p) /\ p[4] \in ElaGrades
  BY DEF OfElaStandard
<1>2. Kind(p) = "standard" /\ p[2] # "Math" /\ ~Ccra(p) /\ ~Content(p) /\ ~Practice(p)
  BY <1>1 DEF Kind, ElaKind, Ccra, Ela, Content, Practice, Size
<1>3. \A n \in 1 .. 5 : n \in 1 .. Size(p) /\ Depth(p, n)
  BY <1>1 DEF Depth
<1>4. \A n \in 1 .. 5 : IsNode(Node(p, n))
  BY <1>1, <1>3, NodesOf
<1>a. 1 \in 1 .. 5 /\ 2 \in 1 .. 5 /\ 3 \in 1 .. 5 /\ 4 \in 1 .. 5 /\ 5 \in 1 .. 5
  OBVIOUS
<1>5. /\ Initiative(p) = Node(p, 1) /\ Framework(p) = Node(p, 2) /\ <<"domain", Part(p, 3)>> = Node(p, 3)
      /\ <<"grade", Part(p, 4)>> = Node(p, 4) /\ <<"standard", p>> = Node(p, 5)
  <2>1. Part(p, 5) = p
    BY <1>1, PartWhole
  <2> QED
    BY <1>1, <1>2, <1>3, <1>a, <2>1, NodesOf DEF Initiative, Framework
<1>b. /\ ToSet(ElaBranch(p)) = {Node(p, 1), Node(p, 2), Node(p, 3), Node(p, 4)}
      /\ Chain(ElaBranch(p)) = {Holds(Node(p, 1), Node(p, 2)), Holds(Node(p, 2), Node(p, 3)),
           Holds(Node(p, 3), Node(p, 4))}
  BY <1>5, FourLinked DEF ElaBranch
<1>c. Bound(p) = StrandLinks(p, 5)
  BY <1>2, <1>5 DEF Bound, StrandLinks
<1>6. /\ Makes(p) = {Node(p, 1), Node(p, 2), Node(p, 3), Node(p, 4), Node(p, 5)}
      /\ Types(p) = Makes(p)
      /\ p[3] \in DOMAIN Strand => StrandOf(p) \in Needs(p) /\ AnchorOf(p) \in Needs(p)
  BY <1>2, <1>5, <1>b DEF Makes, ElaMakes, Types, Needs
<1>7. Links(p) = {Holds(Node(p, 1), Node(p, 2)), Holds(Node(p, 2), Node(p, 3)),
                  Holds(Node(p, 3), Node(p, 4)), Holds(Node(p, 4), Node(p, 5))} \cup StrandLinks(p, 5)
  BY <1>2, <1>5, <1>b, <1>c DEF Links, ElaLinks
<1>8. /\ Into(Node(p, 1)) = {} /\ Into(Node(p, 2)) = {Holds(Node(p, 1), Node(p, 2))}
      /\ Into(Node(p, 4)) = {Holds(Node(p, 3), Node(p, 4))}
      /\ Into(Node(p, 3)) = {Holds(Node(p, 2), Node(p, 3))}
           \cup IF p[3] \in DOMAIN Strand THEN {<<StrandOf(p), "includes_domain", Node(p, 3)>>} ELSE {}
      /\ Into(Node(p, 5)) = {Holds(Node(p, 4), Node(p, 5))}
           \cup IF p[3] \in DOMAIN Strand THEN {<<AnchorOf(p), "anchors", Node(p, 5)>>} ELSE {}
  BY <1>1, <1>2, <1>3, <1>a, IntoNode
<1>9. Links(p) = UNION {Into(b) : b \in Makes(p)}
  BY <1>6, <1>7, <1>8 DEF StrandLinks
<1>10. \A l \in Links(p) : l[1] \in Makes(p) \cup Needs(p)
  BY <1>6, <1>7 DEF Holds, StrandLinks
<1>11. \A b \in Types(p) : IsNode(b)
  BY <1>4, <1>6
<1> QED
  BY <1>6, <1>9, <1>10, <1>11 DEF Shown

LEMMA ElaComponentShown ==
  ASSUME NEW p, OfElaComponent(p)
  PROVE  Shown(p)
<1>1. Sequence(p) /\ Ela(p) /\ 6 <= Size(p) /\ 4 <= Size(p) /\ Size(p) \in Nat /\ p[4] \in ElaGrades
  BY SizeIs DEF OfElaComponent
<1>2. Kind(p) = "component" /\ p[2] # "Math" /\ ~Ccra(p) /\ ~Content(p) /\ ~Practice(p)
  <2>1. Size(p) # 4 /\ Size(p) # 5
    BY <1>1
  <2>2. Len(p) # 4 /\ Len(p) # 5
    BY <2>1 DEF Size
  <2> QED
    BY <1>1, <2>2 DEF Kind, ElaKind, Ccra, Ela, Content, Practice
<1>3. \A n \in 1 .. 6 : n \in 1 .. Size(p) /\ Depth(p, n)
  BY <1>1 DEF Depth
<1>4. \A n \in 1 .. 6 : IsNode(Node(p, n))
  BY <1>1, <1>3, NodesOf
<1>a. 1 \in 1 .. 6 /\ 2 \in 1 .. 6 /\ 3 \in 1 .. 6 /\ 4 \in 1 .. 6 /\ 5 \in 1 .. 6 /\ 6 \in 1 .. 6
  OBVIOUS
<1>5. /\ Initiative(p) = Node(p, 1) /\ Framework(p) = Node(p, 2) /\ <<"domain", Part(p, 3)>> = Node(p, 3)
      /\ <<"grade", Part(p, 4)>> = Node(p, 4) /\ <<"standard", Part(p, 5)>> = Node(p, 5)
      /\ <<"standard_component", Part(p, 6)>> = Node(p, 6)
  BY <1>1, <1>2, <1>3, <1>a, NodesOf DEF Initiative, Framework
<1>b. /\ ToSet(ElaBranch(p)) = {Node(p, 1), Node(p, 2), Node(p, 3), Node(p, 4)}
      /\ Chain(ElaBranch(p)) = {Holds(Node(p, 1), Node(p, 2)), Holds(Node(p, 2), Node(p, 3)),
           Holds(Node(p, 3), Node(p, 4))}
  BY <1>5, FourLinked DEF ElaBranch
<1>c. Bound(p) = StrandLinks(p, 6)
  BY <1>2, <1>5 DEF Bound, StrandLinks
<1>6. /\ Makes(p) = {Node(p, 1), Node(p, 2), Node(p, 3), Node(p, 4), Node(p, 6)}
      /\ Types(p) = Makes(p) \cup {Node(p, 5)} /\ Node(p, 5) \in Needs(p)
      /\ p[3] \in DOMAIN Strand => StrandOf(p) \in Needs(p)
  BY <1>2, <1>5, <1>b DEF Makes, ElaMakes, Types, Needs
<1>7. Links(p) = {Holds(Node(p, 1), Node(p, 2)), Holds(Node(p, 2), Node(p, 3)),
                  Holds(Node(p, 3), Node(p, 4)), Holds(Node(p, 5), Node(p, 6))} \cup StrandLinks(p, 6)
  BY <1>2, <1>5, <1>b, <1>c DEF Links, ElaLinks
<1>8. /\ Into(Node(p, 1)) = {} /\ Into(Node(p, 2)) = {Holds(Node(p, 1), Node(p, 2))}
      /\ Into(Node(p, 4)) = {Holds(Node(p, 3), Node(p, 4))}
      /\ Into(Node(p, 3)) = {Holds(Node(p, 2), Node(p, 3))}
           \cup IF p[3] \in DOMAIN Strand THEN {<<StrandOf(p), "includes_domain", Node(p, 3)>>} ELSE {}
      /\ Into(Node(p, 6)) = {Holds(Node(p, 5), Node(p, 6))}
  BY <1>1, <1>2, <1>3, <1>a, IntoNode
<1>9. Links(p) = UNION {Into(b) : b \in Makes(p)}
  BY <1>6, <1>7, <1>8 DEF StrandLinks
<1>10. \A l \in Links(p) : l[1] \in Makes(p) \cup Needs(p)
  BY <1>6, <1>7 DEF Holds, StrandLinks
<1>11. \A b \in Types(p) : IsNode(b)
  BY <1>4, <1>6
<1> QED
  BY <1>6, <1>9, <1>10, <1>11 DEF Shown

(* The items that can be processed. *)
Usable(p) == GoodId(p) /\ Kind(p) # None /\ ~Heading(p)

LEMMA KindsOf ==
  ASSUME NEW p, Usable(p)
  PROVE  \/ OfPractice(p) \/ OfStandard(p) \/ OfComponent(p) \/ OfAnchor(p)
         \/ OfElaGrade(p) \/ OfElaStandard(p) \/ OfElaComponent(p)
<1>1. /\ Sequence(p) /\ 4 <= Size(p) /\ Size(p) \in Nat
      /\ p[2] = "ELA-Literacy" => /\ p[3] = "CCRA" <=> p[4] \notin ElaGrades
                                  /\ p[3] = "CCRA" => 5 <= Size(p)
  BY DEF Usable, GoodId, Sequence, Size
<1>2. p[2] = "Math" \/ p[2] = "ELA-Literacy"
  BY DEF Usable, Kind
<1>3. CASE p[2] = "ELA-Literacy"
  <2>1. \/ p[3] = "CCRA" /\ 5 <= Size(p) /\ p[4] \notin ElaGrades
        \/ p[3] # "CCRA" /\ p[4] \in ElaGrades /\ (Size(p) = 4 \/ Size(p) = 5 \/ 6 <= Size(p))
    BY <1>1, <1>3
  <2> QED
    BY <1>1, <1>3, <2>1 DEF OfAnchor, OfElaGrade, OfElaStandard, OfElaComponent, Ccra, Ela
<1>4. CASE p[2] = "Math"
  <2>1. Kind(p) = MathKind(p) /\ MathKind(p) # None
        /\ MathKind(p) \notin {"grade", "undef_domain", "domain", "cluster"}
    BY <1>4 DEF Usable, Kind, Heading
  <2>2. Size(p) = 4 \/ Size(p) = 5 \/ Size(p) = 6 \/ Size(p) = 7 \/ 8 <= Size(p)
    BY <1>1
  <2>3. CASE p[3] = "Practice"
    BY <1>1, <1>4, <2>3 DEF OfPractice, Practice
  <2>4. CASE p[3] = "Content"
    <3>1. Size(p) = 4 => MathKind(p) \in {"grade", "undef_domain"}
      BY <2>4 DEF MathKind, Size
    <3>2. Size(p) = 5 => MathKind(p) = "domain"
      BY <2>4 DEF MathKind, Size
    <3>3. Size(p) = 6 => MathKind(p) = "cluster"
      BY <2>4 DEF MathKind, Size
    <3>4. Size(p) = 7 \/ 8 <= Size(p)
      BY <2>1, <2>2, <3>1, <3>2, <3>3
    <3> QED
      BY <1>1, <1>4, <2>4, <3>4 DEF OfStandard, OfComponent, Content
  <2>5. CASE p[3] # "Practice" /\ p[3] # "Content"
    BY <2>1, <2>5 DEF MathKind
  <2> QED
    BY <2>3, <2>4, <2>5
<1> QED
  BY <1>2, <1>3, <1>4

LEMMA UsableShown ==
  ASSUME NEW p, Usable(p)
  PROVE  Shown(p)
BY KindsOf, PracticeShown, StandardShown, ComponentShown, AnchorShown, ElaGradeShown,
   ElaStandardShown, ElaComponentShown

-----------------------------------------------------------------------------
(* The tree of a set of items. *)

NodesMade(P) == UNION {Makes(p) : p \in P}
LinksMade(P) == UNION {Links(p) : p \in P}
TypesOf(P) == UNION {Types(p) : p \in P}

Closed(P) == \A p \in P : Usable(p) /\ Needs(p) \subseteq NodesMade(P)

LEMMA TypesMade ==
  ASSUME NEW P, Closed(P)
  PROVE  /\ NodesMade(P) = TypesOf(P)
         /\ \A b \in NodesMade(P) : IsNode(b)
         /\ \A l \in LinksMade(P) : l[1] \in NodesMade(P)
         /\ LinksMade(P) = UNION {Into(b) : b \in NodesMade(P)}
<1>1. \A p \in P : Shown(p) /\ Needs(p) \subseteq NodesMade(P)
  BY UsableShown DEF Closed
<1>2. \A p \in P : Makes(p) \subseteq NodesMade(P) /\ Types(p) \subseteq TypesOf(P) /\ Links(p) \subseteq LinksMade(P)
  BY DEF NodesMade, TypesOf, LinksMade
<1>3. /\ \A b \in NodesMade(P) : \E p \in P : b \in Makes(p)
      /\ \A b \in TypesOf(P) : \E p \in P : b \in Types(p)
      /\ \A l \in LinksMade(P) : \E p \in P : l \in Links(p)
  BY DEF NodesMade, TypesOf, LinksMade
<1>4. NodesMade(P) = TypesOf(P)
  <2>1. ASSUME NEW b \in NodesMade(P) PROVE b \in TypesOf(P)
    BY <1>1, <1>2, <1>3 DEF Shown
  <2>2. ASSUME NEW b \in TypesOf(P) PROVE b \in NodesMade(P)
    BY <1>1, <1>2, <1>3 DEF Shown
  <2> QED
    BY <2>1, <2>2
<1>5. \A b \in NodesMade(P) : IsNode(b)
  BY <1>1, <1>3 DEF Shown
<1>6. \A l \in LinksMade(P) : l[1] \in NodesMade(P)
  BY <1>1, <1>2, <1>3 DEF Shown
<1>7. LinksMade(P) = UNION {Into(b) : b \in NodesMade(P)}
  <2>1. ASSUME NEW l \in LinksMade(P) PROVE \E b \in NodesMade(P) : l \in Into(b)
    BY <1>1, <1>2, <1>3 DEF Shown
  <2>2. ASSUME NEW b \in NodesMade(P), NEW l \in Into(b) PROVE l \in LinksMade(P)
    BY <1>1, <1>2, <1>3 DEF Shown
  <2> QED
    BY <2>1, <2>2
<1> QED
  BY <1>4, <1>5, <1>6, <1>7

(* Links name an entity, a relation and an entity. *)
LEMMA IntoIs ==
  ASSUME NEW b, NEW l \in Into(b)
  PROVE  l = <<l[1], l[2], b>> /\ l[3] = b
BY DEF Into, Holds

LEMMA TreeOf ==
  ASSUME NEW P, Closed(P)
  PROVE  Grown(Empty, NodesMade(P), LinksMade(P)) = Relations(TypesOf(P))
<1> DEFINE N == NodesMade(P)
           L == LinksMade(P)
           Linked(a) == {<<k[2], k[3]>> : k \in {l \in L : l[1] = a}}
           Rel(a) == {<<"contains", b>> : b \in {x \in N : Above(a, x)}}
                       \cup {<<"includes_anchor_standard", b>> : b \in {x \in N : IncludesAnchor(a, x)}}
                       \cup {<<"includes_domain", b>> : b \in {x \in N : IncludesDomain(a, x)}}
                       \cup {<<"anchors", b>> : b \in {x \in N : IsAnchorOf(a, x)}}
<1>1. /\ N = TypesOf(P) /\ \A b \in N : IsNode(b)
      /\ L = UNION {Into(b) : b \in N}
  BY TypesMade
<1>2. Grown(Empty, N, L) = [a \in N |-> Linked(a)]
  BY DEF Grown, Empty
<1>3. Relations(N) = [a \in N |-> Rel(a)]
  BY DEF Relations
<1> HIDE DEF N, L
<1>4. ASSUME NEW a \in N PROVE Linked(a) = Rel(a)
  <2>1. ASSUME NEW x \in Linked(a) PROVE x \in Rel(a)
    <3>1. PICK l \in L : l[1] = a /\ x = <<l[2], l[3]>>
      OBVIOUS
    <3>2. PICK b \in N : l \in Into(b)
      BY <1>1
    <3>3. PICK r : r = l[2]
      OBVIOUS
    <3>4. l = <<a, r, b>> /\ x = <<r, b>>
      BY <3>1, <3>2, <3>3, IntoIs
    <3>5. <<a, r, b>> \in Into(b)
      BY <3>2, <3>4
    <3>6. Related(a, r, b)
      BY <1>1, <3>5, RelatedIs
    <3> QED
      BY <3>4, <3>6 DEF Related
  <2>2. ASSUME NEW x \in Rel(a) PROVE x \in Linked(a)
    <3>1. PICK r, b : b \in N /\ x = <<r, b>> /\ Related(a, r, b)
      BY DEF Related
    <3>2. <<a, r, b>> \in Into(b)
      BY <1>1, <3>1, RelatedIs
    <3>3. PICK l : l = <<a, r, b>>
      OBVIOUS
    <3>4. l \in L /\ l[1] = a /\ <<l[2], l[3]>> = x
      BY <1>1, <3>1, <3>2, <3>3
    <3> QED
      BY <3>4
  <2> QED
    BY <2>1, <2>2
<1>5. Grown(Empty, N, L) = Relations(N)
  BY <1>2, <1>3, <1>4
<1> QED
  BY <1>1, <1>5 DEF N, L

-----------------------------------------------------------------------------
(* What is kept while the lists are parsed, processed and sent. *)

Lists == {"math", "ela"}
CodedIn(s) == {x \in ToSet(s) : x.code # None}
PathsOf(S) == {i.path : i \in S}

Processed ==
  (PathsOf(CodedIn(given["math"])) \ PathsOf(items["math"]))
    \cup (PathsOf(CodedIn(given["ela"])) \ PathsOf(items["ela"]))

ListsKept ==
  /\ given \in Documents
  /\ DOMAIN items = Lists /\ DOMAIN left = Lists
  /\ \A l \in Lists : items[l] \subseteq CodedIn(given[l])
  /\ phase = "parse" =>
       \A l \in Lists : Sequence(left[l]) /\ CodedIn(given[l]) = items[l] \cup CodedIn(left[l])

(* The tree is that of the items processed so far, and what they need is in it. *)
TreeKept ==
  /\ phase = "parse" => tree = Empty
  /\ phase \in {"math", "ela"} =>
       Closed(Processed) /\ tree = Grown(Empty, NodesMade(Processed), LinksMade(Processed))
  /\ phase = "ela" => items["math"] = {}
  /\ phase \in {"send", "loaded"} =>
       Closed(Paths(given)) /\ tree = Relations(TypesOf(Paths(given)))

(* The LRI holds entities as they are in the tree. *)
LriKept ==
  /\ phase \notin {"send", "loaded"} => lri = Empty /\ lost = {}
  /\ phase \in {"send", "loaded"} => DOMAIN tree = unsent \cup lost \cup DOMAIN lri
  /\ phase = "loaded" => unsent = {}
  /\ IsFiniteSet(DOMAIN lri) /\ \A x \in DOMAIN lri : lri[x] = tree[x]

LoadInv == ListsKept /\ TreeKept /\ LriKept

LEMMA PathsAre ==
  ASSUME NEW d \in Documents
  PROVE  Paths(d) = PathsOf(CodedIn(d["math"])) \cup PathsOf(CodedIn(d["ela"]))
BY DEF Paths, PathsOf, CodedIn

LEMMA TailIs ==
  ASSUME NEW s, Sequence(s), s # <<>>
  PROVE  Sequence(Tail(s)) /\ ToSet(s) = {Head(s)} \cup ToSet(Tail(s))
<1>1. s \in Seq(ToSet(s)) /\ Len(s) \in Nat /\ DOMAIN s = 1 .. Len(s) /\ Len(s) # 0
  BY DEF Sequence
<1>2. PICK t : t = Tail(s)
  OBVIOUS
<1>3. t \in Seq(ToSet(s)) /\ Len(t) = Len(s) - 1 /\ Head(s) = s[1]
  BY <1>1, <1>2
<1>4. DOMAIN t = 1 .. Len(s) - 1 /\ \A i \in 1 .. Len(s) - 1 : t[i] = s[i + 1]
  BY <1>1, <1>2, <1>3
<1>5. ToSet(s) = {s[1]} \cup ToSet(t)
  <2>1. ASSUME NEW x \in ToSet(s) PROVE x = s[1] \/ x \in ToSet(t)
    <3>1. PICK i \in 1 .. Len(s) : x = s[i]
      BY <1>1 DEF ToSet
    <3>2. CASE i = 1
      BY <3>1, <3>2
    <3>3. CASE i # 1
      <4>1. i - 1 \in 1 .. Len(s) - 1 /\ (i - 1) + 1 = i
        BY <1>1, <3>3
      <4>2. t[i - 1] = x /\ i - 1 \in DOMAIN t
        BY <1>4, <3>1, <4>1
      <4> QED
        BY <4>2 DEF ToSet
    <3> QED
      BY <3>2, <3>3
  <2>2. ASSUME NEW x \in ToSet(t) PROVE x \in ToSet(s)
    <3>1. PICK i \in 1 .. Len(s) - 1 : x = t[i]
      BY <1>4 DEF ToSet
    <3>2. i + 1 \in 1 .. Len(s) /\ x = s[i + 1]
      BY <1>1, <1>4, <3>1
    <3> QED
      BY <1>1, <3>2 DEF ToSet
  <2>3. s[1] \in ToSet(s)
    <3>1. 1 \in DOMAIN s
      BY <1>1
    <3> QED
      BY <3>1 DEF ToSet
  <2> QED
    BY <2>1, <2>2, <2>3
<1>6. Len(s) - 1 \in Nat /\ t \in [1 .. Len(s) - 1 -> ToSet(t)]
  BY <1>1, <1>3, <1>4 DEF ToSet
<1>7. t \in Seq(ToSet(t))
  BY <1>6, SequenceFrom
<1> QED
  BY <1>2, <1>3, <1>5, <1>7 DEF Sequence

LEMMA GrownTwice ==
  ASSUME NEW N, NEW L, \A l \in L : l[1] \in N, NEW M, NEW K
  PROVE  Grown(Grown(Empty, N, L), M, K) = Grown(Empty, N \cup M, L \cup K)
<1> DEFINE Of(S, a) == {<<k[2], k[3]>> : k \in {l \in S : l[1] = a}}
<1>1. PICK g : g = Grown(Empty, N, L)
  OBVIOUS
<1>2. DOMAIN g = N /\ \A a \in N : g[a] = Of(L, a)
  BY <1>1 DEF Grown, Empty
<1>3. Grown(g, M, K) = [a \in N \cup M |-> (IF a \in N THEN g[a] ELSE {}) \cup Of(K, a)]
  BY <1>2 DEF Grown
<1>4. Grown(Empty, N \cup M, L \cup K) = [a \in N \cup M |-> Of(L \cup K, a)]
  BY DEF Grown, Empty
<1>5. \A a : Of(L \cup K, a) = Of(L, a) \cup Of(K, a)
  OBVIOUS
<1>6. \A a : a \notin N => Of(L, a) = {}
  OBVIOUS
<1> HIDE DEF Of
<1>7. \A a \in N \cup M : (IF a \in N THEN g[a] ELSE {}) \cup Of(K, a) = Of(L \cup K, a)
  BY <1>2, <1>5, <1>6
<1> QED
  BY <1>1, <1>3, <1>4, <1>7

LEMMA LevelIn ==
  ASSUME NEW s, IsName(s)
  PROVE  Level(s) \in {"initiative", "framework", "domain", "set", "standard", "strand", "grade",
                       "anchor_standard", "cluster", "standard_component"}
<1>1. Size(s) = 1 \/ Size(s) = 2 \/ Size(s) = 3 \/ Size(s) = 4 \/ Size(s) = 5 \/ Size(s) = 6
        \/ Size(s) = 7 \/ Size(s) = 8
  BY NameSize
<1> QED
  BY <1>1 DEF Level

LEMMA RankIs ==
  ASSUME NEW x, IsNode(x)
  PROVE  Rank(x) \in Nat
<1>1. x[1] \in {"initiative", "framework", "domain", "set", "standard", "strand", "grade",
                "anchor_standard", "cluster", "standard_component"}
  BY AtIs, LevelIn DEF IsNode
<1>2. \E i \in 1 .. 10 : TypeOrder[i] = x[1]
  BY <1>1 DEF TypeOrder
<1>3. Len(TypeOrder) = 10
  BY DEF TypeOrder
<1>4. \E i \in 1 .. Len(TypeOrder) : TypeOrder[i] = x[1]
  BY <1>2, <1>3
<1>5. Rank(x) \in 1 .. Len(TypeOrder)
  BY <1>4 DEF Rank
<1> QED
  BY <1>3, <1>5

LEMMA LeastNumber ==
  ASSUME NEW T \in SUBSET Nat, T # {}
  PROVE  \E m \in T : \A n \in T : m <= n
<1> DEFINE R == OpToRel(<, Nat)
<1>1. IsWellFoundedOn(R, Nat)
  BY NatLessThanWellFounded
<1>2. \A m, n \in Nat : m < n => <<m, n>> \in R
  BY DEF OpToRel
<1> HIDE DEF R
<1>3. PICK m \in T : \A n \in T : <<n, m>> \notin R
  BY <1>1, WFMin
<1>4. \A n \in T : m <= n
  <2> SUFFICES ASSUME NEW n \in T, n < m PROVE FALSE
    BY <1>3
  <2> QED
    BY <1>2, <1>3
<1> QED
  BY <1>4

(* There is a first entity to be sent. *)
LEMMA FirstSent ==
  ASSUME NEW S, S # {}, \A x \in S : IsNode(x)
  PROVE  (CHOOSE x \in S : \A other \in S : Rank(x) <= Rank(other)) \in S
<1>1. PICK T : T = {Rank(x) : x \in S}
  OBVIOUS
<1>2. T \in SUBSET Nat /\ T # {}
  BY <1>1, RankIs
<1>3. PICK m \in T : \A n \in T : m <= n
  BY <1>2, LeastNumber
<1>4. PICK x \in S : m = Rank(x)
  BY <1>1, <1>3
<1>5. \A other \in S : Rank(x) <= Rank(other)
  BY <1>1, <1>3, <1>4
<1> QED
  BY <1>5

LEMMA LoadBegins ==
  ASSUME LoadInit
  PROVE  LoadInv
<1>1. /\ phase = "parse" /\ given \in Documents /\ left = given
      /\ items = [math |-> {}, ela |-> {}]
      /\ tree = Empty /\ lri = Empty /\ unsent = {} /\ lost = {}
  BY DEF LoadInit
<1>2. ListsKept
  <2>1. DOMAIN given = Lists
    BY <1>1, DocumentsAssumption DEF Lists
  <2>2. Sequence(given["math"]) /\ Sequence(given["ela"])
    BY <1>1, DocumentsAssumption DEF Sequence
  <2>3. DOMAIN items = Lists /\ items["math"] = {} /\ items["ela"] = {}
    BY <1>1 DEF Lists
  <2>4. \A l \in Lists : items[l] = {} /\ Sequence(given[l])
    BY <2>2, <2>3 DEF Lists
  <2> QED
    BY <1>1, <2>1, <2>3, <2>4 DEF ListsKept
<1>3. TreeKept
  BY <1>1 DEF TreeKept
<1>4. LriKept
  <2>1. DOMAIN lri = {}
    BY <1>1 DEF Empty
  <2> QED
    BY <1>1, <2>1, FS_EmptySet DEF LriKept
<1> QED
  BY <1>2, <1>3, <1>4 DEF LoadInv

LEMMA StopKept ==
  ASSUME LoadInv, Stop, phase \notin {"send", "loaded"}
  PROVE  LoadInv'
<1>1. phase' = "stopped" /\ UNCHANGED <<given, left, items, tree, unsent, lri, lost>>
  BY DEF Stop
<1>2. ListsKept'
  BY <1>1 DEF LoadInv, ListsKept
<1>3. TreeKept'
  BY <1>1 DEF LoadInv, TreeKept
<1>4. LriKept'
  BY <1>1 DEF LoadInv, LriKept
<1> QED
  BY <1>2, <1>3, <1>4 DEF LoadInv

LEMMA ParseKept ==
  ASSUME LoadInv, NEW list \in Lists, Parse(list)
  PROVE  LoadInv'
<1>1. PICK s, i : s = left[list] /\ i = Head(s)
  OBVIOUS
<1>2. phase = "parse" /\ s # <<>> /\ Sequence(s)
  BY <1>1 DEF Parse, LoadInv, ListsKept
<1>3. Sequence(Tail(s)) /\ ToSet(s) = {i} \cup ToSet(Tail(s))
  BY <1>1, <1>2, TailIs
<1>4. PICK rest : rest = Tail(s)
  OBVIOUS
<1>5. Sequence(rest) /\ ToSet(s) = {i} \cup ToSet(rest)
  BY <1>3, <1>4
<1>6. /\ given \in Documents /\ DOMAIN items = Lists /\ DOMAIN left = Lists
      /\ \A l \in Lists : /\ items[l] \subseteq CodedIn(given[l])
                          /\ Sequence(left[l]) /\ CodedIn(given[l]) = items[l] \cup CodedIn(left[l])
  BY <1>2 DEF LoadInv, ListsKept
<1>7. CASE i.code = None /\ left' = [left EXCEPT ![list] = Tail(@)]
           /\ UNCHANGED <<phase, given, items, tree, unsent, lri, lost>>
  <2>1. left'[list] = rest /\ \A l \in Lists : l # list => left'[l] = left[l]
    BY <1>1, <1>4, <1>6, <1>7
  <2>2. DOMAIN left' = Lists
    BY <1>6, <1>7
  <2>3. CodedIn(s) = CodedIn(rest)
    BY <1>5, <1>7 DEF CodedIn
  <2>4. \A l \in Lists : Sequence(left'[l]) /\ CodedIn(given[l]) = items[l] \cup CodedIn(left'[l])
    BY <1>1, <1>5, <1>6, <2>1, <2>3
  <2>5. ListsKept'
    BY <1>6, <1>7, <2>2, <2>4 DEF ListsKept
  <2>6. TreeKept'
    BY <1>2, <1>7 DEF LoadInv, TreeKept
  <2>7. LriKept'
    BY <1>7 DEF LoadInv, LriKept
  <2> QED
    BY <2>5, <2>6, <2>7 DEF LoadInv
<1>8. CASE i.code # None /\ left' = [left EXCEPT ![list] = Tail(@)]
           /\ items' = [items EXCEPT ![list] = @ \cup {i}]
           /\ UNCHANGED <<phase, given, tree, unsent, lri, lost>>
  <2>1. /\ left'[list] = rest /\ \A l \in Lists : l # list => left'[l] = left[l]
        /\ items'[list] = items[list] \cup {i} /\ \A l \in Lists : l # list => items'[l] = items[l]
    BY <1>1, <1>4, <1>6, <1>8
  <2>2. DOMAIN left' = Lists /\ DOMAIN items' = Lists
    BY <1>6, <1>8
  <2>3. CodedIn(s) = {i} \cup CodedIn(rest)
    BY <1>5, <1>8 DEF CodedIn
  <2>4. \A l \in Lists : Sequence(left'[l]) /\ CodedIn(given[l]) = items'[l] \cup CodedIn(left'[l])
    <3> TAKE l \in Lists
    <3>1. CASE l = list
      BY <1>1, <1>5, <1>6, <2>1, <2>3, <3>1
    <3>2. CASE l # list
      BY <1>6, <2>1, <3>2
    <3> QED
      BY <3>1, <3>2
  <2>5. ListsKept'
    BY <1>6, <1>8, <2>2, <2>4 DEF ListsKept
  <2>6. TreeKept'
    BY <1>2, <1>8 DEF LoadInv, TreeKept
  <2>7. LriKept'
    BY <1>8 DEF LoadInv, LriKept
  <2> QED
    BY <2>5, <2>6, <2>7 DEF LoadInv
<1>9. CASE Stop
  BY <1>2, <1>9, StopKept
<1> QED
  BY <1>1, <1>7, <1>8, <1>9 DEF Parse

LEMMA ParsedKept ==
  ASSUME LoadInv, Parsed
  PROVE  LoadInv'
<1>1. /\ phase = "parse" /\ left.math = <<>> /\ left.ela = <<>> /\ phase' = "math"
      /\ UNCHANGED <<given, left, items, tree, unsent, lri, lost>>
  BY DEF Parsed
<1>2. \A l \in Lists : items[l] = CodedIn(given[l])
  <2>1. \A l \in Lists : CodedIn(left[l]) = {}
    BY <1>1 DEF Lists, CodedIn, ToSet
  <2> QED
    BY <1>1, <2>1 DEF LoadInv, ListsKept
<1>3. Processed = {}
  <2>1. "math" \in Lists /\ "ela" \in Lists
    BY DEF Lists
  <2> QED
    BY <1>2, <2>1 DEF Processed
<1>4. Closed({}) /\ NodesMade({}) = {} /\ LinksMade({}) = {}
  BY DEF Closed, NodesMade, LinksMade
<1>5. Grown(Empty, {}, {}) = Empty
  BY DEF Grown, Empty
<1>6. ListsKept'
  BY <1>1 DEF LoadInv, ListsKept
<1>7. TreeKept'
  <2>1. Processed' = {}
    BY <1>1, <1>3 DEF Processed
  <2>2. tree' = Empty
    BY <1>1 DEF LoadInv, TreeKept
  <2> QED
    BY <1>1, <1>4, <1>5, <2>1, <2>2 DEF TreeKept
<1>8. LriKept'
  BY <1>1 DEF LoadInv, LriKept
<1> QED
  BY <1>6, <1>7, <1>8 DEF LoadInv

(* An item of a list has an ID that can be read, of the list's framework. *)
LEMMA ItemPath ==
  ASSUME ListsKept, NEW list \in Lists, NEW i \in items[list], Kind(i.path) # None
  PROVE  GoodId(i.path) /\ (i.path[2] = "Math" <=> list = "math")
<1>1. given \in Documents /\ i \in ToSet(given[list]) /\ i.code # None
  BY DEF ListsKept, CodedIn
<1>2. CASE list = "math"
  <2>1. GoodId(i.path) /\ i.path[2] # "ELA-Literacy"
    BY <1>1, <1>2, DocumentsAssumption
  <2> QED
    BY <1>2, <2>1 DEF Kind
<1>3. CASE list = "ela"
  <2>1. GoodId(i.path) /\ i.path[2] # "Math"
    BY <1>1, <1>3, DocumentsAssumption
  <2> QED
    BY <1>3, <2>1
<1> QED
  BY <1>2, <1>3 DEF Lists

(* One item more is processed. *)
LEMMA OneMore ==
  ASSUME NEW P, Closed(P), NEW t, t = Grown(Empty, NodesMade(P), LinksMade(P)),
         NEW p, GoodId(p), Kind(p) # None, ~Missing(t, p)
  PROVE  /\ Closed(P \cup {p})
         /\ Grown(t, Makes(p), Links(p)) = Grown(Empty, NodesMade(P \cup {p}), LinksMade(P \cup {p}))
<1>1. NodesMade(P \cup {p}) = NodesMade(P) \cup Makes(p) /\ LinksMade(P \cup {p}) = LinksMade(P) \cup Links(p)
  BY DEF NodesMade, LinksMade
<1>2. DOMAIN t = NodesMade(P)
  BY DEF Grown, Empty
<1>3. Usable(p) /\ Needs(p) \subseteq NodesMade(P)
  BY <1>2 DEF Missing, Usable
<1>4. Closed(P \cup {p})
  BY <1>1, <1>3 DEF Closed
<1>5. \A l \in LinksMade(P) : l[1] \in NodesMade(P)
  BY TypesMade
<1>6. PICK N, L, M, K : N = NodesMade(P) /\ L = LinksMade(P) /\ M = Makes(p) /\ K = Links(p)
  OBVIOUS
<1>7. Grown(Grown(Empty, N, L), M, K) = Grown(Empty, N \cup M, L \cup K)
  BY <1>5, <1>6, GrownTwice
<1>8. Grown(t, Makes(p), Links(p)) = Grown(Empty, NodesMade(P \cup {p}), LinksMade(P \cup {p}))
  BY <1>1, <1>6, <1>7
<1> QED
  BY <1>4, <1>8

LEMMA ProcessKept ==
  ASSUME LoadInv, NEW list \in Lists, phase = list, NEW i \in items[list],
         Kind(i.path) # None, ~Missing(tree, i.path),
         tree' = Grown(tree, Makes(i.path), Links(i.path)),
         items' = [items EXCEPT ![list] = {j \in @ : j.path # i.path}],
         UNCHANGED <<phase, given, left, unsent, lri, lost>>
  PROVE  LoadInv'
<1>1. phase \in {"math", "ela"}
  BY DEF Lists
<1>2. PICK P, p : P = Processed /\ p = i.path
  OBVIOUS
<1>3. Closed(P) /\ tree = Grown(Empty, NodesMade(P), LinksMade(P))
  BY <1>1, <1>2 DEF LoadInv, TreeKept
<1>4. GoodId(p)
  BY <1>2, ItemPath DEF LoadInv
<1>5. Closed(P \cup {p}) /\ tree' = Grown(Empty, NodesMade(P \cup {p}), LinksMade(P \cup {p}))
  BY <1>2, <1>3, <1>4, OneMore
<1>6. /\ given \in Documents /\ DOMAIN items = Lists /\ DOMAIN left = Lists
      /\ \A l \in Lists : items[l] \subseteq CodedIn(given[l])
  BY DEF LoadInv, ListsKept
<1>7. /\ DOMAIN items' = Lists /\ items'[list] = {j \in items[list] : j.path # p}
      /\ \A l \in Lists : l # list => items'[l] = items[l]
  BY <1>2, <1>6
<1>8. Processed' = P \cup {p}
  <2>1. PathsOf(items'[list]) = PathsOf(items[list]) \ {p}
    BY <1>7 DEF PathsOf
  <2>2. p \in PathsOf(CodedIn(given[list]))
    BY <1>2, <1>6 DEF PathsOf
  <2>3. CASE list = "math"
    <3>1. items'["ela"] = items["ela"]
      BY <1>7, <2>3 DEF Lists
    <3> QED
      BY <1>2, <2>1, <2>2, <2>3, <3>1 DEF Processed
  <2>4. CASE list = "ela"
    <3>1. items'["math"] = items["math"]
      BY <1>7, <2>4 DEF Lists
    <3> QED
      BY <1>2, <2>1, <2>2, <2>4, <3>1 DEF Processed
  <2> QED
    BY <2>3, <2>4 DEF Lists
<1>9. ListsKept'
  <2>1. \A l \in Lists : items'[l] \subseteq items[l]
    BY <1>7
  <2> QED
    BY <1>1, <1>6, <1>7, <2>1 DEF ListsKept
<1>10. TreeKept'
  <2>1. phase' = "ela" => items'["math"] = {}
    BY <1>1, <1>7 DEF LoadInv, TreeKept, Lists
  <2> QED
    BY <1>1, <1>5, <1>8, <2>1 DEF TreeKept
<1>11. LriKept'
  <2>1. lri = Empty /\ lost = {}
    BY <1>1 DEF LoadInv, LriKept
  <2>2. DOMAIN lri = {}
    BY <2>1 DEF Empty
  <2>3. lri' = lri /\ lost' = lost /\ phase' = phase
    OBVIOUS
  <2> QED
    BY <1>1, <2>1, <2>2, <2>3, FS_EmptySet DEF LriKept
<1> QED
  BY <1>9, <1>10, <1>11 DEF LoadInv

LEMMA ProcessMathKept ==
  ASSUME LoadInv, ProcessMath
  PROVE  LoadInv'
<1>1. phase = "math" /\ "math" \in Lists
  BY DEF ProcessMath, Process, Lists
<1>2. CASE Stop
  BY <1>1, <1>2, StopKept
<1>3. CASE ~Stop
  <2>1. PICK i \in First("math") :
          /\ \A j \in items["math"] : Kind(j.path) # None
          /\ ~Missing(tree, i.path) /\ tree' = WithMath(tree, i.path)
          /\ items' = [items EXCEPT !["math"] = {j \in @ : j.path # i.path}]
          /\ UNCHANGED <<phase, given, left, unsent, lri, lost>>
    BY <1>3 DEF ProcessMath, Process
  <2>2. i \in items["math"] /\ Kind(i.path) # None
    BY <2>1 DEF First
  <2>3. i.path[2] = "Math"
    BY <1>1, <2>2, ItemPath DEF LoadInv
  <2>4. tree' = Grown(tree, Makes(i.path), Links(i.path))
    BY <2>1, <2>3 DEF WithMath, Makes, Links
  <2> QED
    BY <1>1, <2>1, <2>2, <2>4, ProcessKept
<1> QED
  BY <1>2, <1>3

LEMMA ProcessElaKept ==
  ASSUME LoadInv, ProcessEla
  PROVE  LoadInv'
<1>1. phase = "ela" /\ "ela" \in Lists
  BY DEF ProcessEla, Process, Lists
<1>2. CASE Stop
  BY <1>1, <1>2, StopKept
<1>3. CASE ~Stop
  <2>1. PICK i \in First("ela") :
          /\ \A j \in items["ela"] : Kind(j.path) # None
          /\ ~Missing(tree, i.path) /\ tree' = WithEla(tree, i.path)
          /\ items' = [items EXCEPT !["ela"] = {j \in @ : j.path # i.path}]
          /\ UNCHANGED <<phase, given, left, unsent, lri, lost>>
    BY <1>3 DEF ProcessEla, Process
  <2>2. i \in items["ela"] /\ Kind(i.path) # None
    BY <2>1 DEF First
  <2>3. i.path[2] # "Math"
    BY <1>1, <2>2, ItemPath DEF LoadInv
  <2>4. tree' = Grown(tree, Makes(i.path), Links(i.path))
    BY <2>1, <2>3 DEF WithEla, Makes, Links
  <2> QED
    BY <1>1, <2>1, <2>2, <2>4, ProcessKept
<1> QED
  BY <1>2, <1>3

LEMMA MathDoneKept ==
  ASSUME LoadInv, MathDone
  PROVE  LoadInv'
<1>1. /\ phase = "math" /\ items.math = {} /\ phase' = "ela"
      /\ UNCHANGED <<given, left, items, tree, unsent, lri, lost>>
  BY DEF MathDone
<1>2. ListsKept'
  BY <1>1 DEF LoadInv, ListsKept
<1>3. TreeKept'
  <2>1. Processed' = Processed
    BY <1>1 DEF Processed
  <2> QED
    BY <1>1, <2>1 DEF LoadInv, TreeKept
<1>4. LriKept'
  BY <1>1 DEF LoadInv, LriKept
<1> QED
  BY <1>2, <1>3, <1>4 DEF LoadInv

LEMMA RenderKept ==
  ASSUME LoadInv, Render
  PROVE  LoadInv'
<1>1. /\ phase = "ela" /\ items.ela = {} /\ phase' = "send" /\ unsent' = DOMAIN tree
      /\ UNCHANGED <<given, left, items, tree, lri, lost>>
  BY DEF Render
<1>2. ListsKept'
  BY <1>1 DEF LoadInv, ListsKept
<1>3. TreeKept'
  <2>1. given \in Documents /\ items["math"] = {} /\ items["ela"] = {}
    BY <1>1 DEF LoadInv, ListsKept, TreeKept
  <2>2. Processed = Paths(given)
    BY <2>1, PathsAre DEF Processed, PathsOf
  <2>3. Closed(Processed) /\ tree = Grown(Empty, NodesMade(Processed), LinksMade(Processed))
    BY <1>1 DEF LoadInv, TreeKept
  <2>4. tree = Relations(TypesOf(Processed))
    BY <2>3, TreeOf
  <2> QED
    BY <1>1, <2>2, <2>3, <2>4 DEF TreeKept
<1>4. LriKept'
  <2>1. lri = Empty /\ lost = {}
    BY <1>1 DEF LoadInv, LriKept
  <2>2. DOMAIN lri = {}
    BY <2>1 DEF Empty
  <2> QED
    BY <1>1, <2>1, <2>2, FS_EmptySet DEF LriKept
<1> QED
  BY <1>2, <1>3, <1>4 DEF LoadInv

(* The whole tree, once it is being sent. *)
Whole == TypesOf(Paths(given))

LEMMA WholeTree ==
  ASSUME LoadInv, phase \in {"send", "loaded"}
  PROVE  DOMAIN tree = Whole /\ tree = Relations(Whole) /\ \A b \in Whole : IsNode(b)
<1>1. Closed(Paths(given)) /\ tree = Relations(TypesOf(Paths(given)))
  BY DEF LoadInv, TreeKept
<1>2. DOMAIN tree = Whole /\ tree = Relations(Whole)
  BY <1>1 DEF Whole, Relations
<1> QED
  BY <1>1, <1>2, TypesMade DEF Whole

LEMMA SendKept ==
  ASSUME LoadInv, Send
  PROVE  LoadInv'
<1>1. PICK id : id = CHOOSE x \in unsent : \A other \in unsent : Rank(x) <= Rank(other)
  OBVIOUS
<1>2. /\ phase = "send" /\ unsent # {} /\ unsent' = unsent \ {id}
      /\ \/ /\ lri' = [x \in DOMAIN lri \cup {id} |-> IF x = id THEN tree[id] ELSE lri[x]]
            /\ UNCHANGED lost
         \/ lost' = lost \cup {id} /\ UNCHANGED lri
      /\ UNCHANGED <<phase, given, left, items, tree>>
  BY <1>1 DEF Send
<1>3. DOMAIN tree = Whole /\ (\A b \in Whole : IsNode(b)) /\ DOMAIN tree = unsent \cup lost \cup DOMAIN lri
  BY <1>2, WholeTree DEF LoadInv, LriKept
<1>4. \A b \in unsent : IsNode(b)
  BY <1>3
<1>5. id \in unsent
  BY <1>1, <1>2, <1>4, FirstSent
<1>6. IsFiniteSet(DOMAIN lri) /\ \A x \in DOMAIN lri : lri[x] = tree[x]
  BY DEF LoadInv, LriKept
<1>7. ListsKept'
  BY <1>2 DEF LoadInv, ListsKept
<1>8. TreeKept'
  BY <1>2 DEF LoadInv, TreeKept
<1>9. LriKept'
  <2>1. CASE lri' = [x \in DOMAIN lri \cup {id} |-> IF x = id THEN tree[id] ELSE lri[x]] /\ UNCHANGED lost
    <3>1. DOMAIN lri' = DOMAIN lri \cup {id}
      BY <2>1
    <3>2. IsFiniteSet(DOMAIN lri')
      BY <1>6, <3>1, FS_AddElement
    <3>3. \A x \in DOMAIN lri' : lri'[x] = tree[x]
      BY <1>6, <2>1, <3>1
    <3>4. DOMAIN tree = unsent' \cup lost' \cup DOMAIN lri'
      BY <1>2, <1>3, <1>5, <2>1, <3>1
    <3>5. phase' = "send" /\ tree' = tree
      BY <1>2
    <3> QED
      BY <3>2, <3>3, <3>4, <3>5 DEF LriKept
  <2>2. CASE lost' = lost \cup {id} /\ UNCHANGED lri
    <3>1. DOMAIN tree = unsent' \cup lost' \cup DOMAIN lri'
      BY <1>2, <1>3, <1>5, <2>2
    <3>2. phase' = "send" /\ tree' = tree
      BY <1>2
    <3> QED
      BY <1>6, <2>2, <3>1, <3>2 DEF LriKept
  <2> QED
    BY <1>2, <2>1, <2>2
<1> QED
  BY <1>7, <1>8, <1>9 DEF LoadInv

LEMMA SentKept ==
  ASSUME LoadInv, Sent
  PROVE  LoadInv'
<1>1. /\ phase = "send" /\ unsent = {} /\ phase' = "loaded"
      /\ UNCHANGED <<given, left, items, tree, unsent, lri, lost>>
  BY DEF Sent
<1>2. ListsKept'
  BY <1>1 DEF LoadInv, ListsKept
<1>3. TreeKept'
  BY <1>1 DEF LoadInv, TreeKept
<1>4. LriKept'
  BY <1>1 DEF LoadInv, LriKept
<1> QED
  BY <1>2, <1>3, <1>4 DEF LoadInv

LEMMA LoadIdle ==
  ASSUME LoadInv, UNCHANGED loadVars
  PROVE  LoadInv'
<1>1. UNCHANGED <<phase, given, left, items, tree, unsent, lri, lost>>
  BY DEF loadVars
<1>2. ListsKept'
  BY <1>1 DEF LoadInv, ListsKept
<1>3. TreeKept'
  <2>1. Processed' = Processed
    BY <1>1 DEF Processed
  <2> QED
    BY <1>1, <2>1 DEF LoadInv, TreeKept
<1>4. LriKept'
  BY <1>1 DEF LoadInv, LriKept
<1> QED
  BY <1>2, <1>3, <1>4 DEF LoadInv

LEMMA LoadStep ==
  ASSUME LoadInv, [Next]_vars
  PROVE  LoadInv'
<1>1. CASE LoadNext
  <2>1. "math" \in Lists /\ "ela" \in Lists
    BY DEF Lists
  <2> QED
    BY <1>1, <2>1, ParseKept, ParsedKept, ProcessMathKept, MathDoneKept, ProcessElaKept, RenderKept,
       SendKept, SentKept DEF LoadNext
<1>2. CASE \E r \in Readers : ReadNext(r)
  <2>1. UNCHANGED loadVars
    BY <1>2 DEF ReadNext, Begin, Find, Fetch, Expand, Anchor, FetchPart, Answer
  <2> QED
    BY <2>1, LoadIdle
<1>3. CASE UNCHANGED vars
  BY <1>3, LoadIdle DEF vars
<1> QED
  BY <1>1, <1>2, <1>3 DEF Next

(* While the standards are parsed, processed and sent, in whatever order and   *)
(* with whatever is lost, what the loader keeps is kept.                      *)
THEOREM LoadHolds == Spec => []LoadInv
<1>1. Init => LoadInv
  BY LoadBegins DEF Init
<1>2. LoadInv /\ [Next]_vars => LoadInv'
  BY LoadStep
<1> QED
  BY <1>1, <1>2, PTL DEF Spec

(* LoadedWhole, for all documents: what parseccssxml.py (304-601) builds and   *)
(* writes is the tree the IDs of the items describe, whole and without links  *)
(* that lead nowhere.                                                         *)
THEOREM LoadedWholeHolds == Spec => []LoadedWhole
<1>1. LoadInv => LoadedWhole
  <2> SUFFICES ASSUME LoadInv, phase \in {"send", "loaded"}
               PROVE  tree = Relations(UNION {Types(p) : p \in Paths(given)})
    BY DEF LoadedWhole
  <2> QED
    BY WholeTree DEF Whole, TypesOf
<1> QED
  BY <1>1, LoadHolds, PTL

-----------------------------------------------------------------------------
(* Which entities contain which. *)

LEMMA StrictIs ==
  ASSUME NEW s, IsName(s), NEW t, IsName(t), IsStrictPrefix(s, t)
  PROVE  /\ Size(s) < Size(t) /\ s = Part(t, Size(s))
         /\ Size(s) >= 3 => /\ Practice(s) <=> Practice(t)
                            /\ Content(s) <=> Content(t)
                            /\ Ccra(s) <=> Ccra(t)
                            /\ Ela(s) <=> Ela(t)
<1>1. /\ Sequence(s) /\ Sequence(t) /\ 1 <= Size(s) /\ Size(s) \in Nat /\ Size(t) \in Nat
  BY NameSize
<1>2. IsPrefix(s, t) /\ s # t
  BY DEF IsStrictPrefix
<1>3. Size(s) <= Size(t) /\ s = Part(t, Size(s))
  BY <1>1, <1>2, PrefixIs
<1>4. Size(s) # Size(t)
  BY <1>1, <1>2, <1>3, PartWhole
<1>5. PICK n \in 1 .. Size(t) : n = Size(s)
  BY <1>1, <1>3
<1>6. \A k \in 1 .. n : s[k] = t[k]
  BY <1>1, <1>3, <1>5, PartIs
<1>7. n >= 3 => s[2] = t[2] /\ s[3] = t[3]
  BY <1>1, <1>5, <1>6
<1> QED
  BY <1>1, <1>3, <1>4, <1>5, <1>7 DEF Practice, Content, Ccra, Ela

LEMMA StrictAbove ==
  ASSUME NEW a, IsNode(a), NEW b, IsNode(b)
  PROVE  /\ Above(a, b) => IsStrictPrefix(a[2], b[2])
         /\ Above(a, b) => Size(b[2]) = Size(a[2]) + 1 \/ (a[1] = "domain" /\ b[1] = "standard")
         /\ IsStrictPrefix(a[2], b[2]) /\ Size(b[2]) = Size(a[2]) + 1 /\ a[1] # "strand" => Above(a, b)
<1>1. PICK s, t : s = a[2] /\ t = b[2]
  OBVIOUS
<1>2. IsName(s) /\ IsName(t)
  BY <1>1 DEF IsNode
<1>3. Above(a, b) <=> \/ Size(t) = Size(s) + 1 /\ a[1] # "strand" /\ IsPrefix(s, t)
                      \/ a[1] = "domain" /\ b[1] = "standard" /\ IsMath(a) /\ IsStrictPrefix(s, t)
  BY <1>1 DEF Above, Size
<1>4. Size(t) = Size(s) + 1 => s # t
  BY <1>2, NameSize
<1>5. IsStrictPrefix(s, t) <=> IsPrefix(s, t) /\ s # t
  BY DEF IsStrictPrefix
<1> QED
  BY <1>1, <1>3, <1>4, <1>5

(* What the ID of an entity says of its type. *)
LEMMA NodeLevel ==
  ASSUME NEW a, IsNode(a)
  PROVE  /\ a[1] = "standard" <=> \/ Size(a[2]) = 4 /\ Practice(a[2])
                                  \/ Size(a[2]) = 5 /\ Ela(a[2])
                                  \/ Size(a[2]) = 7 /\ Content(a[2])
         /\ a[1] = "domain" <=> (Size(a[2]) = 3 /\ Ela(a[2])) \/ (Size(a[2]) = 5 /\ Content(a[2]))
         /\ a[1] = "grade" <=> Size(a[2]) = 4 /\ (Ela(a[2]) \/ Content(a[2]))
         /\ a[1] = "cluster" <=> Size(a[2]) = 6 /\ Content(a[2])
         /\ a[1] = "strand" <=> Size(a[2]) = 4 /\ Ccra(a[2])
         /\ a[1] = "anchor_standard" <=> Size(a[2]) = 5 /\ Ccra(a[2])
         /\ a[1] = "standard_component" <=>
              (Size(a[2]) = 6 /\ Ela(a[2])) \/ (Size(a[2]) = 8 /\ Content(a[2]))
         /\ Size(a[2]) >= 3 => (IsMath(a) <=> Practice(a[2]) \/ Content(a[2]))
         /\ Size(a[2]) \in Nat /\ Size(a[2]) >= 1 /\ IsName(a[2])
<1>1. PICK s : s = a[2]
  OBVIOUS
<1>2. IsName(s) /\ a[1] = Level(s)
  BY <1>1, AtIs DEF IsNode
<1>3. Size(s) >= 3 => (IsMath(a) <=> Practice(s) \/ Content(s))
  BY <1>1, <1>2 DEF IsMath, IsName, Practice, Content
<1> QED
  BY <1>1, <1>2, <1>3, LevelIs, NameSize

(* No dotted ID is of two frameworks. *)
LEMMA Apart ==
  ASSUME NEW s
  PROVE  /\ ~(Ela(s) /\ Content(s)) /\ ~(Ela(s) /\ Ccra(s)) /\ ~(Ela(s) /\ Practice(s))
         /\ ~(Ccra(s) /\ Practice(s)) /\ ~(Ccra(s) /\ Content(s)) /\ ~(Content(s) /\ Practice(s))
BY DEF Ela, Content, Ccra, Practice

Listed(id) == id[1] = "standard" /\ Kind(id[2]) = "standard"

LEMMA ListedIs ==
  ASSUME NEW b, IsNode(b)
  PROVE  Listed(b) <=> b[1] = "standard" /\ (Ela(b[2]) \/ Content(b[2]))
<1>1. PICK t : t = b[2]
  OBVIOUS
<1>2. /\ IsName(t) /\ Size(t) \in Nat
      /\ b[1] = "standard" <=> \/ Size(t) = 4 /\ Practice(t)
                               \/ Size(t) = 5 /\ Ela(t)
                               \/ Size(t) = 7 /\ Content(t)
  BY <1>1, NodeLevel
<1>3. ASSUME Size(t) = 4 /\ Practice(t) PROVE Kind(t) # "standard"
  BY <1>3 DEF Kind, MathKind, Practice
<1>4. ASSUME Size(t) = 5 /\ Ela(t) PROVE Kind(t) = "standard"
  <2>1. t[2] = "ELA-Literacy" /\ t[4] \in ElaGrades
    BY <1>2, <1>4 DEF IsName, Ela
  <2> QED
    BY <1>4, <2>1 DEF Kind, ElaKind, Size
<1>5. ASSUME Size(t) = 7 /\ Content(t) PROVE Kind(t) = "standard"
  BY <1>5 DEF Kind, MathKind, Content, Size
<1>6. Listed(b) <=> b[1] = "standard" /\ Kind(t) = "standard"
  BY <1>1 DEF Listed
<1>7. Size(t) = 4 /\ Practice(t) => ~Ela(t) /\ ~Content(t)
  BY Apart
<1> QED
  BY <1>1, <1>2, <1>3, <1>4, <1>5, <1>6, <1>7

LEMMA AboveFits ==
  ASSUME NEW a, IsNode(a), NEW b, IsNode(b), Above(a, b)
  PROVE  /\ a[1] = "domain" /\ Ela(a[2]) => b[1] = "grade" /\ Ela(b[2]) /\ ~IsMath(b)
         /\ a[1] = "domain" /\ Content(a[2]) => Content(b[2]) /\ IsMath(b) /\ b[1] \in {"cluster", "standard"}
         /\ a[1] = "cluster" => b[1] = "standard" /\ Content(b[2]) /\ IsMath(b)
         /\ a[1] = "grade" /\ Content(a[2]) => b[1] = "domain" /\ Content(b[2]) /\ IsMath(b)
         /\ a[1] = "grade" /\ Ela(a[2]) => b[1] = "standard" /\ Ela(b[2]) /\ ~IsMath(b)
         /\ a[1] = "standard" => b[1] = "standard_component"
<1>1. IsStrictPrefix(a[2], b[2]) /\ (Size(b[2]) = Size(a[2]) + 1 \/ (a[1] = "domain" /\ b[1] = "standard"))
  BY StrictAbove
<1>2. PICK s, t : s = a[2] /\ t = b[2]
  OBVIOUS
<1>3. /\ IsName(s) /\ IsName(t) /\ IsStrictPrefix(s, t)
      /\ (Size(t) = Size(s) + 1 \/ (a[1] = "domain" /\ b[1] = "standard"))
  BY <1>1, <1>2 DEF IsNode
<1>4. /\ Size(s) < Size(t)
      /\ Size(s) >= 3 => /\ Practice(s) <=> Practice(t)
                         /\ Content(s) <=> Content(t)
                         /\ Ccra(s) <=> Ccra(t)
                         /\ Ela(s) <=> Ela(t)
  BY <1>3, StrictIs
<1>5. /\ a[1] = "standard" <=> \/ Size(s) = 4 /\ Practice(s)
                               \/ Size(s) = 5 /\ Ela(s)
                               \/ Size(s) = 7 /\ Content(s)
      /\ a[1] = "domain" <=> (Size(s) = 3 /\ Ela(s)) \/ (Size(s) = 5 /\ Content(s))
      /\ a[1] = "grade" <=> Size(s) = 4 /\ (Ela(s) \/ Content(s))
      /\ a[1] = "cluster" <=> Size(s) = 6 /\ Content(s)
      /\ Size(s) \in Nat
  BY <1>2, NodeLevel
<1>6. /\ b[1] = "standard" <=> \/ Size(t) = 4 /\ Practice(t)
                               \/ Size(t) = 5 /\ Ela(t)
                               \/ Size(t) = 7 /\ Content(t)
      /\ b[1] = "domain" <=> (Size(t) = 3 /\ Ela(t)) \/ (Size(t) = 5 /\ Content(t))
      /\ b[1] = "grade" <=> Size(t) = 4 /\ (Ela(t) \/ Content(t))
      /\ b[1] = "cluster" <=> Size(t) = 6 /\ Content(t)
      /\ b[1] = "standard_component" <=> (Size(t) = 6 /\ Ela(t)) \/ (Size(t) = 8 /\ Content(t))
      /\ Size(t) >= 3 => (IsMath(b) <=> Practice(t) \/ Content(t))
      /\ Size(t) \in Nat
  BY <1>2, NodeLevel
<1>7. /\ ~(Ela(s) /\ Content(s)) /\ ~(Ela(s) /\ Practice(s)) /\ ~(Content(s) /\ Practice(s))
      /\ ~(Ela(t) /\ Content(t)) /\ ~(Ela(t) /\ Practice(t)) /\ ~(Content(t) /\ Practice(t))
  BY Apart
<1>8. Practice(t) => Size(t) <= 4
  <2>1. Size(t) < 3 => Size(t) <= 4
    BY <1>6
  <2> QED
    BY <1>3, <1>6, <2>1 DEF IsName, Practice
<1>9. a[1] = "domain" /\ Ela(s) => b[1] = "grade" /\ Ela(t) /\ ~IsMath(b)
  <2> HAVE a[1] = "domain" /\ Ela(s)
  <2>1. Size(s) = 3 /\ Ela(t) /\ ~Content(t) /\ ~Practice(t)
    BY <1>4, <1>5, <1>7
  <2>2. ~IsMath(b)
    BY <1>4, <1>6, <2>1
  <2>3. IsMath(a) => FALSE
    BY <1>2, <2>1 DEF IsMath, Ela
  <2>4. Size(t) = Size(s) + 1
    BY <1>2, <2>3 DEF Above, Size
  <2> QED
    BY <1>6, <2>1, <2>2, <2>4
<1>10. a[1] = "domain" /\ Content(s) => Content(t) /\ IsMath(b) /\ b[1] \in {"cluster", "standard"}
  <2> HAVE a[1] = "domain" /\ Content(s)
  <2>1. Size(s) = 5 /\ Content(t)
    BY <1>4, <1>5, <1>7
  <2> QED
    BY <1>3, <1>4, <1>5, <1>6, <2>1
<1>11. a[1] = "cluster" => b[1] = "standard" /\ Content(t) /\ IsMath(b)
  <2> HAVE a[1] = "cluster"
  <2>1. Size(s) = 6 /\ Content(t)
    BY <1>4, <1>5
  <2> QED
    BY <1>3, <1>4, <1>5, <1>6, <2>1
<1>12. a[1] = "grade" /\ Content(s) => b[1] = "domain" /\ Content(t) /\ IsMath(b)
  <2> HAVE a[1] = "grade" /\ Content(s)
  <2>1. Size(s) = 4 /\ Content(t)
    BY <1>4, <1>5
  <2> QED
    BY <1>3, <1>4, <1>5, <1>6, <2>1
<1>13. a[1] = "grade" /\ Ela(s) => b[1] = "standard" /\ Ela(t) /\ ~IsMath(b)
  <2> HAVE a[1] = "grade" /\ Ela(s)
  <2>1. Size(s) = 4 /\ Ela(t) /\ ~Content(t) /\ ~Practice(t)
    BY <1>4, <1>5, <1>7
  <2> QED
    BY <1>3, <1>4, <1>5, <1>6, <2>1
<1>14. a[1] = "standard" => b[1] = "standard_component"
  <2> HAVE a[1] = "standard"
  <2>1. a[1] # "domain"
    OBVIOUS
  <2>2. Size(t) = Size(s) + 1
    BY <1>3, <2>1
  <2>3. CASE Size(s) = 4 /\ Practice(s)
    BY <1>4, <1>8, <2>2, <2>3
  <2>4. CASE Size(s) = 5 /\ Ela(s)
    BY <1>4, <1>6, <2>2, <2>4
  <2>5. CASE Size(s) = 7 /\ Content(s)
    BY <1>4, <1>6, <2>2, <2>5
  <2> QED
    BY <1>5, <2>3, <2>4, <2>5
<1> QED
  BY <1>2, <1>9, <1>10, <1>11, <1>12, <1>13, <1>14

-----------------------------------------------------------------------------
(* What the LRI shows of an entity. *)

LEMMA LriIs ==
  ASSUME LoadInv, NEW x \in DOMAIN lri
  PROVE  /\ x \in Whole /\ IsNode(x) /\ \A b \in Whole : IsNode(b)
         /\ \A r, b : <<r, b>> \in lri[x] <=> b \in Whole /\ Related(x, r, b)
         /\ \A e \in lri[x] : e = <<e[1], e[2]>>
         /\ DOMAIN tree = Whole
<1>1. phase \in {"send", "loaded"}
  <2>1. phase \notin {"send", "loaded"} => DOMAIN lri = {}
    BY DEF LoadInv, LriKept, Empty
  <2> QED
    BY <2>1
<1>2. DOMAIN tree = Whole /\ tree = Relations(Whole) /\ \A b \in Whole : IsNode(b)
  BY <1>1, WholeTree
<1>3. x \in Whole /\ lri[x] = tree[x]
  BY <1>1, <1>2 DEF LoadInv, LriKept
<1>4. lri[x] = {<<"contains", b>> : b \in {y \in Whole : Above(x, y)}}
                 \cup {<<"includes_anchor_standard", b>> : b \in {y \in Whole : IncludesAnchor(x, y)}}
                 \cup {<<"includes_domain", b>> : b \in {y \in Whole : IncludesDomain(x, y)}}
                 \cup {<<"anchors", b>> : b \in {y \in Whole : IsAnchorOf(x, y)}}
  BY <1>2, <1>3 DEF Relations
<1>5. \A r, b : <<r, b>> \in lri[x] <=> b \in Whole /\ Related(x, r, b)
  BY <1>4 DEF Related
<1>6. \A e \in lri[x] : e = <<e[1], e[2]>>
  BY <1>4
<1> QED
  BY <1>2, <1>3, <1>5, <1>6

LEMMA ToIs ==
  ASSUME LoadInv, NEW x \in DOMAIN lri
  PROVE  /\ To(lri, x, "contains") = {b \in Whole : Above(x, b)}
         /\ To(lri, x, "anchors") = {b \in Whole : IsAnchorOf(x, b)}
<1>1. /\ \A r, b : <<r, b>> \in lri[x] <=> b \in Whole /\ Related(x, r, b)
      /\ \A e \in lri[x] : e = <<e[1], e[2]>>
  BY LriIs
<1>2. ASSUME NEW r, NEW b PROVE b \in To(lri, x, r) <=> <<r, b>> \in lri[x]
  <2>1. b \in To(lri, x, r) <=> \E k \in lri[x] : k[1] = r /\ b = k[2]
    BY DEF To
  <2> QED
    BY <1>1, <2>1
<1>3. \A b : /\ Related(x, "contains", b) <=> Above(x, b)
             /\ Related(x, "anchors", b) <=> IsAnchorOf(x, b)
  BY DEF Related
<1>4. \A b : /\ b \in To(lri, x, "contains") <=> b \in Whole /\ Above(x, b)
             /\ b \in To(lri, x, "anchors") <=> b \in Whole /\ IsAnchorOf(x, b)
  BY <1>1, <1>2, <1>3
<1> QED
  BY <1>4

LEMMA FromIs ==
  ASSUME LoadInv, NEW b \in Whole
  PROVE  /\ From(lri, b, "contains") = {x \in DOMAIN lri : Above(x, b)}
         /\ From(lri, b, "anchors") = {x \in DOMAIN lri : IsAnchorOf(x, b)}
<1>1. \A x \in DOMAIN lri : \A r : <<r, b>> \in lri[x] <=> Related(x, r, b)
  BY LriIs
<1> QED
  BY <1>1 DEF From, Related

(* The parent of a request. *)
LEMMA ParentIs ==
  ASSUME NEW q \in Requests, NEW a, a = Parent(q), a # None
  PROVE  /\ a[1] \in {"domain", "cluster", "grade", "anchor_standard"}
         /\ a[1] = "grade" => q.grade_level = a
         /\ q.grade_level # None => q.grade_level[1] = "grade"
BY RequestsAssumption DEF Parent

LEMMA NoParent ==
  ASSUME NEW q \in Requests, Parent(q) = None
  PROVE  q.grade_level = None
BY DEF Parent

(* What is asked for, when more is there. *)
LEMMA AskedGrows ==
  ASSUME NEW q, NEW S, NEW T, S \subseteq T
  PROVE  Asked(q, S) \subseteq Asked(q, T)
BY DEF Asked

LEMMA AskedIs ==
  ASSUME NEW q, NEW S, NEW id \in Asked(q, S)
  PROVE  id \in S /\ Listed(id)
BY DEF Asked, Listed

(* Above an entity of ELA there is one at most. *)
LEMMA OneAbove ==
  ASSUME NEW a, IsNode(a), NEW b, IsNode(b), Ela(b[2]), Size(b[2]) >= 4
  PROVE  /\ Above(a, b) => a = Up(b)
         /\ Above(a, b) => Ela(a[2]) /\ Size(a[2]) = Size(b[2]) - 1
<1>1. PICK s, t : s = a[2] /\ t = b[2]
  OBVIOUS
<1>2. IsName(s) /\ IsName(t) /\ a = At(s) /\ b = At(t) /\ Size(t) \in Nat /\ Size(s) \in Nat
  BY <1>1, NameSize DEF IsNode
<1>3. Size(t) # 7
  BY <1>1, <1>2, LevelIs, Apart
<1>4. Above(a, b) => a = Up(b)
  BY <1>2, <1>3, AboveIs
<1>5. ASSUME Above(a, b) PROVE Ela(s) /\ Size(s) = Size(t) - 1
  <2>1. IsStrictPrefix(s, t) /\ (Size(t) = Size(s) + 1 \/ (a[1] = "domain" /\ b[1] = "standard"))
    BY <1>1, <1>5, StrictAbove
  <2>2. ~IsMath(b) /\ t[2] # "Math"
    BY <1>1 DEF IsMath, Ela
  <2>3. ~(a[1] = "domain" /\ b[1] = "standard" /\ IsMath(a) /\ IsStrictPrefix(s, t))
    <3> SUFFICES ASSUME a[1] = "domain", b[1] = "standard", IsMath(a), IsStrictPrefix(s, t) PROVE FALSE
      OBVIOUS
    <3>1. Content(s) /\ Size(s) = 5
      BY <1>1, NodeLevel DEF IsMath, Ela
    <3> QED
      BY <1>1, <1>2, <3>1, StrictIs, Apart
  <2>4. Size(t) = Size(s) + 1
    BY <1>1, <1>5, <2>3 DEF Above, Size
  <2> QED
    BY <1>1, <1>2, <2>1, <2>4, StrictIs
<1> QED
  BY <1>1, <1>4, <1>5

-----------------------------------------------------------------------------
(* What a search finds, and what is fetched because of it. *)

LEMMA HitIs ==
  ASSUME LoadInv, NEW q \in Requests, NEW f
  PROVE  f \in Hits(lri, q) <=>
           /\ f \in DOMAIN lri
           /\ \/ Parent(q) = None /\ Listed(f)
              \/ /\ Parent(q) # None /\ Parent(q) \in DOMAIN lri
                 /\ Parent(q)[1] = "anchor_standard" /\ IsAnchorOf(Parent(q), f)
              \/ /\ Parent(q) # None /\ Parent(q) \in DOMAIN lri
                 /\ Parent(q)[1] # "anchor_standard" /\ Above(Parent(q), f)
<1>1. PICK a : a = Parent(q)
  OBVIOUS
<1>2. CASE a = None
  BY <1>1, <1>2 DEF Hits, Listed
<1>3. CASE a # None /\ a \notin DOMAIN lri
  BY <1>1, <1>3 DEF Hits
<1>4. CASE a # None /\ a \in DOMAIN lri
  <2>1. /\ To(lri, a, "contains") = {b \in Whole : Above(a, b)}
        /\ To(lri, a, "anchors") = {b \in Whole : IsAnchorOf(a, b)}
    BY <1>4, ToIs
  <2>2. f \in DOMAIN lri => f \in Whole
    BY LriIs
  <2>3. Hits(lri, q) = To(lri, a, IF a[1] = "anchor_standard" THEN "anchors" ELSE "contains") \cap DOMAIN lri
    BY <1>1, <1>4 DEF Hits
  <2> QED
    BY <1>1, <1>4, <2>1, <2>2, <2>3
<1> QED
  BY <1>2, <1>3, <1>4

LEMMA AnchoredIs ==
  ASSUME NEW a, NEW f, IsNode(f), IsAnchorOf(a, f)
  PROVE  f[1] = "standard" /\ ~IsMath(f) /\ Ela(f[2]) /\ Size(f[2]) = 5 /\ Listed(f)
<1>1. f[1] = "standard" /\ ~IsMath(f)
  BY DEF IsAnchorOf, InStrand
<1>2. Ela(f[2]) /\ Size(f[2]) = 5
  BY <1>1, NodeLevel
<1> QED
  BY <1>1, <1>2, ListedIs

(* A standard of Math that is found is asked for. *)
LEMMA FoundReady ==
  ASSUME LoadInv, NEW q \in Requests, NEW f \in Hits(lri, q), IsMath(f), Listed(f)
  PROVE  f \in Asked(q, DOMAIN lri)
<1>1. PICK a : a = Parent(q)
  OBVIOUS
<1>2. f \in DOMAIN lri
  BY HitIs
<1>3. IsNode(f)
  BY <1>2, LriIs
<1>4. CASE a = None
  BY <1>1, <1>2, <1>4 DEF Asked, Listed
<1>5. CASE a # None /\ a[1] = "anchor_standard"
  BY <1>1, <1>3, <1>5, HitIs, AnchoredIs
<1>6. CASE a # None /\ a[1] # "anchor_standard"
  <2>1. a \in DOMAIN lri /\ Above(a, f) /\ a[1] \in {"domain", "cluster", "grade"}
    BY <1>1, <1>6, HitIs, ParentIs
  <2>2. IsNode(a)
    BY <2>1, LriIs
  <2>3. IsStrictPrefix(a[2], f[2])
    BY <1>3, <2>1, <2>2, StrictAbove
  <2>4. ~(a[1] = "grade" /\ IsMath(a)) /\ ~(a[1] = "domain" /\ ~IsMath(a))
    <3>1. a[1] = "grade" => Ela(a[2]) \/ Content(a[2])
      BY <2>2, NodeLevel
    <3>2. a[1] = "grade" => FALSE
      BY <1>3, <2>1, <2>2, <3>1, AboveFits DEF Listed
    <3>3. a[1] = "domain" => (Ela(a[2]) \/ Content(a[2]))
      BY <2>2, NodeLevel
    <3>4. a[1] = "domain" => Content(a[2])
      BY <1>3, <2>1, <2>2, <3>3, AboveFits
    <3> QED
      BY <3>2, <3>4 DEF IsMath, Content
  <2>5. Asked(q, DOMAIN lri) = {id \in {x \in DOMAIN lri : x[1] = "standard" /\ Kind(x[2]) = "standard"} :
                                  a \in DOMAIN lri /\ IsStrictPrefix(a[2], id[2])}
    BY <1>1, <1>6, <2>4 DEF Asked
  <2> QED
    BY <1>2, <2>1, <2>3, <2>5 DEF Listed
<1> QED
  BY <1>4, <1>5, <1>6

(* The entity that leads to a standard of ELA. *)
By(q, id) == IF Parent(q) # None /\ Parent(q)[1] = "domain" THEN Up(Up(id)) ELSE Up(id)

(* A standard that is to be fetched is asked for, once it is there. *)
LEMMA FoundWanted ==
  ASSUME LoadInv, NEW q \in Requests, NEW f \in Hits(lri, q), NEW pair \in Wanted(lri, q, f)
  PROVE  /\ pair[2] \in Whole /\ ~IsMath(pair[2])
         /\ pair = <<By(q, pair[2]), pair[2]>>
         /\ pair[2] \in Asked(q, DOMAIN lri \cup {pair[2]})
<1>1. PICK a, p, id : a = Parent(q) /\ p = pair[1] /\ id = pair[2]
  OBVIOUS
<1>2. f \in DOMAIN lri
  BY HitIs
<1>3. IsNode(f) /\ f \in Whole /\ \A b \in Whole : IsNode(b)
  BY <1>2, LriIs
<1>4. /\ ~IsMath(f) /\ pair = <<p, id>> /\ p \in From(lri, f, "contains")
      /\ \/ /\ q.grade_level # None /\ f = q.grade_level
            /\ p[1] = "domain" /\ id \in To(lri, f, "contains")
         \/ p[1] = "grade" /\ id = f
  BY <1>1 DEF Wanted
<1>5. p \in DOMAIN lri /\ Above(p, f)
  BY <1>3, <1>4, FromIs
<1>6. IsNode(p)
  BY <1>5, LriIs
<1>7. PICK ids : ids = DOMAIN lri \cup {id}
  OBVIOUS
<1>8. CASE q.grade_level # None /\ f = q.grade_level /\ p[1] = "domain" /\ id \in To(lri, f, "contains")
  <2>1. f[1] = "grade"
    BY <1>8, RequestsAssumption
  <2>2. Ela(f[2]) /\ Size(f[2]) = 4
    BY <1>3, <1>4, <2>1, NodeLevel
  <2>3. id \in Whole /\ Above(f, id)
    BY <1>2, <1>8, ToIs
  <2>4. IsNode(id) /\ id[1] = "standard" /\ Ela(id[2]) /\ ~IsMath(id)
    BY <1>3, <2>1, <2>2, <2>3, AboveFits
  <2>5. Listed(id) /\ Size(id[2]) >= 4 /\ Size(id[2]) \in Nat
    BY <2>4, ListedIs, NodeLevel, Apart
  <2>6. f = Up(id)
    BY <1>3, <2>3, <2>4, <2>5, OneAbove
  <2>7. p = Up(f) /\ Ela(p[2])
    BY <1>3, <1>5, <1>6, <2>2, OneAbove
  <2>8. a # None /\ a \in DOMAIN lri /\ Above(a, f)
    <3>1. ~Listed(f) /\ ~IsAnchorOf(a, f)
      BY <2>1 DEF Listed, IsAnchorOf
    <3> QED
      BY <1>1, <3>1, HitIs
  <2>9. a = p
    <3>1. IsNode(a)
      BY <2>8, LriIs
    <3> QED
      BY <1>3, <2>2, <2>7, <2>8, <3>1, OneAbove
  <2>10. a[1] = "domain" /\ ~IsMath(a)
    BY <1>8, <2>7, <2>9 DEF IsMath, Ela
  <2>11. IsStrictPrefix(a[2], f[2]) /\ IsStrictPrefix(f[2], id[2])
    BY <1>3, <1>5, <1>6, <2>3, <2>4, <2>9, StrictAbove
  <2>12. Asked(q, ids) = {y \in {x \in ids : x[1] = "standard" /\ Kind(x[2]) = "standard"} :
                            f \in ids /\ IsStrictPrefix(f[2], y[2])}
    <3>1. a \in ids
      BY <1>7, <2>8
    <3> QED
      BY <1>1, <1>8, <2>8, <2>10, <2>11, <3>1 DEF Asked
  <2>13. id \in Asked(q, ids)
    BY <1>2, <1>7, <2>5, <2>11, <2>12 DEF Listed
  <2>14. p = By(q, id)
    BY <1>1, <2>6, <2>7, <2>8, <2>10 DEF By
  <2> QED
    BY <1>1, <1>4, <1>7, <2>3, <2>4, <2>13, <2>14
<1>9. CASE p[1] = "grade" /\ id = f
  <2>1. Ela(p[2]) /\ Size(p[2]) = 4
    <3>1. Ela(p[2]) \/ Content(p[2])
      BY <1>6, <1>9, NodeLevel
    <3>2. ~Content(p[2])
      BY <1>3, <1>4, <1>5, <1>6, <1>9, AboveFits
    <3> QED
      BY <1>6, <1>9, <3>1, <3>2, NodeLevel
  <2>2. f[1] = "standard" /\ Ela(f[2])
    BY <1>3, <1>5, <1>6, <1>9, <2>1, AboveFits
  <2>3. Listed(f) /\ Size(f[2]) >= 4 /\ Size(f[2]) \in Nat
    BY <1>3, <2>2, ListedIs, NodeLevel, Apart
  <2>4. p = Up(f)
    BY <1>3, <1>5, <1>6, <2>2, <2>3, OneAbove
  <2>5. CASE a = None
    <3>1. f \in Asked(q, ids)
      BY <1>1, <1>2, <1>7, <2>3, <2>5 DEF Asked, Listed
    <3>2. p = By(q, f)
      BY <1>1, <2>4, <2>5 DEF By
    <3> QED
      BY <1>1, <1>3, <1>4, <1>7, <1>9, <3>1, <3>2
  <2>6. CASE a # None /\ a[1] = "anchor_standard"
    <3>1. a \in DOMAIN lri /\ IsAnchorOf(a, f)
      BY <1>1, <2>6, HitIs
    <3>2. f \in Asked(q, ids)
      BY <1>1, <1>2, <1>7, <2>3, <2>6, <3>1 DEF Asked, Listed
    <3>3. p = By(q, f)
      BY <1>1, <2>4, <2>6 DEF By
    <3> QED
      BY <1>1, <1>3, <1>4, <1>7, <1>9, <3>2, <3>3
  <2>7. CASE a # None /\ a[1] # "anchor_standard"
    <3>1. a \in DOMAIN lri /\ Above(a, f)
      BY <1>1, <2>7, HitIs
    <3>2. IsNode(a)
      BY <3>1, LriIs
    <3>3. a = p
      BY <1>3, <2>2, <2>3, <2>4, <3>1, <3>2, OneAbove
    <3>4. a[1] = "grade" /\ ~IsMath(a) /\ IsStrictPrefix(a[2], f[2])
      BY <1>3, <1>5, <1>6, <1>9, <2>1, <3>3, StrictAbove DEF IsMath, Ela
    <3>5. Asked(q, ids) = {y \in {x \in ids : x[1] = "standard" /\ Kind(x[2]) = "standard"} :
                             a \in ids /\ IsStrictPrefix(a[2], y[2])}
      BY <1>1, <2>7, <3>4 DEF Asked
    <3>6. f \in Asked(q, ids)
      BY <1>2, <1>7, <2>3, <3>1, <3>4, <3>5 DEF Listed
    <3>7. p = By(q, f)
      BY <1>1, <2>4, <3>4 DEF By
    <3> QED
      BY <1>1, <1>3, <1>4, <1>7, <1>9, <3>6, <3>7
  <2> QED
    BY <2>5, <2>6, <2>7
<1> QED
  BY <1>4, <1>8, <1>9

-----------------------------------------------------------------------------
(* All that is asked for is found. *)

(* The standards of ELA among the entities. *)
LEMMA ElaListed ==
  ASSUME NEW b, IsNode(b), Listed(b), ~IsMath(b)
  PROVE  Ela(b[2]) /\ Size(b[2]) = 5 /\ Size(b[2]) >= 4
<1>1. b[1] = "standard" /\ (Ela(b[2]) \/ Content(b[2]))
  BY ListedIs
<1>2. Ela(b[2]) /\ ~Content(b[2]) /\ ~Practice(b[2])
  BY <1>1, Apart DEF IsMath, Content
<1>3. Size(b[2]) = 5
  BY <1>1, <1>2, NodeLevel
<1> QED
  BY <1>2, <1>3

LEMMA MathListed ==
  ASSUME NEW b, IsNode(b), Listed(b), Content(b[2])
  PROVE  Size(b[2]) = 7 /\ IsMath(b)
<1>1. b[1] = "standard"
  BY DEF Listed
<1>2. ~Ela(b[2]) /\ ~Practice(b[2])
  BY Apart
<1>3. Size(b[2]) = 7
  BY <1>1, <1>2, NodeLevel
<1> QED
  BY <1>3 DEF IsMath, Content

(* A standard of ELA that is found is fetched, once for its grade. *)
LEMMA ElaFetched ==
  ASSUME LoadInv, NEW q, NEW f \in DOMAIN lri, Listed(f), ~IsMath(f), ~Orphan(lri, f)
  PROVE  \E p : <<p, f>> \in Wanted(lri, q, f)
<1>1. f \in Whole /\ IsNode(f)
  BY LriIs
<1>2. PICK p \in From(lri, f, "contains") : TRUE
  BY DEF Orphan
<1>3. p \in DOMAIN lri /\ Above(p, f)
  BY <1>1, <1>2, FromIs
<1>4. IsNode(p)
  BY <1>3, LriIs
<1>5. Ela(f[2]) /\ Size(f[2]) = 5 /\ Size(f[2]) >= 4
  BY <1>1, ElaListed
<1>6. Ela(p[2]) /\ Size(p[2]) = 4
  BY <1>1, <1>3, <1>4, <1>5, OneAbove
<1>7. p[1] = "grade"
  BY <1>4, <1>6, NodeLevel
<1> QED
  BY <1>2, <1>7 DEF Wanted

LEMMA FoundAll ==
  ASSUME LoadInv, NEW q \in Requests, NEW id \in Asked(q, DOMAIN lri),
         \A f \in Hits(lri, q) : ~Orphan(lri, f)
  PROVE  \/ id \in Hits(lri, q) /\ IsMath(id) /\ Listed(id)
         \/ \E f \in Hits(lri, q) : \E p : <<p, id>> \in Wanted(lri, q, f)
<1>1. PICK a, ids : a = Parent(q) /\ ids = DOMAIN lri
  OBVIOUS
<1>2. id \in DOMAIN lri /\ Listed(id)
  BY AskedIs
<1>3. IsNode(id) /\ id \in Whole /\ id[1] = "standard" /\ IsName(id[2]) /\ \A b \in Whole : IsNode(b)
  BY <1>2, LriIs DEF Listed, IsNode
<1>4. ASSUME id \in Hits(lri, q)
      PROVE  \/ id \in Hits(lri, q) /\ IsMath(id) /\ Listed(id)
             \/ \E f \in Hits(lri, q) : \E p : <<p, id>> \in Wanted(lri, q, f)
  BY <1>2, <1>4, ElaFetched
<1>5. CASE a = None
  BY <1>1, <1>2, <1>4, <1>5, HitIs
<1>6. CASE a # None /\ a[1] = "anchor_standard"
  <2>1. a \in DOMAIN lri /\ IsAnchorOf(a, id)
    BY <1>1, <1>6 DEF Asked
  <2> QED
    BY <1>1, <1>2, <1>4, <1>6, <2>1, HitIs
<1>7. CASE a # None /\ a[1] = "grade" /\ IsMath(a)
  <2>1. Asked(q, DOMAIN lri) = {}
    BY <1>1, <1>7 DEF Asked
  <2> QED
    BY <2>1
<1>8. CASE a # None /\ a[1] = "domain" /\ ~IsMath(a)
  <2>1. PICK g : g = q.grade_level
    OBVIOUS
  <2>2. /\ g # None /\ a \in DOMAIN lri /\ IsStrictPrefix(a[2], g[2])
        /\ g \in DOMAIN lri /\ IsStrictPrefix(g[2], id[2])
    <3>1. ~(q.grade_level = None \/ a \notin ids \/ ~IsStrictPrefix(a[2], q.grade_level[2]))
      BY <1>1, <1>8 DEF Asked
    <3>2. Asked(q, ids) = {x \in {y \in ids : y[1] = "standard" /\ Kind(y[2]) = "standard"} :
                             q.grade_level \in ids /\ IsStrictPrefix(q.grade_level[2], x[2])}
      BY <1>1, <1>8, <3>1 DEF Asked
    <3> QED
      BY <1>1, <2>1, <3>1, <3>2
  <2>3. IsNode(a) /\ IsNode(g) /\ IsName(a[2]) /\ IsName(g[2]) /\ g[1] = "grade"
    BY <2>1, <2>2, LriIs, RequestsAssumption DEF IsNode
  <2>4. Size(a[2]) = 3 /\ Ela(a[2])
    BY <1>8, <2>3, NodeLevel
  <2>5. Ela(g[2]) /\ Size(g[2]) = 4
    BY <2>2, <2>3, <2>4, StrictIs, NodeLevel
  <2>6. Ela(id[2]) /\ ~IsMath(id)
    BY <1>3, <2>2, <2>3, <2>5, StrictIs DEF IsMath, Ela
  <2>7. Size(id[2]) = 5
    BY <1>2, <1>3, <2>6, ElaListed
  <2>8. Above(a, g) /\ Above(g, id)
    BY <1>3, <1>8, <2>2, <2>3, <2>4, <2>5, <2>7, StrictAbove
  <2>9. g \in Hits(lri, q)
    BY <1>1, <1>8, <2>2, <2>8, HitIs
  <2>10. ~IsMath(g)
    BY <2>5 DEF IsMath, Ela
  <2>11. g \in Whole
    BY <2>2, LriIs
  <2>12. a \in From(lri, g, "contains")
    BY <2>2, <2>8, <2>11, FromIs
  <2>13. id \in To(lri, g, "contains")
    BY <1>3, <2>2, <2>8, ToIs
  <2>14. <<a, id>> \in Wanted(lri, q, g)
    BY <1>8, <2>1, <2>2, <2>10, <2>12, <2>13 DEF Wanted
  <2> QED
    BY <2>9, <2>14
<1>9. CASE /\ a # None /\ a[1] # "anchor_standard"
           /\ ~(a[1] = "grade" /\ IsMath(a)) /\ ~(a[1] = "domain" /\ ~IsMath(a))
  <2>1. Asked(q, ids) = {x \in {y \in ids : y[1] = "standard" /\ Kind(y[2]) = "standard"} :
                           a \in ids /\ IsStrictPrefix(a[2], x[2])}
    BY <1>1, <1>9 DEF Asked
  <2>2. a \in DOMAIN lri /\ IsStrictPrefix(a[2], id[2]) /\ a[1] \in {"domain", "cluster", "grade"}
    BY <1>1, <1>9, <2>1, ParentIs
  <2>3. IsNode(a) /\ IsName(a[2])
    BY <2>2, LriIs DEF IsNode
  <2>4. CASE a[1] = "domain"
    <3>1. IsMath(a)
      BY <1>9, <2>4
    <3> QED
      BY <1>1, <1>2, <1>3, <1>4, <1>9, <2>2, <2>4, <3>1, HitIs DEF Above
  <2>5. CASE a[1] = "cluster"
    <3>1. Size(a[2]) = 6 /\ Content(a[2])
      BY <2>3, <2>5, NodeLevel
    <3>2. Content(id[2])
      BY <1>3, <2>2, <2>3, <3>1, StrictIs
    <3>3. Size(id[2]) = 7
      BY <1>2, <1>3, <3>2, MathListed
    <3>4. Above(a, id)
      BY <1>3, <2>2, <2>3, <2>5, <3>1, <3>3, StrictAbove
    <3> QED
      BY <1>1, <1>2, <1>4, <1>9, <2>2, <3>4, HitIs
  <2>6. CASE a[1] = "grade"
    <3>1. Size(a[2]) = 4 /\ Ela(a[2])
      BY <1>9, <2>3, <2>6, NodeLevel
    <3>2. Ela(id[2]) /\ ~IsMath(id)
      BY <1>3, <2>2, <2>3, <3>1, StrictIs DEF IsMath, Ela
    <3>3. Size(id[2]) = 5
      BY <1>2, <1>3, <3>2, ElaListed
    <3>4. Above(a, id)
      BY <1>3, <2>2, <2>3, <2>6, <3>1, <3>3, StrictAbove
    <3> QED
      BY <1>1, <1>2, <1>4, <1>9, <2>2, <3>4, HitIs
  <2> QED
    BY <2>2, <2>4, <2>5, <2>6
<1> QED
  BY <1>5, <1>6, <1>7, <1>8, <1>9

-----------------------------------------------------------------------------
(* When all is there, nothing that is found has no parent. *)

LEMMA AllThere ==
  ASSUME LoadInv, phase = "loaded", lost = {}
  PROVE  DOMAIN lri = Whole
<1>1. DOMAIN tree = Whole
  BY WholeTree
<1> QED
  BY <1>1 DEF LoadInv, LriKept

(* What is above an entity of the tree is in the tree. *)
LEMMA UpThere ==
  ASSUME LoadInv, phase = "loaded", NEW b \in Whole, Size(b[2]) > 1, Up(b)[1] # "strand"
  PROVE  Up(b) \in Whole
<1>1. PICK P : P = Paths(given)
  OBVIOUS
<1>2. Closed(P)
  BY <1>1 DEF LoadInv, TreeKept
<1>3. NodesMade(P) = Whole
  BY <1>1, <1>2, TypesMade DEF Whole
<1>4. /\ \A l \in LinksMade(P) : l[1] \in NodesMade(P)
      /\ LinksMade(P) = UNION {Into(x) : x \in NodesMade(P)}
  BY <1>2, TypesMade
<1>5. PICK l : l = Holds(Up(b), b)
  OBVIOUS
<1>6. l \in Into(b) /\ l[1] = Up(b)
  BY <1>5 DEF Into, Holds
<1> QED
  BY <1>3, <1>4, <1>6

LEMMA NoOrphan ==
  ASSUME LoadInv, phase = "loaded", lost = {}, NEW q \in Requests, NEW f \in Hits(lri, q)
  PROVE  ~Orphan(lri, f)
<1> SUFFICES ASSUME ~IsMath(f) PROVE From(lri, f, "contains") # {}
  BY DEF Orphan
<1>1. PICK a : a = Parent(q)
  OBVIOUS
<1>2. f \in DOMAIN lri /\ DOMAIN lri = Whole
  BY HitIs, AllThere
<1>3. IsNode(f) /\ f \in Whole
  BY <1>2, LriIs
<1>4. From(lri, f, "contains") = {x \in DOMAIN lri : Above(x, f)}
  BY <1>3, FromIs
<1>5. CASE a # None /\ a[1] # "anchor_standard"
  BY <1>1, <1>4, <1>5, HitIs
<1>6. CASE a = None \/ a[1] = "anchor_standard"
  <2>1. Listed(f)
    BY <1>1, <1>3, <1>6, HitIs, AnchoredIs
  <2>2. PICK t : t = f[2]
    OBVIOUS
  <2>3. Ela(t) /\ Size(t) = 5 /\ IsName(t) /\ f = At(t)
    BY <1>3, <2>1, <2>2, ElaListed DEF IsNode
  <2>4. PICK u : u = Part(t, 4)
    OBVIOUS
  <2>5. Size(t) > 1 /\ Size(t) - 1 = 4 /\ Sequence(t)
    BY <2>3, NameSize
  <2>6. Up(f) = At(u) /\ IsName(u) /\ Size(u) = 4
    <3>1. /\ Up(f) = At(Part(t, Size(t) - 1)) /\ IsName(Part(t, Size(t) - 1))
          /\ Size(Part(t, Size(t) - 1)) = Size(t) - 1
      BY <2>3, <2>5, UpIs
    <3>2. u = Part(t, Size(t) - 1)
      BY <2>4, <2>5
    <3> QED
      BY <2>5, <3>1, <3>2
  <2>7. Up(f)[1] = Level(u) /\ Level(u) # "strand"
    <3>1. 4 \in 1 .. Size(t) /\ 2 \in 1 .. 4 /\ 3 \in 1 .. 4
      BY <2>3
    <3>2. u[2] = t[2] /\ u[3] = t[3]
      BY <2>4, <2>5, <3>1, PartIs
    <3>3. ~Ccra(u)
      BY <2>3, <3>2 DEF Ela, Ccra
    <3> QED
      BY <2>6, <3>3, AtIs, LevelIs
  <2>8. Up(f) \in Whole
    BY <1>3, <2>2, <2>5, <2>7, UpThere
  <2>9. Above(Up(f), f)
    BY <2>3, <2>5, <2>6, <2>7, AboveIs
  <2> QED
    BY <1>2, <1>4, <2>8, <2>9
<1> QED
  BY <1>5, <1>6

-----------------------------------------------------------------------------
(* What a growing LRI leaves as it is. *)

Grows == /\ DOMAIN lri \subseteq DOMAIN lri' /\ \A x \in DOMAIN lri : lri'[x] = lri[x]
         /\ given' = given

LEMMA HitsGrow ==
  ASSUME Grows, NEW q
  PROVE  Hits(lri, q) \subseteq Hits(lri', q)
<1>1. PICK a : a = Parent(q)
  OBVIOUS
<1>2. CASE a = None
  BY <1>1, <1>2 DEF Hits, Grows
<1>3. CASE a # None /\ a \notin DOMAIN lri
  BY <1>1, <1>3 DEF Hits
<1>4. CASE a # None /\ a \in DOMAIN lri
  <2>1. \A r : To(lri', a, r) = To(lri, a, r)
    BY <1>4 DEF Grows, To
  <2>2. a \in DOMAIN lri'
    BY <1>4 DEF Grows
  <2> QED
    BY <1>1, <1>4, <2>1, <2>2 DEF Hits, Grows
<1> QED
  BY <1>2, <1>3, <1>4

(* A search that fits into one page did so before. *)
LEMMA PageFitted ==
  ASSUME Grows, IsFiniteSet(DOMAIN lri'), NEW q, Cardinality(Hits(lri', q)) <= PageSize
  PROVE  Cardinality(Hits(lri, q)) <= PageSize
<1>1. Hits(lri', q) \subseteq DOMAIN lri'
  BY DEF Hits
<1>2. IsFiniteSet(Hits(lri', q))
  BY <1>1, FS_Subset
<1>3. /\ IsFiniteSet(Hits(lri, q))
      /\ Cardinality(Hits(lri, q)) <= Cardinality(Hits(lri', q))
  BY <1>2, HitsGrow, FS_Subset
<1>4. Cardinality(Hits(lri, q)) \in Nat /\ Cardinality(Hits(lri', q)) \in Nat
  BY <1>2, <1>3, FS_CardinalityType
<1> QED
  BY <1>3, <1>4, PageAssumption

-----------------------------------------------------------------------------
(* What is kept of a GET.  It is served until it fails; what it read is asked  *)
(* for, what it has still to read is in the tree, and the two together are    *)
(* what was there to be found, as long as the search fits into one page.      *)

Served(r) ==
  \/ read[r].phase \in {"standards", "components", "anchors"}
  \/ read[r].phase = "done" /\ read[r].code = 200

Expanded(r) == Served(r) /\ read[r].phase # "standards"

Fields == {"phase", "q", "got", "need", "parts", "code", "before", "settled"}

ReadTyped(r) ==
  /\ DOMAIN read[r] = Fields
  /\ read[r].phase = "idle" => read[r] = Unread
  /\ read[r].phase # "idle" => read[r].q \in Requests
  /\ read[r].phase \in {"search", "standards"} => read[r].parts = {}
  /\ read[r].before \subseteq DOMAIN lri
  /\ read[r].settled => phase = "loaded"

ItemsKept(r) == Served(r) =>
  /\ \A x \in read[r].got :
       /\ x.id \in Asked(read[r].q, DOMAIN lri)
       /\ x.contains = {b \in Whole : Above(x.id, b)}
       /\ x.anchor \subseteq {a \in DOMAIN lri : IsAnchorOf(a, x.id)}
  /\ \A x, y \in read[r].got : x.id = y.id => x = y

NeedKept(r) == read[r].phase = "standards" => \A pair \in read[r].need :
  /\ pair = <<By(read[r].q, pair[2]), pair[2]>>
  /\ pair[2] \in Whole /\ pair[2] \notin Got(r)
  /\ pair[2] \in Asked(read[r].q, DOMAIN lri \cup {pair[2]})

Needed(r) == IF read[r].phase = "standards" THEN {pair[2] : pair \in read[r].need} ELSE {}

AllKept(r) == Served(r) /\ Cardinality(Hits(lri, read[r].q)) <= PageSize =>
  Asked(read[r].q, read[r].before) \subseteq Got(r) \cup Needed(r)

PartsKept(r) == Expanded(r) =>
  /\ read[r].q.children => Components(read[r].got) \subseteq read[r].parts \cup read[r].need
  /\ read[r].parts \cup read[r].need \subseteq Components(read[r].got) \cup Anchors(read[r].got)
  /\ read[r].phase = "done" => read[r].need = {}

NoFailure(r) == read[r].settled /\ lost = {} /\ read[r].phase = "done" =>
  \/ read[r].code = 200
  \/ /\ read[r].q.grade_level \in DOMAIN lri
     /\ Cardinality(To(lri, read[r].q.grade_level, "contains")) = 1

ReadKept(r) ==
  ReadTyped(r) /\ ItemsKept(r) /\ NeedKept(r) /\ AllKept(r) /\ PartsKept(r) /\ NoFailure(r)

ReadInv == DOMAIN read = Readers /\ \A r \in Readers : ReadKept(r)

LEMMA LoadGrows ==
  ASSUME LoadInv, LoadNext
  PROVE  Grows /\ phase # "loaded"
<1>1. (UNCHANGED <<given, lri>> /\ phase # "loaded") \/ Send
  BY DEF LoadNext, Parse, Parsed, Process, ProcessMath, ProcessEla, MathDone, Render, Send, Sent, Stop
<1>2. ASSUME Send PROVE Grows /\ phase = "send"
  <2>1. PICK id : /\ phase = "send" /\ given' = given
                  /\ \/ lri' = [x \in DOMAIN lri \cup {id} |-> IF x = id THEN tree[id] ELSE lri[x]]
                     \/ lri' = lri
    BY <1>2 DEF Send
  <2>2. \A x \in DOMAIN lri : lri[x] = tree[x]
    BY DEF LoadInv, LriKept
  <2> QED
    BY <2>1, <2>2 DEF Grows
<1> QED
  BY <1>1, <1>2 DEF Grows

LEMMA WholeStays ==
  ASSUME Grows
  PROVE  Whole' = Whole
BY DEF Whole, Grows

(* A GET that does not move keeps what it has while the LRI grows. *)
LEMMA KeepRead ==
  ASSUME LoadInv, LoadInv', NEW r, ReadKept(r), Grows, read'[r] = read[r],
         read[r].settled => UNCHANGED <<phase, lri, lost>>
  PROVE  ReadKept(r)'
<1>1. Whole' = Whole /\ DOMAIN lri \subseteq DOMAIN lri' /\ IsFiniteSet(DOMAIN lri')
  BY WholeStays DEF Grows, LoadInv, LriKept
<1>2. PICK rd : rd = read[r] /\ rd = read'[r]
  OBVIOUS
<1>3. \A S : Asked(rd.q, DOMAIN lri \cup S) \subseteq Asked(rd.q, DOMAIN lri' \cup S)
  <2> SUFFICES ASSUME NEW S PROVE Asked(rd.q, DOMAIN lri \cup S) \subseteq Asked(rd.q, DOMAIN lri' \cup S)
    OBVIOUS
  <2>1. DOMAIN lri \cup S \subseteq DOMAIN lri' \cup S
    BY <1>1
  <2> QED
    BY <2>1, AskedGrows
<1>4. Asked(rd.q, DOMAIN lri) \subseteq Asked(rd.q, DOMAIN lri')
  BY <1>1, AskedGrows
<1>5. Served(r)' = Served(r) /\ Expanded(r)' = Expanded(r) /\ Got(r)' = Got(r) /\ Needed(r)' = Needed(r)
  BY <1>2 DEF Served, Expanded, Got, Needed
<1>6. ReadTyped(r)'
  BY <1>1, <1>2 DEF ReadKept, ReadTyped
<1>7. ItemsKept(r)'
  <2> SUFFICES ASSUME Served(r)
               PROVE  /\ \A x \in rd.got :
                           /\ x.id \in Asked(rd.q, DOMAIN lri')
                           /\ x.contains = {b \in Whole : Above(x.id, b)}
                           /\ x.anchor \subseteq {a \in DOMAIN lri' : IsAnchorOf(a, x.id)}
                      /\ \A x, y \in rd.got : x.id = y.id => x = y
    BY <1>1, <1>2, <1>5 DEF ItemsKept
  <2>1. /\ \A x \in rd.got :
              /\ x.id \in Asked(rd.q, DOMAIN lri)
              /\ x.contains = {b \in Whole : Above(x.id, b)}
              /\ x.anchor \subseteq {a \in DOMAIN lri : IsAnchorOf(a, x.id)}
        /\ \A x, y \in rd.got : x.id = y.id => x = y
    BY <1>2 DEF ReadKept, ItemsKept
  <2> QED
    BY <1>1, <1>4, <2>1
<1>8. NeedKept(r)'
  <2> SUFFICES ASSUME rd.phase = "standards", NEW pair \in rd.need
               PROVE  /\ pair = <<By(rd.q, pair[2]), pair[2]>>
                      /\ pair[2] \in Whole /\ pair[2] \notin Got(r)
                      /\ pair[2] \in Asked(rd.q, DOMAIN lri' \cup {pair[2]})
    BY <1>1, <1>2, <1>5 DEF NeedKept
  <2>1. /\ pair = <<By(rd.q, pair[2]), pair[2]>>
        /\ pair[2] \in Whole /\ pair[2] \notin Got(r)
        /\ pair[2] \in Asked(rd.q, DOMAIN lri \cup {pair[2]})
    BY <1>2 DEF ReadKept, NeedKept
  <2>2. PICK S : S = {pair[2]}
    OBVIOUS
  <2> QED
    BY <1>3, <2>1, <2>2
<1>9. AllKept(r)'
  <2> SUFFICES ASSUME Served(r), Cardinality(Hits(lri', rd.q)) <= PageSize
               PROVE  Asked(rd.q, rd.before) \subseteq Got(r) \cup Needed(r)
    BY <1>2, <1>5 DEF AllKept
  <2>1. Cardinality(Hits(lri, rd.q)) <= PageSize
    BY <1>1, PageFitted
  <2> QED
    BY <1>2, <2>1 DEF ReadKept, AllKept
<1>10. PartsKept(r)'
  BY <1>2, <1>5 DEF ReadKept, PartsKept
<1>11. NoFailure(r)'
  <2> SUFFICES ASSUME rd.settled, lost' = {}, rd.phase = "done"
               PROVE  \/ rd.code = 200
                      \/ /\ rd.q.grade_level \in DOMAIN lri'
                         /\ Cardinality(To(lri', rd.q.grade_level, "contains")) = 1
    BY <1>2 DEF NoFailure
  <2> QED
    BY <1>2 DEF ReadKept, NoFailure
<1> QED
  BY <1>6, <1>7, <1>8, <1>9, <1>10, <1>11 DEF ReadKept

-----------------------------------------------------------------------------
(* The steps of a GET. *)

LEMMA BecomeIs ==
  ASSUME DOMAIN read = Readers, NEW r \in Readers, NEW record, Become(r, record)
  PROVE  /\ read'[r] = record /\ DOMAIN read' = Readers
         /\ \A s \in Readers : s # r => read'[s] = read[s]
BY DEF Become

LEMMA StillThere ==
  ASSUME UNCHANGED loadVars
  PROVE  Whole' = Whole /\ lri' = lri /\ phase' = phase /\ lost' = lost /\ Grows
BY DEF loadVars, Whole, Grows

LEMMA BeginKept ==
  ASSUME LoadInv, ReadInv, NEW r \in Readers, Begin(r)
  PROVE  ReadKept(r)'
<1>1. PICK q \in Requests :
        /\ read[r].phase = "idle"
        /\ Become(r, [read[r] EXCEPT !.phase = "search", !.q = q, !.before = DOMAIN lri,
                                     !.settled = phase = "loaded"])
        /\ UNCHANGED loadVars
  BY DEF Begin
<1>2. PICK rd, nd : rd = read[r] /\ nd = read'[r]
  OBVIOUS
<1>3. /\ ReadTyped(r) /\ DOMAIN rd = Fields /\ rd.phase = "idle" /\ rd = Unread
      /\ lri' = lri /\ phase' = phase /\ lost' = lost
  BY <1>1, <1>2, StillThere DEF ReadInv, ReadKept, ReadTyped
<1>4. nd = [rd EXCEPT !.phase = "search", !.q = q, !.before = DOMAIN lri, !.settled = phase = "loaded"]
  BY <1>1, <1>2, BecomeIs DEF ReadInv
<1>5. /\ DOMAIN nd = Fields /\ nd.phase = "search" /\ nd.q = q /\ nd.before = DOMAIN lri
      /\ nd.parts = {} /\ (nd.settled <=> phase = "loaded")
  BY <1>3, <1>4 DEF Fields, Unread
<1>6. ReadTyped(r)'
  BY <1>2, <1>3, <1>5 DEF ReadTyped
<1>7. ~Served(r)' /\ ~Expanded(r)' /\ read'[r].phase # "standards" /\ read'[r].phase # "done"
  BY <1>2, <1>5 DEF Served, Expanded
<1> QED
  BY <1>6, <1>7 DEF ReadKept, ItemsKept, NeedKept, AllKept, PartsKept, NoFailure

LEMMA FailKept ==
  ASSUME LoadInv, ReadInv, NEW r \in Readers, Fails(r), UNCHANGED loadVars, read[r].phase # "idle",
         read[r].settled /\ lost = {} =>
           /\ read[r].q.grade_level \in DOMAIN lri
           /\ Cardinality(To(lri, read[r].q.grade_level, "contains")) = 1
  PROVE  ReadKept(r)'
<1>2. PICK rd, nd : rd = read[r] /\ nd = read'[r]
  OBVIOUS
<1>3. /\ ReadTyped(r) /\ DOMAIN rd = Fields
      /\ lri' = lri /\ phase' = phase /\ lost' = lost
  BY <1>2, StillThere DEF ReadInv, ReadKept, ReadTyped
<1>4. nd = [rd EXCEPT !.phase = "done", !.code = 500]
  BY <1>2, BecomeIs DEF ReadInv, Fails
<1>5. /\ DOMAIN nd = Fields /\ nd.phase = "done" /\ nd.code = 500 /\ nd.q = rd.q
      /\ nd.before = rd.before /\ nd.settled = rd.settled
  BY <1>3, <1>4 DEF Fields
<1>6. ReadTyped(r)'
  BY <1>2, <1>3, <1>5 DEF ReadTyped
<1>7. ~Served(r)' /\ ~Expanded(r)' /\ read'[r].phase # "standards"
  BY <1>2, <1>5 DEF Served, Expanded
<1>8. NoFailure(r)'
  BY <1>2, <1>3, <1>5 DEF NoFailure
<1> QED
  BY <1>6, <1>7, <1>8 DEF ReadKept, ItemsKept, NeedKept, AllKept, PartsKept

LEMMA PageIs ==
  ASSUME NEW q, NEW found \in Page(lri, q)
  PROVE  /\ found \subseteq Hits(lri, q)
         /\ Cardinality(Hits(lri, q)) <= PageSize => found = Hits(lri, q)
BY DEF Page, kSubset

(* The search answered: what is found and what is then to be fetched. *)
LEMMA FoundKept ==
  ASSUME LoadInv, ReadInv, NEW r \in Readers, read[r].phase = "search", UNCHANGED loadVars,
         NEW found \in Page(lri, read[r].q), \A id \in found : ~Orphan(lri, id),
         Become(r, [read[r] EXCEPT !.phase = "standards", !.got = Ready(lri, found),
                      !.need = UNION {Wanted(lri, read[r].q, id) : id \in found}])
  PROVE  ReadKept(r)'
<1>1. PICK rd, nd, q, got, need :
        /\ rd = read[r] /\ nd = read'[r] /\ q = rd.q
        /\ got = Ready(lri, found) /\ need = UNION {Wanted(lri, q, id) : id \in found}
  OBVIOUS
<1>2. /\ ReadTyped(r) /\ DOMAIN rd = Fields /\ q \in Requests /\ rd.phase = "search" /\ rd.parts = {}
      /\ lri' = lri /\ phase' = phase /\ lost' = lost /\ Whole' = Whole
  BY <1>1, StillThere DEF ReadInv, ReadKept, ReadTyped
<1>3. nd = [rd EXCEPT !.phase = "standards", !.got = got, !.need = need]
  BY <1>1, BecomeIs DEF ReadInv
<1>4. /\ DOMAIN nd = Fields /\ nd.phase = "standards" /\ nd.q = q /\ nd.got = got /\ nd.need = need
      /\ nd.parts = {} /\ nd.before = rd.before /\ nd.settled = rd.settled
  BY <1>1, <1>2, <1>3 DEF Fields
<1>5. found \subseteq Hits(lri, q) /\ (Cardinality(Hits(lri, q)) <= PageSize => found = Hits(lri, q))
  BY <1>1, PageIs
<1>6. /\ \A x \in got : \E id \in found : IsMath(id) /\ Listed(id) /\ x = Item(lri, None, id)
      /\ \A id \in found : IsMath(id) /\ Listed(id) => Item(lri, None, id) \in got
  BY <1>1 DEF Ready, Listed
<1>7. /\ \A pair \in need : \E id \in found : pair \in Wanted(lri, q, id)
      /\ \A id \in found : \A pair \in Wanted(lri, q, id) : pair \in need
  BY <1>1
<1>8. \A id : Item(lri, None, id).id = id
  BY DEF Item
<1>9. ReadTyped(r)'
  BY <1>1, <1>2, <1>4 DEF ReadTyped
<1>10. ItemsKept(r)'
  <2>1. ASSUME NEW x \in got
        PROVE  /\ x.id \in Asked(q, DOMAIN lri)
               /\ x.contains = {b \in Whole : Above(x.id, b)}
               /\ x.anchor \subseteq {a \in DOMAIN lri : IsAnchorOf(a, x.id)}
    <3>1. PICK id \in found : IsMath(id) /\ Listed(id) /\ x = Item(lri, None, id)
      BY <1>6, <2>1
    <3>2. x.id = id /\ x.contains = To(lri, id, "contains") /\ x.anchor = From(lri, id, "anchors")
      BY <3>1 DEF Item
    <3>3. id \in Asked(q, DOMAIN lri)
      BY <1>2, <1>5, <3>1, FoundReady
    <3>4. id \in DOMAIN lri
      BY <1>2, <1>5, HitIs
    <3>5. id \in Whole
      BY <3>4, LriIs
    <3>6. x.contains = {b \in Whole : Above(id, b)} /\ x.anchor = {a \in DOMAIN lri : IsAnchorOf(a, id)}
      BY <3>2, <3>4, <3>5, ToIs, FromIs
    <3> QED
      BY <3>2, <3>3, <3>6
  <2>2. \A x, y \in got : x.id = y.id => x = y
    BY <1>6, <1>8
  <2> QED
    BY <1>1, <1>2, <1>4, <2>1, <2>2 DEF ItemsKept
<1>11. Got(r)' = {item.id : item \in got} /\ Needed(r)' = {pair[2] : pair \in need}
  BY <1>1, <1>4 DEF Got, Needed
<1>12. NeedKept(r)'
  <2>1. ASSUME NEW pair \in need
        PROVE  /\ pair = <<By(q, pair[2]), pair[2]>>
               /\ pair[2] \in Whole /\ ~IsMath(pair[2])
               /\ pair[2] \in Asked(q, DOMAIN lri \cup {pair[2]})
    <3>1. PICK id \in found : pair \in Wanted(lri, q, id)
      BY <1>7, <2>1
    <3> QED
      BY <1>2, <1>5, <3>1, FoundWanted
  <2>2. \A x \in got : IsMath(x.id)
    BY <1>6, <1>8
  <2>3. \A pair \in need : pair[2] \notin Got(r)'
    BY <1>11, <2>1, <2>2
  <2> QED
    BY <1>1, <1>2, <1>4, <2>1, <2>3 DEF NeedKept
<1>13. AllKept(r)'
  <2> SUFFICES ASSUME Cardinality(Hits(lri, q)) <= PageSize, NEW id \in Asked(q, rd.before)
               PROVE  id \in Got(r)' \cup Needed(r)'
    BY <1>1, <1>2, <1>4 DEF AllKept
  <2>1. found = Hits(lri, q)
    BY <1>5
  <2>2. id \in Asked(q, DOMAIN lri)
    <3>1. rd.before \subseteq DOMAIN lri
      BY <1>1, <1>2 DEF ReadTyped
    <3> QED
      BY <3>1, AskedGrows
  <2>3. CASE id \in found /\ IsMath(id) /\ Listed(id)
    <3>1. Item(lri, None, id) \in got
      BY <1>6, <2>3
    <3> QED
      BY <1>8, <1>11, <3>1
  <2>4. CASE \E f \in found : \E p : <<p, id>> \in Wanted(lri, q, f)
    <3>a. PICK f \in found : \E p : <<p, id>> \in Wanted(lri, q, f)
      BY <2>4
    <3>b. PICK p : <<p, id>> \in Wanted(lri, q, f)
      BY <3>a
    <3>1. PICK pair \in Wanted(lri, q, f) : pair[2] = id
      BY <3>b
    <3>2. pair \in need
      BY <1>7, <3>1
    <3> QED
      BY <1>11, <3>1, <3>2
  <2> QED
    BY <1>2, <2>1, <2>2, <2>3, <2>4, FoundAll
<1>14. ~Expanded(r)' /\ read'[r].phase # "done"
  BY <1>1, <1>4 DEF Expanded
<1> QED
  BY <1>9, <1>10, <1>12, <1>13, <1>14 DEF ReadKept, PartsKept, NoFailure

LEMMA FindKept ==
  ASSUME LoadInv, ReadInv, NEW r \in Readers, Find(r)
  PROVE  ReadKept(r)'
<1>1. /\ read[r].phase = "search" /\ UNCHANGED loadVars
      /\ read[r].q \in Requests /\ (read[r].settled => phase = "loaded")
  BY DEF Find, ReadInv, ReadKept, ReadTyped
<1>2. PICK found \in Page(lri, read[r].q) :
        \/ /\ \E id \in found : Orphan(lri, id) \/ Lone(lri, read[r].q, id)
           /\ Fails(r)
        \/ /\ \A id \in found : ~Orphan(lri, id)
           /\ Become(r, [read[r] EXCEPT !.phase = "standards", !.got = Ready(lri, found),
                           !.need = UNION {Wanted(lri, read[r].q, id) : id \in found}])
  BY DEF Find
<1>3. CASE (\E id \in found : Orphan(lri, id) \/ Lone(lri, read[r].q, id)) /\ Fails(r)
  <2>1. PICK id \in found : Orphan(lri, id) \/ Lone(lri, read[r].q, id)
    BY <1>3
  <2>2. id \in Hits(lri, read[r].q)
    BY <2>1, PageIs
  <2>3. id \in DOMAIN lri
    BY <1>1, <2>2, HitIs
  <2>4. ASSUME read[r].settled, lost = {}
        PROVE  /\ read[r].q.grade_level \in DOMAIN lri
               /\ Cardinality(To(lri, read[r].q.grade_level, "contains")) = 1
    <3>1. ~Orphan(lri, id)
      BY <1>1, <2>2, <2>4, NoOrphan
    <3>2. Lone(lri, read[r].q, id)
      BY <2>1, <3>1
    <3> QED
      BY <2>3, <3>2 DEF Lone
  <2> QED
    BY <1>1, <1>3, <2>4, FailKept
<1> QED
  BY <1>1, <1>2, <1>3, FoundKept

(* A standard that is fetched is read, and no other is read for its ID. *)
LEMMA FetchKept ==
  ASSUME LoadInv, ReadInv, NEW r \in Readers, Fetch(r)
  PROVE  ReadKept(r)'
<1>1. PICK rd, nd, q : rd = read[r] /\ nd = read'[r] /\ q = rd.q
  OBVIOUS
<1>2. PICK pair \in rd.need :
        /\ rd.phase = "standards"
        /\ IF pair[2] \in DOMAIN lri
           THEN Become(r, [rd EXCEPT !.got = rd.got \cup {Item(lri, pair[1], pair[2])},
                                     !.need = rd.need \ {pair}])
           ELSE Fails(r)
        /\ UNCHANGED loadVars
  BY <1>1 DEF Fetch
<1>3. /\ ReadTyped(r) /\ ItemsKept(r) /\ NeedKept(r) /\ AllKept(r)
      /\ DOMAIN rd = Fields /\ rd.phase = "standards" /\ rd.parts = {}
      /\ lri' = lri /\ phase' = phase /\ lost' = lost /\ Whole' = Whole
  BY <1>1, <1>2, StillThere DEF ReadInv, ReadKept, ReadTyped
<1>4. \A p \in rd.need :
        /\ p = <<By(q, p[2]), p[2]>> /\ p[2] \in Whole /\ p[2] \notin Got(r)
        /\ p[2] \in Asked(q, DOMAIN lri \cup {p[2]})
  BY <1>1, <1>3 DEF NeedKept
<1>5. CASE pair[2] \notin DOMAIN lri
  <2>1. rd.settled => phase = "loaded"
    BY <1>1, <1>3 DEF ReadTyped
  <2>2. ~(rd.settled /\ lost = {})
    BY <1>4, <1>5, <2>1, AllThere
  <2> QED
    BY <1>1, <1>2, <1>3, <1>5, <2>2, FailKept
<1>6. CASE pair[2] \in DOMAIN lri
  <2>1. PICK item, id, got, need :
          /\ item = Item(lri, pair[1], pair[2]) /\ id = pair[2]
          /\ got = rd.got \cup {item} /\ need = rd.need \ {pair}
    OBVIOUS
  <2>2. nd = [rd EXCEPT !.got = got, !.need = need]
    BY <1>1, <1>2, <1>6, <2>1, BecomeIs DEF ReadInv
  <2>3. /\ DOMAIN nd = Fields /\ nd.phase = "standards" /\ nd.q = q /\ nd.got = got /\ nd.need = need
        /\ nd.parts = {} /\ nd.before = rd.before /\ nd.settled = rd.settled
    BY <1>1, <1>3, <2>2 DEF Fields
  <2>4. item.id = id /\ item.contains = To(lri, id, "contains") /\ item.anchor = From(lri, id, "anchors")
    BY <2>1 DEF Item
  <2>5. id \in Whole /\ id \in DOMAIN lri /\ id \notin Got(r) /\ id \in Asked(q, DOMAIN lri)
    <3>1. id \in Asked(q, DOMAIN lri \cup {id})
      BY <1>4, <2>1
    <3>2. DOMAIN lri \cup {id} = DOMAIN lri
      BY <1>6, <2>1
    <3> QED
      BY <1>4, <1>6, <2>1, <3>1, <3>2
  <2>6. /\ item.contains = {b \in Whole : Above(id, b)}
        /\ item.anchor = {a \in DOMAIN lri : IsAnchorOf(a, id)}
    BY <2>4, <2>5, ToIs, FromIs
  <2>7. /\ \A x \in rd.got :
             /\ x.id \in Asked(q, DOMAIN lri)
             /\ x.contains = {b \in Whole : Above(x.id, b)}
             /\ x.anchor \subseteq {a \in DOMAIN lri : IsAnchorOf(a, x.id)}
        /\ \A x, y \in rd.got : x.id = y.id => x = y
    BY <1>1, <1>3 DEF ItemsKept, Served
  <2>8. Got(r) = {x.id : x \in rd.got} /\ Got(r)' = Got(r) \cup {id}
    BY <1>1, <2>1, <2>3, <2>4 DEF Got
  <2>9. ReadTyped(r)'
    BY <1>1, <1>3, <2>3 DEF ReadTyped
  <2>10. ItemsKept(r)'
    <3>1. \A x \in got :
            /\ x.id \in Asked(q, DOMAIN lri)
            /\ x.contains = {b \in Whole : Above(x.id, b)}
            /\ x.anchor \subseteq {a \in DOMAIN lri : IsAnchorOf(a, x.id)}
      BY <2>1, <2>4, <2>5, <2>6, <2>7
    <3>2. \A x \in rd.got : x.id # id
      BY <2>5, <2>8
    <3>3. \A x, y \in got : x.id = y.id => x = y
      BY <2>1, <2>4, <2>7, <3>2
    <3> QED
      BY <1>1, <1>3, <2>3, <3>1, <3>3 DEF ItemsKept
  <2>11. \A p \in need : p \in rd.need /\ p[2] # id
    BY <1>4, <2>1
  <2>12. NeedKept(r)'
    BY <1>1, <1>3, <1>4, <2>3, <2>8, <2>11 DEF NeedKept
  <2>13. AllKept(r)'
    <3> SUFFICES ASSUME Cardinality(Hits(lri, q)) <= PageSize, NEW x \in Asked(q, rd.before)
                 PROVE  x \in Got(r)' \cup Needed(r)'
      BY <1>1, <1>3, <2>3 DEF AllKept
    <3>1. Needed(r) = {p[2] : p \in rd.need} /\ Needed(r)' = {p[2] : p \in need}
      BY <1>1, <1>2, <2>3 DEF Needed
    <3>2. x \in Got(r) \cup Needed(r)
      BY <1>1, <1>2, <1>3 DEF AllKept, Served
    <3>3. Needed(r) \subseteq Needed(r)' \cup {id}
      BY <2>1, <3>1
    <3> QED
      BY <2>8, <3>2, <3>3
  <2>14. ~Expanded(r)' /\ read'[r].phase # "done"
    BY <1>1, <2>3 DEF Expanded
  <2> QED
    BY <2>9, <2>10, <2>12, <2>13, <2>14 DEF ReadKept, PartsKept, NoFailure
<1> QED
  BY <1>5, <1>6

(* The items stay while their parts are fetched. *)
LEMMA PartsStep ==
  ASSUME LoadInv, ReadInv, NEW r \in Readers, UNCHANGED loadVars,
         Served(r), read[r].phase = "standards" => read[r].need = {},
         DOMAIN read'[r] = Fields, Expanded(r)',
         read'[r].q = read[r].q, read'[r].got = read[r].got,
         read'[r].before = read[r].before, read'[r].settled = read[r].settled,
         read[r].q.children => Components(read[r].got) \subseteq read'[r].parts \cup read'[r].need,
         read'[r].parts \cup read'[r].need \subseteq Components(read[r].got) \cup Anchors(read[r].got),
         read'[r].phase = "done" => read'[r].need = {}
  PROVE  ReadKept(r)'
<1>1. PICK rd, nd : rd = read[r] /\ nd = read'[r]
  OBVIOUS
<1>2. /\ ReadTyped(r) /\ ItemsKept(r) /\ AllKept(r)
      /\ lri' = lri /\ phase' = phase /\ lost' = lost /\ Whole' = Whole
  BY StillThere DEF ReadInv, ReadKept
<1>3. /\ nd.phase \in {"components", "anchors"} \/ (nd.phase = "done" /\ nd.code = 200)
      /\ Served(r)' /\ nd.phase # "standards"
  BY <1>1 DEF Expanded, Served
<1>4. ReadTyped(r)'
  BY <1>1, <1>2, <1>3 DEF ReadTyped, Served
<1>5. ItemsKept(r)'
  BY <1>1, <1>2 DEF ItemsKept
<1>6. NeedKept(r)'
  BY <1>1, <1>3 DEF NeedKept
<1>7. AllKept(r)'
  <2>1. Got(r)' = Got(r) /\ Needed(r) = {}
    BY <1>1 DEF Got, Needed
  <2> QED
    BY <1>1, <1>2, <2>1 DEF AllKept
<1>8. PartsKept(r)'
  BY <1>1 DEF PartsKept
<1>9. NoFailure(r)'
  BY <1>1, <1>3 DEF NoFailure
<1> QED
  BY <1>4, <1>5, <1>6, <1>7, <1>8, <1>9 DEF ReadKept

LEMMA ExpandKept ==
  ASSUME LoadInv, ReadInv, NEW r \in Readers, Expand(r)
  PROVE  ReadKept(r)'
<1>1. PICK rd, nd, need :
        /\ rd = read[r] /\ nd = read'[r]
        /\ need = IF rd.q.children THEN Components(rd.got) ELSE {}
  OBVIOUS
<1>2. /\ rd.phase = "standards" /\ rd.need = {} /\ UNCHANGED loadVars
      /\ nd = [rd EXCEPT !.phase = "components", !.need = need]
  BY <1>1, BecomeIs DEF Expand, ReadInv
<1>3. DOMAIN rd = Fields /\ rd.parts = {}
  BY <1>1, <1>2 DEF ReadInv, ReadKept, ReadTyped
<1>4. /\ DOMAIN nd = Fields /\ nd.phase = "components" /\ nd.q = rd.q /\ nd.got = rd.got /\ nd.need = need
      /\ nd.parts = {} /\ nd.before = rd.before /\ nd.settled = rd.settled
  BY <1>2, <1>3 DEF Fields
<1>5. Served(r) /\ Expanded(r)'
  BY <1>1, <1>2, <1>4 DEF Served, Expanded
<1>6. /\ rd.q.children => Components(rd.got) \subseteq nd.parts \cup nd.need
      /\ nd.parts \cup nd.need \subseteq Components(rd.got) \cup Anchors(rd.got)
  BY <1>1, <1>4
<1>7. UNCHANGED loadVars /\ rd.need = {}
  BY <1>2
<1> QED
  BY <1>1, <1>4, <1>5, <1>6, <1>7, PartsStep

LEMMA AnchorKept ==
  ASSUME LoadInv, ReadInv, NEW r \in Readers, Anchor(r)
  PROVE  ReadKept(r)'
<1>1. PICK rd, nd, need :
        /\ rd = read[r] /\ nd = read'[r]
        /\ need = IF rd.q.anchors THEN Anchors(rd.got) ELSE {}
  OBVIOUS
<1>2. /\ rd.phase = "components" /\ rd.need = {} /\ UNCHANGED loadVars
      /\ nd = [rd EXCEPT !.phase = "anchors", !.need = need]
  BY <1>1, BecomeIs DEF Anchor, ReadInv
<1>3. Served(r) /\ Expanded(r)
  BY <1>1, <1>2 DEF Served, Expanded
<1>4. /\ DOMAIN rd = Fields
      /\ rd.q.children => Components(rd.got) \subseteq rd.parts \cup rd.need
      /\ rd.parts \cup rd.need \subseteq Components(rd.got) \cup Anchors(rd.got)
  BY <1>1, <1>3 DEF ReadInv, ReadKept, ReadTyped, PartsKept
<1>5. /\ DOMAIN nd = Fields /\ nd.phase = "anchors" /\ nd.q = rd.q /\ nd.got = rd.got /\ nd.need = need
      /\ nd.parts = rd.parts /\ nd.before = rd.before /\ nd.settled = rd.settled
  BY <1>2, <1>4 DEF Fields
<1>6. Expanded(r)'
  BY <1>1, <1>5 DEF Served, Expanded
<1>7. /\ rd.q.children => Components(rd.got) \subseteq nd.parts \cup nd.need
      /\ nd.parts \cup nd.need \subseteq Components(rd.got) \cup Anchors(rd.got)
  BY <1>1, <1>2, <1>4, <1>5
<1> QED
  BY <1>1, <1>2, <1>3, <1>5, <1>6, <1>7, PartsStep

LEMMA FetchPartKept ==
  ASSUME LoadInv, ReadInv, NEW r \in Readers, FetchPart(r)
  PROVE  ReadKept(r)'
<1>1. PICK rd, nd : rd = read[r] /\ nd = read'[r]
  OBVIOUS
<1>2. PICK pair \in rd.need :
        /\ rd.phase \in {"components", "anchors"}
        /\ IF pair[2] \in DOMAIN lri
           THEN Become(r, [rd EXCEPT !.parts = rd.parts \cup {pair}, !.need = rd.need \ {pair}])
           ELSE Fails(r)
        /\ UNCHANGED loadVars
  BY <1>1 DEF FetchPart
<1>3. Served(r) /\ Expanded(r) /\ rd.phase # "standards" /\ rd.phase # "idle"
  BY <1>1, <1>2 DEF Served, Expanded
<1>4. /\ DOMAIN rd = Fields /\ ReadTyped(r) /\ ItemsKept(r)
      /\ rd.q.children => Components(rd.got) \subseteq rd.parts \cup rd.need
      /\ rd.parts \cup rd.need \subseteq Components(rd.got) \cup Anchors(rd.got)
  BY <1>1, <1>3 DEF ReadInv, ReadKept, ReadTyped, PartsKept
<1>5. CASE pair[2] \notin DOMAIN lri
  <2>1. rd.settled => phase = "loaded"
    BY <1>1, <1>4 DEF ReadTyped
  <2>2. \A x \in rd.got : x.contains \subseteq Whole /\ x.anchor \subseteq DOMAIN lri
    BY <1>1, <1>3, <1>4 DEF ItemsKept
  <2>3. pair \in Components(rd.got) => pair[2] \in Whole
    BY <2>2 DEF Components
  <2>4. pair \in Anchors(rd.got) => pair[2] \in DOMAIN lri
    BY <2>2 DEF Anchors
  <2>5. pair[2] \in Whole
    BY <1>2, <1>4, <1>5, <2>3, <2>4
  <2>6. ~(rd.settled /\ lost = {})
    BY <1>5, <2>1, <2>5, AllThere
  <2> QED
    BY <1>1, <1>2, <1>3, <1>5, <2>6, FailKept
<1>6. CASE pair[2] \in DOMAIN lri
  <2>1. PICK parts, need : parts = rd.parts \cup {pair} /\ need = rd.need \ {pair}
    OBVIOUS
  <2>2. nd = [rd EXCEPT !.parts = parts, !.need = need]
    BY <1>1, <1>2, <1>6, <2>1, BecomeIs DEF ReadInv
  <2>3. /\ DOMAIN nd = Fields /\ nd.phase = rd.phase /\ nd.q = rd.q /\ nd.got = rd.got /\ nd.need = need
        /\ nd.parts = parts /\ nd.before = rd.before /\ nd.settled = rd.settled
    BY <1>4, <2>2 DEF Fields
  <2>4. parts \cup need = rd.parts \cup rd.need
    BY <1>2, <2>1
  <2>5. Expanded(r)' /\ nd.phase # "done"
    BY <1>1, <1>2, <2>3 DEF Served, Expanded
  <2> QED
    BY <1>1, <1>2, <1>3, <1>4, <2>3, <2>4, <2>5, PartsStep
<1> QED
  BY <1>5, <1>6

LEMMA AnswerKept ==
  ASSUME LoadInv, ReadInv, NEW r \in Readers, Answer(r)
  PROVE  ReadKept(r)'
<1>1. PICK rd, nd : rd = read[r] /\ nd = read'[r]
  OBVIOUS
<1>2. /\ rd.phase = "anchors" /\ rd.need = {} /\ UNCHANGED loadVars
      /\ nd = [rd EXCEPT !.phase = "done", !.code = 200]
  BY <1>1, BecomeIs DEF Answer, ReadInv
<1>3. Served(r) /\ Expanded(r)
  BY <1>1, <1>2 DEF Served, Expanded
<1>4. /\ DOMAIN rd = Fields
      /\ rd.q.children => Components(rd.got) \subseteq rd.parts \cup rd.need
      /\ rd.parts \cup rd.need \subseteq Components(rd.got) \cup Anchors(rd.got)
  BY <1>1, <1>3 DEF ReadInv, ReadKept, ReadTyped, PartsKept
<1>5. /\ DOMAIN nd = Fields /\ nd.phase = "done" /\ nd.code = 200 /\ nd.q = rd.q /\ nd.got = rd.got
      /\ nd.need = rd.need /\ nd.parts = rd.parts /\ nd.before = rd.before /\ nd.settled = rd.settled
  BY <1>2, <1>4 DEF Fields
<1>6. Expanded(r)'
  BY <1>1, <1>5 DEF Served, Expanded
<1>7. /\ rd.q.children => Components(rd.got) \subseteq nd.parts \cup nd.need
      /\ nd.parts \cup nd.need \subseteq Components(rd.got) \cup Anchors(rd.got)
      /\ nd.need = {} /\ rd.need = {}
  <2>1. nd.parts \cup nd.need = rd.parts \cup rd.need /\ nd.need = {} /\ rd.need = {}
    BY <1>2, <1>5
  <2> QED
    BY <1>4, <2>1
<1>8. UNCHANGED loadVars
  BY <1>2
<1> QED
  BY <1>1, <1>3, <1>5, <1>6, <1>7, <1>8, PartsStep

LEMMA ReadStep ==
  ASSUME LoadInv, LoadInv', ReadInv, [Next]_vars
  PROVE  ReadInv'
<1>1. CASE LoadNext /\ UNCHANGED read
  <2>1. Grows /\ phase # "loaded"
    BY <1>1, LoadGrows
  <2>2. ASSUME NEW r \in Readers PROVE ReadKept(r)'
    <3>1. ReadKept(r) /\ read'[r] = read[r] /\ ~read[r].settled
      BY <1>1, <2>1 DEF ReadInv, ReadKept, ReadTyped
    <3> QED
      BY <2>1, <3>1, KeepRead
  <2> QED
    BY <1>1, <2>2 DEF ReadInv
<1>2. ASSUME NEW r \in Readers, ReadNext(r) PROVE ReadInv'
  <2>1. ReadKept(r)'
    BY <1>2, BeginKept, FindKept, FetchKept, ExpandKept, AnchorKept, FetchPartKept, AnswerKept DEF ReadNext
  <2>2. UNCHANGED loadVars /\ \E record : Become(r, record)
    BY <1>2 DEF ReadNext, Begin, Find, Fetch, Expand, Anchor, FetchPart, Answer, Fails
  <2>3. DOMAIN read' = Readers /\ \A s \in Readers : s # r => read'[s] = read[s]
    BY <2>2, BecomeIs DEF ReadInv
  <2>4. Grows /\ lri' = lri /\ phase' = phase /\ lost' = lost
    BY <2>2, StillThere
  <2>5. ASSUME NEW s \in Readers, s # r PROVE ReadKept(s)'
    <3>1. ReadKept(s)
      BY DEF ReadInv
    <3> QED
      BY <2>3, <2>4, <2>5, <3>1, KeepRead
  <2> QED
    BY <2>1, <2>3, <2>5 DEF ReadInv
<1>3. CASE UNCHANGED vars
  <2>1. UNCHANGED loadVars /\ read' = read
    BY <1>3 DEF vars
  <2>2. Grows /\ lri' = lri /\ phase' = phase /\ lost' = lost
    BY <2>1, StillThere
  <2>3. ASSUME NEW r \in Readers PROVE ReadKept(r)'
    <3>1. ReadKept(r)
      BY DEF ReadInv
    <3> QED
      BY <2>1, <2>2, <3>1, KeepRead
  <2> QED
    BY <2>1, <2>3 DEF ReadInv
<1> QED
  BY <1>1, <1>2, <1>3 DEF Next

LEMMA ReadInit ==
  ASSUME Init
  PROVE  ReadInv
<1>1. read = [r \in Readers |-> Unread]
  BY DEF Init
<1>2. ASSUME NEW r \in Readers PROVE ReadKept(r)
  <2>1. read[r] = Unread
    BY <1>1
  <2>2. /\ DOMAIN Unread = Fields /\ Unread.phase = "idle" /\ Unread.before = {} /\ ~Unread.settled
    BY DEF Unread, Fields
  <2>3. ReadTyped(r)
    BY <2>1, <2>2 DEF ReadTyped
  <2>4. ~Served(r) /\ ~Expanded(r) /\ read[r].phase # "standards" /\ read[r].phase # "done"
    BY <2>1, <2>2 DEF Served, Expanded
  <2> QED
    BY <2>3, <2>4 DEF ReadKept, ItemsKept, NeedKept, AllKept, PartsKept, NoFailure
<1> QED
  BY <1>1, <1>2 DEF ReadInv

(* However loading and reading are interleaved, what a GET has read and has    *)
(* still to read is kept.                                                     *)
THEOREM ReadHolds == Spec => []ReadInv
<1>1. Init => ReadInv
  BY ReadInit
<1>2. LoadInv /\ LoadInv' /\ ReadInv /\ [Next]_vars => ReadInv'
  BY ReadStep
<1> QED
  BY <1>1, <1>2, LoadHolds, PTL DEF Spec

-----------------------------------------------------------------------------
(* What follows for the answers. *)

(* AnswersBetween, for all documents, requests and page sizes: an answer of    *)
(* query.py (312-444) holds every standard asked for that was there when the  *)
(* GET began, none twice and none that is not asked for.                      *)
THEOREM AnswersBetweenHolds == Spec => []AnswersBetween
<1>1. ReadInv => AnswersBetween
  <2> SUFFICES ASSUME ReadInv, NEW r \in Readers, read[r].phase = "done", read[r].code = 200
               PROVE  /\ \A x, y \in read[r].got : x.id = y.id => x = y
                      /\ Got(r) \subseteq Asked(read[r].q, DOMAIN lri)
                      /\ Cardinality(Hits(lri, read[r].q)) <= PageSize =>
                           Asked(read[r].q, read[r].before) \subseteq Got(r)
    BY DEF AnswersBetween
  <2>1. Served(r) /\ Needed(r) = {}
    BY DEF Served, Needed
  <2>2. /\ \A x \in read[r].got : x.id \in Asked(read[r].q, DOMAIN lri)
        /\ \A x, y \in read[r].got : x.id = y.id => x = y
    BY <2>1 DEF ReadInv, ReadKept, ItemsKept
  <2>3. Cardinality(Hits(lri, read[r].q)) <= PageSize => Asked(read[r].q, read[r].before) \subseteq Got(r)
    BY <2>1 DEF ReadInv, ReadKept, AllKept
  <2> QED
    BY <2>2, <2>3 DEF Got
<1> QED
  BY <1>1, ReadHolds, PTL

(* LoadedIsRead: a GET that begins when all is loaded ends well (query.py      *)
(* 312-559), but for a grade that holds one standard.                         *)
THEOREM LoadedIsReadHolds == Spec => []LoadedIsRead
<1>1. ReadInv => LoadedIsRead
  BY DEF ReadInv, ReadKept, NoFailure, LoadedIsRead
<1> QED
  BY <1>1, ReadHolds, PTL

(* What a listed standard contains are the components below it. *)
LEMMA ComponentIs ==
  ASSUME NEW a, IsNode(a), Listed(a), NEW b, IsNode(b)
  PROVE  Above(a, b) <=> b[1] = "standard_component" /\ IsStrictPrefix(a[2], b[2])
<1>1. a[1] = "standard" /\ (Ela(a[2]) \/ Content(a[2])) /\ IsName(a[2]) /\ IsName(b[2])
  BY ListedIs DEF IsNode
<1>2. Above(a, b) => b[1] = "standard_component" /\ IsStrictPrefix(a[2], b[2])
  BY <1>1, AboveFits, StrictAbove
<1>3. ASSUME b[1] = "standard_component", IsStrictPrefix(a[2], b[2]) PROVE Above(a, b)
  <2>1. CASE Ela(a[2])
    <3>1. Size(a[2]) = 5
      BY <1>1, <2>1, NodeLevel, Apart
    <3>2. Ela(b[2])
      BY <1>1, <1>3, <2>1, <3>1, StrictIs
    <3>3. Size(b[2]) = 6
      BY <1>3, <3>2, NodeLevel, Apart
    <3> QED
      BY <1>1, <1>3, <3>1, <3>3, StrictAbove
  <2>2. CASE Content(a[2])
    <3>1. Size(a[2]) = 7
      BY <2>2, MathListed
    <3>2. Content(b[2])
      BY <1>1, <1>3, <2>2, <3>1, StrictIs
    <3>3. Size(b[2]) = 8
      BY <1>3, <3>2, NodeLevel, Apart
    <3> QED
      BY <1>1, <1>3, <3>1, <3>3, StrictAbove
  <2> QED
    BY <1>1, <2>1, <2>2
<1> QED
  BY <1>2, <1>3

(* PartsWhole: the components in an answer are all those of its standards and  *)
(* no others (query.py 463-482), although they are fetched one by one.        *)
THEOREM PartsWholeHolds == Spec => []PartsWhole
<1>1. LoadInv /\ ReadInv => PartsWhole
  <2> SUFFICES ASSUME LoadInv, ReadInv, NEW r \in Readers,
                      read[r].phase = "done", read[r].code = 200, read[r].q.children
               PROVE  {x \in read[r].parts : x[2][1] = "standard_component"} =
                        {x \in Got(r) \X {c \in DOMAIN tree : c[1] = "standard_component"} :
                           IsStrictPrefix(x[1][2], x[2][2])}
    BY DEF PartsWhole
  <2>1. PICK got, parts : got = read[r].got /\ parts = read[r].parts
    OBVIOUS
  <2>2. Served(r) /\ Expanded(r)
    BY DEF Served, Expanded
  <2>3. /\ Components(got) \subseteq parts
        /\ parts \subseteq Components(got) \cup Anchors(got)
    BY <2>1, <2>2 DEF ReadInv, ReadKept, PartsKept
  <2>4. \A x \in got :
          /\ x.id \in DOMAIN lri /\ Listed(x.id)
          /\ x.contains = {b \in Whole : Above(x.id, b)}
          /\ x.anchor \subseteq {a \in DOMAIN lri : IsAnchorOf(a, x.id)}
    <3>1. ItemsKept(r)
      BY DEF ReadInv, ReadKept
    <3>2. \A x \in got :
            /\ x.id \in Asked(read[r].q, DOMAIN lri)
            /\ x.contains = {b \in Whole : Above(x.id, b)}
            /\ x.anchor \subseteq {a \in DOMAIN lri : IsAnchorOf(a, x.id)}
      BY <2>1, <2>2, <3>1 DEF ItemsKept
    <3> QED
      BY <3>2, AskedIs
  <2>5. \A x \in got : /\ DOMAIN tree = Whole
                       /\ \A b \in Whole : Above(x.id, b) <=> /\ b[1] = "standard_component"
                                                              /\ IsStrictPrefix(x.id[2], b[2])
    BY <2>4, LriIs, ComponentIs
  <2>6. ASSUME NEW e \in parts, e[2][1] = "standard_component"
        PROVE  e \in {x \in Got(r) \X {c \in DOMAIN tree : c[1] = "standard_component"} :
                        IsStrictPrefix(x[1][2], x[2][2])}
    <3>1. e \in Components(got) \/ e \in Anchors(got)
      BY <2>3
    <3>2. CASE e \in Components(got)
      <4>1. PICK item \in got : \E b \in item.contains : e = <<item.id, b>>
        BY <3>2 DEF Components
      <4>2. PICK b \in item.contains : e = <<item.id, b>>
        BY <4>1
      <4>3. PICK id : id = item.id
        OBVIOUS
      <4>4. b \in DOMAIN tree /\ b[1] = "standard_component" /\ IsStrictPrefix(id[2], b[2])
        BY <2>4, <2>5, <4>2, <4>3
      <4>5. id \in Got(r)
        BY <2>1, <4>3 DEF Got
      <4> QED
        BY <4>2, <4>3, <4>4, <4>5
    <3>3. CASE e \in Anchors(got)
      <4>1. PICK item \in got : \E a \in item.anchor : e = <<item.id, a>>
        BY <3>3 DEF Anchors
      <4>2. PICK a \in item.anchor : e = <<item.id, a>>
        BY <4>1
      <4>3. a[1] = "anchor_standard"
        BY <2>4, <4>2 DEF IsAnchorOf
      <4> QED
        BY <2>6, <4>2, <4>3
    <3> QED
      BY <3>1, <3>2, <3>3
  <2>7. ASSUME NEW id \in Got(r), NEW c \in DOMAIN tree, c[1] = "standard_component",
               IsStrictPrefix(id[2], c[2])
        PROVE  <<id, c>> \in parts
    <3>1. PICK item \in got : item.id = id
      BY <2>1 DEF Got
    <3>2. c \in item.contains
      BY <2>4, <2>5, <2>7, <3>1
    <3>3. <<id, c>> \in Components(got)
      BY <3>1, <3>2 DEF Components
    <3> QED
      BY <2>3, <3>3
  <2> QED
    BY <2>1, <2>6, <2>7
<1> QED
  BY <1>1, LoadHolds, ReadHolds, PTL
=============================================================================
