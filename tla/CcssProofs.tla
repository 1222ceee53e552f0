----------------------------- MODULE CcssProofs -----------------------------
(***************************************************************************)
(* Theorems about Ccss, for any documents, threads, orderings and loaded   *)
(* entities, any size of a page and any number of requests that fail.      *)
(*                                                                         *)
(* None of the four invariants is inductive: what the LRI holds at one     *)
(* moment does not say who asked for it and what else was asked for.  CInv *)
(* adds that: each POST has sent a beginning of its Inserts, of which all  *)
(* is there or lost, and each entity was there from the start or is one of *)
(* the Inserts of a POST that had sent all those before it.                *)
(*                                                                         *)
(* Before CInv comes what the Inserts of each kind of document are         *)
(* (InsertsGood, PathCreated), after it what is found (ImportedAlwaysFound)*)
(* and in which order the steps of a path are read: SortByPrevious makes   *)
(* of any listing of them the longest beginning of the path it has.        *)
(***************************************************************************)
EXTENDS Ccss, FiniteSetTheorems, WellFoundedInduction, TLAPS

-----------------------------------------------------------------------------
(* Numbers and sequences. *)

LEMMA LeastNumber ==
  ASSUME NEW T \in SUBSET Nat, T # {}
  PROVE  \E m \in T : \A n \in T : m <= n
<1> DEFINE R == OpToRel(<, Nat)
<1>1. IsWellFoundedOn(R, Nat)
  BY NatLessThanWellFounded
<1>2. \A m, n \in Nat : m < n => <<m, n>> \in R
  BY DEF OpToRel
<1> HIDE DEF R
<1>3. PICK m \in T : \A n \in T : <<n, m>> \notin R
  BY <1>1, WFMin
<1>4. \A n \in T : m <= n
  <2> SUFFICES ASSUME NEW n \in T, n < m PROVE FALSE
    BY <1>3
  <2> QED
    BY <1>2, <1>3
<1> QED
  BY <1>4

(* Induction up to a bound, said of a set of numbers. *)
LEMMA UpTo ==
  ASSUME NEW N \in Nat, NEW P \in SUBSET (0 .. N), 0 \in P,
         \A i \in P : i < N => i + 1 \in P
  PROVE  P = 0 .. N
<1> SUFFICES ASSUME (0 .. N) \ P # {} PROVE FALSE
  OBVIOUS
<1> PICK T : T = (0 .. N) \ P
  OBVIOUS
<1>0. T \in SUBSET Nat /\ T # {}
  OBVIOUS
<1>1. PICK m \in T : \A n \in T : m <= n
  BY <1>0, LeastNumber
<1>2. m # 0 /\ m - 1 \in 0 .. N /\ m - 1 < m
  BY <1>1
<1>3. m - 1 \in P
  BY <1>1, <1>2
<1> QED
  BY <1>1, <1>2, <1>3

IsSeq(s) == s \in Seq({s[i] : i \in DOMAIN s})

LEMMA SeqFacts ==
  ASSUME NEW s, IsSeq(s)
  PROVE  Len(s) \in Nat /\ DOMAIN s = 1 .. Len(s) /\ s = [i \in 1 .. Len(s) |-> s[i]]
BY DEF IsSeq

LEMMA SeqIn ==
  ASSUME NEW S, NEW s \in Seq(S)
  PROVE  IsSeq(s)
<1> DEFINE T == {s[i] : i \in DOMAIN s}
<1>1. Len(s) \in Nat /\ DOMAIN s = 1 .. Len(s) /\ s \in [1 .. Len(s) -> T]
  OBVIOUS
<1>2. s \in Seq(T)
  BY <1>1
<1> QED
  BY <1>2 DEF IsSeq

LEMMA Appended ==
  ASSUME NEW s, IsSeq(s), NEW x
  PROVE  /\ IsSeq(Append(s, x)) /\ Len(Append(s, x)) = Len(s) + 1
         /\ Append(s, x)[Len(s) + 1] = x
         /\ \A i \in 1 .. Len(s) : Append(s, x)[i] = s[i]
<1> DEFINE S == {s[i] : i \in DOMAIN s} \cup {x}
<1>1. s \in Seq(S)
  BY DEF IsSeq
<1>2. Append(s, x) \in Seq(S)
  BY <1>1
<1>3. IsSeq(Append(s, x))
  BY <1>2, SeqIn
<1>4. /\ Len(Append(s, x)) = Len(s) + 1 /\ Append(s, x)[Len(s) + 1] = x
      /\ \A i \in 1 .. Len(s) : Append(s, x)[i] = s[i]
  BY <1>1
<1> QED
  BY <1>3, <1>4

(* Two elements are added to a sequence. *)
Longer(s, t, x, y) ==
  /\ IsSeq(t) /\ Len(t) = Len(s) + 2
  /\ t[Len(s) + 1] = x /\ t[Len(s) + 2] = y
  /\ \A i \in 1 .. Len(s) : t[i] = s[i]

LEMMA Joined ==
  ASSUME NEW s, IsSeq(s), NEW x, NEW y
  PROVE  Longer(s, s \o <<x, y>>, x, y)
<1> DEFINE S == {s[i] : i \in DOMAIN s} \cup {x, y}
<1>1. s \in Seq(S) /\ <<x, y>> \in Seq(S)
  BY DEF IsSeq
<1>2. s \o <<x, y>> \in Seq(S)
  BY <1>1
<1>3. IsSeq(s \o <<x, y>>)
  BY <1>2, SeqIn
<1>4. /\ Len(s \o <<x, y>>) = Len(s) + 2
      /\ (s \o <<x, y>>)[Len(s) + 1] = x /\ (s \o <<x, y>>)[Len(s) + 2] = y
      /\ \A i \in 1 .. Len(s) : (s \o <<x, y>>)[i] = s[i]
  BY <1>1
<1> QED
  BY <1>3, <1>4 DEF Longer

LEMMA TailOf ==
  ASSUME NEW s, IsSeq(s), s # <<>>
  PROVE  /\ IsSeq(Tail(s)) /\ Len(s) >= 1 /\ Len(Tail(s)) = Len(s) - 1 /\ Head(s) = s[1]
         /\ \A i \in 1 .. Len(s) - 1 : Tail(s)[i] = s[i + 1]
<1> DEFINE S == {s[i] : i \in DOMAIN s}
<1>1. s \in Seq(S) /\ Len(s) >= 1
  BY DEF IsSeq
<1>2. IsSeq(Tail(s))
  <2>1. Tail(s) \in Seq(S)
    BY <1>1
  <2> QED
    BY <2>1, SeqIn
<1>3. /\ Len(Tail(s)) = Len(s) - 1 /\ Head(s) = s[1]
      /\ \A i \in 1 .. Len(s) - 1 : Tail(s)[i] = s[i + 1]
  BY <1>1
<1> QED
  BY <1>1, <1>2, <1>3

(* A loop over the numbers to N has a result for each of them. *)
Goes(f, k, S, a, g) ==
  f \in [0 .. k -> S] /\ f[0] = a /\ \A i \in 1 .. k : f[i] = g[<<i, f[i - 1]>>]

LEMMA GoesOn ==
  ASSUME NEW N \in Nat, NEW S, NEW a, NEW g \in [(1 .. N) \X S -> S],
         NEW k \in 0 .. N, k < N, NEW f, Goes(f, k, S, a, g)
  PROVE  \E h : Goes(h, k + 1, S, a, g)
<1> PICK x : x = g[<<k + 1, f[k]>>]
  OBVIOUS
<1> DEFINE h == [i \in 0 .. k + 1 |-> IF i = k + 1 THEN x ELSE f[i]]
<1>1. x \in S
  BY DEF Goes
<1>2. h \in [0 .. k + 1 -> S] /\ h[0] = a
  BY <1>1 DEF Goes
<1>3. h[k + 1] = x /\ \A i \in 0 .. k : h[i] = f[i]
  OBVIOUS
<1> HIDE DEF h
<1>4. ASSUME NEW i \in 1 .. k + 1 PROVE h[i] = g[<<i, h[i - 1]>>]
  <2>1. i - 1 \in 0 .. k
    OBVIOUS
  <2>2. CASE i = k + 1
    BY <1>3, <2>1, <2>2
  <2>3. CASE i # k + 1
    BY <1>3, <2>1, <2>3 DEF Goes
  <2> QED
    BY <2>2, <2>3
<1>5. Goes(h, k + 1, S, a, g)
  BY <1>2, <1>4 DEF Goes
<1> QED
  BY <1>5

LEMMA Loop ==
  ASSUME NEW N \in Nat, NEW S, NEW a \in S, NEW g \in [(1 .. N) \X S -> S]
  PROVE  \E f : Goes(f, N, S, a, g)
<1> DEFINE P == {k \in 0 .. N : \E f : Goes(f, k, S, a, g)}
<1>1. 0 \in P
  <2>1. Goes([i \in 0 .. 0 |-> a], 0, S, a, g)
    BY DEF Goes
  <2> QED
    BY <2>1
<1>2. \A k \in P : k < N => k + 1 \in P
  BY GoesOn
<1>3. P \subseteq 0 .. N
  OBVIOUS
<1>4. P = 0 .. N
  <2> HIDE DEF P
  <2> QED
    BY <1>1, <1>2, <1>3, UpTo
<1>5. N \in P
  BY <1>4
<1> QED
  BY <1>5

-----------------------------------------------------------------------------
(* The walk over the steps of a document. *)

SId(n, j) == <<"step", n, IF j = 1 THEN 0 ELSE 2 * j - 1>>
CId(n, j) == <<"container", n, IF j = 1 THEN 0 ELSE 2 * j>>

WalkAt(n, w, j) ==
  /\ w.seen[2 * j - 1] = SId(n, j) /\ w.seen[2 * j] = CId(n, j)
  /\ w.steps[j].id = SId(n, j)
  /\ \E c : w.queries[2 * j - 1] = MakeContainer(n, CId(n, j), c)
  /\ w.queries[2 * j] = MakeStep(n, SId(n, j), CId(n, j))

WalkOK(n, w) ==
  /\ DOMAIN w = {"seen", "steps", "queries"}
  /\ IsSeq(w.seen) /\ IsSeq(w.steps) /\ IsSeq(w.queries)
  /\ Len(w.seen) = 2 * Len(w.steps) /\ Len(w.queries) = 2 * Len(w.steps)
  /\ \A j \in 1 .. Len(w.steps) : WalkAt(n, w, j)

LEMMA MadeOnce ==
  ASSUME NEW n, NEW s, IsSeq(s), NEW L \in Nat, Len(s) = 2 * L,
         \A j \in 1 .. L : s[2 * j - 1] = SId(n, j) /\ s[2 * j] = CId(n, j)
  PROVE  /\ MakeId(n, "step", s) = SId(n, L + 1)
         /\ MakeId(n, "container", Append(s, SId(n, L + 1))) = CId(n, L + 1)
<1>1. DOMAIN s = 1 .. 2 * L
  BY SeqFacts
<1>2. ASSUME NEW i \in 1 .. 2 * L
      PROVE  \E j \in 1 .. L : s[i] = SId(n, j) \/ s[i] = CId(n, j)
  <2>1. PICK j \in 1 .. L : i = 2 * j - 1 \/ i = 2 * j
    <3>1. (i + 1) \div 2 \in 1 .. L /\ (i = 2 * ((i + 1) \div 2) - 1 \/ i = 2 * ((i + 1) \div 2))
      OBVIOUS
    <3> QED
      BY <3>1
  <2> QED
    BY <2>1
<1>3. L > 0 => s[1] = <<"step", n, 0>> /\ s[2] = <<"container", n, 0>>
  <2> SUFFICES ASSUME L > 0 PROVE s[1] = <<"step", n, 0>> /\ s[2] = <<"container", n, 0>>
    OBVIOUS
  <2>1. s[2 * 1 - 1] = SId(n, 1) /\ s[2 * 1] = CId(n, 1)
    BY DEF SId
  <2> QED
    BY <2>1 DEF SId, CId
<1>4. MakeId(n, "step", s) = SId(n, L + 1)
  <2>1. CASE L = 0
    BY <1>1, <2>1 DEF MakeId, ToSet, SId
  <2>2. CASE L > 0
    <3>1. <<"step", n, 0>> \in ToSet(s)
      BY <1>1, <1>3, <2>2 DEF ToSet
    <3> QED
      BY <2>2, <3>1 DEF MakeId, SId
  <2> QED
    BY <2>1, <2>2
<1>5. MakeId(n, "container", Append(s, SId(n, L + 1))) = CId(n, L + 1)
  <2> PICK t : t = Append(s, SId(n, L + 1))
    OBVIOUS
  <2>1. /\ DOMAIN t = 1 .. 2 * L + 1 /\ Len(t) = 2 * L + 1
        /\ t[2 * L + 1] = SId(n, L + 1) /\ \A i \in 1 .. 2 * L : t[i] = s[i]
    BY Appended, SeqFacts
  <2>2. CASE L = 0
    <3>1. ToSet(t) = {SId(n, 1)}
      BY <2>1, <2>2 DEF ToSet
    <3> QED
      BY <2>2, <3>1 DEF MakeId, SId, CId
  <2>3. CASE L > 0
    <3>1. <<"container", n, 0>> \in ToSet(t)
      BY <1>3, <2>1, <2>3 DEF ToSet
    <3>2. MakeId(n, "container", t) = <<"container", n, Len(t) + 1>>
      BY <3>1 DEF MakeId
    <3>3. CId(n, L + 1) = <<"container", n, 2 * L + 2>>
      BY <2>3 DEF CId
    <3> QED
      BY <2>1, <3>2, <3>3
  <2> QED
    BY <2>2, <2>3
<1> QED
  BY <1>4, <1>5

(* A step that adds to the walk. *)
Adds(n, w, v, step) ==
  /\ Len(v.steps) = Len(w.steps) + 1
  /\ \A j \in 1 .. Len(w.steps) : v.steps[j] = w.steps[j] /\ v.queries[2 * j - 1] = w.queries[2 * j - 1]
  /\ v.steps[Len(w.steps) + 1] =
       [orderId |-> step.orderId, previous |-> step.previous, id |-> SId(n, Len(w.steps) + 1)]
  /\ v.queries[2 * Len(w.steps) + 1] =
       MakeContainer(n, CId(n, Len(w.steps) + 1), step.competencies)

LEMMA WalkStep ==
  ASSUME NEW n, NEW w, WalkOK(n, w), NEW step
  PROVE  /\ WalkOK(n, Walk(n, w, step))
         /\ (\A i \in 1 .. Len(w.steps) : w.steps[i].orderId # step.orderId)
              => Adds(n, w, Walk(n, w, step), step)
<1>1. CASE \E i \in 1 .. Len(w.steps) : w.steps[i].orderId = step.orderId
  BY <1>1 DEF Walk
<1>2. CASE ~\E i \in 1 .. Len(w.steps) : w.steps[i].orderId = step.orderId
  <2> PICK L, seen, steps, queries : /\ L = Len(w.steps) /\ seen = w.seen
                                     /\ steps = w.steps /\ queries = w.queries
    OBVIOUS
  <2> PICK v, id, con, q, e :
        /\ v = Walk(n, w, step) /\ id = SId(n, L + 1) /\ con = CId(n, L + 1)
        /\ q = MakeContainer(n, con, step.competencies) /\ e = MakeStep(n, id, con)
    OBVIOUS
  <2>1. /\ IsSeq(seen) /\ IsSeq(steps) /\ IsSeq(queries) /\ L \in Nat /\ Len(steps) = L
        /\ Len(seen) = 2 * L /\ Len(queries) = 2 * L
        /\ \A j \in 1 .. L : seen[2 * j - 1] = SId(n, j) /\ seen[2 * j] = CId(n, j)
    <3>1. /\ IsSeq(seen) /\ IsSeq(steps) /\ IsSeq(queries) /\ Len(seen) = 2 * L /\ Len(queries) = 2 * L
      BY DEF WalkOK
    <3>2. \A j \in 1 .. L : seen[2 * j - 1] = SId(n, j) /\ seen[2 * j] = CId(n, j)
      BY DEF WalkOK, WalkAt
    <3> QED
      BY <3>1, <3>2, SeqFacts
  <2>2. MakeId(n, "step", seen) = id /\ MakeId(n, "container", Append(seen, id)) = con
    BY <2>1, MadeOnce
  <2>3. /\ DOMAIN v = {"seen", "steps", "queries"}
        /\ v.steps = Append(steps, [orderId |-> step.orderId, previous |-> step.previous, id |-> id])
        /\ v.seen = seen \o <<id, con>>
        /\ v.queries = queries \o <<q, e>>
    BY <1>2, <2>2 DEF Walk
  <2>4. Longer(seen, v.seen, id, con)
    BY Zenon, <2>1, <2>3, Joined
  <2>5. /\ IsSeq(v.steps) /\ Len(v.steps) = L + 1
        /\ v.steps[L + 1] = [orderId |-> step.orderId, previous |-> step.previous, id |-> id]
        /\ \A i \in 1 .. L : v.steps[i] = steps[i]
    BY <2>1, <2>3, Appended
  <2>6. Longer(queries, v.queries, q, e)
    BY Zenon, <2>1, <2>3, Joined
  <2>7. ASSUME NEW j \in 1 .. L + 1
        PROVE  WalkAt(n, v, j)
    <3>0. L \in Nat
      BY <2>1
    <3>1. CASE j = L + 1
      <4>1. 2 * j - 1 = 2 * L + 1 /\ 2 * j = 2 * L + 2
        BY <3>0, <3>1
      <4>2. v.steps[j].id = id
        BY <2>5, <3>1
      <4> QED
        BY <2>1, <2>4, <2>6, <3>1, <4>1, <4>2 DEF WalkAt, Longer
    <3>2. CASE j # L + 1
      <4>1. j \in 1 .. L /\ 2 * j - 1 \in 1 .. 2 * L /\ 2 * j \in 1 .. 2 * L
        BY <3>0, <3>2
      <4>2. /\ v.seen[2 * j - 1] = seen[2 * j - 1] /\ v.seen[2 * j] = seen[2 * j] /\ v.steps[j] = steps[j]
            /\ v.queries[2 * j - 1] = queries[2 * j - 1] /\ v.queries[2 * j] = queries[2 * j]
        BY <2>1, <2>4, <2>5, <2>6, <4>1 DEF Longer
      <4>3. WalkAt(n, w, j)
        BY <4>1 DEF WalkOK
      <4> QED
        BY <4>2, <4>3 DEF WalkAt
    <3> QED
      BY <3>1, <3>2
  <2>8. WalkOK(n, v)
    <3>1. DOMAIN v = {"seen", "steps", "queries"}
      BY <2>3
    <3>2. 2 * (L + 1) = 2 * L + 2
      BY <2>1
    <3> QED
      BY <2>1, <2>4, <2>5, <2>6, <2>7, <3>1, <3>2 DEF WalkOK, Longer
  <2>9. Adds(n, w, v, step)
    <3>1. L \in Nat /\ Len(queries) = 2 * L
      BY <2>1
    <3>2. v.queries[2 * L + 1] = q
      BY <2>6, <3>1 DEF Longer
    <3>3. \A i \in 1 .. 2 * L : v.queries[i] = queries[i]
      BY <2>6, <3>1 DEF Longer
    <3>4. \A j \in 1 .. L : v.queries[2 * j - 1] = queries[2 * j - 1]
      BY <3>1, <3>3
    <3> QED
      BY <2>5, <3>2, <3>4 DEF Adds
  <2> QED
    BY <2>8, <2>9
<1> QED
  BY <1>1, <1>2

Start == [seen |-> <<>>, steps |-> <<>>, queries |-> <<>>]

Walking(f, k, n, d) ==
  f = [i \in 0 .. k |-> IF i = 0 THEN Start ELSE Walk(n, f[i - 1], d.steps[i])]

LEMMA WalkingOn ==
  ASSUME NEW n, NEW d, NEW k \in Nat, NEW f, Walking(f, k, n, d)
  PROVE  \E h : Walking(h, k + 1, n, d)
<1> PICK x : x = Walk(n, f[k], d.steps[k + 1])
  OBVIOUS
<1> DEFINE h == [i \in 0 .. k + 1 |-> IF i = k + 1 THEN x ELSE f[i]]
<1>1. h[k + 1] = x /\ (\A i \in 0 .. k : h[i] = f[i]) /\ h = [i \in 0 .. k + 1 |-> h[i]]
  OBVIOUS
<1>2. \A i \in 0 .. k : f[i] = IF i = 0 THEN Start ELSE Walk(n, f[i - 1], d.steps[i])
  BY DEF Walking
<1> HIDE DEF h
<1>3. ASSUME NEW i \in 0 .. k + 1
      PROVE  h[i] = IF i = 0 THEN Start ELSE Walk(n, h[i - 1], d.steps[i])
  <2>1. CASE i = k + 1
    <3>1. i # 0 /\ i - 1 = k /\ k \in 0 .. k
      BY <2>1
    <3> QED
      BY <1>1, <2>1, <3>1
  <2>2. CASE i # k + 1
    <3>1. i \in 0 .. k /\ (i # 0 => i - 1 \in 0 .. k)
      BY <2>2
    <3> QED
      BY <1>1, <1>2, <3>1
  <2> QED
    BY <2>1, <2>2
<1>4. Walking(h, k + 1, n, d)
  BY <1>1, <1>3 DEF Walking
<1> QED
  BY <1>4

LEMMA WalksAre ==
  ASSUME NEW n, NEW d, Len(d.steps) \in Nat
  PROVE  Walking(Walks(n, d), Len(d.steps), n, d)
<1> PICK N : N = Len(d.steps)
  OBVIOUS
<1> DEFINE P == {k \in 0 .. N : \E f : Walking(f, k, n, d)}
<1>1. 0 \in P
  <2>1. Walking([i \in 0 .. 0 |-> Start], 0, n, d)
    BY DEF Walking
  <2> QED
    BY <2>1
<1>2. \A k \in P : k < N => k + 1 \in P
  BY WalkingOn
<1>3. P \subseteq 0 .. N
  OBVIOUS
<1>4. P = 0 .. N
  <2> HIDE DEF P
  <2> QED
    BY <1>1, <1>2, <1>3, UpTo
<1>5. PICK f : Walking(f, N, n, d)
  BY <1>4
<1> QED
  BY <1>5 DEF Walks, Walking, Start

LEMMA WalkedOK ==
  ASSUME NEW n, NEW d, Len(d.steps) \in Nat
  PROVE  WalkOK(n, Walked(n, d))
<1> PICK N, f : N = Len(d.steps) /\ f = Walks(n, d)
  OBVIOUS
<1> DEFINE P == {k \in 0 .. N : WalkOK(n, f[k])}
<1>1. f[0] = Start /\ \A i \in 1 .. N : f[i] = Walk(n, f[i - 1], d.steps[i])
  BY WalksAre DEF Walking
<1>2. 0 \in P
  <2>1. WalkOK(n, Start)
    BY DEF WalkOK, Start, IsSeq
  <2> QED
    BY <1>1, <2>1
<1>3. ASSUME NEW k \in P, k < N PROVE k + 1 \in P
  <2>1. k + 1 \in 1 .. N /\ (k + 1) - 1 = k
    BY <1>3
  <2>2. f[k + 1] = Walk(n, f[k], d.steps[k + 1])
    BY <1>1, <2>1
  <2>3. WalkOK(n, f[k + 1])
    BY <2>2, WalkStep
  <2> QED
    BY <2>1, <2>3
<1>4. P = 0 .. N
  <2>1. P \subseteq 0 .. N
    OBVIOUS
  <2> HIDE DEF P
  <2> QED
    BY <1>2, <1>3, <2>1, UpTo
<1> QED
  BY <1>4 DEF Walked

(* The walk over a chain makes each of its steps. *)
Mirrors(n, d, w, k) ==
  /\ Len(w.steps) = k
  /\ \A j \in 1 .. k :
       /\ w.steps[j] = [orderId |-> d.steps[j].orderId, previous |-> d.steps[j].previous, id |-> SId(n, j)]
       /\ w.queries[2 * j - 1] = MakeContainer(n, CId(n, j), d.steps[j].competencies)

LEMMA MirrorsOn ==
  ASSUME NEW n, NEW d, Chain(d), NEW k \in Nat, k + 1 \in 1 .. Len(d.steps),
         NEW w, WalkOK(n, w), Mirrors(n, d, w, k)
  PROVE  Mirrors(n, d, Walk(n, w, d.steps[k + 1]), k + 1)
<1> PICK v : v = Walk(n, w, d.steps[k + 1])
  OBVIOUS
<1> PICK step : step = d.steps[k + 1]
  OBVIOUS
<1>1. \A i \in 1 .. Len(w.steps) : w.steps[i].orderId # step.orderId
  <2> TAKE i \in 1 .. Len(w.steps)
  <2>1. i \in 1 .. k /\ i \in 1 .. (k + 1) - 1
    BY DEF Mirrors
  <2>2. w.steps[i] = [orderId |-> d.steps[i].orderId, previous |-> d.steps[i].previous, id |-> SId(n, i)]
    BY <2>1 DEF Mirrors
  <2>4. w.steps[i].orderId = d.steps[i].orderId
    BY <2>2
  <2>3. d.steps[i].orderId # d.steps[k + 1].orderId
    BY <2>1 DEF Chain
  <2> QED
    BY <2>3, <2>4
<1>2. Adds(n, w, v, step)
  BY <1>1, WalkStep
<1>3. ASSUME NEW j \in 1 .. k + 1
      PROVE  /\ v.steps[j] = [orderId |-> d.steps[j].orderId, previous |-> d.steps[j].previous, id |-> SId(n, j)]
             /\ v.queries[2 * j - 1] = MakeContainer(n, CId(n, j), d.steps[j].competencies)
  <2>1. CASE j = k + 1
    <3>1. 2 * j - 1 = 2 * k + 1
      BY <2>1
    <3> QED
      BY <1>2, <2>1, <3>1 DEF Adds, Mirrors
  <2>2. CASE j # k + 1
    <3>1. j \in 1 .. k
      BY <2>2
    <3> QED
      BY <1>2, <3>1 DEF Adds, Mirrors
  <2> QED
    BY <2>1, <2>2
<1>4. Len(v.steps) = k + 1
  BY <1>2 DEF Adds, Mirrors
<1> QED
  BY <1>3, <1>4 DEF Mirrors

LEMMA ChainWalked ==
  ASSUME NEW n, NEW d, Chain(d), Len(d.steps) \in Nat
  PROVE  Mirrors(n, d, Walked(n, d), Len(d.steps))
<1> PICK N, f : N = Len(d.steps) /\ f = Walks(n, d)
  OBVIOUS
<1> DEFINE P == {k \in 0 .. N : WalkOK(n, f[k]) /\ Mirrors(n, d, f[k], k)}
<1>1. f[0] = Start /\ \A i \in 1 .. N : f[i] = Walk(n, f[i - 1], d.steps[i])
  BY WalksAre DEF Walking
<1>2. 0 \in P
  <2>1. WalkOK(n, Start) /\ Mirrors(n, d, Start, 0)
    BY DEF WalkOK, Start, IsSeq, Mirrors
  <2> QED
    BY <1>1, <2>1
<1>3. ASSUME NEW k \in P, k < N PROVE k + 1 \in P
  <2>1. k + 1 \in 1 .. N /\ (k + 1) - 1 = k
    BY <1>3
  <2>2. f[k + 1] = Walk(n, f[k], d.steps[k + 1])
    BY <1>1, <2>1
  <2>3. WalkOK(n, f[k + 1])
    BY <2>2, WalkStep
  <2>4. Mirrors(n, d, f[k + 1], k + 1)
    BY <2>1, <2>2, MirrorsOn
  <2> QED
    BY <2>1, <2>3, <2>4
<1>4. P = 0 .. N
  <2>1. P \subseteq 0 .. N
    OBVIOUS
  <2> HIDE DEF P
  <2> QED
    BY <1>2, <1>3, <2>1, UpTo
<1> QED
  BY <1>4 DEF Walked

-----------------------------------------------------------------------------
(* What a document is turned into. *)

InsertsAt(n, d, w, ins, L) ==
  /\ IsSeq(ins) /\ L \in Nat /\ Len(ins) = 2 * L + 1
  /\ \A j \in 1 .. L :
       /\ ins[2 * j - 1] = w.queries[2 * j - 1]
       /\ \E c : ins[2 * j - 1] = MakeContainer(n, CId(n, j), c)
       /\ ins[2 * j] = [MakeStep(n, SId(n, j), CId(n, j)) EXCEPT !.previous = Before(w, SId(n, j))]
  /\ ins[2 * L + 1] = MakePath(n, d, {SId(n, j) : j \in 1 .. L})

LEMMA PathInsertsAre ==
  ASSUME NEW n, NEW d, Len(d.steps) \in Nat, NEW w, w = Walked(n, d),
         NEW L, L = Len(w.steps), NEW ins, ins = PathInserts(n, d)
  PROVE  InsertsAt(n, d, w, ins, L)
<1>1. WalkOK(n, w)
  BY WalkedOK
<1>2. L \in Nat /\ Len(w.queries) = 2 * L
  BY <1>1, SeqFacts DEF WalkOK
<1> DEFINE ordered(q) == IF "path_step" \in q.types THEN [q EXCEPT !.previous = Before(w, q.id)] ELSE q
<1> PICK all : all = [i \in 1 .. 2 * L |-> ordered(w.queries[i])]
  OBVIOUS
<1>3. IsSeq(all) /\ Len(all) = 2 * L /\ \A i \in 1 .. 2 * L : all[i] = ordered(w.queries[i])
  <2> DEFINE T == {ordered(w.queries[i]) : i \in 1 .. 2 * L}
  <2>1. \A i \in 1 .. 2 * L : ordered(w.queries[i]) \in T
    OBVIOUS
  <2> HIDE DEF ordered, T
  <2>2. all \in Seq(T) /\ Len(all) = 2 * L /\ \A i \in 1 .. 2 * L : all[i] = ordered(w.queries[i])
    BY <1>2, <2>1
  <2> QED
    BY <2>2, SeqIn
<1> PICK S : S = {w.steps[i].id : i \in 1 .. Len(w.steps)}
  OBVIOUS
<1>4. S = {SId(n, j) : j \in 1 .. L}
  <2>1. \A j \in 1 .. L : WalkAt(n, w, j)
    BY <1>1 DEF WalkOK
  <2>2. \A j \in 1 .. L : w.steps[j].id = SId(n, j)
    BY <2>1 DEF WalkAt
  <2> QED
    BY <2>2
<1>5. ins = Append(all, MakePath(n, d, {SId(n, j) : j \in 1 .. L}))
  <2>1. ins = Append(all, MakePath(n, d, S))
    BY <1>2 DEF PathInserts
  <2> QED
    BY <1>4, <2>1
<1>6. /\ IsSeq(ins) /\ Len(ins) = 2 * L + 1
      /\ ins[2 * L + 1] = MakePath(n, d, {SId(n, j) : j \in 1 .. L})
      /\ \A i \in 1 .. 2 * L : ins[i] = all[i]
  <2> PICK last : last = MakePath(n, d, {SId(n, j) : j \in 1 .. L})
    OBVIOUS
  <2>1. ins = Append(all, last)
    BY <1>5
  <2>2. IsSeq(ins) /\ Len(ins) = Len(all) + 1 /\ ins[Len(all) + 1] = last
        /\ \A i \in 1 .. Len(all) : ins[i] = all[i]
    <3> HIDE DEF ordered
    <3> QED
      BY <1>3, <2>1, Appended
  <2> QED
    BY <1>3, <2>2
<1>7. ASSUME NEW j \in 1 .. L
      PROVE  /\ ins[2 * j - 1] = w.queries[2 * j - 1]
             /\ \E c : ins[2 * j - 1] = MakeContainer(n, CId(n, j), c)
             /\ ins[2 * j] = [MakeStep(n, SId(n, j), CId(n, j)) EXCEPT !.previous = Before(w, SId(n, j))]
  <2>1. 2 * j - 1 \in 1 .. 2 * L /\ 2 * j \in 1 .. 2 * L
    BY <1>2
  <2>2. WalkAt(n, w, j)
    BY <1>1 DEF WalkOK
  <2>3. PICK c : w.queries[2 * j - 1] = MakeContainer(n, CId(n, j), c)
    BY <2>2 DEF WalkAt
  <2>4. "path_step" \notin MakeContainer(n, CId(n, j), c).types
    BY DEF MakeContainer, Entity
  <2>5. ins[2 * j - 1] = w.queries[2 * j - 1]
    <3>1. ins[2 * j - 1] = ordered(w.queries[2 * j - 1])
      BY <1>3, <1>6, <2>1
    <3> QED
      BY <2>3, <2>4, <3>1
  <2>6. ins[2 * j] = ordered(MakeStep(n, SId(n, j), CId(n, j)))
    <3>1. ins[2 * j] = ordered(w.queries[2 * j])
      BY <1>3, <1>6, <2>1
    <3>2. w.queries[2 * j] = MakeStep(n, SId(n, j), CId(n, j))
      BY <2>2 DEF WalkAt
    <3> QED
      BY <3>1, <3>2
  <2>7. /\ "path_step" \in MakeStep(n, SId(n, j), CId(n, j)).types
        /\ MakeStep(n, SId(n, j), CId(n, j)).id = SId(n, j)
    BY DEF MakeStep, Entity
  <2> QED
    BY <2>3, <2>5, <2>6, <2>7
<1> QED
  BY <1>2, <1>6, <1>7 DEF InsertsAt

-----------------------------------------------------------------------------
(* What every document is turned into. *)

(* The entities of the same document an entity names. *)
Refs(e) ==
  e.path_step \cup e.competency_in_path \cup (IF "path_step" \in e.types THEN {} ELSE e.previous)

(* The entity of a document: no name of a step, nothing unnamed above it. *)
Plain(n, e) ==
  /\ e.by = n /\ IsName(e.id) /\ None \notin e.contained_by \cup e.teaches
  /\ e.path_step = {} /\ e.competency_in_path = {}

GoodAt(n, d, ins, j) ==
  /\ ins[j].by = n /\ ins[j].id # None
  /\ None \notin ins[j].contained_by \cup ins[j].teaches
  /\ Refs(ins[j]) \subseteq {ins[i].id : i \in 1 .. j - 1}
  /\ d.type # "competency_path" => ins[j].id \notin Made

Good(n, d, ins) == IsSeq(ins) /\ \A j \in 1 .. Len(ins) : GoodAt(n, d, ins, j)

LEMMA WithinIs ==
  ASSUME NEW n, NEW d, IsName(d.id), None \notin d.parent, NEW kinds
  PROVE  Plain(n, Within(n, d, kinds)) /\ Within(n, d, kinds).previous = {}
<1> PICK e : e = Entity(n, d.id, {"competency", "learning_objective", "thing"})
  OBVIOUS
<1>1. /\ e.by = n /\ e.id = d.id /\ e.teaches = {} /\ e.path_step = {}
      /\ e.competency_in_path = {} /\ e.previous = {}
      /\ DOMAIN e = {"id", "by", "types", "contains", "contained_by", "path_step",
                     "competency_in_path", "previous", "teaches", "authored_by", "anchors"}
  BY DEF Entity
<1> PICK b : b = Base(n, d)
  OBVIOUS
<1>2. b = [e EXCEPT !.contains = d.contains]
  BY DEF Base
<1>3. /\ b.by = n /\ b.id = d.id /\ b.teaches = {} /\ b.path_step = {}
      /\ b.competency_in_path = {} /\ b.previous = {} /\ DOMAIN b = DOMAIN e
  BY <1>1, <1>2
<1> PICK v : v = Within(n, d, kinds)
  OBVIOUS
<1>4. v = [b EXCEPT !.types = @ \cup kinds, !.contained_by = d.parent]
  BY DEF Within
<1>5. /\ v.by = n /\ v.id = d.id /\ v.contained_by = d.parent /\ v.teaches = {}
      /\ v.path_step = {} /\ v.competency_in_path = {} /\ v.previous = {}
  BY <1>1, <1>3, <1>4
<1> QED
  BY <1>5 DEF Plain

LEMMA OneIs ==
  ASSUME NEW n, NEW d, NEW e, Plain(n, e), e.previous = {}
  PROVE  Good(n, d, <<e>>)
<1> PICK s : s = <<e>>
  OBVIOUS
<1>1. IsSeq(s) /\ Len(s) = 1 /\ s[1] = e
  BY DEF IsSeq
<1>2. ASSUME NEW j \in 1 .. Len(s) PROVE GoodAt(n, d, s, j)
  <2>1. s[j] = e
    BY <1>1
  <2>2. Refs(e) = {}
    BY DEF Refs, Plain
  <2> QED
    BY <2>1, <2>2 DEF GoodAt, Plain, IsName
<1> QED
  BY <1>1, <1>2 DEF Good

LEMMA InitiativeIs ==
  ASSUME NEW n, NEW d, IsName(d.id)
  PROVE  Good(n, d, Initiative(n, d))
<1> PICK e : e = Entity(n, d.id, {"competency", "learning_objective", "thing"})
  OBVIOUS
<1>1. /\ e.by = n /\ e.id = d.id /\ e.teaches = {} /\ e.path_step = {} /\ e.contained_by = {}
      /\ e.competency_in_path = {} /\ e.previous = {}
      /\ DOMAIN e = {"id", "by", "types", "contains", "contained_by", "path_step",
                     "competency_in_path", "previous", "teaches", "authored_by", "anchors"}
  BY DEF Entity
<1> PICK b : b = Base(n, d)
  OBVIOUS
<1>2. b = [e EXCEPT !.contains = d.contains]
  BY DEF Base
<1>3. /\ b.by = n /\ b.id = d.id /\ b.teaches = {} /\ b.path_step = {} /\ b.contained_by = {}
      /\ b.competency_in_path = {} /\ b.previous = {} /\ DOMAIN b = DOMAIN e
  BY <1>1, <1>2
<1> PICK v : v = [b EXCEPT !.types = @ \cup {"ccss container", "initiative"}]
  OBVIOUS
<1>4. Plain(n, v) /\ v.previous = {}
  BY <1>1, <1>3 DEF Plain
<1>5. Initiative(n, d) = <<v>>
  BY DEF Initiative
<1>6. Good(n, d, <<v>>)
  BY Zenon, <1>4, OneIs
<1> QED
  BY <1>5, <1>6

LEMMA ResourceIs ==
  ASSUME NEW n, NEW d, IsName(d.id), None \notin d.teaches
  PROVE  Good(n, d, Resource(n, d))
<1> PICK e : e = Entity(n, d.id, {"thing", "learning_resource"})
  OBVIOUS
<1>1. /\ e.by = n /\ e.id = d.id /\ e.path_step = {} /\ e.contained_by = {}
      /\ e.competency_in_path = {} /\ e.previous = {}
      /\ DOMAIN e = {"id", "by", "types", "contains", "contained_by", "path_step",
                     "competency_in_path", "previous", "teaches", "authored_by", "anchors"}
  BY DEF Entity
<1> PICK v : v = [e EXCEPT !.teaches = d.teaches]
  OBVIOUS
<1>2. Plain(n, v) /\ v.previous = {}
  BY <1>1 DEF Plain
<1> PICK u : u = Entity(n, NoName, {"thing", "learning_resource"})
  OBVIOUS
<1>3. Plain(n, u) /\ u.previous = {}
  BY DocsAssumption DEF Plain, Entity
<1>4. Resource(n, d) = <<v>> \/ Resource(n, d) = <<u>>
  BY DEF Resource
<1>5. Good(n, d, <<v>>) /\ Good(n, d, <<u>>)
  BY Zenon, <1>2, <1>3, OneIs
<1> QED
  BY <1>4, <1>5

LEMMA GradesAre ==
  ASSUME NEW n, NEW d, d.type = "grade_level", None \notin d.parent,
         d.grades \in Seq(ToSet(d.grades)),
         \A g \in ToSet(d.grades) : {"id", "parent", "contains"} \subseteq DOMAIN g /\ IsName(g.id)
  PROVE  Good(n, d, Grades(n, d))
<1> PICK s, L : s = Grades(n, d) /\ L = Len(d.grades)
  OBVIOUS
<1> DEFINE within(i) == Within(n, [d.grades[i] EXCEPT !.parent = d.parent], {"ccss container", "grade_level"})
           follows(i) == IF i = 1 THEN {} ELSE {d.grades[i - 1].id}
           at(i) == [within(i) EXCEPT !.previous = follows(i)]
<1>1. L \in Nat /\ \A i \in 1 .. L : d.grades[i] \in ToSet(d.grades)
  BY DEF ToSet
<1>2. ASSUME NEW i \in 1 .. L
      PROVE  /\ Plain(n, within(i)) /\ within(i).id = d.grades[i].id
             /\ DOMAIN within(i) = {"id", "by", "types", "contains", "contained_by", "path_step",
                     "competency_in_path", "previous", "teaches", "authored_by", "anchors"}
  <2> PICK g, h : g = d.grades[i] /\ h = [g EXCEPT !.parent = d.parent]
    OBVIOUS
  <2>1. {"id", "parent", "contains"} \subseteq DOMAIN g /\ IsName(g.id)
    BY <1>1
  <2>2. h.id = g.id /\ h.parent = d.parent
    BY <2>1
  <2>3. Plain(n, within(i))
    BY <2>1, <2>2, WithinIs
  <2>4. /\ within(i).id = g.id
        /\ DOMAIN within(i) = {"id", "by", "types", "contains", "contained_by", "path_step",
                     "competency_in_path", "previous", "teaches", "authored_by", "anchors"}
    BY <2>2 DEF Within, Base, Entity
  <2> QED
    BY <2>3, <2>4
<1>3. ASSUME NEW i \in 1 .. L
      PROVE  Plain(n, at(i)) /\ at(i).previous = follows(i) /\ at(i).id = d.grades[i].id
  <2> PICK e, f : e = within(i) /\ f = follows(i)
    OBVIOUS
  <2>1. /\ Plain(n, e) /\ e.id = d.grades[i].id
        /\ DOMAIN e = {"id", "by", "types", "contains", "contained_by", "path_step",
                     "competency_in_path", "previous", "teaches", "authored_by", "anchors"}
    BY <1>2
  <2>2. at(i) = [e EXCEPT !.previous = f]
    OBVIOUS
  <2> HIDE DEF within, follows, at
  <2>3. Plain(n, at(i)) /\ at(i).previous = f /\ at(i).id = d.grades[i].id
    BY <2>1, <2>2 DEF Plain
  <2> QED
    BY <2>3
<1>4. s = [i \in 1 .. L |-> at(i)]
  BY DEF Grades
<1> HIDE DEF within, at
<1>5. IsSeq(s) /\ Len(s) = L /\ \A i \in 1 .. L : s[i] = at(i)
  <2> DEFINE T == {at(i) : i \in 1 .. L}
  <2>1. \A i \in 1 .. L : at(i) \in T
    OBVIOUS
  <2> HIDE DEF T
  <2>2. s \in Seq(T) /\ Len(s) = L /\ \A i \in 1 .. L : s[i] = at(i)
    BY <1>1, <1>4, <2>1
  <2> QED
    BY <2>2, SeqIn
<1>6. ASSUME NEW j \in 1 .. L PROVE GoodAt(n, d, s, j)
  <2>1. Plain(n, s[j]) /\ s[j].previous = follows(j)
    BY <1>3, <1>5
  <2>2. follows(j) \subseteq {s[i].id : i \in 1 .. j - 1}
    <3>1. CASE j = 1
      BY <3>1
    <3>2. CASE j # 1
      <4>1. j - 1 \in 1 .. j - 1 /\ j - 1 \in 1 .. L
        BY <1>1, <3>2
      <4>2. s[j - 1].id = d.grades[j - 1].id
        BY <1>3, <1>5, <4>1
      <4> QED
        BY <3>2, <4>1, <4>2
    <3> QED
      BY <3>1, <3>2
  <2>3. Refs(s[j]) \subseteq follows(j)
    BY <2>1 DEF Refs, Plain
  <2> HIDE DEF follows
  <2> QED
    BY <2>1, <2>2, <2>3 DEF GoodAt, Plain, IsName
<1> QED
  BY <1>5, <1>6 DEF Good

LEMMA Numbered ==
  ASSUME NEW L \in Nat, NEW i \in 1 .. 2 * L + 1
  PROVE  i = 2 * L + 1 \/ \E j \in 1 .. L : i = 2 * j - 1 \/ i = 2 * j
<1>1. CASE i = 2 * L + 1
  BY <1>1
<1>2. CASE i # 2 * L + 1
  <2>1. (i + 1) \div 2 \in 1 .. L /\ (i = 2 * ((i + 1) \div 2) - 1 \/ i = 2 * ((i + 1) \div 2))
    BY <1>2
  <2> QED
    BY <2>1
<1> QED
  BY <1>1, <1>2

LEMMA Names ==
  ASSUME NEW n \in Posts, NEW j \in Nat \ {0}
  PROVE  SId(n, j) \in Made /\ CId(n, j) \in Made
<1>1. (IF j = 1 THEN 0 ELSE 2 * j - 1) \in Nat /\ (IF j = 1 THEN 0 ELSE 2 * j) \in Nat
  OBVIOUS
<1> QED
  BY <1>1 DEF SId, CId, Made

LEMMA SameName ==
  ASSUME NEW n, NEW m, NEW i \in Nat \ {0}, NEW j \in Nat \ {0}
  PROVE  /\ SId(n, i) # CId(m, j)
         /\ SId(n, i) = SId(m, j) => n = m /\ i = j
         /\ CId(n, i) = CId(m, j) => n = m /\ i = j
<1> PICK a, b, e, f : /\ a = IF i = 1 THEN 0 ELSE 2 * i - 1
                      /\ b = IF j = 1 THEN 0 ELSE 2 * j - 1
                      /\ e = IF i = 1 THEN 0 ELSE 2 * i
                      /\ f = IF j = 1 THEN 0 ELSE 2 * j
  OBVIOUS
<1>1. (a = b => i = j) /\ (e = f => i = j)
  OBVIOUS
<1>2. /\ SId(n, i) = <<"step", n, a>> /\ SId(m, j) = <<"step", m, b>>
      /\ CId(n, i) = <<"container", n, e>> /\ CId(m, j) = <<"container", m, f>>
  BY DEF SId, CId
<1> QED
  BY <1>1, <1>2

(* Entities of a path: n's container and step of one number, and the path. *)
ContainerIs(n, e, j) ==
  /\ e.by = n /\ e.id = CId(n, j) /\ e.contained_by = {} /\ e.teaches = {} /\ Refs(e) = {}
  /\ e.path_step = {}

StepIs(n, e, j, before) ==
  /\ e.by = n /\ e.id = SId(n, j) /\ e.contained_by = {} /\ e.teaches = {} /\ Refs(e) = {CId(n, j)}
  /\ e.previous = before /\ e.competency_in_path = {CId(n, j)}

PathIs(n, d, e, steps) ==
  /\ e.by = n /\ e.id = d.id /\ e.contained_by = {} /\ e.teaches = {} /\ Refs(e) = steps
  /\ e.path_step = steps /\ e.types = {"thing", "competency", "competency_path"}

LEMMA ContainerMade ==
  ASSUME NEW n, NEW j, NEW c
  PROVE  /\ ContainerIs(n, MakeContainer(n, CId(n, j), c), j)
         /\ MakeContainer(n, CId(n, j), c).contains = c
<1> PICK e, v : /\ e = Entity(n, CId(n, j), {"thing", "competency", "competency_container"})
                /\ v = MakeContainer(n, CId(n, j), c)
  OBVIOUS
<1>1. /\ v.by = n /\ v.id = CId(n, j) /\ v.contained_by = {} /\ v.teaches = {}
      /\ v.path_step = {} /\ v.competency_in_path = {} /\ v.previous = {} /\ v.contains = c
  BY DEF MakeContainer, Entity
<1> QED
  BY <1>1 DEF ContainerIs, Refs

LEMMA StepMade ==
  ASSUME NEW n, NEW j, NEW before
  PROVE  StepIs(n, [MakeStep(n, SId(n, j), CId(n, j)) EXCEPT !.previous = before], j, before)
<1> PICK e, v : /\ e = MakeStep(n, SId(n, j), CId(n, j))
                /\ v = [e EXCEPT !.previous = before]
  OBVIOUS
<1>1. /\ e.by = n /\ e.id = SId(n, j) /\ e.contained_by = {} /\ e.teaches = {}
      /\ e.path_step = {} /\ e.competency_in_path = {CId(n, j)} /\ e.types = {"thing", "path_step"}
      /\ DOMAIN e = {"id", "by", "types", "contains", "contained_by", "path_step",
                     "competency_in_path", "previous", "teaches", "authored_by", "anchors"}
  BY DEF MakeStep, Entity
<1>2. /\ v.by = n /\ v.id = SId(n, j) /\ v.contained_by = {} /\ v.teaches = {}
      /\ v.path_step = {} /\ v.competency_in_path = {CId(n, j)} /\ v.types = {"thing", "path_step"}
      /\ v.previous = before
  BY <1>1
<1> QED
  BY <1>2 DEF StepIs, Refs

LEMMA PathMade ==
  ASSUME NEW n, NEW d, NEW steps
  PROVE  PathIs(n, d, MakePath(n, d, steps), steps)
<1> PICK v : v = MakePath(n, d, steps)
  OBVIOUS
<1>1. /\ v.by = n /\ v.id = d.id /\ v.contained_by = {} /\ v.teaches = {}
      /\ v.path_step = steps /\ v.competency_in_path = {} /\ v.previous = {}
      /\ v.types = {"thing", "competency", "competency_path"}
  BY DEF MakePath, Entity
<1> QED
  BY <1>1 DEF PathIs, Refs

(* The entities of a path, in the order they are sent. *)
PathAt(n, d, w, ins, L) ==
  /\ IsSeq(ins) /\ L \in Nat /\ Len(ins) = 2 * L + 1
  /\ \A j \in 1 .. L : /\ ContainerIs(n, ins[2 * j - 1], j)
                       /\ ins[2 * j - 1] = w.queries[2 * j - 1]
                       /\ StepIs(n, ins[2 * j], j, Before(w, SId(n, j)))
  /\ PathIs(n, d, ins[2 * L + 1], {SId(n, j) : j \in 1 .. L})

LEMMA PathIsMade ==
  ASSUME NEW n, NEW d, Len(d.steps) \in Nat
  PROVE  PathAt(n, d, Walked(n, d), PathInserts(n, d), Len(Walked(n, d).steps))
<1> PICK w, L, ins : w = Walked(n, d) /\ L = Len(w.steps) /\ ins = PathInserts(n, d)
  OBVIOUS
<1>1. InsertsAt(n, d, w, ins, L)
  BY PathInsertsAre
<1>2. ASSUME NEW j \in 1 .. L
      PROVE  /\ ContainerIs(n, ins[2 * j - 1], j)
             /\ StepIs(n, ins[2 * j], j, Before(w, SId(n, j)))
  <2>1. PICK c : ins[2 * j - 1] = MakeContainer(n, CId(n, j), c)
    BY <1>1 DEF InsertsAt
  <2>2. ContainerIs(n, ins[2 * j - 1], j)
    BY <2>1, ContainerMade
  <2>3. ins[2 * j] = [MakeStep(n, SId(n, j), CId(n, j)) EXCEPT !.previous = Before(w, SId(n, j))]
    BY <1>1 DEF InsertsAt
  <2>4. StepIs(n, [MakeStep(n, SId(n, j), CId(n, j)) EXCEPT !.previous = Before(w, SId(n, j))],
               j, Before(w, SId(n, j)))
    BY Zenon, StepMade
  <2> QED
    BY <2>2, <2>3, <2>4
<1>3. PathIs(n, d, ins[2 * L + 1], {SId(n, j) : j \in 1 .. L})
  <2>1. PathIs(n, d, MakePath(n, d, {SId(n, j) : j \in 1 .. L}), {SId(n, j) : j \in 1 .. L})
    BY Zenon, PathMade
  <2> QED
    BY <1>1, <2>1 DEF InsertsAt
<1> QED
  BY <1>1, <1>2, <1>3 DEF PathAt, InsertsAt

LEMMA PathGood ==
  ASSUME NEW n \in Posts, NEW d, IsName(d.id), d.type = "competency_path",
         NEW w, NEW ins, NEW L, PathAt(n, d, w, ins, L)
  PROVE  Good(n, d, ins)
<1>1. IsSeq(ins) /\ L \in Nat /\ Len(ins) = 2 * L + 1
  BY DEF PathAt
<1>2. ASSUME NEW i \in 1 .. Len(ins) PROVE GoodAt(n, d, ins, i)
  <2>1. CASE i = 2 * L + 1
    <3>1. PathIs(n, d, ins[i], {SId(n, j) : j \in 1 .. L})
      BY <2>1 DEF PathAt
    <3>2. ASSUME NEW j \in 1 .. L PROVE \E k \in 1 .. i - 1 : SId(n, j) = ins[k].id
      <4>1. 2 * j \in 1 .. i - 1
        BY <1>1, <2>1
      <4>2. ins[2 * j].id = SId(n, j)
        BY DEF PathAt, StepIs
      <4> QED
        BY <4>1, <4>2
    <3> QED
      BY <3>1, <3>2 DEF GoodAt, PathIs, IsName
  <2>2. ASSUME NEW j \in 1 .. L, i = 2 * j - 1 PROVE GoodAt(n, d, ins, i)
    <3>1. ContainerIs(n, ins[i], j)
      BY <2>2 DEF PathAt
    <3>2. CId(n, j) # None
      BY <1>1, Names, DocsAssumption
    <3> QED
      BY <3>1, <3>2 DEF GoodAt, ContainerIs
  <2>3. ASSUME NEW j \in 1 .. L, i = 2 * j PROVE GoodAt(n, d, ins, i)
    <3>1. StepIs(n, ins[i], j, Before(w, SId(n, j))) /\ ContainerIs(n, ins[i - 1], j)
      <4>1. i - 1 = 2 * j - 1
        BY <2>3
      <4> QED
        BY <2>3, <4>1 DEF PathAt
    <3>2. SId(n, j) # None
      BY <1>1, Names, DocsAssumption
    <3>3. Refs(ins[i]) \subseteq {ins[k].id : k \in 1 .. i - 1}
      <4>1. i - 1 \in 1 .. i - 1
        BY <1>1, <2>3
      <4>2. Refs(ins[i]) = {CId(n, j)} /\ ins[i - 1].id = CId(n, j)
        BY <3>1 DEF StepIs, ContainerIs
      <4> QED
        BY <4>1, <4>2
    <3> QED
      BY <3>1, <3>2, <3>3 DEF GoodAt, StepIs
  <2> QED
    BY <1>1, <2>1, <2>2, <2>3, Numbered
<1> QED
  BY <1>1, <1>2 DEF Good

Creates(d) == d.action = "create" /\ ~Refused(d)

LEMMA PathCreated ==
  ASSUME NEW n, NEW d \in Docs, Creates(d), d.type = "competency_path"
  PROVE  /\ Len(d.steps) \in Nat /\ IsName(d.id)
         /\ PathAt(n, d, Walked(n, d), Inserts(n, d), Len(Walked(n, d).steps))
<1>1. d.steps \in Seq(ToSet(d.steps)) /\ IsName(d.id)
  BY DocsAssumption DEF Creates
<1>2. Len(d.steps) \in Nat
  BY <1>1
<1>3. Inserts(n, d) = PathInserts(n, d)
  BY DEF Inserts
<1> QED
  BY <1>1, <1>2, <1>3, PathIsMade

LEMMA InsertsGood ==
  ASSUME NEW n \in Posts, NEW d \in Docs, Creates(d)
  PROVE  Good(n, d, Inserts(n, d))
<1>1. IsName(d.id)
  BY DocsAssumption DEF Creates
<1>2. d.type \in Built \cup {"grade_level", "learning_resource", "competency_path"}
  BY DEF Creates, Refused
<1>3. CASE d.type = "initiative"
  BY <1>1, <1>3, InitiativeIs DEF Inserts
<1>4. CASE d.type \in Built \ {"initiative"}
  <2>1. None \notin d.parent
    BY <1>4, DocsAssumption DEF Creates
  <2>2. PICK kinds : Inserts(n, d) = <<Within(n, d, kinds)>>
    BY <1>4 DEF Built, Inserts, Framework, SetOf, Competency, Container
  <2>3. Good(n, d, <<Within(n, d, kinds)>>)
    BY Zenon, <1>1, <2>1, WithinIs, OneIs
  <2> QED
    BY <2>2, <2>3
<1>5. CASE d.type = "grade_level"
  <2>1. /\ None \notin d.parent /\ d.grades \in Seq(ToSet(d.grades))
        /\ \A g \in ToSet(d.grades) : {"id", "parent", "contains"} \subseteq DOMAIN g /\ IsName(g.id)
    BY <1>5, DocsAssumption DEF Creates
  <2>2. Inserts(n, d) = Grades(n, d)
    BY <1>5 DEF Inserts
  <2> QED
    BY <1>5, <2>1, <2>2, GradesAre
<1>6. CASE d.type = "learning_resource"
  <2>1. None \notin d.teaches
    BY <1>6, DocsAssumption DEF Creates
  <2>2. Inserts(n, d) = Resource(n, d)
    BY <1>6 DEF Inserts
  <2> QED
    BY <1>1, <2>1, <2>2, ResourceIs
<1>7. CASE d.type = "competency_path"
  BY <1>1, <1>7, PathCreated, PathGood
<1> QED
  BY <1>2, <1>3, <1>4, <1>5, <1>6, <1>7

(* A name made for a path is that of the step or container of its number. *)
LEMMA WhoseName ==
  ASSUME NEW n \in Posts, NEW m \in Posts, NEW d \in Docs, Creates(d),
         NEW i \in 1 .. Len(Inserts(n, d)), NEW k \in Nat \ {0}
  PROVE  /\ Inserts(n, d)[i].id = SId(m, k) => n = m /\ d.type = "competency_path" /\ i = 2 * k
         /\ Inserts(n, d)[i].id = CId(m, k) => n = m /\ d.type = "competency_path" /\ i = 2 * k - 1
<1> PICK ins : ins = Inserts(n, d)
  OBVIOUS
<1>1. SId(m, k) \in Made /\ CId(m, k) \in Made
  BY Names
<1>2. GoodAt(n, d, ins, i)
  BY InsertsGood DEF Good
<1>3. CASE d.type # "competency_path"
  BY <1>1, <1>2, <1>3 DEF GoodAt
<1>4. CASE d.type = "competency_path"
  <2> PICK w, L : w = Walked(n, d) /\ L = Len(w.steps)
    OBVIOUS
  <2>1. PathAt(n, d, w, ins, L) /\ IsName(d.id)
    BY <1>4, PathCreated
  <2>2. L \in Nat /\ Len(ins) = 2 * L + 1
    BY <2>1 DEF PathAt
  <2>3. CASE i = 2 * L + 1
    <3>1. ins[i].id = d.id
      BY <2>1, <2>3 DEF PathAt, PathIs
    <3> QED
      BY <1>1, <2>1, <3>1 DEF IsName
  <2>4. ASSUME NEW j \in 1 .. L, i = 2 * j
        PROVE  ins[i].id # CId(m, k) /\ (ins[i].id = SId(m, k) => n = m /\ j = k)
    <3>1. ins[i].id = SId(n, j)
      BY <2>1, <2>4 DEF PathAt, StepIs
    <3> QED
      BY <2>2, <3>1, SameName
  <2>5. ASSUME NEW j \in 1 .. L, i = 2 * j - 1
        PROVE  ins[i].id # SId(m, k) /\ (ins[i].id = CId(m, k) => n = m /\ j = k)
    <3>1. ins[i].id = CId(n, j)
      BY <2>1, <2>5 DEF PathAt, ContainerIs
    <3> QED
      BY <2>2, <3>1, SameName
  <2>6. i = 2 * L + 1 \/ \E j \in 1 .. L : i = 2 * j - 1 \/ i = 2 * j
    BY <2>2, Numbered
  <2> QED
    BY <1>4, <2>2, <2>3, <2>4, <2>5, <2>6
<1> QED
  BY <1>3, <1>4

-----------------------------------------------------------------------------
(* The inductive invariant: what a POST has asked for is there or lost, and   *)
(* what the LRI holds was there from the start or was asked for by a POST     *)
(* that had asked for all that comes before it.                               *)

Ins(n) == Inserts(n, post[n].doc)
There(n) == DOMAIN lri \cup post[n].lost
Asked(n, k) == \A i \in 1 .. k : Ins(n)[i].id \in There(n)

(* What is left of a sequence after its first k elements. *)
Left(s, k, t) == IsSeq(t) /\ Len(t) = Len(s) - k /\ \A i \in 1 .. Len(t) : t[i] = s[k + i]

Sends(n) ==
  /\ Creates(post[n].doc)
  /\ \E k \in 0 .. Len(Ins(n)) : Left(Ins(n), k, post[n].todo) /\ Asked(n, k)

PostOK(n) ==
  /\ DOMAIN post[n] = {"phase", "doc", "todo", "code", "lost"}
  /\ post[n].phase \in {"idle", "sending", "done"}
  /\ post[n].phase = "idle" => post[n] = Idle
  /\ post[n].phase # "idle" => post[n].doc \in Docs
  /\ post[n].phase = "sending" => Sends(n)
  /\ post[n].phase = "done" /\ Creates(post[n].doc) => Asked(n, Len(Ins(n)))

AskedBy(id, n) ==
  /\ post[n].phase # "idle" /\ Creates(post[n].doc)
  /\ \E j \in 1 .. Len(Ins(n)) : lri[id] = Ins(n)[j] /\ id = Ins(n)[j].id /\ Asked(n, j - 1)

Held(id) == (id \in DOMAIN Loaded /\ lri[id] = Loaded[id]) \/ \E n \in Posts : AskedBy(id, n)

CInv ==
  /\ lri = [id \in DOMAIN lri |-> lri[id]]
  /\ post = [n \in Posts |-> post[n]]
  /\ \A n \in Posts : PostOK(n)
  /\ \A id \in DOMAIN lri : Held(id)

(* What a step of POST n may do: the LRI only grows, by what n asks for, and  *)
(* no document that was taken is forgotten.                                   *)
Grows ==
  /\ lri' = [id \in DOMAIN lri' |-> lri'[id]]
  /\ \A id \in DOMAIN lri : id \in DOMAIN lri' /\ lri'[id] = lri[id]

Turns(n) ==
  /\ post' = [m \in Posts |-> post'[m]]
  /\ \A m \in Posts \ {n} : post'[m] = post[m]

Keeps(n) ==
  post[n].phase # "idle" =>
    /\ post'[n].phase # "idle" /\ post'[n].doc = post[n].doc
    /\ post[n].lost \subseteq post'[n].lost

LEMMA AskedStill ==
  ASSUME NEW n \in Posts, Grows, post'[n].doc = post[n].doc,
         post[n].lost \subseteq post'[n].lost, NEW k, Asked(n, k)
  PROVE  Asked(n, k)'
<1>1. Ins(n)' = Ins(n)
  BY DEF Ins
<1>2. There(n) \subseteq There(n)'
  BY DEF There, Grows
<1> QED
  BY <1>1, <1>2 DEF Asked

LEMMA OthersOK ==
  ASSUME NEW m \in Posts, Grows, post'[m] = post[m], PostOK(m)
  PROVE  PostOK(m)'
<1>1. Ins(m)' = Ins(m)
  BY DEF Ins
<1>2. \A k : Asked(m, k) => Asked(m, k)'
  BY AskedStill
<1>3. Sends(m) => Sends(m)'
  BY <1>1, <1>2 DEF Sends
<1> QED
  BY <1>1, <1>2, <1>3 DEF PostOK

LEMMA HeldStill ==
  ASSUME NEW n \in Posts, Grows, Turns(n), Keeps(n), NEW id \in DOMAIN lri, Held(id)
  PROVE  Held(id)'
<1>1. CASE id \in DOMAIN Loaded /\ lri[id] = Loaded[id]
  BY <1>1 DEF Held, Grows
<1>2. ASSUME NEW m \in Posts, AskedBy(id, m) PROVE Held(id)'
  <2>1. /\ post'[m].phase # "idle" /\ post'[m].doc = post[m].doc
        /\ post[m].lost \subseteq post'[m].lost
    BY <1>2 DEF AskedBy, Turns, Keeps
  <2>2. Ins(m)' = Ins(m)
    BY <2>1 DEF Ins
  <2>3. PICK j \in 1 .. Len(Ins(m)) : lri[id] = Ins(m)[j] /\ id = Ins(m)[j].id /\ Asked(m, j - 1)
    BY <1>2 DEF AskedBy
  <2>4. Asked(m, j - 1)'
    BY <2>1, <2>3, AskedStill
  <2>5. AskedBy(id, m)'
    BY <1>2, <2>1, <2>2, <2>3, <2>4 DEF AskedBy, Grows
  <2> QED
    BY <2>5 DEF Held
<1> QED
  BY <1>1, <1>2 DEF Held

LEMMA StepKeeps ==
  ASSUME CInv, NEW n \in Posts, Grows, Turns(n), Keeps(n), PostOK(n)',
         \A id \in DOMAIN lri' \ DOMAIN lri : AskedBy(id, n)'
  PROVE  CInv'
<1>1. \A m \in Posts : PostOK(m)'
  <2> TAKE m \in Posts
  <2>1. CASE m = n
    BY <2>1
  <2>2. CASE m # n
    BY <2>2, OthersOK DEF CInv, Turns
  <2> QED
    BY <2>1, <2>2
<1>2. \A id \in DOMAIN lri' : Held(id)'
  <2> TAKE id \in DOMAIN lri'
  <2>1. CASE id \in DOMAIN lri
    BY <2>1, HeldStill DEF CInv
  <2>2. CASE id \notin DOMAIN lri
    BY <2>2 DEF Held
  <2> QED
    BY <2>1, <2>2
<1> QED
  BY <1>1, <1>2 DEF CInv, Grows, Turns

(* A POST whose next request has been sent, whatever became of it. *)
Next1(n) ==
  /\ DOMAIN post'[n] = {"phase", "doc", "todo", "code", "lost"}
  /\ post'[n].phase = "sending" /\ post'[n].doc = post[n].doc
  /\ post'[n].todo = Tail(post[n].todo) /\ post[n].lost \subseteq post'[n].lost
  /\ Head(post[n].todo).id \in There(n)'

(* What is sent next is the first request that was not asked for. *)
LEMMA NextAsked ==
  ASSUME NEW n \in Posts, Sends(n), post[n].todo # <<>>
  PROVE  \E k \in 0 .. Len(Ins(n)) - 1 :
           /\ Left(Ins(n), k, post[n].todo) /\ Asked(n, k)
           /\ Head(post[n].todo) = Ins(n)[k + 1]
<1>1. PICK k \in 0 .. Len(Ins(n)) : Left(Ins(n), k, post[n].todo) /\ Asked(n, k)
  BY DEF Sends
<1> PICK t, ins : t = post[n].todo /\ ins = Ins(n)
  OBVIOUS
<1>2. IsSeq(t) /\ Len(t) = Len(ins) - k /\ \A i \in 1 .. Len(t) : t[i] = ins[k + i]
  BY <1>1 DEF Left
<1>3. Len(t) >= 1 /\ Head(t) = t[1] /\ Len(t) \in Nat
  BY <1>2, TailOf, SeqFacts
<1>4. k \in 0 .. Len(ins) - 1 /\ Head(t) = ins[k + 1]
  BY <1>2, <1>3
<1> QED
  BY <1>1, <1>4

LEMMA LeftOn ==
  ASSUME NEW s, IsSeq(s), NEW k \in 0 .. Len(s) - 1, NEW t, Left(s, k, t), t # <<>>
  PROVE  Left(s, k + 1, Tail(t))
<1> PICK u : u = Tail(t)
  OBVIOUS
<1>1. IsSeq(t) /\ Len(t) = Len(s) - k /\ \A i \in 1 .. Len(t) : t[i] = s[k + i]
  BY DEF Left
<1>2. IsSeq(u) /\ Len(u) = Len(t) - 1 /\ \A i \in 1 .. Len(t) - 1 : u[i] = t[i + 1]
  BY <1>1, TailOf
<1>3. Len(s) \in Nat /\ Len(t) \in Nat
  BY <1>1, SeqFacts
<1>4. \A i \in 1 .. Len(u) : u[i] = s[(k + 1) + i]
  <2> TAKE i \in 1 .. Len(u)
  <2>1. i \in 1 .. Len(t) - 1 /\ i + 1 \in 1 .. Len(t) /\ k + (i + 1) = (k + 1) + i
    BY <1>2, <1>3
  <2> QED
    BY <1>1, <1>2, <2>1
<1>5. Len(u) = Len(s) - (k + 1)
  BY <1>1, <1>2, <1>3
<1> QED
  BY <1>2, <1>4, <1>5 DEF Left

LEMMA SentNext ==
  ASSUME CInv, NEW n \in Posts, Grows, post[n].phase = "sending", post[n].todo # <<>>, Next1(n)
  PROVE  PostOK(n)'
<1>1. PostOK(n) /\ Sends(n) /\ post[n].doc \in Docs /\ Creates(post[n].doc)
  BY DEF CInv, PostOK, Sends
<1>2. PICK k \in 0 .. Len(Ins(n)) - 1 :
        /\ Left(Ins(n), k, post[n].todo) /\ Asked(n, k)
        /\ Head(post[n].todo) = Ins(n)[k + 1]
  BY <1>1, NextAsked
<1>3. Ins(n)' = Ins(n)
  BY DEF Ins, Next1
<1>4. IsSeq(Ins(n)) /\ Len(Ins(n)) \in Nat
  BY <1>1, InsertsGood, SeqFacts DEF Ins, Good
<1>5. Left(Ins(n), k + 1, Tail(post[n].todo))
  BY <1>2, <1>4, LeftOn
<1>6. Asked(n, k + 1)'
  <2>1. Asked(n, k)'
    BY <1>2, AskedStill DEF Next1
  <2>2. Ins(n)[k + 1].id \in There(n)'
    BY <1>2 DEF Next1
  <2>3. \A i \in 1 .. k + 1 : i \in 1 .. k \/ i = k + 1
    BY <1>4
  <2> QED
    BY <1>3, <2>1, <2>2, <2>3 DEF Asked
<1>7. k + 1 \in 0 .. Len(Ins(n))
  BY <1>4
<1>8. Sends(n)'
  BY <1>1, <1>3, <1>5, <1>6, <1>7 DEF Sends, Next1
<1> QED
  BY <1>1, <1>8 DEF PostOK, Next1

(* An entity that was put there is the one that was sent, under its name. *)
LEMMA PutAsked ==
  ASSUME CInv, NEW n \in Posts, Grows, Keeps(n), post[n].phase = "sending", post[n].todo # <<>>,
         NEW e, e = Head(post[n].todo), Created(e)
  PROVE  \A id \in DOMAIN lri' \ DOMAIN lri : AskedBy(id, n)'
<1>1. PostOK(n) /\ Sends(n) /\ Creates(post[n].doc)
  BY DEF CInv, PostOK, Sends
<1>2. PICK k \in 0 .. Len(Ins(n)) - 1 :
        /\ Left(Ins(n), k, post[n].todo) /\ Asked(n, k)
        /\ Head(post[n].todo) = Ins(n)[k + 1]
  BY <1>1, NextAsked
<1>3. Ins(n)' = Ins(n)
  BY DEF Ins, Keeps
<1>4. IsSeq(Ins(n)) /\ Len(Ins(n)) \in Nat
  BY <1>1, InsertsGood, SeqFacts DEF Ins, Good, CInv, PostOK
<1>5. Asked(n, k)'
  BY <1>2, AskedStill DEF Keeps
<1> SUFFICES ASSUME NEW id \in DOMAIN lri' \ DOMAIN lri PROVE AskedBy(id, n)'
  OBVIOUS
<1>6. id = e.id /\ lri'[id] = e
  BY DEF Created
<1>7. k + 1 \in 1 .. Len(Ins(n)) /\ (k + 1) - 1 = k
  BY <1>4
<1> QED
  BY <1>1, <1>2, <1>3, <1>5, <1>6, <1>7 DEF AskedBy, Keeps

LEMMA CreatedGrows ==
  ASSUME NEW e, e.id \notin DOMAIN lri, Created(e)
  PROVE  Grows /\ e.id \in DOMAIN lri' /\ DOMAIN lri' = DOMAIN lri \cup {e.id}
BY DEF Created, Grows

LEMMA SameGrows ==
  ASSUME CInv, UNCHANGED lri
  PROVE  Grows /\ DOMAIN lri' \ DOMAIN lri = {}
BY DEF CInv, Grows

LEMMA InitKeeps ==
  ASSUME Init
  PROVE  CInv
<1>1. lri = [id \in DOMAIN lri |-> lri[id]]
  BY LoadedAssumption DEF Init
<1>2. post = [n \in Posts |-> post[n]]
  BY DEF Init
<1>3. \A n \in Posts : PostOK(n)
  BY DEF Init, PostOK, Idle
<1>4. \A id \in DOMAIN lri : Held(id)
  BY DEF Init, Held
<1> QED
  BY <1>1, <1>2, <1>3, <1>4 DEF CInv

(* POST n becomes r. *)
Becomes(n, r) == post' = [post EXCEPT ![n] = r]

LEMMA BecomesTurns ==
  ASSUME CInv, NEW n \in Posts, NEW r, Becomes(n, r)
  PROVE  Turns(n) /\ post'[n] = r
BY DEF CInv, Becomes, Turns

LEMMA BeginKeeps ==
  ASSUME CInv, NEW n \in Posts, Begin(n)
  PROVE  CInv'
<1> PICK d \in Docs : /\ post[n].phase = "idle" /\ Creates(d)
                      /\ Become(n, "sending", d, Inserts(n, d), 0) /\ UNCHANGED lri
  BY DEF Begin, Creates
<1> PICK r, ins : /\ ins = Inserts(n, d)
                  /\ r = [post[n] EXCEPT !.phase = "sending", !.doc = d, !.todo = ins, !.code = 0]
  OBVIOUS
<1>1. Becomes(n, r)
  BY DEF Become, Becomes
<1>2. Turns(n) /\ post'[n] = r
  BY <1>1, BecomesTurns
<1>3. DOMAIN post[n] = {"phase", "doc", "todo", "code", "lost"}
  BY DEF CInv, PostOK
<1>4. /\ DOMAIN r = {"phase", "doc", "todo", "code", "lost"}
      /\ r.phase = "sending" /\ r.doc = d /\ r.todo = ins
  BY <1>3
<1>5. Grows /\ DOMAIN lri' \ DOMAIN lri = {}
  BY SameGrows
<1>6. Ins(n)' = ins
  BY <1>2, <1>4 DEF Ins
<1>7. IsSeq(ins) /\ Len(ins) \in Nat
  BY InsertsGood, SeqFacts DEF Good
<1>8. Sends(n)'
  <2>1. Left(ins, 0, ins) /\ 0 \in 0 .. Len(ins)
    BY <1>7 DEF Left
  <2>2. Asked(n, 0)'
    BY DEF Asked
  <2> QED
    BY <1>2, <1>4, <1>6, <2>1, <2>2 DEF Sends
<1>9. PostOK(n)'
  BY <1>2, <1>4, <1>8 DEF PostOK
<1>10. Keeps(n)
  BY DEF Keeps
<1> QED
  BY <1>2, <1>5, <1>9, <1>10, StepKeeps

LEMMA TurnKeeps ==
  ASSUME CInv, NEW n \in Posts, Turn(n)
  PROVE  CInv'
<1> PICK d, code :
      /\ d \in Docs /\ post[n].phase = "idle" /\ ~Creates(d) /\ Become(n, "done", d, <<>>, code) /\ UNCHANGED lri
  <2> PICK d \in Docs :
        /\ post[n].phase = "idle"
        /\ \/ /\ d.action = "create" /\ Refused(d)
              /\ Become(n, "done", d, <<>>, IF d.type \in Unbuilt THEN 501 ELSE 500)
           \/ d.action = "update" /\ Become(n, "done", d, <<>>, UpdateCode(d))
           \/ d.action \notin {"create", "update"} /\ Become(n, "done", d, <<>>, 201)
        /\ UNCHANGED lri
    BY DEF Turn
  <2>1. ~Creates(d)
    BY DEF Creates
  <2>2. \E code : Become(n, "done", d, <<>>, code)
    OBVIOUS
  <2> QED
    BY <2>1, <2>2
<1> PICK r : r = [post[n] EXCEPT !.phase = "done", !.doc = d, !.todo = <<>>, !.code = code]
  OBVIOUS
<1>1. Becomes(n, r)
  BY DEF Become, Becomes
<1>2. Turns(n) /\ post'[n] = r
  BY <1>1, BecomesTurns
<1>3. DOMAIN post[n] = {"phase", "doc", "todo", "code", "lost"}
  BY DEF CInv, PostOK
<1>4. DOMAIN r = {"phase", "doc", "todo", "code", "lost"} /\ r.phase = "done" /\ r.doc = d
  BY <1>3
<1>5. Grows /\ DOMAIN lri' \ DOMAIN lri = {}
  BY SameGrows
<1>6. PostOK(n)'
  BY <1>2, <1>4 DEF PostOK
<1>7. Keeps(n)
  BY DEF Keeps
<1> QED
  BY <1>2, <1>5, <1>6, <1>7, StepKeeps

AnsweredTo(n, lost) ==
  /\ Turns(n) /\ Keeps(n)
  /\ DOMAIN post'[n] = {"phase", "doc", "todo", "code", "lost"}
  /\ post'[n].phase = "sending" /\ post'[n].doc = post[n].doc
  /\ post'[n].todo = Tail(post[n].todo) /\ post'[n].lost = post[n].lost \cup lost

LEMMA AnsweredIs ==
  ASSUME CInv, NEW n \in Posts, post[n].phase = "sending", NEW code, NEW lost, Answered(n, code, lost)
  PROVE  AnsweredTo(n, lost)
<1> PICK p : p = post[n]
  OBVIOUS
<1> PICK r : r = [p EXCEPT !.todo = Tail(p.todo), !.code = code, !.lost = p.lost \cup lost]
  OBVIOUS
<1>1. DOMAIN p = {"phase", "doc", "todo", "code", "lost"} /\ post = [m \in Posts |-> post[m]]
  BY DEF CInv, PostOK
<1>2. Becomes(n, r)
  BY <1>1 DEF Answered, Becomes
<1>3. Turns(n) /\ post'[n] = r
  BY <1>2, BecomesTurns
<1>4. /\ DOMAIN r = {"phase", "doc", "todo", "code", "lost"} /\ r.phase = p.phase /\ r.doc = p.doc
      /\ r.todo = Tail(p.todo) /\ r.lost = p.lost \cup lost
  BY <1>1
<1> QED
  BY <1>3, <1>4 DEF Keeps, AnsweredTo

LEMMA SendKeeps ==
  ASSUME CInv, NEW n \in Posts, Send(n)
  PROVE  CInv'
<1> PICK e : e = Head(post[n].todo)
  OBVIOUS
<1>1. /\ post[n].phase = "sending" /\ post[n].todo # <<>> /\ Answered(n, 200, {})
      /\ IF e.id \in DOMAIN lri THEN UNCHANGED lri ELSE Created(e)
  BY DEF Send
<1>2. AnsweredTo(n, {})
  BY <1>1, AnsweredIs
<1>3. Grows /\ e.id \in DOMAIN lri'
  BY <1>1, SameGrows, CreatedGrows
<1>4. PostOK(n)'
  <2>1. Next1(n)
    BY <1>2, <1>3 DEF Next1, There, AnsweredTo
  <2> QED
    BY <1>1, <1>3, <2>1, SentNext
<1>5. \A id \in DOMAIN lri' \ DOMAIN lri : AskedBy(id, n)'
  <2>1. CASE e.id \in DOMAIN lri
    BY <1>1, <2>1
  <2>2. CASE e.id \notin DOMAIN lri
    BY <1>1, <1>2, <1>3, <2>2, PutAsked DEF AnsweredTo
  <2> QED
    BY <2>1, <2>2
<1> QED
  BY <1>2, <1>3, <1>4, <1>5, StepKeeps DEF AnsweredTo

LEMMA SendFailsKeeps ==
  ASSUME CInv, NEW n \in Posts, SendFails(n)
  PROVE  CInv'
<1> PICK e : e = Head(post[n].todo)
  OBVIOUS
<1>1. post[n].phase = "sending" /\ post[n].todo # <<>>
  BY DEF SendFails
<1>2. PICK lost :
        /\ Answered(n, 500, lost)
        /\ \/ UNCHANGED lri /\ lost = {e.id} \ DOMAIN lri
           \/ e.id \notin DOMAIN lri /\ Created(e) /\ lost = {}
  BY DEF SendFails
<1>3. AnsweredTo(n, lost)
  BY <1>1, <1>2, AnsweredIs
<1>4. Grows /\ e.id \in DOMAIN lri' \cup lost
  BY <1>2, SameGrows, CreatedGrows
<1>5. PostOK(n)'
  <2>1. Next1(n)
    BY <1>3, <1>4 DEF Next1, There, AnsweredTo
  <2> QED
    BY <1>1, <1>4, <2>1, SentNext
<1>6. \A id \in DOMAIN lri' \ DOMAIN lri : AskedBy(id, n)'
  <2>1. CASE UNCHANGED lri
    BY <2>1
  <2>2. CASE Created(e)
    BY <1>1, <1>3, <1>4, <2>2, PutAsked DEF AnsweredTo
  <2> QED
    BY <1>2, <2>1, <2>2
<1> QED
  BY <1>3, <1>4, <1>5, <1>6, StepKeeps DEF AnsweredTo

(* Request n ends with an error, and these of its entities are lost. *)
Broken(n, lost) ==
  post' = [post EXCEPT ![n] = [post[n] EXCEPT !.phase = "done", !.todo = <<>>, !.code = 500,
                                              !.lost = @ \cup lost]]

LEMMA SendBreaksKeeps ==
  ASSUME CInv, NEW n \in Posts, SendBreaks(n)
  PROVE  CInv'
<1> PICK e, rest, p : /\ e = Head(post[n].todo) /\ p = post[n]
                      /\ rest = {post[n].todo[i].id : i \in 1 .. Len(post[n].todo)}
  OBVIOUS
<1>1. p.phase = "sending" /\ p.todo # <<>>
  BY DEF SendBreaks
<1>2. PICK lost :
        /\ Broken(n, lost)
        /\ \/ UNCHANGED lri /\ lost = rest \ DOMAIN lri
           \/ e.id \notin DOMAIN lri /\ Created(e) /\ lost = rest \ (DOMAIN lri \cup {e.id})
  <2>1. \/ UNCHANGED lri /\ Broken(n, rest \ DOMAIN lri)
        \/ e.id \notin DOMAIN lri /\ Created(e) /\ Broken(n, rest \ (DOMAIN lri \cup {e.id}))
    BY DEF SendBreaks, Broken
  <2> QED
    BY <2>1
<1> PICK r : r = [post[n] EXCEPT !.phase = "done", !.todo = <<>>, !.code = 500,
                                 !.lost = post[n].lost \cup lost]
  OBVIOUS
<1>3. Turns(n) /\ post'[n] = r
  <2>1. Becomes(n, r)
    BY Zenon, <1>2 DEF Broken, Becomes
  <2> QED
    BY <2>1, BecomesTurns
<1>4. DOMAIN p = {"phase", "doc", "todo", "code", "lost"}
  BY DEF CInv, PostOK
<1>5. /\ DOMAIN r = {"phase", "doc", "todo", "code", "lost"} /\ r.phase = "done" /\ r.doc = p.doc
      /\ r.lost = p.lost \cup lost
  BY <1>4
<1>6. Keeps(n)
  BY <1>3, <1>5 DEF Keeps
<1>7. Grows
  BY <1>2, SameGrows, CreatedGrows
<1>8. rest \subseteq DOMAIN lri' \cup lost
  BY <1>2, SameGrows, CreatedGrows
<1>9. PostOK(n)'
  <2>1. PostOK(n) /\ Sends(n) /\ p.doc \in Docs
    BY <1>1 DEF CInv, PostOK
  <2>2. PICK k \in 0 .. Len(Ins(n)) : Left(Ins(n), k, p.todo) /\ Asked(n, k)
    BY <2>1 DEF Sends
  <2>3. Ins(n)' = Ins(n)
    BY <1>3, <1>5 DEF Ins
  <2>4. Asked(n, k)'
    BY <1>3, <1>5, <1>7, <2>2, AskedStill
  <2>5. Len(Ins(n)) \in Nat
    BY <2>1, InsertsGood, SeqFacts DEF Ins, Good, Sends
  <2>6. ASSUME NEW i \in 1 .. Len(Ins(n)) PROVE Ins(n)[i].id \in There(n)'
    <3>1. CASE i <= k
      BY <2>3, <2>4, <3>1 DEF Asked
    <3>2. CASE i > k
      <4>1. i - k \in 1 .. Len(p.todo) /\ k + (i - k) = i
        BY <2>2, <2>5, <3>2 DEF Left
      <4>2. Ins(n)[i].id \in rest
        BY <2>2, <4>1 DEF Left
      <4> QED
        BY <1>3, <1>5, <1>8, <4>2 DEF There
    <3> QED
      BY <3>1, <3>2
  <2>7. Asked(n, Len(Ins(n)))'
    BY <2>3, <2>6 DEF Asked
  <2> QED
    BY <1>3, <1>5, <2>1, <2>7 DEF PostOK
<1>10. \A id \in DOMAIN lri' \ DOMAIN lri : AskedBy(id, n)'
  <2>1. CASE UNCHANGED lri
    BY <2>1
  <2>2. CASE Created(e)
    BY <1>1, <1>6, <1>7, <2>2, PutAsked
  <2> QED
    BY <1>2, <2>1, <2>2
<1> QED
  BY <1>3, <1>6, <1>7, <1>9, <1>10, StepKeeps

LEMMA FinishKeeps ==
  ASSUME CInv, NEW n \in Posts, Finish(n)
  PROVE  CInv'
<1> PICK p : p = post[n]
  OBVIOUS
<1> PICK r : r = [p EXCEPT !.phase = "done"]
  OBVIOUS
<1>1. p.phase = "sending" /\ p.todo = <<>> /\ UNCHANGED lri
  BY DEF Finish
<1>2. DOMAIN p = {"phase", "doc", "todo", "code", "lost"} /\ post = [m \in Posts |-> post[m]]
  BY DEF CInv, PostOK
<1>3. Becomes(n, r)
  BY <1>2 DEF Finish, Becomes
<1>4. Turns(n) /\ post'[n] = r
  BY <1>3, BecomesTurns
<1>5. /\ DOMAIN r = {"phase", "doc", "todo", "code", "lost"} /\ r.phase = "done" /\ r.doc = p.doc
      /\ r.lost = p.lost
  BY <1>2
<1>6. Keeps(n)
  BY <1>4, <1>5 DEF Keeps
<1>7. Grows /\ DOMAIN lri' \ DOMAIN lri = {}
  BY <1>1, SameGrows
<1>8. PostOK(n)'
  <2>1. PostOK(n) /\ Sends(n) /\ p.doc \in Docs
    BY <1>1 DEF CInv, PostOK
  <2>2. PICK k \in 0 .. Len(Ins(n)) : Left(Ins(n), k, p.todo) /\ Asked(n, k)
    BY <2>1 DEF Sends
  <2>3. Len(Ins(n)) \in Nat
    BY <2>1, InsertsGood, SeqFacts DEF Ins, Good, Sends
  <2>4. Len(Ins(n)) = k
    BY <1>1, <2>2, <2>3 DEF Left
  <2>5. Ins(n)' = Ins(n) /\ Asked(n, k)'
    BY <1>4, <1>5, <1>7, <2>2, AskedStill DEF Ins
  <2> QED
    BY <1>4, <1>5, <2>1, <2>4, <2>5 DEF PostOK
<1> QED
  BY <1>4, <1>6, <1>7, <1>8, StepKeeps

LEMMA CInvHolds ==
  Spec => []CInv
<1>1. Init => CInv
  BY InitKeeps
<1>2. CInv /\ [Next]_vars => CInv'
  <2> SUFFICES ASSUME CInv, [Next]_vars PROVE CInv'
    OBVIOUS
  <2>1. CASE Next
    <3> PICK n \in Posts : Begin(n) \/ Turn(n) \/ Send(n) \/ SendFails(n) \/ SendBreaks(n) \/ Finish(n)
      BY <2>1 DEF Next
    <3> QED
      BY BeginKeeps, TurnKeeps, SendKeeps, SendFailsKeeps, SendBreaksKeeps, FinishKeeps
  <2>2. CASE UNCHANGED vars
    BY <2>2 DEF vars, CInv, PostOK, Held, Sends, AskedBy, Asked, There, Ins
  <2> QED
    BY <2>1, <2>2
<1> QED
  BY <1>1, <1>2, PTL DEF Spec

-----------------------------------------------------------------------------
(* Nothing is seen before what it holds. *)

LEMMA OwnerIs ==
  ASSUME CInv, NEW n \in Posts, NEW id \in DOMAIN lri, lri[id].by = n
  PROVE  AskedBy(id, n) /\ post[n].doc \in Docs
<1>1. \A m \in Posts : post[m].phase # "idle" => post[m].doc \in Docs
  BY DEF CInv, PostOK
<1>2. ~(id \in DOMAIN Loaded /\ lri[id] = Loaded[id])
  BY LoadedAssumption
<1>3. PICK m \in Posts : AskedBy(id, m)
  BY <1>2 DEF CInv, Held
<1>4. PICK j \in 1 .. Len(Ins(m)) : lri[id] = Ins(m)[j] /\ id = Ins(m)[j].id
  BY <1>3 DEF AskedBy
<1>5. post[m].doc \in Docs /\ Creates(post[m].doc)
  BY <1>1, <1>3 DEF AskedBy
<1>6. lri[id].by = m
  BY <1>4, <1>5, InsertsGood DEF Ins, Good, GoodAt
<1> QED
  BY <1>3, <1>5, <1>6

LEMMA RefsKept ==
  ASSUME CInv
  PROVE  RefsFirst
<1> SUFFICES ASSUME NEW n \in Posts, NEW id \in DOMAIN lri, post[n].phase # "idle",
                    Creates(post[n].doc), lri[id].by = n
             PROVE  Refs(lri[id]) \subseteq There(n)
  BY DEF RefsFirst, Creates, Refs, There
<1>1. AskedBy(id, n) /\ post[n].doc \in Docs
  BY OwnerIs
<1>2. PICK j \in 1 .. Len(Ins(n)) : lri[id] = Ins(n)[j] /\ id = Ins(n)[j].id /\ Asked(n, j - 1)
  BY <1>1 DEF AskedBy
<1>3. GoodAt(n, post[n].doc, Ins(n), j)
  BY <1>1, InsertsGood DEF Ins, Good
<1> QED
  BY <1>2, <1>3 DEF GoodAt, Asked

(* Whatever the POSTs do and whichever requests fail, an entity of a document *)
(* is in the LRI only when those of the document it holds are, or are lost:   *)
(* a path after its steps, a step after its container, a grade after the one  *)
(* it follows (insert.py 780-885, 1225-1253).                                 *)
THEOREM RefsAlwaysFirst ==
  Spec => []RefsFirst
<1>1. CInv => RefsFirst
  BY RefsKept
<1> QED
  BY <1>1, CInvHolds, PTL

-----------------------------------------------------------------------------
(* Whatever is stored is found. *)

LEMMA NamedWell ==
  ASSUME CInv, NEW id \in DOMAIN lri
  PROVE  /\ lri[id].id = id /\ id # None
         /\ None \notin lri[id].contained_by \cup lri[id].teaches
<1>1. CASE id \in DOMAIN Loaded /\ lri[id] = Loaded[id]
  BY <1>1, LoadedAssumption DEF IsName
<1>2. ASSUME NEW n \in Posts, AskedBy(id, n)
      PROVE  /\ lri[id].id = id /\ id # None
             /\ None \notin lri[id].contained_by \cup lri[id].teaches
  <2>1. PICK j \in 1 .. Len(Ins(n)) : lri[id] = Ins(n)[j] /\ id = Ins(n)[j].id
    BY <1>2 DEF AskedBy
  <2>2. post[n].doc \in Docs /\ Creates(post[n].doc)
    BY <1>2 DEF AskedBy, CInv, PostOK
  <2>3. GoodAt(n, post[n].doc, Ins(n), j)
    BY <2>2, InsertsGood DEF Ins, Good
  <2> QED
    BY <2>1, <2>3 DEF GoodAt
<1> QED
  BY <1>1, <1>2 DEF CInv, Held

LEMMA OptionAt ==
  ASSUME NEW opts, NEW keys, NEW i, i # 0, i \in Int,
         {j \in 1 .. Len(keys) : keys[j] \in DOMAIN opts} = {i}
  PROVE  Option(opts, keys) = opts[keys[i]]
<1>1. Min({i}) = i
  BY DEF Min
<1>2. SelectInSeq(keys, LAMBDA k : k \in DOMAIN opts) = i
  BY <1>1 DEF SelectInSeq
<1> QED
  BY <1>2 DEF Option

LEMMA OptionNone ==
  ASSUME NEW keys
  PROVE  Option(Everywhere, keys) = None
<1>1. {j \in 1 .. Len(keys) : keys[j] \in DOMAIN Everywhere} = {}
  BY DEF Everywhere
<1>2. SelectInSeq(keys, LAMBDA k : k \in DOMAIN Everywhere) = 0
  BY <1>1 DEF SelectInSeq
<1> QED
  BY <1>2 DEF Option

(* The search a listing makes. *)
Finds(id, q) == q.value # None /\ id \in Hits(q)

(* The answer of a listing that finds everything on one page. *)
LEMMA OnePage ==
  ASSUME NEW path \in Queries, NEW opts, NEW q, q = CreateQuery(path, opts), q.value # None,
         Cardinality(Hits(q)) <= Limit(path), NEW a \in Answers(path, opts)
  PROVE  a = Answer(path, opts, q, Hits(q))
<1>1. Pages(path, q) = {Hits(q)}
  BY DEF Pages
<1> QED
  BY <1>1 DEF Answers

LEMMA Given ==
  ASSUME NEW o, NEW p
  PROVE  DOMAIN [x \in {o} |-> p] = {o} /\ [x \in {o} |-> p][o] = p
OBVIOUS

(* The listings that are asked for by a parent, and the option that names it. *)
UnderOption(path, o) ==
  \/ path = "frameworks" /\ o = "initiative"
  \/ path = "sets" /\ o = "framework"
  \/ path = "grade_levels" /\ o = "set"
  \/ path = "competency_containers" /\ o = "parent"
  \/ path = "competencys" /\ o = "parent"

LEMMA UnderIs ==
  ASSUME NEW path, NEW o, NEW p, p # None, p \notin DOMAIN Orderings,
         UnderOption(path, o)
  PROVE  CreateQuery(path, [x \in {o} |-> p]) = Search("contained_by", p)
<1> PICK opts : opts = [x \in {o} |-> p]
  OBVIOUS
<1>1. DOMAIN opts = {o} /\ opts[o] = p
  OBVIOUS
<1>2. Option(opts, <<o>>) = p
  <2>1. {j \in 1 .. Len(<<o>>) : <<o>>[j] \in DOMAIN opts} = {1}
    BY <1>1
  <2>2. Option(opts, <<o>>) = opts[<<o>>[1]]
    BY <2>1, OptionAt
  <2> QED
    BY <1>1, <2>2
<1>3. CASE path = "frameworks" /\ o = "initiative"
  BY <1>2, <1>3 DEF CreateQuery, FrameworkQuery, Under
<1>4. CASE path = "sets" /\ o = "framework"
  BY <1>2, <1>4 DEF CreateQuery, SetQuery, Under
<1>5. CASE path = "grade_levels" /\ o = "set"
  <2> PICK keys : keys = <<"framework", "set", "domain">>
    OBVIOUS
  <2>1. {j \in 1 .. Len(keys) : keys[j] \in DOMAIN opts} = {2}
    BY <1>1, <1>5
  <2>2. Option(opts, keys) = p
    <3>1. Option(opts, keys) = opts[keys[2]]
      BY <2>1, OptionAt
    <3> QED
      BY <1>1, <1>5, <3>1
  <2> QED
    BY <1>5, <2>2 DEF CreateQuery, GradeQuery, Under
<1>6. CASE path = "competency_containers" /\ o = "parent"
  BY <1>2, <1>6 DEF CreateQuery, ContainerQuery
<1>7. CASE path = "competencys" /\ o = "parent"
  BY <1>2, <1>7 DEF CreateQuery, CompetencyQuery
<1> QED
  BY <1>3, <1>4, <1>5, <1>6, <1>7 DEF UnderOption

(* An answer that lists entity id. *)
Lists(a, id) == a.code = 200 /\ id \in a.items

LEMMA ListedLists ==
  ASSUME NEW items, NEW id \in items
  PROVE  Lists(Listed(items), id) /\ Listed(items) # Failed /\ Listed(items).items = items
BY DEF Lists, Listed, Failed

LEMMA PlainListing ==
  ASSUME NEW path \in {"initiatives", "frameworks", "learning_resources", "competency_containers",
                       "competencys", "anchor_standards"},
         NEW opts, NEW q, NEW found, NEW id \in found
  PROVE  Lists(Answer(path, opts, q, found), id)
<1>1. Prune(path, q, found) = Listed(found)
  BY DEF Prune
<1>2. Sort(path, q, found) = Listed(found)
  BY DEF Sort
<1> QED
  BY <1>1, <1>2, ListedLists DEF Answer

LEMMA SetListing ==
  ASSUME NEW opts, NEW q, NEW found, NEW id \in found, "set" \in lri[id].types
  PROVE  Lists(Answer("sets", opts, q, found), id)
<1> PICK sets : sets = SetPruner(found)
  OBVIOUS
<1>1. Prune("sets", q, found) = Listed(sets) /\ id \in sets
  BY DEF Prune, SetPruner
<1>2. Sort("sets", q, sets) = Listed(sets)
  BY DEF Sort
<1> QED
  BY <1>1, <1>2, ListedLists DEF Answer

LEMMA GradeListing ==
  ASSUME NEW opts, NEW q, NEW found, NEW id \in found, "grade_level" \in lri[id].types
  PROVE  Lists(Answer("grade_levels", opts, q, found), id)
<1>1. Prune("grade_levels", q, found) = Listed(found)
  BY DEF Prune
<1>2. Sort("grade_levels", q, found) = Listed(found)
  BY DEF Sort, GradesAmong
<1> QED
  BY <1>1, <1>2, ListedLists DEF Answer

LEMMA PathListing ==
  ASSUME NEW opts, NEW q, ~q.deep, NEW found, NEW id \in found,
         \A f \in found : "competency_path" \in lri[f].types
  PROVE  Lists(Answer("competency_paths", opts, q, found), id)
<1>1. Prune("competency_paths", q, found) = Listed(found)
  BY DEF Prune
<1>2. PathSorter("competency_paths", q, found) = Listed(found)
  BY DEF PathSorter
<1>3. Sort("competency_paths", q, found) = Listed(found)
  BY <1>2 DEF Sort
<1> QED
  BY <1>1, <1>3, ListedLists DEF Answer

(* Listing l makes the search q, which finds entity id. *)
Searches(l, q, id) ==
  l[1] \in Queries /\ q = CreateQuery(l[1], l[2]) /\ q.value # None /\ id \in Hits(q)

LEMMA ParentSearch ==
  ASSUME CInv, NEW id \in DOMAIN lri, NEW path, NEW o,
         UnderOption(path, o),
         NEW l \in ListedUnder(path, o, lri[id])
  PROVE  l[1] = path /\ \E q : Searches(l, q, id)
<1>1. PICK p : /\ l = <<path, [x \in {o} |-> p]>> /\ p \notin DOMAIN Orderings
               /\ p \in DOMAIN lri
               /\ p \in lri[id].contained_by \/ lri[id].id \in lri[p].contains
  BY DEF ListedUnder
<1>2. lri[id].id = id /\ p # None
  BY <1>1, NamedWell
<1> PICK q : q = Search("contained_by", p)
  OBVIOUS
<1>3. q.by = "contained_by" /\ q.value = p
  BY DEF Search
<1>4. CreateQuery(path, [x \in {o} |-> p]) = q
  <2>1. CreateQuery(path, [x \in {o} |-> p]) = Search("contained_by", p)
    BY <1>1, <1>2, UnderIs
  <2> QED
    BY <2>1
<1>5. id \in Hits(q)
  <2>1. lri[id][q.by] = lri[id].contained_by
    BY <1>3
  <2> QED
    BY <1>1, <1>2, <1>3, <2>1 DEF Hits
<1>6. path \in Queries
  BY DEF Queries, UnderOption
<1> QED
  BY <1>1, <1>2, <1>3, <1>4, <1>5, <1>6 DEF Searches

LEMMA TypeSearch ==
  ASSUME NEW id \in DOMAIN lri, NEW path, NEW type \in Kinds, type \in lri[id].types,
         \/ path = "initiatives" /\ type = "initiative"
         \/ path = "frameworks" /\ type = "framework"
         \/ path = "sets" /\ type = "set"
         \/ path = "grade_levels" /\ type = "grade_level"
         \/ path = "learning_resources" /\ type = "learning_resource"
         \/ path = "competency_paths" /\ type = "competency_path"
         \/ path = "anchor_standards" /\ type = "anchor_standard"
  PROVE  Searches(<<path, Everywhere>>, OfType(type), id)
<1> PICK q : q = OfType(type)
  OBVIOUS
<1>1. q.by = "types" /\ q.value = type
  BY DEF OfType, Search
<1>0. type # None
  BY PagesAssumption
<1>2. DOMAIN Everywhere = {}
  BY DEF Everywhere
<1>3. CreateQuery(path, Everywhere) = q
  <2>1. \A keys : Option(Everywhere, keys) = None
    BY OptionNone
  <2>2. None \notin DOMAIN Orderings
    BY PagesAssumption
  <2>3. Under(Everywhere, <<"initiative">>, "framework") = OfType("framework")
    BY <2>1 DEF Under
  <2>4. Under(Everywhere, <<"framework">>, "set") = OfType("set")
    BY <2>1 DEF Under
  <2>5. GradeQuery(Everywhere) = OfType("grade_level")
    BY <2>1, <2>2 DEF Under, GradeQuery
  <2>6. PathQuery(Everywhere) = OfType("competency_path")
    BY <1>2 DEF PathQuery
  <2>7. ResourceQuery(Everywhere) = OfType("learning_resource")
    BY <1>2 DEF ResourceQuery
  <2>8. AnchorQuery(Everywhere) = OfType("anchor_standard")
    BY <2>1 DEF AnchorQuery
  <2> HIDE DEF OfType
  <2> QED
    BY <2>3, <2>4, <2>5, <2>6, <2>7, <2>8 DEF CreateQuery, InitiativeQuery, FrameworkQuery, SetQuery
<1>4. id \in Hits(q)
  BY <1>1 DEF Hits
<1>5. path \in Queries
  BY DEF Queries
<1> QED
  BY <1>0, <1>1, <1>3, <1>4, <1>5 DEF Searches

LEMMA TeachesSearch ==
  ASSUME CInv, NEW id \in DOMAIN lri, NEW c \in lri[id].teaches \cap DOMAIN lri
  PROVE  Searches(<<"learning_resources", [competency |-> c]>>, Search("teaches", c), id)
<1> PICK q, opts : q = Search("teaches", c) /\ opts = [competency |-> c]
  OBVIOUS
<1>1. q.by = "teaches" /\ q.value = c /\ c # None
  BY NamedWell DEF Search
<1>2. CreateQuery("learning_resources", opts) = q
  BY DEF CreateQuery, ResourceQuery
<1>3. id \in Hits(q)
  <2>1. lri[id][q.by] = lri[id].teaches
    BY <1>1
  <2> QED
    BY <1>1, <2>1 DEF Hits
<1> QED
  BY <1>1, <1>2, <1>3 DEF Searches, Queries

LEMMA AnchorsSearch ==
  ASSUME CInv, NEW id \in DOMAIN lri, NEW c \in lri[id].anchors \cap DOMAIN lri
  PROVE  Searches(<<"anchor_standards", [standard |-> c]>>, Search("anchors", c), id)
<1> PICK q, opts, keys : /\ q = Search("anchors", c) /\ opts = [standard |-> c]
                         /\ keys = <<"strand", "standard">>
  OBVIOUS
<1>1. q.by = "anchors" /\ q.value = c /\ c # None
  BY NamedWell DEF Search
<1>2. Option(opts, keys) = c
  <2>1. {j \in 1 .. Len(keys) : keys[j] \in DOMAIN opts} = {2}
    OBVIOUS
  <2>2. Option(opts, keys) = opts[keys[2]]
    BY <2>1, OptionAt
  <2> QED
    BY <2>2
<1>3. CreateQuery("anchor_standards", opts) = q
  BY <1>1, <1>2 DEF CreateQuery, AnchorQuery
<1>4. id \in Hits(q)
  <2>1. lri[id][q.by] = lri[id].anchors
    BY <1>1
  <2> QED
    BY <1>1, <2>1 DEF Hits
<1> QED
  BY <1>1, <1>3, <1>4 DEF Searches, Queries

(* What each kind of listing answers lists what its search finds. *)
LEMMA FoundListed ==
  ASSUME NEW l, NEW q, NEW id, Searches(l, q, id), Cardinality(Hits(q)) <= Limit(l[1]),
         \/ l[1] \in {"initiatives", "frameworks", "learning_resources", "competency_containers",
                      "competencys", "anchor_standards"}
         \/ l[1] = "sets" /\ "set" \in lri[id].types
         \/ l[1] = "grade_levels" /\ "grade_level" \in lri[id].types
         \/ l[1] = "competency_paths" /\ q = OfType("competency_path"),
         NEW a \in Answers(l[1], l[2])
  PROVE  Lists(a, id)
<1>1. a = Answer(l[1], l[2], q, Hits(q)) /\ id \in Hits(q)
  BY OnePage DEF Searches
<1>2. CASE l[1] \in {"initiatives", "frameworks", "learning_resources", "competency_containers",
                     "competencys", "anchor_standards"}
  BY <1>1, <1>2, PlainListing
<1>3. CASE l[1] = "sets" /\ "set" \in lri[id].types
  BY <1>1, <1>3, SetListing
<1>4. CASE l[1] = "grade_levels" /\ "grade_level" \in lri[id].types
  BY <1>1, <1>4, GradeListing
<1>5. CASE l[1] = "competency_paths" /\ q = OfType("competency_path")
  <2>1. ~q.deep /\ q.by = "types" /\ q.value = "competency_path"
    BY <1>5 DEF OfType, Search
  <2>2. \A f \in Hits(q) : "competency_path" \in lri[f].types
    BY <2>1 DEF Hits
  <2> QED
    BY <1>1, <1>5, <2>1, <2>2, PathListing
<1> QED
  BY <1>2, <1>3, <1>4, <1>5

(* The listings of an entity, each with the search it makes. *)
LEMMA ListingSearch ==
  ASSUME CInv, NEW id \in DOMAIN lri, NEW l \in Listings(lri[id])
  PROVE  \E q :
           /\ Searches(l, q, id)
           /\ \/ l[1] \in {"initiatives", "frameworks", "learning_resources", "competency_containers",
                           "competencys", "anchor_standards"}
              \/ l[1] = "sets" /\ "set" \in lri[id].types
              \/ l[1] = "grade_levels" /\ "grade_level" \in lri[id].types
              \/ l[1] = "competency_paths" /\ q = OfType("competency_path")
<1> PICK e : e = lri[id]
  OBVIOUS
<1>0. \/ "initiative" \in e.types /\ l = <<"initiatives", Everywhere>>
      \/ /\ "framework" \in e.types
         /\ l = <<"frameworks", Everywhere>> \/ l \in ListedUnder("frameworks", "initiative", e)
      \/ /\ "set" \in e.types
         /\ l = <<"sets", Everywhere>> \/ l \in ListedUnder("sets", "framework", e)
      \/ /\ "grade_level" \in e.types
         /\ l = <<"grade_levels", Everywhere>> \/ l \in ListedUnder("grade_levels", "set", e)
      \/ /\ "learning_resource" \in e.types
         /\ \/ l = <<"learning_resources", Everywhere>>
            \/ \E c \in e.teaches \cap DOMAIN lri : l = <<"learning_resources", [competency |-> c]>>
      \/ "competency_path" \in e.types /\ l = <<"competency_paths", Everywhere>>
      \/ /\ "anchor_standard" \in e.types
         /\ \/ l = <<"anchor_standards", Everywhere>>
            \/ \E c \in e.anchors \cap DOMAIN lri : l = <<"anchor_standards", [standard |-> c]>>
      \/ l \in ListedUnder("competency_containers", "parent", e)
      \/ l \in ListedUnder("competencys", "parent", e)
  BY DEF Listings
<1> HIDE DEF ListedUnder
<1>1. CASE "initiative" \in e.types /\ l = <<"initiatives", Everywhere>>
  <2>1. Searches(<<"initiatives", Everywhere>>, OfType("initiative"), id)
    BY <1>1, TypeSearch DEF Kinds
  <2> QED
    BY <1>1, <2>1
<1>2. CASE "framework" \in e.types /\ l = <<"frameworks", Everywhere>>
  <2>1. Searches(<<"frameworks", Everywhere>>, OfType("framework"), id)
    BY <1>2, TypeSearch DEF Kinds
  <2> QED
    BY <1>2, <2>1
<1>3. CASE l \in ListedUnder("frameworks", "initiative", e)
  <2>1. l[1] = "frameworks" /\ \E q : Searches(l, q, id)
    BY <1>3, ParentSearch DEF UnderOption
  <2> QED
    BY <1>3, <2>1
<1>4. CASE "set" \in e.types /\ l = <<"sets", Everywhere>>
  <2>1. Searches(<<"sets", Everywhere>>, OfType("set"), id)
    BY <1>4, TypeSearch DEF Kinds
  <2> QED
    BY <1>4, <2>1
<1>5. CASE "set" \in e.types /\ l \in ListedUnder("sets", "framework", e)
  <2>1. l[1] = "sets" /\ \E q : Searches(l, q, id)
    BY <1>5, ParentSearch DEF UnderOption
  <2> QED
    BY <1>5, <2>1
<1>6. CASE "grade_level" \in e.types /\ l = <<"grade_levels", Everywhere>>
  <2>1. Searches(<<"grade_levels", Everywhere>>, OfType("grade_level"), id)
    BY <1>6, TypeSearch DEF Kinds
  <2> QED
    BY <1>6, <2>1
<1>7. CASE "grade_level" \in e.types /\ l \in ListedUnder("grade_levels", "set", e)
  <2>1. l[1] = "grade_levels" /\ \E q : Searches(l, q, id)
    BY <1>7, ParentSearch DEF UnderOption
  <2> QED
    BY <1>7, <2>1
<1>8. CASE "learning_resource" \in e.types /\ l = <<"learning_resources", Everywhere>>
  <2>1. Searches(<<"learning_resources", Everywhere>>, OfType("learning_resource"), id)
    BY <1>8, TypeSearch DEF Kinds
  <2> QED
    BY <1>8, <2>1
<1>9. CASE \E c \in e.teaches \cap DOMAIN lri : l = <<"learning_resources", [competency |-> c]>>
  <2> PICK c \in e.teaches \cap DOMAIN lri : l = <<"learning_resources", [competency |-> c]>>
    BY <1>9
  <2>1. Searches(l, Search("teaches", c), id)
    BY TeachesSearch
  <2> QED
    BY <2>1
<1>10. CASE "competency_path" \in e.types /\ l = <<"competency_paths", Everywhere>>
  <2>1. Searches(<<"competency_paths", Everywhere>>, OfType("competency_path"), id)
    BY <1>10, TypeSearch DEF Kinds
  <2> QED
    BY <1>10, <2>1
<1>11. CASE l \in ListedUnder("competency_containers", "parent", e)
  <2>1. l[1] = "competency_containers" /\ \E q : Searches(l, q, id)
    BY <1>11, ParentSearch DEF UnderOption
  <2> QED
    BY <1>11, <2>1
<1>12. CASE l \in ListedUnder("competencys", "parent", e)
  <2>1. l[1] = "competencys" /\ \E q : Searches(l, q, id)
    BY <1>12, ParentSearch DEF UnderOption
  <2> QED
    BY <1>12, <2>1
<1>13. CASE "anchor_standard" \in e.types /\ l = <<"anchor_standards", Everywhere>>
  <2>1. Searches(<<"anchor_standards", Everywhere>>, OfType("anchor_standard"), id)
    BY <1>13, TypeSearch DEF Kinds
  <2> QED
    BY <1>13, <2>1
<1>14. CASE \E c \in e.anchors \cap DOMAIN lri : l = <<"anchor_standards", [standard |-> c]>>
  <2> PICK c \in e.anchors \cap DOMAIN lri : l = <<"anchor_standards", [standard |-> c]>>
    BY <1>14
  <2>1. Searches(l, Search("anchors", c), id)
    BY AnchorsSearch
  <2> QED
    BY <2>1
<1> QED
  BY <1>0, <1>1, <1>2, <1>3, <1>4, <1>5, <1>6, <1>7, <1>8, <1>9, <1>10, <1>11, <1>12, <1>13, <1>14

LEMMA FoundKept ==
  ASSUME CInv
  PROVE  ImportedIsFound
<1> SUFFICES ASSUME NEW id \in DOMAIN lri, NEW l \in Listings(lri[id]),
                    Cardinality(Hits(CreateQuery(l[1], l[2]))) <= Limit(l[1]),
                    NEW a \in Answers(l[1], l[2])
             PROVE  Lists(a, id)
  BY DEF ImportedIsFound, Lists
<1>1. PICK q :
        /\ Searches(l, q, id)
        /\ \/ l[1] \in {"initiatives", "frameworks", "learning_resources", "competency_containers",
                        "competencys", "anchor_standards"}
           \/ l[1] = "sets" /\ "set" \in lri[id].types
           \/ l[1] = "grade_levels" /\ "grade_level" \in lri[id].types
           \/ l[1] = "competency_paths" /\ q = OfType("competency_path")
  BY ListingSearch
<1>2. Cardinality(Hits(q)) <= Limit(l[1])
  BY <1>1 DEF Searches
<1> QED
  BY <1>1, <1>2, FoundListed

(* Every entity the LRI holds, from a document or from the loaders, is in the *)
(* answer to the GET for its kind and to that for each of its parents the LRI *)
(* holds too, whichever came first and on whichever side the link was written, *)
(* when the list fits on a page (lridb.py 718-731, ccss.py 437-640).          *)
THEOREM ImportedAlwaysFound ==
  Spec => []ImportedIsFound
<1>1. CInv => ImportedIsFound
  BY FoundKept
<1> QED
  BY <1>1, CInvHolds, PTL

-----------------------------------------------------------------------------
(* The order in which the steps of a path are read. *)

(* The first m steps of the path of POST n. *)
Steady(n, m) == [i \in 1 .. m |-> SId(n, i)]

(* Steps of a chain, each of which follows the one before it. *)
Linked(n, K, s) ==
  /\ IsSeq(s)
  /\ \A i \in 1 .. Len(s) : \E j \in 1 .. K :
       s[i] = SId(n, j) /\ lri[s[i]].previous = IF j = 1 THEN {} ELSE {SId(n, j - 1)}
  /\ \A i, j \in 1 .. Len(s) : i # j => s[i] # s[j]

LEMMA SteadyIs ==
  ASSUME NEW n, NEW m \in Nat
  PROVE  /\ IsSeq(Steady(n, m)) /\ Len(Steady(n, m)) = m
         /\ ToSet(Steady(n, m)) = {SId(n, i) : i \in 1 .. m}
         /\ \A i \in 1 .. m : Steady(n, m)[i] = SId(n, i)
<1> PICK s : s = Steady(n, m)
  OBVIOUS
<1>1. DOMAIN s = 1 .. m /\ s = [i \in 1 .. m |-> s[i]] /\ \A i \in 1 .. m : s[i] = SId(n, i)
  BY DEF Steady
<1>2. s \in Seq({s[i] : i \in 1 .. m}) /\ Len(s) = m
  BY <1>1
<1> QED
  BY <1>1, <1>2 DEF IsSeq, ToSet

LEMMA SteadyOn ==
  ASSUME NEW n, NEW m \in Nat
  PROVE  Append(Steady(n, m), SId(n, m + 1)) = Steady(n, m + 1)
<1> PICK s, t, u, x : /\ s = Steady(n, m) /\ x = SId(n, m + 1)
                      /\ t = Append(s, x) /\ u = Steady(n, m + 1)
  OBVIOUS
<1>1. /\ IsSeq(t) /\ Len(t) = m + 1 /\ t[m + 1] = x /\ \A i \in 1 .. m : t[i] = SId(n, i)
  BY SteadyIs, Appended
<1>2. t = [i \in 1 .. m + 1 |-> t[i]]
  BY <1>1, SeqFacts
<1>3. \A i \in 1 .. m + 1 : t[i] = SId(n, i)
  BY <1>1
<1> QED
  BY <1>2, <1>3 DEF Steady

(* The first step is the one without a previous, once it has been met. *)
FirstSteps(n, s, i) == IF \E k \in 1 .. i : s[k] = SId(n, 1) THEN <<SId(n, 1)>> ELSE <<>>

FirstPut(o, x) == IF lri[x].previous = {} THEN Append(o, x) ELSE o

LEMMA FirstStep ==
  ASSUME NEW n, NEW K \in Nat, NEW s, Linked(n, K, s), NEW i \in 1 .. Len(s)
  PROVE  FirstSteps(n, s, i) = FirstPut(FirstSteps(n, s, i - 1), s[i])
<1>0. Len(s) \in Nat /\ \A k \in 1 .. Len(s) : k # i => s[k] # s[i]
  BY SeqFacts DEF Linked
<1>1. PICK j \in 1 .. K : s[i] = SId(n, j) /\ lri[s[i]].previous = IF j = 1 THEN {} ELSE {SId(n, j - 1)}
  BY DEF Linked
<1>2. CASE j = 1
  <2>1. lri[s[i]].previous = {} /\ s[i] = SId(n, 1)
    BY <1>1, <1>2
  <2>2. ~\E k \in 1 .. i - 1 : s[k] = SId(n, 1)
    BY <1>0, <2>1
  <2>3. \E k \in 1 .. i : s[k] = SId(n, 1)
    BY <2>1
  <2>4. Append(<<>>, SId(n, 1)) = <<SId(n, 1)>>
    OBVIOUS
  <2> QED
    BY <2>1, <2>2, <2>3, <2>4 DEF FirstSteps, FirstPut
<1>3. CASE j # 1
  <2>1. lri[s[i]].previous # {}
    BY <1>1, <1>3
  <2>2. s[i] # SId(n, 1)
    BY <1>1, <1>3, SameName
  <2>3. (\E k \in 1 .. i : s[k] = SId(n, 1)) <=> (\E k \in 1 .. i - 1 : s[k] = SId(n, 1))
    <3>1. \A k \in 1 .. i : k = i \/ k \in 1 .. i - 1
      BY <1>0
    <3>2. \A k \in 1 .. i - 1 : k \in 1 .. i
      BY <1>0
    <3> QED
      BY <2>2, <3>1, <3>2
  <2> QED
    BY <2>1, <2>3 DEF FirstSteps, FirstPut
<1> QED
  BY <1>2, <1>3

Firsting(f, s) == f = [i \in 0 .. Len(s) |-> IF i = 0 THEN <<>> ELSE FirstPut(f[i - 1], s[i])]

LEMMA FirstsLoop ==
  ASSUME NEW s, \E f : Firsting(f, s)
  PROVE  \E f : Firsting(f, s) /\ Firsts(s) = f[Len(s)]
BY DEF Firsts, Firsting, FirstPut

LEMMA FirstsAre ==
  ASSUME NEW n, NEW K \in Nat, NEW s, Linked(n, K, s)
  PROVE  Firsts(s) = FirstSteps(n, s, Len(s))
<1> PICK N : N = Len(s)
  OBVIOUS
<1>0. N \in Nat
  BY SeqFacts DEF Linked
<1>1. FirstSteps(n, s, 0) = <<>>
  BY DEF FirstSteps
<1>2. \E f : Firsting(f, s)
  <2> DEFINE g == [i \in 0 .. N |-> FirstSteps(n, s, i)]
  <2>1. g = [i \in 0 .. N |-> g[i]] /\ \A i \in 0 .. N : g[i] = FirstSteps(n, s, i)
    OBVIOUS
  <2> HIDE DEF g
  <2>2. ASSUME NEW i \in 0 .. N
        PROVE  g[i] = IF i = 0 THEN <<>> ELSE FirstPut(g[i - 1], s[i])
    <3>1. CASE i = 0
      BY <1>1, <2>1, <3>1
    <3>2. CASE i # 0
      <4>1. i \in 1 .. Len(s) /\ i - 1 \in 0 .. N
        BY <1>0, <3>2
      <4> QED
        BY <2>1, <3>2, <4>1, FirstStep
    <3> QED
      BY <3>1, <3>2
  <2>3. Firsting(g, s)
    BY <2>1, <2>2 DEF Firsting
  <2> QED
    BY <2>3
<1>3. PICK f : Firsting(f, s) /\ Firsts(s) = f[N]
  BY <1>2, FirstsLoop
<1>4. f[0] = <<>> /\ \A i \in 1 .. N : f[i] = FirstPut(f[i - 1], s[i])
  BY <1>0, <1>3 DEF Firsting
<1> DEFINE P == {i \in 0 .. N : f[i] = FirstSteps(n, s, i)}
<1>5. 0 \in P
  BY <1>0, <1>1, <1>4
<1>6. ASSUME NEW i \in P, i < N PROVE i + 1 \in P
  <2>1. i + 1 \in 1 .. Len(s) /\ (i + 1) - 1 = i /\ f[i] = FirstSteps(n, s, i)
    BY <1>0, <1>6
  <2>2. f[i + 1] = FirstSteps(n, s, i + 1)
    <3>1. f[i + 1] = FirstPut(f[i], s[i + 1])
      BY <1>4, <2>1
    <3>2. FirstSteps(n, s, i + 1) = FirstPut(FirstSteps(n, s, (i + 1) - 1), s[i + 1])
      BY <2>1, FirstStep
    <3> QED
      BY <2>1, <3>1, <3>2
  <2> QED
    BY <2>1, <2>2
<1>7. P = 0 .. N
  <2>1. P \subseteq 0 .. N
    OBVIOUS
  <2> HIDE DEF P
  <2> QED
    BY <1>0, <1>5, <1>6, <2>1, UpTo
<1> QED
  BY <1>0, <1>3, <1>7

(* One step of a pass over the steps of a chain. *)
PassStep(o, x) == IF Follows(o, x) THEN Append(o, x) ELSE o

PassesTo(n, K, m, x) ==
  \/ x # SId(n, m + 1) /\ PassStep(Steady(n, m), x) = Steady(n, m)
  \/ m < K /\ x = SId(n, m + 1) /\ PassStep(Steady(n, m), x) = Steady(n, m + 1)

LEMMA PassStepIs ==
  ASSUME NEW n, NEW K \in Nat, NEW s, Linked(n, K, s), NEW m \in 1 .. K, NEW i \in 1 .. Len(s)
  PROVE  PassesTo(n, K, m, s[i])
<1> PICK x, o : x = s[i] /\ o = Steady(n, m)
  OBVIOUS
<1>1. PICK j \in 1 .. K : x = SId(n, j) /\ lri[x].previous = IF j = 1 THEN {} ELSE {SId(n, j - 1)}
  BY DEF Linked
<1>2. Last(o) = SId(n, m) /\ ToSet(o) = {SId(n, k) : k \in 1 .. m}
  BY SteadyIs DEF Last
<1>3. CASE j = m + 1
  <2>1. lri[x].previous = {SId(n, m)}
    BY <1>1, <1>3
  <2>2. x \notin ToSet(o)
    <3>1. \A k \in 1 .. m : SId(n, k) # SId(n, m + 1)
      BY SameName
    <3> QED
      BY <1>1, <1>2, <1>3, <3>1
  <2>3. Append(o, x) = Steady(n, m + 1)
    <3>1. m \in Nat
      OBVIOUS
    <3>2. Append(Steady(n, m), SId(n, m + 1)) = Steady(n, m + 1)
      BY <3>1, SteadyOn
    <3> QED
      BY <1>1, <1>3, <3>2
  <2>4. Follows(o, x)
    BY <1>2, <2>1, <2>2 DEF Follows
  <2>5. PassStep(o, x) = Append(o, x)
    BY <2>4 DEF PassStep
  <2>6. x = SId(n, m + 1) /\ m < K
    BY <1>1, <1>3
  <2> QED
    BY <2>3, <2>5, <2>6 DEF PassesTo
<1>4. CASE j # m + 1
  <2>1. x # SId(n, m + 1)
    <3>1. m + 1 \in Nat \ {0} /\ j \in Nat \ {0}
      OBVIOUS
    <3>2. SId(n, j) # SId(n, m + 1)
      BY <1>4, <3>1, SameName
    <3> QED
      BY <1>1, <3>2
  <2>2. lri[x].previous # {SId(n, m)}
    <3>1. CASE j = 1
      BY <1>1, <3>1
    <3>2. CASE j # 1
      <4>1. SId(n, j - 1) # SId(n, m)
        BY <1>4, <3>2, SameName
      <4> QED
        BY <1>1, <3>2, <4>1
    <3> QED
      BY <3>1, <3>2
  <2> QED
    BY <1>2, <2>1, <2>2 DEF PassStep, Follows, PassesTo
<1> QED
  BY <1>3, <1>4

Passing(f, o, s) == f = [i \in 0 .. Len(s) |-> IF i = 0 THEN o ELSE PassStep(f[i - 1], s[i])]

LEMMA PassLoop ==
  ASSUME NEW o, NEW s, \E f : Passing(f, o, s)
  PROVE  \E f : Passing(f, o, s) /\ Pass(o, s) = f[Len(s)]
BY DEF Pass, Passing, PassStep

LEMMA PassIs ==
  ASSUME NEW n, NEW K \in Nat, NEW s, Linked(n, K, s), NEW m \in 1 .. K
  PROVE  \E q \in m .. K : /\ Pass(Steady(n, m), s) = Steady(n, q)
                           /\ SId(n, m + 1) \in ToSet(s) => q >= m + 1
<1> PICK N, o : N = Len(s) /\ o = Steady(n, m)
  OBVIOUS
<1>0. N \in Nat /\ DOMAIN s = 1 .. N
  BY SeqFacts DEF Linked
<1> DEFINE S == {Steady(n, k) : k \in 1 .. K}
           g == [p \in (1 .. N) \X S |-> PassStep(p[2], s[p[1]])]
<1>1. g \in [(1 .. N) \X S -> S]
  <2>1. ASSUME NEW i \in 1 .. N, NEW x \in S PROVE PassStep(x, s[i]) \in S
    <3>1. PICK k \in 1 .. K : x = Steady(n, k)
      OBVIOUS
    <3>2. PassStep(x, s[i]) = Steady(n, k) \/ (k < K /\ PassStep(x, s[i]) = Steady(n, k + 1))
      <4>1. \/ PassStep(Steady(n, k), s[i]) = Steady(n, k)
            \/ k < K /\ PassStep(Steady(n, k), s[i]) = Steady(n, k + 1)
        <5>1. i \in 1 .. Len(s)
          OBVIOUS
        <5>2. PassesTo(n, K, k, s[i])
          BY <5>1, PassStepIs
        <5> QED
          BY <5>2 DEF PassesTo
      <4> QED
        BY <3>1, <4>1
    <3>3. k < K => k + 1 \in 1 .. K
      OBVIOUS
    <3> QED
      BY <3>2, <3>3
  <2> HIDE DEF S
  <2> QED
    BY <2>1
<1>2. o \in S
  OBVIOUS
<1>3. \A i \in 1 .. N : \A x \in S : g[<<i, x>>] = PassStep(x, s[i])
  OBVIOUS
<1> HIDE DEF S, g
<1>4. PICK h : Goes(h, N, S, o, g)
  BY <1>0, <1>1, <1>2, Loop
<1>5. Passing(h, o, s)
  <2>1. h = [i \in 0 .. N |-> h[i]] /\ h[0] = o
    BY <1>4 DEF Goes
  <2>2. ASSUME NEW i \in 1 .. N PROVE h[i] = PassStep(h[i - 1], s[i])
    <3>1. i - 1 \in 0 .. N
      BY <1>0
    <3>2. h[i - 1] \in S /\ h[i] = g[<<i, h[i - 1]>>]
      BY <1>4, <3>1 DEF Goes
    <3> QED
      BY <1>3, <3>2
  <2>3. \A i \in 0 .. N :
          h[i] = IF i = 0 THEN o ELSE PassStep(h[i - 1], s[i])
    <3> TAKE i \in 0 .. N
    <3>1. i = 0 \/ i \in 1 .. N
      BY <1>0
    <3> QED
      BY <2>1, <2>2, <3>1
  <2> QED
    BY <2>1, <2>3 DEF Passing
<1>6. PICK f : Passing(f, o, s) /\ Pass(o, s) = f[N]
  BY <1>5, PassLoop
<1>7. f[0] = o /\ \A i \in 1 .. N : f[i] = PassStep(f[i - 1], s[i])
  BY <1>0, <1>6 DEF Passing
<1> DEFINE At(i, q) == f[i] = Steady(n, q) /\ ((\E k \in 1 .. i : s[k] = SId(n, m + 1)) => q >= m + 1)
           P == {i \in 0 .. N : \E q \in m .. K : At(i, q)}
<1>8. 0 \in P
  BY <1>0, <1>7
<1>9. ASSUME NEW i \in P, i < N PROVE i + 1 \in P
  <2>1. PICK q \in m .. K : At(i, q)
    OBVIOUS
  <2>2. i \in 0 .. N /\ i + 1 \in 1 .. Len(s) /\ (i + 1) - 1 = i /\ q \in 1 .. K
    BY <1>0, <1>9
  <2>3. f[i + 1] = PassStep(Steady(n, q), s[i + 1])
    BY <1>7, <2>1, <2>2
  <2>4. \A k \in 1 .. i + 1 : k \in 1 .. i \/ k = i + 1
    BY <2>2
  <2>5. CASE s[i + 1] # SId(n, q + 1) /\ PassStep(Steady(n, q), s[i + 1]) = Steady(n, q)
    <3>1. s[i + 1] = SId(n, m + 1) => q # m
      BY <2>5
    <3>2. At(i + 1, q)
      BY <2>1, <2>3, <2>4, <2>5, <3>1
    <3> QED
      BY <2>2, <3>2
  <2>6. CASE q < K /\ PassStep(Steady(n, q), s[i + 1]) = Steady(n, q + 1)
    <3>1. q + 1 \in m .. K /\ q + 1 >= m + 1
      BY <2>6
    <3>2. At(i + 1, q + 1)
      BY <2>3, <2>6, <3>1
    <3> QED
      BY <2>2, <3>1, <3>2
  <2>7. \/ s[i + 1] # SId(n, q + 1) /\ PassStep(Steady(n, q), s[i + 1]) = Steady(n, q)
        \/ q < K /\ PassStep(Steady(n, q), s[i + 1]) = Steady(n, q + 1)
    <3>1. PassesTo(n, K, q, s[i + 1])
      BY <2>2, PassStepIs
    <3> QED
      BY <3>1 DEF PassesTo
  <2> QED
    BY <2>5, <2>6, <2>7
<1>10. P = 0 .. N
  <2>1. P \subseteq 0 .. N
    OBVIOUS
  <2> HIDE DEF P
  <2> QED
    BY <1>0, <1>8, <1>9, <2>1, UpTo
<1>11. PICK q \in m .. K : At(N, q)
  BY <1>0, <1>10
<1> QED
  BY <1>0, <1>6, <1>11 DEF ToSet

Sorting(f, s) == f = [i \in 0 .. Len(s) |-> IF i = 0 THEN Firsts(s) ELSE Pass(f[i - 1], s)]

LEMMA SortLoop ==
  ASSUME NEW s, \E f : Sorting(f, s)
  PROVE  \E f : Sorting(f, s) /\ SortByPrevious(s) = f[Len(s)]
BY DEF SortByPrevious, Sorting

(* The steps are sorted into the beginning of the path, and into all of it    *)
(* when they are all there.                                                   *)
LEMMA SortIs ==
  ASSUME NEW n, NEW K \in Nat, NEW s, Linked(n, K, s), SId(n, 1) \in ToSet(s)
  PROVE  \E q \in 1 .. K : /\ SortByPrevious(s) = Steady(n, q)
                           /\ ToSet(s) = {SId(n, j) : j \in 1 .. K} /\ Len(s) = K => q = K
<1> PICK N : N = Len(s)
  OBVIOUS
<1>0. N \in Nat /\ DOMAIN s = 1 .. N
  BY SeqFacts DEF Linked
<1>1. K >= 1
  <2>1. PICK i \in 1 .. N : s[i] = SId(n, 1)
    BY <1>0 DEF ToSet
  <2>2. PICK j \in 1 .. K : s[i] = SId(n, j)
    BY <2>1 DEF Linked
  <2> QED
    BY <2>2
<1>2. Firsts(s) = Steady(n, 1)
  <2>1. Firsts(s) = <<SId(n, 1)>>
    BY <1>0, FirstsAre DEF FirstSteps, ToSet
  <2>2. Steady(n, 1) = <<SId(n, 1)>>
    BY DEF Steady
  <2> QED
    BY <2>1, <2>2
<1> DEFINE S == {Steady(n, k) : k \in 1 .. K}
           g == [p \in (1 .. N) \X S |-> Pass(p[2], s)]
<1>3. g \in [(1 .. N) \X S -> S]
  <2>1. ASSUME NEW x \in S PROVE Pass(x, s) \in S
    <3>1. PICK k \in 1 .. K : x = Steady(n, k)
      OBVIOUS
    <3>2. PICK q \in k .. K : Pass(x, s) = Steady(n, q)
      BY <3>1, PassIs
    <3> QED
      BY <3>2
  <2> HIDE DEF S
  <2> QED
    BY <2>1
<1>4. Steady(n, 1) \in S
  BY <1>1
<1>5. \A i \in 1 .. N : \A x \in S : g[<<i, x>>] = Pass(x, s)
  OBVIOUS
<1> HIDE DEF S, g
<1>6. PICK h : Goes(h, N, S, Steady(n, 1), g)
  BY <1>0, <1>3, <1>4, Loop
<1>7. Sorting(h, s)
  <2>1. h = [i \in 0 .. N |-> h[i]] /\ h[0] = Steady(n, 1)
    BY <1>6 DEF Goes
  <2>2. ASSUME NEW i \in 1 .. N PROVE h[i] = Pass(h[i - 1], s)
    <3>1. i - 1 \in 0 .. N
      BY <1>0
    <3>2. h[i - 1] \in S /\ h[i] = g[<<i, h[i - 1]>>]
      BY <1>6, <3>1 DEF Goes
    <3> QED
      BY <1>5, <3>2
  <2>3. \A i \in 0 .. N : h[i] = IF i = 0 THEN Firsts(s) ELSE Pass(h[i - 1], s)
    <3> TAKE i \in 0 .. N
    <3>1. i = 0 \/ i \in 1 .. N
      BY <1>0
    <3> QED
      BY <1>2, <2>1, <2>2, <3>1
  <2> QED
    BY <2>1, <2>3 DEF Sorting
<1>8. PICK f : Sorting(f, s) /\ SortByPrevious(s) = f[N]
  BY <1>7, SortLoop
<1>9. f[0] = Steady(n, 1) /\ \A i \in 1 .. N : f[i] = Pass(f[i - 1], s)
  BY <1>0, <1>2, <1>8 DEF Sorting
<1> DEFINE All == ToSet(s) = {SId(n, j) : j \in 1 .. K}
           At(i, q) == f[i] = Steady(n, q) /\ (All => q >= i + 1 \/ q = K)
           P == {i \in 0 .. N : \E q \in 1 .. K : At(i, q)}
<1>10. 0 \in P
  <2>1. 1 \in 1 .. K /\ At(0, 1)
    BY <1>1, <1>9
  <2> QED
    BY <1>0, <2>1
<1>11. ASSUME NEW i \in P, i < N PROVE i + 1 \in P
  <2>1. PICK q \in 1 .. K : At(i, q)
    OBVIOUS
  <2>2. i \in 0 .. N /\ i + 1 \in 1 .. N /\ (i + 1) - 1 = i
    BY <1>0, <1>11
  <2>3. f[i + 1] = Pass(Steady(n, q), s)
    BY <1>9, <2>1, <2>2
  <2>4. PICK r \in q .. K : /\ Pass(Steady(n, q), s) = Steady(n, r)
                            /\ SId(n, q + 1) \in ToSet(s) => r >= q + 1
    BY PassIs
  <2>5. All /\ q # K => SId(n, q + 1) \in ToSet(s)
    OBVIOUS
  <2>6. At(i + 1, r)
    <3> HIDE DEF All
    <3>1. All => q >= i + 1 \/ q = K
      BY <2>1
    <3>2. All => r >= i + 2 \/ r = K
      BY <2>2, <2>4, <2>5, <3>1
    <3>3. (i + 1) + 1 = i + 2
      BY <2>2
    <3>4. f[i + 1] = Steady(n, r)
      BY <2>3, <2>4
    <3>5. All => r >= (i + 1) + 1 \/ r = K
      BY <3>2, <3>3
    <3> QED
      BY <3>4, <3>5
  <2>7. r \in 1 .. K
    BY <1>0, <2>4
  <2> HIDE DEF At
  <2> QED
    BY <2>2, <2>6, <2>7
<1>12. P = 0 .. N
  <2>1. P \subseteq 0 .. N
    OBVIOUS
  <2> HIDE DEF P
  <2> QED
    BY <1>0, <1>10, <1>11, <2>1, UpTo
<1>13. PICK q \in 1 .. K : At(N, q)
  BY <1>0, <1>12
<1> QED
  BY <1>0, <1>8, <1>13

LEMMA SortEmpty ==
  ASSUME NEW n, NEW K \in Nat, NEW s, Linked(n, K, s), Len(s) = 0
  PROVE  SortByPrevious(s) = Steady(n, 0)
<1>1. Firsts(s) = <<>>
  <2>1. Firsts(s) = FirstSteps(n, s, 0)
    BY FirstsAre
  <2> QED
    BY <2>1 DEF FirstSteps
<1>2. Sorting([i \in 0 .. 0 |-> Firsts(s)], s)
  BY DEF Sorting
<1>3. PICK f : Sorting(f, s) /\ SortByPrevious(s) = f[0]
  BY <1>2, SortLoop
<1>4. f[0] = <<>>
  BY <1>1, <1>3 DEF Sorting
<1>5. Steady(n, 0) = <<>>
  BY DEF Steady
<1> QED
  BY <1>3, <1>4, <1>5

-----------------------------------------------------------------------------
(* A chain that is stored. *)

LEMMA SameStep ==
  ASSUME NEW n, NEW K \in Nat, NEW i \in 1 .. K, NEW j \in 1 .. K, SId(n, i) = SId(n, j)
  PROVE  i = j
<1>1. i \in Nat \ {0} /\ j \in Nat \ {0}
  OBVIOUS
<1> QED
  BY <1>1, SameName

Prior(n, j) == IF j = 1 THEN {} ELSE {SId(n, j - 1)}

LEMMA BeforeIs ==
  ASSUME NEW n, NEW d, Chain(d), NEW w, NEW K \in Nat, K = Len(d.steps), Mirrors(n, d, w, K),
         IsSeq(w.steps), \A j \in 1 .. K : d.steps[j].orderId # None, NEW j \in 1 .. K
  PROVE  Before(w, SId(n, j)) = Prior(n, j)
<1> PICK s, id : s = w.steps /\ id = SId(n, j)
  OBVIOUS
<1>1. /\ Len(s) = K /\ DOMAIN s = 1 .. K
      /\ \A i \in 1 .. K : /\ s[i].orderId = d.steps[i].orderId
                           /\ s[i].previous = d.steps[i].previous /\ s[i].id = SId(n, i)
  <2>1. Len(s) = K /\ DOMAIN s = 1 .. K
    BY SeqFacts DEF Mirrors
  <2>2. ASSUME NEW i \in 1 .. K
        PROVE  /\ s[i].orderId = d.steps[i].orderId
               /\ s[i].previous = d.steps[i].previous /\ s[i].id = SId(n, i)
    <3>1. s[i] = [orderId |-> d.steps[i].orderId, previous |-> d.steps[i].previous, id |-> SId(n, i)]
      BY DEF Mirrors
    <3> QED
      BY <3>1
  <2> QED
    BY <2>1, <2>2
<1> PICK step : step = StepOf(w, id)
  OBVIOUS
<1>2. step = s[j]
  <2>1. s[j] \in ToSet(s) /\ s[j].id = id
    BY <1>1 DEF ToSet
  <2>2. step \in ToSet(s) /\ step.id = id
    BY <2>1 DEF StepOf
  <2>3. PICK i \in 1 .. K : step = s[i]
    BY <1>1, <2>2 DEF ToSet
  <2>4. SId(n, i) = SId(n, j)
    BY <1>1, <2>2, <2>3
  <2>5. i = j
    BY <2>4, SameStep
  <2> QED
    BY <2>3, <2>5
<1>3. CASE j = 1
  <2>1. step.previous = None
    BY <1>1, <1>2, <1>3 DEF Chain
  <2> QED
    BY <1>3, <2>1 DEF Before, Prior
<1>4. CASE j # 1
  <2>0. j - 1 \in 1 .. K /\ j - 1 \in 1 .. j - 1
    BY <1>4
  <2>1. step.previous = d.steps[j - 1].orderId /\ step.previous # None
    <3>1. d.steps[j].previous = d.steps[j - 1].orderId
      BY <1>4 DEF Chain
    <3>2. step.previous = d.steps[j].previous
      BY <1>1, <1>2
    <3> QED
      BY <2>0, <3>1, <3>2
  <2>2. {i \in 1 .. Len(s) : s[i].id # id /\ s[i].orderId = step.previous} = {j - 1}
    <3>1. s[j - 1].id # id /\ s[j - 1].orderId = step.previous
      <4>1. SId(n, j - 1) # SId(n, j)
        <5> SUFFICES ASSUME SId(n, j - 1) = SId(n, j) PROVE FALSE
          OBVIOUS
        <5>1. j - 1 = j
          BY <2>0, SameStep
        <5> QED
          BY <5>1
      <4> QED
        BY <1>1, <2>0, <2>1, <4>1
    <3>2. ASSUME NEW i \in 1 .. K, s[i].orderId = step.previous PROVE i = j - 1
      <4>1. d.steps[i].orderId = d.steps[j - 1].orderId
        BY <1>1, <2>1, <3>2
      <4>2. CASE i < j - 1
        <5>1. i \in 1 .. (j - 1) - 1
          BY <4>2
        <5> QED
          BY <2>0, <4>1, <5>1 DEF Chain
      <4>3. CASE i > j - 1
        <5>1. j - 1 \in 1 .. i - 1
          BY <2>0, <4>3
        <5> QED
          BY <4>1, <5>1 DEF Chain
      <4> QED
        BY <4>2, <4>3
    <3> QED
      BY <1>1, <2>0, <3>1, <3>2
  <2>3. Max({j - 1}) = j - 1
    BY <2>0 DEF Max
  <2>4. Before(w, id) = {s[j - 1].id}
    <3>1. Others(w, id, step.previous) = {j - 1}
      BY <2>2 DEF Others
    <3> QED
      BY <2>1, <2>3, <3>1 DEF Before
  <2> QED
    BY <1>1, <1>4, <2>0, <2>4 DEF Prior
<1> QED
  BY <1>3, <1>4

(* What is known of a chain that is stored. *)
ChainAt(n, d, K) ==
  /\ K \in Nat /\ K >= 1 /\ K = Len(d.steps) /\ IsName(d.id) /\ d.id \in DOMAIN lri
  /\ PathIs(n, d, lri[d.id], {SId(n, j) : j \in 1 .. K})
  /\ Mirrors(n, d, Walked(n, d), K)
  /\ \A j \in 1 .. K : SId(n, j) \in There(n) /\ CId(n, j) \in There(n)

StepAt(n, j) ==
  SId(n, j) \in DOMAIN lri =>
    /\ lri[SId(n, j)].previous = Prior(n, j)
    /\ lri[SId(n, j)].competency_in_path = {CId(n, j)}

ContainerAt(n, d, j) ==
  CId(n, j) \in DOMAIN lri =>
    lri[CId(n, j)].contains = d.steps[j].competencies /\ lri[CId(n, j)].path_step = {}

LEMMA ChainOwned ==
  ASSUME CInv, NEW n \in StoredChains, NEW d, d = post[n].doc
  PROVE  /\ n \in Posts /\ d \in Docs /\ Creates(d) /\ Chain(d) /\ d.type = "competency_path"
         /\ d.id \in DOMAIN lri /\ AskedBy(d.id, n)
<1>1. n \in Posts /\ Chain(d) /\ d.id \in DOMAIN lri /\ lri[d.id].by = n
  BY DEF StoredChains
<1>2. AskedBy(d.id, n) /\ d \in Docs
  BY <1>1, OwnerIs
<1> QED
  BY <1>1, <1>2 DEF AskedBy, Chain

LEMMA ChainIs ==
  ASSUME CInv, NEW n \in StoredChains, NEW d, d = post[n].doc
  PROVE  ChainAt(n, d, Len(d.steps))
<1> PICK w, K, ins, L : w = Walked(n, d) /\ K = Len(d.steps) /\ ins = Ins(n) /\ L = Len(w.steps)
  OBVIOUS
<1>1. /\ n \in Posts /\ d \in Docs /\ Creates(d) /\ Chain(d) /\ d.type = "competency_path"
      /\ d.id \in DOMAIN lri /\ AskedBy(d.id, n)
  BY ChainOwned
<1>2. ins = Inserts(n, d)
  BY DEF Ins
<1>3. K \in Nat /\ IsName(d.id) /\ PathAt(n, d, w, ins, L)
  BY <1>1, <1>2, PathCreated
<1>4. Mirrors(n, d, w, K) /\ L = K
  <2>1. Mirrors(n, d, w, K)
    BY <1>1, <1>3, ChainWalked
  <2> QED
    BY <2>1 DEF Mirrors
<1>5. PICK i \in 1 .. Len(ins) : lri[d.id] = ins[i] /\ d.id = ins[i].id /\ Asked(n, i - 1)
  BY <1>1 DEF AskedBy
<1>6. i = 2 * K + 1
  <2>1. Len(ins) = 2 * K + 1
    BY <1>3, <1>4 DEF PathAt
  <2>2. ASSUME NEW j \in 1 .. K, i = 2 * j - 1 \/ i = 2 * j PROVE FALSE
    <3>1. ins[i].id = CId(n, j) \/ ins[i].id = SId(n, j)
      BY <1>3, <1>4, <2>2 DEF PathAt, ContainerIs, StepIs
    <3>2. CId(n, j) \in Made /\ SId(n, j) \in Made
      BY <1>1, <1>3, Names
    <3> QED
      BY <1>3, <1>5, <3>1, <3>2 DEF IsName
  <2>3. i = 2 * K + 1 \/ \E j \in 1 .. K : i = 2 * j - 1 \/ i = 2 * j
    BY <1>3, <2>1, Numbered
  <2> QED
    BY <2>2, <2>3
<1>7. PathIs(n, d, lri[d.id], {SId(n, j) : j \in 1 .. K})
  BY <1>3, <1>4, <1>5, <1>6 DEF PathAt
<1>8. ASSUME NEW j \in 1 .. K PROVE SId(n, j) \in There(n) /\ CId(n, j) \in There(n)
  <2>1. 2 * j - 1 \in 1 .. i - 1 /\ 2 * j \in 1 .. i - 1
    BY <1>3, <1>6
  <2>2. ins[2 * j - 1].id = CId(n, j) /\ ins[2 * j].id = SId(n, j)
    BY <1>3, <1>4 DEF PathAt, ContainerIs, StepIs
  <2>3. ins[2 * j - 1].id \in There(n) /\ ins[2 * j].id \in There(n)
    BY <1>5, <2>1 DEF Asked
  <2> QED
    BY <2>2, <2>3
<1>9. K >= 1
  <2>1. d.steps \in Seq(ToSet(d.steps))
    BY <1>1, DocsAssumption DEF Creates
  <2>2. d.steps # <<>>
    BY <1>1 DEF Chain
  <2> QED
    BY <2>1, <2>2
<1> QED
  BY <1>1, <1>3, <1>4, <1>7, <1>8, <1>9 DEF ChainAt

LEMMA MadeBy ==
  ASSUME CInv, NEW n \in Posts, NEW k \in Nat \ {0}, NEW x \in DOMAIN lri,
         x = SId(n, k) \/ x = CId(n, k)
  PROVE  /\ x = SId(n, k) => lri[x] = Ins(n)[2 * k]
         /\ x = CId(n, k) => lri[x] = Ins(n)[2 * k - 1]
<1>1. x \in Made
  BY Names
<1>2. ~(x \in DOMAIN Loaded)
  BY <1>1, LoadedAssumption DEF IsName
<1>3. PICK m \in Posts : AskedBy(x, m)
  BY <1>2 DEF CInv, Held
<1>4. PICK i \in 1 .. Len(Ins(m)) : lri[x] = Ins(m)[i] /\ x = Ins(m)[i].id
  BY <1>3 DEF AskedBy
<1>5. post[m].doc \in Docs /\ Creates(post[m].doc)
  BY <1>3 DEF AskedBy, CInv, PostOK
<1>6. /\ Ins(m)[i].id = SId(n, k) => m = n /\ i = 2 * k
      /\ Ins(m)[i].id = CId(n, k) => m = n /\ i = 2 * k - 1
  BY <1>5, WhoseName DEF Ins
<1> QED
  BY <1>4, <1>6

LEMMA ChainSteps ==
  ASSUME CInv, NEW n \in StoredChains, NEW d, d = post[n].doc, NEW j \in 1 .. Len(d.steps)
  PROVE  StepAt(n, j) /\ ContainerAt(n, d, j)
<1> PICK w, K, ins : w = Walked(n, d) /\ K = Len(d.steps) /\ ins = Ins(n)
  OBVIOUS
<1>1. /\ n \in Posts /\ d \in Docs /\ Creates(d) /\ Chain(d) /\ d.type = "competency_path"
  BY ChainOwned
<1>2. ins = Inserts(n, d)
  BY DEF Ins
<1>3. K \in Nat /\ Mirrors(n, d, w, K)
  BY ChainIs DEF ChainAt
<1>4. PathAt(n, d, w, ins, K)
  <2>1. PathAt(n, d, w, ins, Len(w.steps))
    BY <1>1, <1>2, PathCreated
  <2> QED
    BY <1>3, <2>1 DEF Mirrors
<1>5. StepIs(n, ins[2 * j], j, Before(w, SId(n, j))) /\ ins[2 * j - 1] = w.queries[2 * j - 1]
  BY <1>4 DEF PathAt
<1>6. Before(w, SId(n, j)) = Prior(n, j)
  <2>1. \A i \in 1 .. K : d.steps[i].orderId # None
    <3>1. /\ d.steps \in Seq(ToSet(d.steps))
          /\ \A step \in ToSet(d.steps) : step.orderId # None
      BY <1>1, DocsAssumption DEF Creates
    <3>2. \A i \in 1 .. K : d.steps[i] \in ToSet(d.steps)
      BY <3>1 DEF ToSet
    <3> QED
      BY <3>1, <3>2
  <2>2. IsSeq(w.steps)
    BY <1>3, WalkedOK DEF WalkOK
  <2> QED
    BY <1>1, <1>3, <2>1, <2>2, BeforeIs
<1>7. w.queries[2 * j - 1] = MakeContainer(n, CId(n, j), d.steps[j].competencies)
  BY <1>3 DEF Mirrors
<1>8. StepAt(n, j)
  <2> SUFFICES ASSUME SId(n, j) \in DOMAIN lri
               PROVE  /\ lri[SId(n, j)].previous = Prior(n, j)
                      /\ lri[SId(n, j)].competency_in_path = {CId(n, j)}
    BY DEF StepAt
  <2>1. lri[SId(n, j)] = ins[2 * j]
    BY <1>1, <1>3, MadeBy
  <2> QED
    BY <1>5, <1>6, <2>1 DEF StepIs
<1>9. ContainerAt(n, d, j)
  <2> SUFFICES ASSUME CId(n, j) \in DOMAIN lri
               PROVE  /\ lri[CId(n, j)].contains = d.steps[j].competencies
                      /\ lri[CId(n, j)].path_step = {}
    BY DEF ContainerAt
  <2>1. lri[CId(n, j)] = MakeContainer(n, CId(n, j), d.steps[j].competencies)
    BY <1>1, <1>3, <1>5, <1>7, MadeBy
  <2> QED
    BY <2>1, ContainerMade DEF ContainerIs
<1> QED
  BY <1>8, <1>9

-----------------------------------------------------------------------------
(* What is read of a chain that is stored. *)

AllSteps(n, K) == {SId(n, j) : j \in 1 .. K}

LEMMA StepsFinite ==
  ASSUME NEW n, NEW K \in Nat, NEW T \in SUBSET AllSteps(n, K)
  PROVE  IsFiniteSet(T) /\ Cardinality(T) \in Nat /\ (T = AllSteps(n, K) => Cardinality(T) = K)
<1> PICK f, A : f = [j \in 1 .. K |-> SId(n, j)] /\ A = AllSteps(n, K)
  OBVIOUS
<1>1. f \in Surjection(1 .. K, A)
  BY DEF Surjection, AllSteps
<1>2. f \in Injection(1 .. K, A)
  <2>1. ASSUME NEW i \in 1 .. K, NEW j \in 1 .. K, f[i] = f[j] PROVE i = j
    BY <2>1, SameStep
  <2> QED
    BY <2>1 DEF Injection, IsInjective, AllSteps
<1>3. IsFiniteSet(1 .. K) /\ Cardinality(1 .. K) = K
  BY FS_Interval
<1>4. IsFiniteSet(A) /\ (Cardinality(A) = Cardinality(1 .. K) <=> f \in Injection(1 .. K, A))
  BY <1>1, <1>3, FS_Surjection
<1>5. Cardinality(A) = K
  BY <1>2, <1>3, <1>4
<1>6. IsFiniteSet(T)
  BY <1>4, FS_Subset
<1>7. Cardinality(T) \in Nat
  BY <1>6, FS_CardinalityType
<1> QED
  BY <1>5, <1>6, <1>7

LEMMA OrderedAll ==
  ASSUME NEW T, IsFiniteSet(T), Cardinality(T) \in Nat, NEW s \in SetToSeqs(T)
  PROVE  /\ IsSeq(s) /\ Len(s) = Cardinality(T) /\ ToSet(s) = T
         /\ \A i, j \in 1 .. Len(s) : i # j => s[i] # s[j]
<1> PICK N : N = Cardinality(T)
  OBVIOUS
<1>1. s \in [1 .. N -> T] /\ \A i, j \in 1 .. N : i # j => s[i] # s[j]
  BY DEF SetToSeqs
<1>2. s \in Seq(T) /\ Len(s) = N
  BY <1>1
<1>3. s \in Injection(1 .. N, T)
  BY <1>1 DEF Injection, IsInjective
<1>4. IsFiniteSet(1 .. N) /\ Cardinality(1 .. N) = N
  BY FS_Interval
<1>5. s \in Surjection(1 .. N, T)
  BY <1>3, <1>4, FS_Injection
<1>6. ToSet(s) = T
  BY <1>1, <1>5 DEF Surjection, ToSet
<1> QED
  BY <1>1, <1>2, <1>6, SeqIn

LEMMA OneOrder ==
  ASSUME NEW T, IsFiniteSet(T)
  PROVE  SetToSeqs(T) # {} /\ SetToSeq(T) \in SetToSeqs(T)
<1> PICK N : N = Cardinality(T)
  OBVIOUS
<1>1. PICK f \in [1 .. N -> T] : IsInjective(f)
  BY FS_CardinalityType DEF ExistsBijection, Bijection, Injection
<1>2. SetToSeq(T) \in [1 .. N -> T] /\ IsInjective(SetToSeq(T))
  BY <1>1 DEF SetToSeq
<1>3. SetToSeq(T) \in SetToSeqs(T)
  BY <1>2 DEF SetToSeqs, IsInjective
<1> QED
  BY <1>3

(* The steps of a stored chain, in whatever order they are listed. *)
LEMMA StepsLinked ==
  ASSUME CInv, NEW n \in StoredChains, NEW d, d = post[n].doc, NEW K, K = Len(d.steps),
         NEW s \in SetToSeqs(Steps(d.id))
  PROVE  /\ K \in Nat /\ Linked(n, K, s) /\ ToSet(s) = Steps(d.id)
         /\ Steps(d.id) = {SId(n, j) : j \in 1 .. K} \cap DOMAIN lri
         /\ Steps(d.id) = {SId(n, j) : j \in 1 .. K} => Len(s) = K
<1> PICK T : T = Steps(d.id)
  OBVIOUS
<1>1. K \in Nat /\ PathIs(n, d, lri[d.id], {SId(n, j) : j \in 1 .. K})
  BY ChainIs DEF ChainAt
<1>2. T = {SId(n, j) : j \in 1 .. K} \cap DOMAIN lri
  BY <1>1 DEF Steps, PathIs
<1>3. /\ IsFiniteSet(T) /\ Cardinality(T) \in Nat
      /\ T = {SId(n, j) : j \in 1 .. K} => Cardinality(T) = K
  <2>1. T \in SUBSET AllSteps(n, K)
    BY <1>2 DEF AllSteps
  <2>2. IsFiniteSet(T) /\ Cardinality(T) \in Nat /\ (T = AllSteps(n, K) => Cardinality(T) = K)
    BY <1>1, <2>1, StepsFinite
  <2> QED
    BY <2>2 DEF AllSteps
<1>4. /\ IsSeq(s) /\ Len(s) = Cardinality(T) /\ ToSet(s) = T
      /\ \A i, j \in 1 .. Len(s) : i # j => s[i] # s[j]
  BY <1>3, OrderedAll
<1>5. ASSUME NEW i \in 1 .. Len(s)
      PROVE  \E j \in 1 .. K : s[i] = SId(n, j) /\ lri[s[i]].previous = Prior(n, j)
  <2>1. s[i] \in T
    BY <1>4, SeqFacts DEF ToSet
  <2>2. PICK j \in 1 .. K : s[i] = SId(n, j) /\ SId(n, j) \in DOMAIN lri
    BY <1>2, <2>1
  <2>3. StepAt(n, j)
    BY ChainSteps
  <2> QED
    BY <2>2, <2>3 DEF StepAt
<1>6. Linked(n, K, s)
  BY <1>4, <1>5 DEF Linked, Prior
<1> QED
  BY <1>1, <1>2, <1>3, <1>4, <1>6

(* What a GET of the path answers. *)
LEMMA PathAnswer ==
  ASSUME CInv, NEW n \in StoredChains, NEW d, d = post[n].doc, NEW id, id = d.id
  PROVE  Answers("competency_paths", [competency_path |-> id])
           = {IF Sortable(id) /\ Flat("competency_paths", id) THEN Listed({id}) ELSE Failed}
<1>0. PICK path, opts, q :
        /\ path = "competency_paths" /\ opts = [competency_path |-> id]
        /\ q = [Search("id", id) EXCEPT !.deep = TRUE]
  OBVIOUS
<1>1. /\ id \in DOMAIN lri /\ id # None
      /\ lri[id].types = {"thing", "competency", "competency_path"}
  BY ChainIs DEF ChainAt, PathIs, IsName
<1>2. DOMAIN opts = {"competency_path"} /\ opts.competency_path = id
  BY <1>0
<1>3. CreateQuery(path, opts) = q
  BY <1>0, <1>2 DEF CreateQuery, PathQuery
<1>4. q.by = "id" /\ q.value = id /\ q.deep
  BY <1>0 DEF Search
<1>5. Hits(q) = {id}
  BY <1>1, <1>4 DEF Hits
<1>6. Pages(path, q) = {{id}}
  <2>1. Cardinality({id}) = 1
    BY FS_Singleton
  <2>2. Cardinality(Hits(q)) <= Limit(path)
    BY <1>5, <2>1, PagesAssumption DEF Limit
  <2> QED
    BY <1>5, <2>2 DEF Pages
<1>7. Answers(path, opts) = {Answer(path, opts, q, {id})}
  <2>1. path \in Queries
    BY <1>0 DEF Queries
  <2>2. Answers(path, opts) = {Answer(path, opts, q, found) : found \in Pages(path, q)}
    BY <1>1, <1>3, <1>4, <2>1 DEF Answers
  <2> QED
    BY <1>6, <2>2
<1>8. Prune(path, q, {id}) = Listed({id})
  BY <1>0 DEF Prune
<1>9. Sort(path, q, {id}) = PathSorter(path, q, {id})
  BY <1>0, <1>1 DEF Sort, GradesAmong
<1>10. PathSorter(path, q, {id}) = IF Sortable(id) /\ Flat(path, id) THEN Listed({id}) ELSE Failed
  BY <1>1, <1>4 DEF PathSorter
<1>11. Answer(path, opts, q, {id}) = PathSorter(path, q, {id})
  <2>1. Listed({id}) # Failed /\ Listed({id}).items = {id}
    BY DEF Listed, Failed
  <2> QED
    BY <1>2, <1>8, <1>9, <2>1 DEF Answer, Filtered
<1> QED
  BY <1>0, <1>7, <1>10, <1>11

(* Some first steps of chain n, of K steps. *)
Beginning(n, K, steps) == K \in Nat /\ \E q \in 0 .. K : steps = Steady(n, q)

LEMMA ReadsBegin ==
  ASSUME CInv, NEW n \in StoredChains, NEW d, d = post[n].doc, NEW K, K = Len(d.steps),
         NEW steps \in Reads(d.id)
  PROVE  Beginning(n, K, steps)
<1> PICK id : id = d.id
  OBVIOUS
<1>0. K \in Nat
  BY ChainIs DEF ChainAt
<1>1. /\ Answers("competency_paths", [competency_path |-> id]) # {Failed}
      /\ steps \in Orders(id)
  BY DEF Reads
<1>2. PICK s \in SetToSeqs(Steps(id)) : steps = SortByPrevious(s)
  BY <1>1 DEF Orders
<1>3. Linked(n, K, s) /\ ToSet(s) = Steps(id)
  BY <1>2, StepsLinked
<1>4. CASE SId(n, 1) \in ToSet(s)
  <2>1. PICK q \in 1 .. K : SortByPrevious(s) = Steady(n, q)
    BY <1>0, <1>3, <1>4, SortIs
  <2> QED
    BY <1>0, <1>2, <2>1 DEF Beginning
<1>5. CASE SId(n, 1) \notin ToSet(s)
  <2>1. Sortable(id)
    <3>1. Sortable(id) \/ Answers("competency_paths", [competency_path |-> id]) = {Failed}
      BY PathAnswer
    <3> QED
      BY <1>1, <3>1
  <2>2. Steps(id) = {}
    <3> SUFFICES ASSUME Steps(id) # {} PROVE FALSE
      OBVIOUS
    <3> PICK t : t = SetToSeq(Steps(id))
      OBVIOUS
    <3>1. IsFiniteSet(Steps(id))
      <4> PICK T : T = Steps(id)
        OBVIOUS
      <4>1. Steps(d.id) = {SId(n, j) : j \in 1 .. K} \cap DOMAIN lri
        BY <1>2, StepsLinked
      <4>2. T \in SUBSET AllSteps(n, K)
        BY <4>1 DEF AllSteps
      <4> QED
        BY <1>0, <4>2, StepsFinite
    <3>2. t \in SetToSeqs(Steps(id))
      BY <3>1, OneOrder
    <3>3. Linked(n, K, t) /\ ToSet(t) = Steps(id)
      BY <3>2, StepsLinked
    <3>4. Firsts(t) = FirstSteps(n, t, Len(t))
      BY <1>0, <3>3, FirstsAre
    <3>5. ~\E k \in 1 .. Len(t) : t[k] = SId(n, 1)
      <4>1. DOMAIN t = 1 .. Len(t)
        BY <3>3, SeqFacts DEF Linked
      <4> QED
        BY <1>3, <1>5, <3>3, <4>1 DEF ToSet
    <3>6. Firsts(t) = <<>>
      BY <3>4, <3>5 DEF FirstSteps
    <3> QED
      BY <2>1, <3>6 DEF Sortable
  <2>3. Len(s) = 0
    <3>1. Len(s) \in Nat /\ DOMAIN s = 1 .. Len(s)
      BY <1>3, SeqFacts DEF Linked
    <3>2. \A i \in 1 .. Len(s) : s[i] \in Steps(id)
      BY <1>3, <3>1 DEF ToSet
    <3> QED
      BY <2>2, <3>1, <3>2
  <2>4. SortByPrevious(s) = Steady(n, 0)
    BY <1>0, <1>3, <2>3, SortEmpty
  <2> QED
    BY <1>0, <1>2, <2>4 DEF Beginning
<1> QED
  BY <1>4, <1>5

LEMMA SteadyPrefix ==
  ASSUME NEW n, NEW K \in Nat, NEW q \in 0 .. K
  PROVE  IsPrefix(Steady(n, q), Steady(n, K))
<1> PICK s, t : s = Steady(n, q) /\ t = Steady(n, K)
  OBVIOUS
<1>1. /\ IsSeq(s) /\ Len(s) = q /\ \A i \in 1 .. q : s[i] = SId(n, i)
      /\ IsSeq(t) /\ Len(t) = K /\ \A i \in 1 .. K : t[i] = SId(n, i)
  BY SteadyIs
<1>2. SubSeq(s, 1, q) = [i \in 1 .. q |-> SId(n, i)]
  BY <1>1 DEF IsSeq
<1>3. SubSeq(t, 1, q) = [i \in 1 .. q |-> SId(n, i)]
  BY <1>1 DEF IsSeq
<1> QED
  BY <1>1, <1>2, <1>3 DEF IsPrefix

LEMMA InOrderKept ==
  ASSUME CInv
  PROVE  ReadsInOrder
<1> SUFFICES ASSUME NEW n \in StoredChains, NEW steps \in Reads(post[n].doc.id)
             PROVE  IsPrefix(steps, [i \in 1 .. Len(Walked(n, post[n].doc).steps) |->
                                       Walked(n, post[n].doc).steps[i].id])
  BY DEF ReadsInOrder
<1> PICK d, K : d = post[n].doc /\ K = Len(d.steps)
  OBVIOUS
<1>1. K \in Nat /\ \E q \in 0 .. K : steps = Steady(n, q)
  <2>1. steps \in Reads(d.id)
    OBVIOUS
  <2>2. Beginning(n, K, steps)
    BY <2>1, ReadsBegin
  <2> QED
    BY <2>2 DEF Beginning
<1> PICK made : made = Walked(n, d).steps
  OBVIOUS
<1>2. [i \in 1 .. Len(made) |-> made[i].id] = Steady(n, K)
  <2>1. Mirrors(n, d, Walked(n, d), K)
    BY ChainIs DEF ChainAt
  <2>2. Len(made) = K
    BY <2>1 DEF Mirrors
  <2>3. ASSUME NEW i \in 1 .. K PROVE made[i].id = SId(n, i)
    <3>1. made[i] = [orderId |-> d.steps[i].orderId, previous |-> d.steps[i].previous, id |-> SId(n, i)]
      BY <2>1 DEF Mirrors
    <3> QED
      BY <3>1
  <2> QED
    BY <2>2, <2>3 DEF Steady
<1> QED
  BY <1>1, <1>2, SteadyPrefix

(* However the LRI lists the steps of a chain and whichever requests failed,  *)
(* what is read of it is a beginning of the chain: never two steps the wrong  *)
(* way round, never a step after one that is missing (sort.py 112-157).       *)
THEOREM ReadsAlwaysInOrder ==
  Spec => []ReadsInOrder
<1>1. CInv => ReadsInOrder
  BY InOrderKept
<1> QED
  BY <1>1, CInvHolds, PTL

LEMMA TaughtIs ==
  ASSUME CInv, NEW n \in StoredChains, post[n].lost = {}, NEW d, d = post[n].doc
  PROVE  Taught(Steady(n, Len(d.steps))) = Wanted(d)
<1> PICK K, s : K = Len(d.steps) /\ s = Steady(n, K)
  OBVIOUS
<1>1. K \in Nat /\ \A j \in 1 .. K : SId(n, j) \in DOMAIN lri /\ CId(n, j) \in DOMAIN lri
  BY ChainIs DEF ChainAt, There
<1>2. Len(s) = K /\ \A i \in 1 .. K : s[i] = SId(n, i)
  BY <1>1, SteadyIs
<1>3. ASSUME NEW i \in 1 .. K
      PROVE  UNION {lri[c].contains : c \in lri[s[i]].competency_in_path \cap DOMAIN lri}
               = d.steps[i].competencies
  <2>1. StepAt(n, i) /\ ContainerAt(n, d, i)
    BY ChainSteps
  <2>2. lri[s[i]].competency_in_path = {CId(n, i)}
    BY <1>1, <1>2, <2>1 DEF StepAt
  <2>3. lri[CId(n, i)].contains = d.steps[i].competencies
    BY <1>1, <2>1 DEF ContainerAt
  <2>4. lri[s[i]].competency_in_path \cap DOMAIN lri = {CId(n, i)}
    BY <1>1, <2>2
  <2> QED
    BY <2>3, <2>4
<1> QED
  BY <1>2, <1>3 DEF Taught, Wanted

LEMMA WholeKept ==
  ASSUME CInv
  PROVE  ReadsWhole
<1> SUFFICES ASSUME NEW n \in StoredChains, post[n].lost = {}
             PROVE  {Taught(s) : s \in Reads(post[n].doc.id)} = {Wanted(post[n].doc)}
  BY DEF ReadsWhole
<1> PICK d, K, id, A : /\ d = post[n].doc /\ K = Len(d.steps) /\ id = d.id
                       /\ A = {SId(n, j) : j \in 1 .. K}
  OBVIOUS
<1>1. /\ K \in Nat /\ K >= 1 /\ lri[id].path_step = A
      /\ \A j \in 1 .. K : SId(n, j) \in DOMAIN lri /\ CId(n, j) \in DOMAIN lri
  BY ChainIs DEF ChainAt, There, PathIs
<1>2. Steps(id) = A
  BY <1>1 DEF Steps
<1>3. ASSUME NEW s \in SetToSeqs(Steps(id))
      PROVE  SortByPrevious(s) = Steady(n, K) /\ Firsts(s) # <<>>
  <2>1. Linked(n, K, s) /\ ToSet(s) = A /\ Len(s) = K
    <3>1. /\ Linked(n, K, s) /\ ToSet(s) = Steps(d.id)
          /\ Steps(d.id) = {SId(n, j) : j \in 1 .. K} => Len(s) = K
      BY StepsLinked
    <3> QED
      BY <1>2, <3>1
  <2>2. SId(n, 1) \in ToSet(s)
    BY <1>1, <2>1
  <2>3. SortByPrevious(s) = Steady(n, K)
    <3>1. PICK q \in 1 .. K : /\ SortByPrevious(s) = Steady(n, q)
                              /\ ToSet(s) = {SId(n, j) : j \in 1 .. K} /\ Len(s) = K => q = K
      BY <1>1, <2>1, <2>2, SortIs
    <3> QED
      BY <2>1, <3>1
  <2>4. Firsts(s) = <<SId(n, 1)>>
    <3>1. \E k \in 1 .. Len(s) : s[k] = SId(n, 1)
      BY <2>1, <2>2, SeqFacts DEF ToSet, Linked
    <3>2. Firsts(s) = FirstSteps(n, s, Len(s))
      BY <1>1, <2>1, FirstsAre
    <3> QED
      BY <3>1, <3>2 DEF FirstSteps
  <2> QED
    BY <2>3, <2>4
<1>4. IsFiniteSet(Steps(id))
  <2>1. Steps(id) \in SUBSET AllSteps(n, K)
    BY <1>2 DEF AllSteps
  <2> QED
    BY <1>1, <2>1, StepsFinite
<1>5. SetToSeqs(Steps(id)) # {} /\ SetToSeq(Steps(id)) \in SetToSeqs(Steps(id))
  BY <1>4, OneOrder
<1>6. Sortable(id)
  BY <1>3, <1>5 DEF Sortable
<1>7. Flat("competency_paths", id)
  <2>1. ASSUME NEW c \in UNION {lri[s].competency_in_path : s \in Steps(id)}, c \in DOMAIN lri
        PROVE  lri[c].path_step = {}
    <3>1. PICK j \in 1 .. K : c \in lri[SId(n, j)].competency_in_path
      BY <1>2
    <3>2. StepAt(n, j) /\ ContainerAt(n, d, j)
      BY ChainSteps
    <3>3. c = CId(n, j)
      BY <1>1, <3>1, <3>2 DEF StepAt
    <3> QED
      BY <2>1, <3>2, <3>3 DEF ContainerAt
  <2> QED
    BY <2>1 DEF Flat
<1>8. Reads(id) = Orders(id)
  <2>1. Answers("competency_paths", [competency_path |-> id]) = {Listed({id})}
    BY <1>6, <1>7, PathAnswer
  <2>2. Listed({id}) # Failed
    BY DEF Listed, Failed
  <2> QED
    BY <2>1, <2>2 DEF Reads
<1>9. Orders(id) = {Steady(n, K)}
  BY <1>3, <1>5 DEF Orders
<1>10. Taught(Steady(n, K)) = Wanted(d)
  BY TaughtIs
<1> QED
  BY <1>8, <1>9, <1>10

(* A chain none of whose requests was lost is read back whole, in the order   *)
(* of the document and with the competencies of each step, whatever order the *)
(* LRI lists its steps in and whatever other POSTs do (insert.py 780-885,     *)
(* sort.py 112-157).                                                          *)
THEOREM ReadsAlwaysWhole ==
  Spec => []ReadsWhole
<1>1. CInv => ReadsWhole
  BY WholeKept
<1> QED
  BY <1>1, CInvHolds, PTL
=============================================================================
