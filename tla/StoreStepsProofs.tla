--------------------------- MODULE StoreStepsProofs ---------------------------
(***************************************************************************)
(* Theorems about StoreSteps, for any number of workers, requests and      *)
(* kills: the three copies of a version are written in a safe order, and a *)
(* version marked as replaced has a successor that searches find.          *)
(*                                                                         *)
(* The inductive invariant says what each worker may rely on at its next   *)
(* call.  Other workers cannot take it away: what is in the index stays    *)
(* there, and a version that is not yet in it belongs to the one worker    *)
(* that is writing it.  For IDs, which two threads can both find free, the *)
(* theorem is about one worker; so is the second half of the module, which *)
(* proves that the calls carry out the requests of PropStore.              *)
(***************************************************************************)
EXTENDS StoreSteps, TLAPS

Link == Search!Link
InIndex(g) == g \in Stored /\ idx[g] # "none"

(* What a worker does is a record of these fields. *)
IsStep(s) == DOMAIN s = {"pc", "made", "c", "old", "new", "todo", "outer", "seen"}

(* The copies of the versions: what is there of each, and CopiesInOrder. *)
StoreOK ==
  /\ Stored \subseteq Guids
  /\ store \in [Stored -> Link]
  /\ rec \in [Stored -> States]
  /\ idx \in [Stored -> States]
  /\ \A g \in Stored : /\ store[g].type = Id => store[g].complete
                       /\ store[g].replaced_by # None => InIndex(store[g].replaced_by)

(* The version being written is the worker's own until it is in the index. *)
OwnOK(s) ==
  /\ s.pc \in {"record", "index"} => s.new \in Stored /\ idx[s.new] = "none"
  /\ s.pc = "record" => rec[s.new] = "none"
  /\ s.pc = "index" => rec[s.new] = "current"

(* Old and new versions of the update under way. *)
UpdateOK(s) ==
  /\ s.old # None => InIndex(s.old)
  /\ s.pc \in {"search", "point", "rerecord", "reindex"} => InIndex(s.new)
  /\ s.pc \in {"point", "rerecord", "reindex"} => s.old # None
  /\ s.pc \in {"rerecord", "reindex"} => store[s.old].replaced_by # None
  /\ s.pc = "reindex" => rec[s.old] = "replaced"

(* The candidate, which follows no other version. *)
CandidateOK(s) ==
  /\ s.pc # "idle" => s.c \in Link
  /\ s.pc \in {"look", "write"} => s.c.replaced_by = None /\ s.made \in Entities \cup {None}
  /\ s.pc = "write" /\ s.c.type = Id => s.c.complete

(* The ID request resumed after the waiting links are completed; these are *)
(* not IDs themselves, so a completion is not interrupted by another.      *)
OuterOK(s) ==
  /\ s.pc \in {"idle", "search"} => s.outer = None
  /\ s.outer # None \/ s.pc = "next" =>
       /\ IsStep(s.outer)
       /\ s.outer.outer = None
       /\ s.outer.c \in Link
       /\ s.outer.old # None => InIndex(s.outer.old)
       /\ InIndex(s.outer.new)
       /\ \A d \in s.outer.todo : InIndex(d) /\ store[d].type # Id
  /\ s.outer # None /\ s.pc \in {"look", "write", "record", "index"} => s.c.type # Id
  /\ \A d \in s.todo : InIndex(d) /\ store[d].type # Id

WorkerOK(w) == /\ IsStep(work[w])
               /\ OwnOK(work[w])
               /\ UpdateOK(work[w])
               /\ CandidateOK(work[w])
               /\ OuterOK(work[w])

(* No two workers write the same version. *)
Writing(w) == work[w].pc \in {"record", "index"}
Apart == \A v, w \in Workers : Writing(v) /\ Writing(w) /\ work[v].new = work[w].new => v = w

IInv == /\ entities \subseteq Entities
        /\ StoreOK
        /\ CopiesInOrder
        /\ work = [w \in Workers |-> work[w]]
        /\ \A w \in Workers : WorkerOK(w)
        /\ Apart
------------------------------------------------------------------------------
(* What searches find. *)

LEMMA IndexedRecords ==
  ASSUME StoreOK, NEW g
  PROVE  /\ g \in DOMAIN Indexed <=> InIndex(g)
         /\ InIndex(g) => /\ Indexed[g] \in Link
                          /\ Indexed[g].type = store[g].type
                          /\ Indexed[g].complete = store[g].complete
                          /\ Indexed[g].from \in Entities \cup {None}
<1>1. g \in DOMAIN Indexed <=> InIndex(g)
  BY DEF Indexed, InIndex
<1>2. ASSUME InIndex(g)
      PROVE  /\ Indexed[g] \in Link
             /\ Indexed[g].type = store[g].type
             /\ Indexed[g].complete = store[g].complete
             /\ Indexed[g].from \in Entities \cup {None}
  <2>1. store[g] \in Link
    BY <1>2 DEF StoreOK, InIndex
  <2>2. Indexed[g] = IF idx[g] = "current" THEN [store[g] EXCEPT !.replaced_by = None] ELSE store[g]
    BY <1>2 DEF Indexed, InIndex
  <2> QED
    BY <2>1, <2>2 DEF Link, Search!Link
<1> QED
  BY <1>1, <1>2

LEMMA ExistingInIndex ==
  ASSUME StoreOK, NEW c, NEW g \in Search!Existing(c)
  PROVE  InIndex(g)
BY IndexedRecords DEF Search!Existing, Search!Current, Search!Written

(* Links that wait are in the index and are not IDs. *)
LEMMA DanglersInIndex ==
  ASSUME StoreOK, NEW v, NEW d \in Search!Danglers(v)
  PROVE  InIndex(d) /\ store[d].type # Id
<1>1. d \in DOMAIN Indexed /\ ~Indexed[d].complete
  BY DEF Search!Danglers, Search!Live, Search!Current, Search!Written
<1>2. InIndex(d) /\ Indexed[d].complete = store[d].complete
  BY <1>1, IndexedRecords
<1> QED
  BY <1>1, <1>2 DEF StoreOK, InIndex

LEMMA AttachIsLink ==
  ASSUME NEW c \in Link, NEW e \in Entities \cup {None}
  PROVE  /\ Search!Attach(c, e) \in Link
         /\ Search!Attach(c, e).type = c.type
         /\ Search!Attach(c, e).replaced_by = c.replaced_by
         /\ Search!Attach(c, e).complete
         /\ [Search!Attach(c, e) EXCEPT !.replaced_by = None] \in Link
         /\ [Search!Attach(c, e) EXCEPT !.replaced_by = None].type = c.type
         /\ [Search!Attach(c, e) EXCEPT !.replaced_by = None].replaced_by = None
BY DEF Link, Search!Link, Search!Attach

LEMMA OwnersAreEntities ==
  ASSUME StoreOK, NEW v
  PROVE  Search!Owners(v) \subseteq Entities \cup {None}
BY IndexedRecords
   DEF Search!Owners, Search!Holders, Search!Live, Search!Current, Search!Written

(* What create_property makes of a candidate. *)
LEMMA ResolvedCandidate ==
  ASSUME StoreOK, NEW c \in Link, c.replaced_by = None, NEW r \in Search!Resolved(c)
  PROVE  /\ r \in Link
         /\ r.type = c.type
         /\ r.replaced_by = None
         /\ r.type = Id => r.complete
<1>1. CASE c.type \in Literals \/ c.value = None
  BY <1>1 DEF Search!Resolved, Link, Search!Link
<1>2. CASE ~(c.type \in Literals \/ c.value = None) /\ Search!Owners(c.value) = {}
  BY <1>2, ConstantsAssumption DEF Search!Resolved, Link, Search!Link
<1>3. CASE ~(c.type \in Literals \/ c.value = None) /\ Search!Owners(c.value) # {}
  <2>1. PICK e \in Search!Owners(c.value) : r = Search!Attach(c, e)
    BY <1>3 DEF Search!Resolved
  <2>2. e \in Entities \cup {None}
    BY <2>1, OwnersAreEntities
  <2> QED
    BY <2>1, <2>2, AttachIsLink
<1> QED
  BY <1>1, <1>2, <1>3
------------------------------------------------------------------------------
(* What one worker does leaves the others what they rely on. *)

(* Versions stay, keep their type, and what is marked stays marked. *)
Grows == /\ Stored \subseteq DOMAIN store'
         /\ \A g \in Stored :
              /\ store'[g].type = store[g].type
              /\ store[g].replaced_by # None => store'[g].replaced_by # None
              /\ idx[g] # "none" => idx'[g] # "none"
              /\ rec[g] = "replaced" => rec'[g] = "replaced"

(* Nobody else touches the version a worker is writing. *)
LeavesAlone(v) == Writing(v) => /\ idx'[work[v].new] = idx[work[v].new]
                                /\ rec'[work[v].new] = rec[work[v].new]

LEMMA Undisturbed ==
  ASSUME NEW v \in Workers, WorkerOK(v), Grows, LeavesAlone(v), work'[v] = work[v]
  PROVE  WorkerOK(v)'
<1>1. \A g : InIndex(g) => InIndex(g)' /\ store'[g].type = store[g].type
  BY DEF Grows, InIndex, Stored
<1>2. IsStep(work[v])'
  BY DEF WorkerOK, IsStep
<1>3. OwnOK(work[v])'
  BY DEF WorkerOK, OwnOK, LeavesAlone, Writing, Grows, Stored
<1>4. UpdateOK(work[v])'
  <2>1. work[v].old # None => InIndex(work[v].old)
    BY DEF WorkerOK, UpdateOK
  <2> QED
    BY <1>1, <2>1 DEF WorkerOK, UpdateOK, Grows, InIndex
<1>5. CandidateOK(work[v])'
  BY DEF WorkerOK, CandidateOK
<1>6. OuterOK(work[v])'
  BY <1>1 DEF WorkerOK, OuterOK, IsStep
<1> QED
  BY <1>2, <1>3, <1>4, <1>5, <1>6 DEF WorkerOK

LEMMA OneWorkerMoves ==
  ASSUME IInv, NEW w \in Workers, work' = [work EXCEPT ![w] = work'[w]],
         entities' \subseteq Entities, StoreOK', CopiesInOrder', Grows, WorkerOK(w)',
         \A v \in Workers \ {w} : LeavesAlone(v),
         Writing(w)' => (Writing(w) /\ work'[w].new = work[w].new) \/ work'[w].new \notin Stored
  PROVE  IInv'
<1>1. \A v \in Workers \ {w} : work'[v] = work[v]
  BY DEF IInv
<1>2. work' = [v \in Workers |-> work'[v]]
  BY DEF IInv
<1>3. \A v \in Workers : WorkerOK(v)'
  BY <1>1, Undisturbed DEF IInv
<1>4. \A v \in Workers : Writing(v) => work[v].new \in Stored
  BY DEF IInv, WorkerOK, OwnOK, Writing
<1>5. Apart'
  BY <1>1, <1>4 DEF IInv, Apart, Writing
<1> QED
  BY <1>2, <1>3, <1>5 DEF IInv

(* Steps that write nothing. *)
LEMMA OnlyWorkMoves ==
  ASSUME IInv, NEW w \in Workers, work' = [work EXCEPT ![w] = work'[w]],
         UNCHANGED <<entities, store, rec, idx>>, WorkerOK(w)', ~Writing(w)'
  PROVE  IInv'
<1>1. StoreOK' /\ CopiesInOrder' /\ entities' \subseteq Entities
  BY DEF IInv, StoreOK, CopiesInOrder, InIndex, Stored
<1>2. Grows /\ \A v \in Workers : LeavesAlone(v)
  BY DEF Grows, LeavesAlone, Stored
<1> QED
  BY <1>1, <1>2, OneWorkerMoves
------------------------------------------------------------------------------
(* One lemma per step. *)

LEMMA IdleOK ==
  ASSUME NEW w \in Workers, work'[w] = Idle
  PROVE  WorkerOK(w)' /\ ~Writing(w)'
BY DEF Idle, Step, WorkerOK, Writing, IsStep, OwnOK, UpdateOK, CandidateOK, OuterOK

LEMMA KillOK ==
  ASSUME IInv, NEW w \in Workers, Kill(w)
  PROVE  IInv'
<1>1. work' = [work EXCEPT ![w] = Idle] /\ work'[w] = Idle
  BY DEF Kill, Goto, IInv
<1> QED
  BY <1>1, IdleOK, OnlyWorkMoves DEF Kill

LEMMA BeginOK ==
  ASSUME IInv, NEW w \in Workers,
         NEW made \in Entities \cup {None}, NEW c \in Link, c.replaced_by = None,
         NEW old, old # None => InIndex(old), Begin(w, made, c, old)
  PROVE  IInv'
<1> DEFINE s == Step("look", made, c, old, [entities |-> entities, link |-> Indexed])
<1>1. work' = [work EXCEPT ![w] = s] /\ work'[w] = s
  BY DEF Begin, Goto, IInv
<1>2. UNCHANGED <<entities, store, rec, idx>>
  BY DEF Begin
<1>3. WorkerOK(w)' /\ ~Writing(w)'
  BY <1>1, <1>2 DEF Step, WorkerOK, Writing, IsStep, OwnOK, UpdateOK, CandidateOK, OuterOK, InIndex, Stored
<1> QED
  BY <1>1, <1>2, <1>3, OnlyWorkMoves

LEMMA BeginEntityOK ==
  ASSUME IInv, NEW w \in Workers, BeginEntity(w)
  PROVE  IInv'
<1>1. PICK e \in Entities, v \in Values, u \in Users :
        Begin(w, e, Search!Candidate(Id, e, None, v, u, TRUE), None)
  BY DEF BeginEntity
<1>2. /\ Search!Candidate(Id, e, None, v, u, TRUE) \in Link
      /\ Search!Candidate(Id, e, None, v, u, TRUE).replaced_by = None
  BY ConstantsAssumption DEF Search!Candidate, Link, Search!Link, Search!PropTypes
<1> QED
  BY <1>1, <1>2, BeginOK

LEMMA CandidateIsLink ==
  ASSUME NEW t \in Literals \cup LinkTypes, NEW f \in Entities \cup {None},
         NEW x \in Entities \cup {None}, NEW v \in Values \cup {None},
         NEW u \in Users, NEW a \in BOOLEAN
  PROVE  Search!Candidate(t, f, x, v, u, a) \in Link /\ Search!Candidate(t, f, x, v, u, a).replaced_by = None
BY DEF Search!Candidate, Link, Search!Link, Search!PropTypes

LEMMA BeginCreateOK ==
  ASSUME IInv, NEW w \in Workers, BeginCreate(w)
  PROVE  IInv'
<1>1. PICK t \in Literals \cup LinkTypes, f \in Entities \cup {None},
           x \in Entities \cup {None}, v \in Values \cup {None}, u \in Users, a \in BOOLEAN :
        Begin(w, None, Search!Candidate(t, f, x, v, u, a), None)
  <2>1. entities \subseteq Entities
    BY DEF IInv
  <2>2. PICK e \in entities, u \in Users, a \in BOOLEAN : BeginCreate(w)!(e, u, a)
    BY DEF BeginCreate
  <2> QED
    BY <2>1, <2>2
<1>2. /\ Search!Candidate(t, f, x, v, u, a) \in Link
      /\ Search!Candidate(t, f, x, v, u, a).replaced_by = None
  BY CandidateIsLink
<1> QED
  BY <1>1, <1>2, BeginOK

LEMMA BeginUpdateOK ==
  ASSUME IInv, NEW w \in Workers, BeginUpdate(w)
  PROVE  IInv'
<1>1. PICK p \in DOMAIN Indexed, e \in entities, a \in BOOLEAN :
        /\ store[p].replaced_by = None
        /\ \/ \E x \in Entities \cup {None}, v \in Values \cup {None} :
                Begin(w, None, Search!Candidate(store[p].type, e, x, v, store[p].creator, a), p)
           \/ Begin(w, None, [store[p] EXCEPT !.from = e, !.alive = a], p)
  <2>1. PICK p \in DOMAIN Indexed, e \in entities, a \in BOOLEAN : BeginUpdate(w)!(p, e, a)
    BY Zenon DEF BeginUpdate
  <2>2. InIndex(p) /\ store[p] \in Link
    BY IndexedRecords DEF IInv, StoreOK, InIndex
  <2>3. \A v : Search!Owners(v) \subseteq Entities \cup {None}
    BY OwnersAreEntities DEF IInv
  <2> QED
    BY <2>1, <2>2, <2>3 DEF IInv, Link, Search!Link
<1>2. InIndex(p) /\ store[p] \in Link /\ e \in Entities
  BY IndexedRecords DEF IInv, StoreOK, InIndex
<1>3. /\ [store[p] EXCEPT !.from = e, !.alive = a] \in Link
      /\ [store[p] EXCEPT !.from = e, !.alive = a].replaced_by = None
  BY <1>1, <1>2 DEF Link, Search!Link
<1>4. CASE Begin(w, None, [store[p] EXCEPT !.from = e, !.alive = a], p)
  BY <1>2, <1>3, <1>4, BeginOK
<1>5. CASE \E x \in Entities \cup {None}, v \in Values \cup {None} :
             Begin(w, None, Search!Candidate(store[p].type, e, x, v, store[p].creator, a), p)
  <2>1. store[p].type \in Literals \cup LinkTypes /\ store[p].creator \in Users
    BY <1>2 DEF Link, Search!Link, Search!PropTypes
  <2> QED
    BY <1>2, <1>5, <2>1, CandidateIsLink, BeginOK
<1> QED
  BY <1>1, <1>4, <1>5

(* A worker's record after each kind of change to it, field by field. *)
Fields(r, p, m, c, o, n, T, z) ==
  /\ IsStep(r)
  /\ r.pc = p /\ r.made = m /\ r.c = c /\ r.old = o /\ r.new = n /\ r.todo = T /\ r.outer = z

LEMMA Changes ==
  ASSUME NEW s, IsStep(s), NEW p, NEW c, NEW g, NEW T, NEW o
  PROVE  /\ Fields([s EXCEPT !.pc = p],
                   p, s.made, s.c, s.old, s.new, s.todo, s.outer)
         /\ Fields([s EXCEPT !.pc = p, !.c = c],
                   p, s.made, c, s.old, s.new, s.todo, s.outer)
         /\ Fields([s EXCEPT !.pc = p, !.new = g],
                   p, s.made, s.c, s.old, g, s.todo, s.outer)
         /\ Fields([s EXCEPT !.pc = p, !.outer = o, !.todo = T],
                   p, s.made, s.c, s.old, s.new, T, o)
         /\ Fields([s EXCEPT !.pc = p, !.todo = T, !.old = g, !.made = None, !.c = c],
                   p, None, c, g, s.new, T, s.outer)
BY Zenon DEF IsStep, Fields

LEMMA ToIdleOK ==
  ASSUME IInv, NEW w \in Workers, Goto(w, Idle), UNCHANGED <<entities, store, rec, idx>>
  PROVE  IInv'
<1>1. work' = [work EXCEPT ![w] = Idle] /\ work'[w] = Idle
  BY DEF Goto, IInv
<1> QED
  BY <1>1, IdleOK, OnlyWorkMoves

LEMMA LookOK ==
  ASSUME IInv, NEW w \in Workers, Look(w)
  PROVE  IInv'
<1> DEFINE s == work[w]
<1>1. s.pc = "look" /\ WorkerOK(w) /\ IsStep(s) /\ UNCHANGED <<entities, store, rec, idx>>
  BY DEF Look, At, IInv, WorkerOK
<1>2. s.c \in Link /\ s.c.replaced_by = None
  BY <1>1 DEF WorkerOK, CandidateOK
<1>3. PICK c \in Search!Resolved(s.c) :
        \/ Goto(w, Idle)
        \/ \E g \in Search!Existing(c) : /\ s.old # None
                                        /\ Goto(w, [s EXCEPT !.pc = "point", !.new = g])
        \/ Goto(w, [s EXCEPT !.pc = "write", !.c = c])
  BY Zenon DEF Look
<1>4. c \in Link /\ c.type = s.c.type /\ c.replaced_by = None /\ (c.type = Id => c.complete)
  BY <1>2, ResolvedCandidate DEF IInv
<1>5. CASE Goto(w, Idle)
  BY <1>1, <1>5, ToIdleOK
<1>6. ASSUME NEW g \in Search!Existing(c), s.old # None,
             Goto(w, [s EXCEPT !.pc = "point", !.new = g])
      PROVE  IInv'
  <2>1. InIndex(g)
    BY ExistingInIndex DEF IInv
  <2>2. /\ work' = [work EXCEPT ![w] = work'[w]]
        /\ Fields(work'[w], "point", s.made, s.c, s.old, g, s.todo, s.outer)
    BY Zenon, <1>1, <1>6, Changes DEF Goto, IInv
  <2>3. WorkerOK(w)' /\ ~Writing(w)'
    BY <1>1, <1>6, <2>1, <2>2
       DEF Fields, WorkerOK, Writing, IsStep, OwnOK, UpdateOK, CandidateOK, OuterOK, InIndex, Stored
  <2> QED
    BY <1>1, <2>2, <2>3, OnlyWorkMoves
<1>7. CASE Goto(w, [s EXCEPT !.pc = "write", !.c = c])
  <2>1. /\ work' = [work EXCEPT ![w] = work'[w]]
        /\ Fields(work'[w], "write", s.made, c, s.old, s.new, s.todo, s.outer)
    BY Zenon, <1>1, <1>7, Changes DEF Goto, IInv
  <2>2. WorkerOK(w)' /\ ~Writing(w)'
    BY <1>1, <1>4, <2>1
       DEF Fields, WorkerOK, Writing, IsStep, OwnOK, UpdateOK, CandidateOK, OuterOK, InIndex, Stored
  <2> QED
    BY <1>1, <2>1, <2>2, OnlyWorkMoves
<1> QED
  BY <1>3, <1>5, <1>6, <1>7

LEMMA WriteOK ==
  ASSUME IInv, NEW w \in Workers, Write(w)
  PROVE  IInv'
<1> DEFINE s == work[w]
<1>1. s.pc = "write" /\ WorkerOK(w) /\ IsStep(s)
  BY DEF Write, At, IInv, WorkerOK
<1>2. /\ s.c \in Link /\ s.c.replaced_by = None /\ (s.c.type = Id => s.c.complete)
      /\ s.made \in Entities \cup {None}
  BY <1>1 DEF WorkerOK, CandidateOK
<1>3. PICK g \in Guids \ Stored : /\ store' = Extend(store, g, s.c)
                                 /\ rec' = Extend(rec, g, "none")
                                 /\ idx' = Extend(idx, g, "none")
                                 /\ Goto(w, [s EXCEPT !.pc = "record", !.new = g])
  BY Zenon DEF Write
<1>4. DOMAIN rec = Stored /\ DOMAIN idx = Stored
  BY DEF IInv, StoreOK
<1>5. /\ Stored' = Stored \cup {g} /\ DOMAIN rec' = Stored' /\ DOMAIN idx' = Stored'
      /\ store'[g] = s.c /\ rec'[g] = "none" /\ idx'[g] = "none"
      /\ \A h \in Stored : store'[h] = store[h] /\ rec'[h] = rec[h] /\ idx'[h] = idx[h]
  BY <1>3, <1>4 DEF Extend, Stored
<1>6. /\ work' = [work EXCEPT ![w] = work'[w]]
      /\ Fields(work'[w], "record", s.made, s.c, s.old, g, s.todo, s.outer)
  BY Zenon, <1>1, <1>3, Changes DEF Goto, IInv
<1>7. StoreOK'
  <2>1. store' \in [Stored' -> Link] /\ rec' \in [Stored' -> States] /\ idx' \in [Stored' -> States]
    BY <1>2, <1>3, <1>4, <1>5 DEF IInv, StoreOK, Extend, States, Stored
  <2>2. ASSUME NEW h \in Stored'
        PROVE  /\ store'[h].type = Id => store'[h].complete
               /\ store'[h].replaced_by # None => InIndex(store[h].replaced_by)'
    <3>1. CASE h = g
      BY <1>2, <1>5, <3>1
    <3>2. CASE h \in Stored
      <4>1. /\ store[h].type = Id => store[h].complete
            /\ store[h].replaced_by # None => InIndex(store[h].replaced_by)
        BY <3>2 DEF IInv, StoreOK
      <4>2. \A x : InIndex(x) => InIndex(x)'
        BY <1>5 DEF InIndex
      <4> QED
        BY <1>5, <3>2, <4>1, <4>2
    <3> QED
      BY <1>5, <3>1, <3>2
  <2>3. Stored' \subseteq Guids
    BY <1>5 DEF IInv, StoreOK
  <2> QED
    BY <2>1, <2>2, <2>3 DEF StoreOK, Stored
<1>8. CopiesInOrder'
  BY <1>5 DEF IInv, CopiesInOrder
<1>9. Grows
  BY <1>5 DEF Grows, Stored
<1>10. \A v \in Workers : LeavesAlone(v)
  BY <1>5 DEF LeavesAlone, IInv, WorkerOK, OwnOK, Writing
<1>11. WorkerOK(w)'
  BY <1>1, <1>2, <1>5, <1>6
     DEF Fields, WorkerOK, Writing, IsStep, OwnOK, UpdateOK, CandidateOK, OuterOK, InIndex, Stored
<1>12. entities' \subseteq Entities
  BY <1>2 DEF Write, IInv
<1>13. work'[w].new \notin Stored
  BY <1>3, <1>6 DEF Fields
<1> QED
  BY <1>6, <1>7, <1>8, <1>9, <1>10, <1>11, <1>12, <1>13, OneWorkerMoves

(* A worker that is writing a version has it to itself. *)
LEMMA OthersLeftAlone ==
  ASSUME IInv, NEW w \in Workers, NEW g \in Stored,
         (Writing(w) /\ g = work[w].new) \/ InIndex(g),
         \A h \in Stored \ {g} : rec'[h] = rec[h] /\ idx'[h] = idx[h]
  PROVE  \A v \in Workers \ {w} : LeavesAlone(v)
BY DEF IInv, Apart, LeavesAlone, WorkerOK, OwnOK, Writing, InIndex

LEMMA RecordOK ==
  ASSUME IInv, NEW w \in Workers, Record(w)
  PROVE  IInv'
<1> DEFINE s == work[w]
           g == work[w].new
<1>1. s.pc = "record" /\ WorkerOK(w) /\ IsStep(s) /\ UNCHANGED <<entities, store, idx>>
  BY DEF Record, At, IInv, WorkerOK
<1>2. g \in Stored /\ idx[g] = "none" /\ rec[g] = "none"
  BY <1>1 DEF WorkerOK, OwnOK
<1>3. rec' = [rec EXCEPT ![g] = "current"] /\ Goto(w, [s EXCEPT !.pc = "index"])
  BY Zenon DEF Record, Move
<1>4. /\ work' = [work EXCEPT ![w] = work'[w]]
      /\ Fields(work'[w], "index", s.made, s.c, s.old, g, s.todo, s.outer)
  BY Zenon, <1>1, <1>3, Changes DEF Goto, IInv
<1>5. rec'[g] = "current" /\ \A h \in Stored \ {g} : rec'[h] = rec[h]
  BY <1>2, <1>3 DEF IInv, StoreOK
<1>6. StoreOK'
  BY <1>1, <1>3 DEF IInv, StoreOK, InIndex, Stored, States
<1>7. CopiesInOrder'
  BY <1>1, <1>2, <1>5 DEF IInv, CopiesInOrder, Stored
<1>8. Grows
  BY <1>1, <1>2, <1>5 DEF Grows, Stored
<1>9. \A v \in Workers \ {w} : LeavesAlone(v)
  BY <1>1, <1>2, <1>5, OthersLeftAlone DEF Writing
<1>10. WorkerOK(w)'
  BY <1>1, <1>2, <1>4, <1>5
     DEF Fields, WorkerOK, Writing, IsStep, OwnOK, UpdateOK, CandidateOK, OuterOK, InIndex, Stored
<1>11. Writing(w) /\ work'[w].new = work[w].new
  BY <1>1, <1>4 DEF Writing, Fields
<1> QED
  BY <1>1, <1>4, <1>6, <1>7, <1>8, <1>9, <1>10, <1>11, OneWorkerMoves DEF IInv

LEMMA IndexOK ==
  ASSUME IInv, NEW w \in Workers, Index(w)
  PROVE  IInv'
<1> DEFINE s == work[w]
           g == work[w].new
<1>1. s.pc = "index" /\ WorkerOK(w) /\ IsStep(s) /\ UNCHANGED <<entities, store, rec>>
  BY DEF Index, At, IInv, WorkerOK
<1>2. g \in Stored /\ idx[g] = "none" /\ rec[g] = "current"
  BY <1>1 DEF WorkerOK, OwnOK
<1>3. /\ idx' = [idx EXCEPT ![g] = "current"]
      /\ \/ s.c.type = Id /\ Goto(w, [s EXCEPT !.pc = "search"])
         \/ s.old # None /\ Goto(w, [s EXCEPT !.pc = "point"])
         \/ Goto(w, Idle)
  BY Zenon DEF Index, Move
<1>4. idx'[g] = "current" /\ \A h \in Stored \ {g} : idx'[h] = idx[h]
  BY <1>2, <1>3 DEF IInv, StoreOK
<1>5. StoreOK'
  <2>1. \A x : InIndex(x) => InIndex(x)'
    BY <1>1, <1>4 DEF InIndex, Stored
  <2> QED
    BY <1>1, <1>3, <2>1 DEF IInv, StoreOK, Stored, States
<1>6. CopiesInOrder'
  BY <1>1, <1>2, <1>4 DEF IInv, CopiesInOrder, Stored
<1>7. Grows
  BY <1>1, <1>2, <1>4 DEF Grows, Stored
<1>8. \A v \in Workers \ {w} : LeavesAlone(v)
  BY <1>1, <1>2, <1>4, OthersLeftAlone DEF Writing
<1>9. WorkerOK(w)' /\ ~Writing(w)' /\ work' = [work EXCEPT ![w] = work'[w]]
  <2>1. CASE s.c.type = Id /\ Goto(w, [s EXCEPT !.pc = "search"])
    <3>1. /\ work' = [work EXCEPT ![w] = work'[w]]
          /\ Fields(work'[w], "search", s.made, s.c, s.old, g, s.todo, s.outer)
      BY Zenon, <1>1, <2>1, Changes DEF Goto, IInv
    <3> QED
      BY <1>1, <1>2, <1>4, <2>1, <3>1
         DEF Fields, WorkerOK, Writing, IsStep, OwnOK, UpdateOK, CandidateOK, OuterOK, InIndex, Stored
  <2>2. CASE s.old # None /\ Goto(w, [s EXCEPT !.pc = "point"])
    <3>1. /\ work' = [work EXCEPT ![w] = work'[w]]
          /\ Fields(work'[w], "point", s.made, s.c, s.old, g, s.todo, s.outer)
      BY Zenon, <1>1, <2>2, Changes DEF Goto, IInv
    <3> QED
      BY <1>1, <1>2, <1>4, <2>2, <3>1
         DEF Fields, WorkerOK, Writing, IsStep, OwnOK, UpdateOK, CandidateOK, OuterOK, InIndex, Stored
  <2>3. CASE Goto(w, Idle)
    <3>1. work' = [work EXCEPT ![w] = Idle] /\ work'[w] = Idle
      BY <2>3 DEF Goto, IInv
    <3> QED
      BY <3>1, IdleOK
  <2> QED
    BY <1>3, <2>1, <2>2, <2>3
<1> QED
  BY <1>1, <1>5, <1>6, <1>7, <1>8, <1>9, OneWorkerMoves DEF IInv

LEMMA FindWaitingOK ==
  ASSUME IInv, NEW w \in Workers, FindWaiting(w)
  PROVE  IInv'
<1> DEFINE s == work[w]
           T == Search!Danglers(work[w].c.value)
<1>1. s.pc = "search" /\ WorkerOK(w) /\ IsStep(s) /\ UNCHANGED <<entities, store, rec, idx>>
  BY DEF FindWaiting, At, IInv, WorkerOK
<1>2. \A d \in T : InIndex(d) /\ store[d].type # Id
  BY DanglersInIndex DEF IInv
<1>3. Goto(w, [s EXCEPT !.pc = "next", !.outer = s, !.todo = T])
  BY Zenon DEF FindWaiting
<1>4. /\ work' = [work EXCEPT ![w] = work'[w]]
      /\ Fields(work'[w], "next", s.made, s.c, s.old, s.new, T, s)
  BY Zenon, <1>1, <1>3, Changes DEF Goto, IInv
<1> HIDE DEF T
<1>5. WorkerOK(w)' /\ ~Writing(w)'
  BY <1>1, <1>2, <1>4
     DEF Fields, WorkerOK, Writing, IsStep, OwnOK, UpdateOK, CandidateOK, OuterOK, InIndex, Stored
<1> QED
  BY <1>1, <1>4, <1>5, OnlyWorkMoves

LEMMA CompleteOK ==
  ASSUME IInv, NEW w \in Workers, Complete(w)
  PROVE  IInv'
<1> DEFINE s == work[w]
           C(d) == [Search!Attach(Indexed[d], s.outer.c.from) EXCEPT !.replaced_by = None]
<1>1. s.pc = "next" /\ WorkerOK(w) /\ IsStep(s) /\ UNCHANGED <<entities, store, rec, idx>>
  BY DEF Complete, At, IInv, WorkerOK
<1>2. IsStep(s.outer) /\ s.outer.c \in Link /\ OuterOK(s)
  BY <1>1 DEF WorkerOK, OuterOK
<1>3. \/ \E d \in s.todo :
           Goto(w, [s EXCEPT !.pc = "look", !.todo = s.todo \ {d}, !.old = d, !.made = None, !.c = C(d)])
      \/ Goto(w, Idle)
      \/ s.outer.old # None /\ Goto(w, [s.outer EXCEPT !.pc = "point"])
  BY Zenon DEF Complete
<1>4. ASSUME NEW d \in s.todo,
             Goto(w, [s EXCEPT !.pc = "look", !.todo = s.todo \ {d}, !.old = d, !.made = None, !.c = C(d)])
      PROVE  IInv'
  <2>1. InIndex(d) /\ store[d].type # Id
    BY <1>2 DEF OuterOK
  <2>2. Indexed[d] \in Link /\ Indexed[d].type = store[d].type /\ s.outer.c.from \in Entities \cup {None}
    BY <1>2, <2>1, IndexedRecords DEF IInv, Link, Search!Link
  <2>3. C(d) \in Link /\ C(d).type # Id /\ C(d).replaced_by = None
    BY <2>1, <2>2, AttachIsLink
  <2>4. /\ work' = [work EXCEPT ![w] = work'[w]]
        /\ Fields(work'[w], "look", None, C(d), d, s.new, s.todo \ {d}, s.outer)
    BY Zenon, <1>1, <1>4, Changes DEF Goto, IInv
  <2> HIDE DEF C
  <2>5. WorkerOK(w)' /\ ~Writing(w)'
    BY <1>1, <2>1, <2>3, <2>4
       DEF Fields, WorkerOK, Writing, IsStep, OwnOK, UpdateOK, CandidateOK, OuterOK, InIndex, Stored
  <2> QED
    BY <1>1, <2>4, <2>5, OnlyWorkMoves
<1>5. CASE Goto(w, Idle)
  BY <1>1, <1>5, ToIdleOK
<1>6. CASE s.outer.old # None /\ Goto(w, [s.outer EXCEPT !.pc = "point"])
  <2>1. /\ work' = [work EXCEPT ![w] = work'[w]]
        /\ Fields(work'[w], "point", s.outer.made, s.outer.c, s.outer.old, s.outer.new,
                  s.outer.todo, s.outer.outer)
    BY Zenon, <1>2, <1>6, Changes DEF Goto, IInv
  <2>2. WorkerOK(w)' /\ ~Writing(w)'
    BY <1>1, <1>2, <1>6, <2>1
       DEF Fields, WorkerOK, Writing, IsStep, OwnOK, UpdateOK, CandidateOK, OuterOK, InIndex, Stored
  <2> QED
    BY <1>1, <2>1, <2>2, OnlyWorkMoves
<1> QED
  BY <1>3, <1>4, <1>5, <1>6

LEMMA PointOK ==
  ASSUME IInv, NEW w \in Workers, Point(w)
  PROVE  IInv'
<1> DEFINE s == work[w]
           p == work[w].old
<1>1. s.pc = "point" /\ WorkerOK(w) /\ IsStep(s) /\ UNCHANGED <<entities, rec, idx>>
  BY DEF Point, At, IInv, WorkerOK
<1>2. p # None /\ InIndex(p) /\ InIndex(s.new)
  BY <1>1 DEF WorkerOK, UpdateOK
<1>3. store' = [store EXCEPT ![p].replaced_by = s.new] /\ Goto(w, [s EXCEPT !.pc = "rerecord"])
  BY Zenon DEF Point, Move
<1>4. p \in Stored /\ s.new \in Guids /\ s.new # None
  BY <1>2, ConstantsAssumption DEF InIndex, IInv, StoreOK
<1>5. \A g \in Stored : store[g] \in Link
  BY DEF IInv, StoreOK
<1>6. /\ store' \in [Stored -> Link]
      /\ store'[p].replaced_by = s.new
      /\ \A g \in Stored : /\ store'[g].type = store[g].type
                           /\ store'[g].complete = store[g].complete
                           /\ g # p => store'[g] = store[g]
  <2>1. store \in [Stored -> Link]
    BY DEF IInv, StoreOK
  <2>2. /\ DOMAIN store' = Stored /\ store'[p] = [store[p] EXCEPT !.replaced_by = s.new]
        /\ \A g \in Stored \ {p} : store'[g] = store[g]
    BY <1>3, <1>4, <2>1
  <2>3. store'[p] \in Link
    BY <1>4, <1>5, <2>2 DEF Link, Search!Link
  <2>4. /\ store'[p].type = store[p].type /\ store'[p].complete = store[p].complete
        /\ store'[p].replaced_by = s.new
    BY <1>4, <1>5, <2>2 DEF Link, Search!Link
  <2>5. store' \in [Stored -> Link]
    BY <1>3, <1>4, <1>5, <2>1, <2>2, <2>3
  <2> QED
    BY <2>2, <2>4, <2>5
<1>7. /\ work' = [work EXCEPT ![w] = work'[w]]
      /\ Fields(work'[w], "rerecord", s.made, s.c, p, s.new, s.todo, s.outer)
  BY Zenon, <1>1, <1>3, Changes DEF Goto, IInv
<1>8. Stored' = Stored
  BY <1>6 DEF Stored
<1>9. StoreOK'
  BY <1>1, <1>2, <1>6, <1>8 DEF IInv, StoreOK, InIndex
<1>10. CopiesInOrder'
  BY <1>1, <1>4, <1>6, <1>8 DEF IInv, CopiesInOrder
<1>11. Grows
  BY <1>1, <1>4, <1>6, <1>8 DEF Grows, Stored
<1>12. \A v \in Workers \ {w} : LeavesAlone(v)
  BY <1>1 DEF LeavesAlone
<1>13. WorkerOK(w)' /\ ~Writing(w)'
  BY <1>1, <1>2, <1>4, <1>6, <1>7, <1>8
     DEF Fields, WorkerOK, Writing, IsStep, OwnOK, UpdateOK, CandidateOK, OuterOK, InIndex
<1> QED
  BY <1>1, <1>7, <1>9, <1>10, <1>11, <1>12, <1>13, OneWorkerMoves DEF IInv

LEMMA RerecordOK ==
  ASSUME IInv, NEW w \in Workers, Rerecord(w)
  PROVE  IInv'
<1> DEFINE s == work[w]
           p == work[w].old
<1>1. s.pc = "rerecord" /\ WorkerOK(w) /\ IsStep(s) /\ UNCHANGED <<entities, store, idx>>
  BY DEF Rerecord, At, IInv, WorkerOK
<1>2. p # None /\ InIndex(p) /\ p \in Stored /\ store[p].replaced_by # None
  BY <1>1 DEF WorkerOK, UpdateOK, InIndex
<1>3. rec' = [rec EXCEPT ![p] = "replaced"] /\ Goto(w, [s EXCEPT !.pc = "reindex"])
  BY Zenon DEF Rerecord, Move
<1>4. /\ work' = [work EXCEPT ![w] = work'[w]]
      /\ Fields(work'[w], "reindex", s.made, s.c, p, s.new, s.todo, s.outer)
  BY Zenon, <1>1, <1>3, Changes DEF Goto, IInv
<1>5. rec'[p] = "replaced" /\ \A h \in Stored \ {p} : rec'[h] = rec[h]
  BY <1>2, <1>3 DEF IInv, StoreOK
<1>6. StoreOK'
  BY <1>1, <1>3 DEF IInv, StoreOK, InIndex, Stored, States
<1>7. CopiesInOrder'
  BY <1>1, <1>2, <1>5 DEF IInv, CopiesInOrder, Stored
<1>8. Grows
  BY <1>1, <1>2, <1>5 DEF Grows, Stored
<1>9. \A v \in Workers \ {w} : LeavesAlone(v)
  BY <1>1, <1>2, <1>5, OthersLeftAlone
<1>10. WorkerOK(w)' /\ ~Writing(w)'
  BY <1>1, <1>2, <1>4, <1>5
     DEF Fields, WorkerOK, Writing, IsStep, OwnOK, UpdateOK, CandidateOK, OuterOK, InIndex, Stored
<1> QED
  BY <1>1, <1>4, <1>6, <1>7, <1>8, <1>9, <1>10, OneWorkerMoves DEF IInv

LEMMA ReindexOK ==
  ASSUME IInv, NEW w \in Workers, Reindex(w)
  PROVE  IInv'
<1> DEFINE s == work[w]
           p == work[w].old
<1>1. s.pc = "reindex" /\ WorkerOK(w) /\ IsStep(s) /\ UNCHANGED <<entities, store, rec>>
  BY DEF Reindex, At, IInv, WorkerOK
<1>2. p # None /\ InIndex(p) /\ p \in Stored /\ rec[p] = "replaced"
  BY <1>1 DEF WorkerOK, UpdateOK, InIndex
<1>3. /\ idx' = [idx EXCEPT ![p] = "replaced"]
      /\ \/ Goto(w, Idle)
         \/ s.outer # None /\ Goto(w, [s EXCEPT !.pc = "next"])
  BY Zenon DEF Reindex, Move
<1>4. idx'[p] = "replaced" /\ \A h \in Stored \ {p} : idx'[h] = idx[h]
  BY <1>2, <1>3 DEF IInv, StoreOK
<1>5. StoreOK'
  <2>1. \A x : InIndex(x) => InIndex(x)'
    BY <1>1, <1>4 DEF InIndex, Stored
  <2> QED
    BY <1>1, <1>3, <2>1 DEF IInv, StoreOK, Stored, States
<1>6. CopiesInOrder'
  BY <1>1, <1>2, <1>4 DEF IInv, CopiesInOrder, Stored
<1>7. Grows
  BY <1>1, <1>2, <1>4 DEF Grows, Stored
<1>8. \A v \in Workers \ {w} : LeavesAlone(v)
  BY <1>1, <1>2, <1>4, OthersLeftAlone
<1>9. WorkerOK(w)' /\ ~Writing(w)' /\ work' = [work EXCEPT ![w] = work'[w]]
  <2>1. CASE Goto(w, Idle)
    <3>1. work' = [work EXCEPT ![w] = Idle] /\ work'[w] = Idle
      BY <2>1 DEF Goto, IInv
    <3> QED
      BY <3>1, IdleOK
  <2>2. CASE s.outer # None /\ Goto(w, [s EXCEPT !.pc = "next"])
    <3>1. /\ work' = [work EXCEPT ![w] = work'[w]]
          /\ Fields(work'[w], "next", s.made, s.c, p, s.new, s.todo, s.outer)
      BY Zenon, <1>1, <2>2, Changes DEF Goto, IInv
    <3> QED
      BY <1>1, <1>2, <1>4, <2>2, <3>1
         DEF Fields, WorkerOK, Writing, IsStep, OwnOK, UpdateOK, CandidateOK, OuterOK, InIndex, Stored
  <2> QED
    BY <1>3, <2>1, <2>2
<1> QED
  BY <1>1, <1>5, <1>6, <1>7, <1>8, <1>9, OneWorkerMoves DEF IInv

------------------------------------------------------------------------------
LEMMA InitIInv == Init => IInv
<1> SUFFICES ASSUME Init PROVE IInv
  OBVIOUS
<1>1. Stored = {} /\ entities = {}
  BY DEF Init, Stored
<1>2. StoreOK /\ CopiesInOrder
  BY <1>1 DEF Init, StoreOK, CopiesInOrder, Stored
<1>3. \A w \in Workers : work[w] = Idle
  BY DEF Init
<1>4. \A w \in Workers : WorkerOK(w) /\ ~Writing(w)
  BY <1>3 DEF Idle, Step, WorkerOK, Writing, IsStep, OwnOK, UpdateOK, CandidateOK, OuterOK
<1> QED
  BY <1>1, <1>2, <1>4 DEF IInv, Apart, Init

LEMMA NextIInv == IInv /\ [Next]_vars => IInv'
<1> SUFFICES ASSUME IInv, [Next]_vars PROVE IInv'
  OBVIOUS
<1>1. CASE Next
  BY <1>1, BeginEntityOK, BeginCreateOK, BeginUpdateOK, LookOK, WriteOK, RecordOK, IndexOK,
     FindWaitingOK, CompleteOK, PointOK, RerecordOK, ReindexOK, KillOK
     DEF Next, Serve
<1>2. CASE UNCHANGED vars
  BY <1>2 DEF vars, IInv, StoreOK, CopiesInOrder, WorkerOK, IsStep, OwnOK, UpdateOK,
     CandidateOK, OuterOK, Apart, Writing, InIndex, Stored
<1> QED
  BY <1>1, <1>2

LEMMA IInvSuccessorFound == IInv => SuccessorFound
BY DEF IInv, StoreOK, CopiesInOrder, SuccessorFound, InIndex

(* What every worker relies on between its calls stays true. *)
THEOREM InvariantHolds == Spec => []IInv
BY InitIInv, NextIInv, PTL DEF Spec

(* However many requests run and are killed, the copies of a version       *)
(* (relationship, rec, index) are written in an order no kill can spoil.   *)
THEOREM CopiesStayInOrder == Spec => []CopiesInOrder
<1>1. IInv => CopiesInOrder
  BY DEF IInv
<1> QED
  BY <1>1, InvariantHolds, PTL

(* However many requests run and are killed, no version that any copy      *)
(* calls replaced is without a successor in the index.                     *)
THEOREM SuccessorsAreFound == Spec => []SuccessorFound
BY IInvSuccessorFound, InvariantHolds, PTL

------------------------------------------------------------------------------
(* The IDs of one worker. *)

(* An ID that searches find as v. *)
Bears(g, v) == /\ g \in Stored
               /\ idx[g] = "current"
               /\ store[g].alive
               /\ store[g].type = Id
               /\ Search!SameValue(store[g].value, v)

IdsOnce == \A v \in Values \cup {None}, g, h \in Stored : Bears(g, v) /\ Bears(h, v) => g = h

(* From the searches that found an ID free until it is in the index. *)
PendingOK(w) ==
  LET s == work[w] IN
  /\ s.pc \in {"record", "index"} => store[s.new] = s.c
  /\ s.pc \in {"write", "record", "index"} /\ s.c.type = Id /\ s.c.alive
     => \A g \in Stored : ~Bears(g, s.c.value)

IdInv == /\ IInv
         /\ IdsOnce
         /\ \A w \in Workers : PendingOK(w)

LEMMA SameValueEquivalence ==
  /\ \A v : Search!SameValue(v, v)
  /\ \A v, w : Search!SameValue(v, w) => Search!SameValue(w, v)
  /\ \A u, v, w : Search!SameValue(u, v) /\ Search!SameValue(v, w) => Search!SameValue(u, w)
BY DEF Search!SameValue

LEMMA BearersAreHolders ==
  ASSUME StoreOK, CopiesInOrder, NEW v, NEW g
  PROVE  /\ Bears(g, v) <=> g \in Search!Holders(v)
         /\ Bears(g, v) => Indexed[g].value = store[g].value
<1>1. CASE ~InIndex(g)
  <2>1. ~Bears(g, v)
    BY <1>1 DEF Bears, InIndex
  <2>2. g \notin Search!Holders(v)
    BY <1>1, IndexedRecords DEF Search!Holders, Search!Live, Search!Current, Search!Written
  <2> QED
    BY <2>1, <2>2
<1>2. CASE InIndex(g)
  <2>1. g \in Stored /\ g \in DOMAIN Indexed
    BY <1>2, IndexedRecords DEF InIndex
  <2>2. Indexed[g] = IF idx[g] = "current" THEN [store[g] EXCEPT !.replaced_by = None] ELSE store[g]
    BY <1>2 DEF Indexed, InIndex
  <2>3. store[g] \in Link /\ idx[g] \in {"current", "replaced"}
    BY <1>2, <2>1 DEF StoreOK, InIndex, States
  <2>4. idx[g] = "replaced" => store[g].replaced_by # None
    BY <2>1 DEF CopiesInOrder
  <2>5. /\ Indexed[g].type = store[g].type /\ Indexed[g].alive = store[g].alive
        /\ Indexed[g].value = store[g].value
        /\ Indexed[g].replaced_by = None <=> idx[g] = "current"
    BY <2>2, <2>3, <2>4 DEF Link, Search!Link
  <2> QED
    BY <2>1, <2>5 DEF Bears, Search!Holders, Search!Live, Search!Current, Search!Written
<1> QED
  BY <1>1, <1>2

LEMMA IdsOnceMeans ==
  ASSUME StoreOK, CopiesInOrder
  PROVE  OneHolder <=> IdsOnce
<1>1. ASSUME OneHolder, NEW v \in Values \cup {None}, NEW g \in Stored, NEW h \in Stored,
             Bears(g, v), Bears(h, v)
      PROVE  g = h
  <2>1. g \in Search!Holders(v) /\ h \in Search!Holders(v)
    BY <1>1, BearersAreHolders
  <2>2. Search!SameValue(Indexed[g].value, Indexed[h].value)
    BY <2>1, SameValueEquivalence DEF Search!Holders
  <2> QED
    BY <1>1, <2>1, <2>2 DEF OneHolder, Search!IdUnique, Search!Holders
<1>2. ASSUME IdsOnce, NEW g \in Search!Live, NEW h \in Search!Live,
             Indexed[g].type = Id, Indexed[h].type = Id,
             Search!SameValue(Indexed[g].value, Indexed[h].value)
      PROVE  g = h
  <2>1. g \in Search!Holders(Indexed[h].value) /\ h \in Search!Holders(Indexed[h].value)
    BY <1>2, SameValueEquivalence DEF Search!Holders
  <2>2. Indexed[h].value \in Values \cup {None}
    BY <1>2, IndexedRecords DEF Search!Live, Search!Current, Search!Written, Link, Search!Link
  <2>3. Bears(g, Indexed[h].value) /\ Bears(h, Indexed[h].value)
    BY <2>1, BearersAreHolders
  <2> QED
    BY <1>2, <2>2, <2>3 DEF IdsOnce, Bears
<1> QED
  BY <1>1, <1>2 DEF OneHolder, Search!IdUnique, IdsOnce

(* A step after which searches find no more IDs than before. *)
NoMoreBearers == \A g, v : Bears(g, v)' => Bears(g, v)

LEMMA FewerIds ==
  ASSUME IdInv, NEW w \in Workers, \A v \in Workers : v = w, IInv', NoMoreBearers, PendingOK(w)'
  PROVE  IdInv'
<1>1. IdsOnce'
  BY DEF IdInv, IdsOnce, NoMoreBearers, Bears
<1> QED
  BY <1>1 DEF IdInv

(* Most steps leave the worker with nothing to write and change nothing   *)
(* searches for IDs see.                                                   *)
Settled(w) == work[w].pc \notin {"write", "record", "index"}

LEMMA SettledOK ==
  ASSUME NEW w, Settled(w)
  PROVE  PendingOK(w)
BY DEF Settled, PendingOK

LEMMA SameBearers ==
  ASSUME UNCHANGED <<store, idx>>
  PROVE  NoMoreBearers
BY DEF NoMoreBearers, Bears, Stored

(* The worker's next call, when it is known. *)
LEMMA Gone ==
  ASSUME IInv, NEW w \in Workers, NEW s, Goto(w, s)
  PROVE  work'[w] = s
BY DEF IInv, Goto

LEMMA BeginSettles ==
  ASSUME IInv, NEW w \in Workers, NEW made, NEW c, NEW old, Begin(w, made, c, old)
  PROVE  Settled(w)' /\ UNCHANGED <<store, idx>>
<1>1. work'[w] = Step("look", made, c, old, [entities |-> entities, link |-> Indexed])
  BY Gone DEF Begin
<1> QED
  BY <1>1 DEF Begin, Step, Settled

LEMMA RequestSettles ==
  ASSUME IInv, NEW w \in Workers, BeginEntity(w) \/ BeginCreate(w) \/ BeginUpdate(w)
  PROVE  Settled(w)' /\ UNCHANGED <<store, idx>>
<1>1. CASE BeginEntity(w)
  BY Zenon, <1>1, BeginSettles DEF BeginEntity
<1>2. CASE BeginCreate(w)
  <2>1. PICK c : Begin(w, None, c, None)
    BY Zenon, <1>2 DEF BeginCreate
  <2> QED
    BY <2>1, BeginSettles
<1>3. CASE BeginUpdate(w)
  <2>1. PICK p, e, a : BeginUpdate(w)!(p, e, a)
    BY Zenon, <1>3 DEF BeginUpdate
  <2>2. \E c : Begin(w, None, c, p)
    BY <2>1
  <2> QED
    BY <2>2, BeginSettles
<1> QED
  BY <1>1, <1>2, <1>3

LEMMA IdleSettles ==
  ASSUME IInv, NEW w \in Workers, Goto(w, Idle)
  PROVE  Settled(w)'
BY Gone DEF Idle, Step, Settled

LEMMA MoveSettles ==
  ASSUME IInv, NEW w \in Workers, NEW s, IsStep(s), NEW p, p \notin {"write", "record", "index"},
         NEW c, NEW g, NEW T, NEW o,
         \/ Goto(w, [s EXCEPT !.pc = p])
         \/ Goto(w, [s EXCEPT !.pc = p, !.outer = o, !.todo = T])
         \/ Goto(w, [s EXCEPT !.pc = p, !.todo = T, !.old = g, !.made = None, !.c = c])
  PROVE  Settled(w)'
<1>1. /\ [s EXCEPT !.pc = p].pc = p
      /\ [s EXCEPT !.pc = p, !.outer = o, !.todo = T].pc = p
      /\ [s EXCEPT !.pc = p, !.todo = T, !.old = g, !.made = None, !.c = c].pc = p
  BY Zenon DEF IsStep
<1>2. work'[w].pc = p
  BY Zenon, <1>1, Gone
<1> QED
  BY <1>2 DEF Settled

LEMMA SearchSettles ==
  ASSUME IInv, NEW w \in Workers, FindWaiting(w) \/ Complete(w) \/ Kill(w)
  PROVE  Settled(w)' /\ UNCHANGED <<store, idx>>
<1>1. IsStep(work[w]) /\ OuterOK(work[w])
  BY DEF IInv, WorkerOK
<1>2. CASE FindWaiting(w)
  BY <1>1, <1>2, MoveSettles DEF FindWaiting
<1>3. CASE Complete(w)
  <2>1. IsStep(work[w].outer)
    BY <1>1, <1>3 DEF Complete, At, OuterOK
  <2>2. CASE Goto(w, Idle)
    BY <1>3, <2>2, IdleSettles DEF Complete
  <2>3. CASE ~Goto(w, Idle)
    BY <1>1, <1>3, <2>1, <2>3, MoveSettles DEF Complete
  <2> QED
    BY <2>2, <2>3
<1>4. CASE Kill(w)
  BY <1>4, IdleSettles DEF Kill
<1> QED
  BY <1>2, <1>3, <1>4

LEMMA UpdateSettles ==
  ASSUME IInv, NEW w \in Workers, Point(w) \/ Rerecord(w) \/ Reindex(w)
  PROVE  Settled(w)' /\ NoMoreBearers
<1>1. IsStep(work[w]) /\ UpdateOK(work[w])
  BY DEF IInv, WorkerOK
<1>2. CASE Point(w)
  <2>1. Settled(w)'
    BY <1>1, <1>2, MoveSettles DEF Point, Move
  <2>2. work[w].old \in Stored /\ store[work[w].old] \in Link
    BY <1>1, <1>2 DEF Point, At, UpdateOK, InIndex, IInv, StoreOK
  <2>3. /\ Stored' = Stored /\ idx' = idx
        /\ \A g \in Stored : /\ store'[g].type = store[g].type
                             /\ store'[g].alive = store[g].alive
                             /\ store'[g].value = store[g].value
    BY <1>2, <2>2 DEF Point, Stored, Link, Search!Link
  <2> QED
    BY <2>1, <2>3 DEF NoMoreBearers, Bears
<1>3. CASE Rerecord(w)
  BY <1>1, <1>3, MoveSettles, SameBearers DEF Rerecord, Move
<1>4. CASE Reindex(w)
  <2>1. Settled(w)'
    BY <1>1, <1>4, MoveSettles, IdleSettles DEF Reindex, Move
  <2>2. Stored' = Stored /\ store' = store /\ \A g \in Stored : idx'[g] = "current" => idx[g] = "current"
    BY <1>4 DEF Reindex, Stored, IInv, StoreOK
  <2> QED
    BY <2>1, <2>2 DEF NoMoreBearers, Bears
<1> QED
  BY <1>2, <1>3, <1>4

(* create_property's check: a living ID is written only when no search     *)
(* finds it.                                                               *)
LEMMA LookPends ==
  ASSUME IInv, NEW w \in Workers, Look(w)
  PROVE  PendingOK(w)' /\ UNCHANGED <<store, idx>>
<1>1. work[w].pc = "look" /\ IsStep(work[w]) /\ UNCHANGED <<store, idx>>
  BY DEF Look, At, IInv, WorkerOK
<1>2. PICK c \in Search!Resolved(work[w].c) :
        \/ Goto(w, Idle)
        \/ \E g \in Search!Existing(c) : Goto(w, [work[w] EXCEPT !.pc = "point", !.new = g])
        \/ /\ c.alive => Search!Existing(c) = {}
           /\ c.type = Id => Search!IdFree(c)
           /\ Goto(w, [work[w] EXCEPT !.pc = "write", !.c = c])
  BY Zenon DEF Look
<1>3. CASE Goto(w, Idle)
  BY <1>1, <1>3, IdleSettles, SettledOK, PTL
<1>4. ASSUME NEW g \in Search!Existing(c), Goto(w, [work[w] EXCEPT !.pc = "point", !.new = g])
      PROVE  PendingOK(w)'
  <2>1. work'[w].pc = "point"
    BY Zenon, <1>1, <1>4, Gone DEF IsStep
  <2> QED
    BY <2>1 DEF PendingOK
<1>5. ASSUME c.alive => Search!Existing(c) = {}, c.type = Id => Search!IdFree(c),
             Goto(w, [work[w] EXCEPT !.pc = "write", !.c = c])
      PROVE  PendingOK(w)'
  <2>1. work'[w].pc = "write" /\ work'[w].c = c
    BY Zenon, <1>1, <1>5, Gone DEF IsStep
  <2>2. ASSUME c.type = Id, c.alive, NEW g \in Stored, Bears(g, c.value)
        PROVE  FALSE
    <3>1. g \in Search!Holders(c.value)
      BY <2>2, BearersAreHolders DEF IInv
    <3>2. ~Indexed[g].complete
      BY <1>5, <2>2, <3>1 DEF Search!IdFree
    <3>3. InIndex(g) /\ store[g].type = Id
      BY <2>2 DEF Bears, InIndex
    <3> QED
      BY <3>2, <3>3, IndexedRecords DEF IInv, StoreOK, InIndex
  <2>3. \A g \in Stored' : Bears(g, c.value)' => g \in Stored /\ Bears(g, c.value)
    BY <1>1 DEF Bears, Stored
  <2> QED
    BY <2>1, <2>2, <2>3 DEF PendingOK
<1> QED
  BY <1>1, <1>2, <1>3, <1>4, <1>5

LEMMA WritePends ==
  ASSUME IdInv, NEW w \in Workers, Write(w)
  PROVE  PendingOK(w)' /\ NoMoreBearers
<1>1. work[w].pc = "write" /\ IsStep(work[w]) /\ PendingOK(w) /\ IInv
  BY DEF Write, At, IdInv, IInv, WorkerOK
<1> PICK c : c = work[w].c
  OBVIOUS
<1>2. PICK g \in Guids \ Stored : /\ store' = Extend(store, g, c)
                                 /\ idx' = Extend(idx, g, "none")
                                 /\ Goto(w, [work[w] EXCEPT !.pc = "record", !.new = g])
  BY Zenon DEF Write
<1>3. work'[w].pc = "record" /\ work'[w].c = c /\ work'[w].new = g
  BY Zenon, <1>1, <1>2, Gone DEF IsStep
<1>4. /\ store'[g] = c
      /\ \A h : Bears(h, c.value)' => h \in Stored /\ Bears(h, c.value)
  BY <1>2 DEF Bears, Extend, Stored, IdInv, IInv, StoreOK
<1>5. NoMoreBearers
  BY <1>2 DEF NoMoreBearers, Bears, Extend, Stored, IdInv, IInv, StoreOK
<1> QED
  BY <1>1, <1>3, <1>4, <1>5 DEF PendingOK

LEMMA RecordPends ==
  ASSUME IdInv, NEW w \in Workers, Record(w)
  PROVE  PendingOK(w)' /\ NoMoreBearers
<1>1. work[w].pc = "record" /\ IsStep(work[w]) /\ PendingOK(w) /\ IInv /\ UNCHANGED <<store, idx>>
  BY DEF Record, At, IdInv, IInv, WorkerOK
<1>2. work'[w].pc = "index" /\ work'[w].c = work[w].c /\ work'[w].new = work[w].new
  BY Zenon, <1>1, Gone DEF Record, Move, IsStep
<1>3. \A h, v : Bears(h, v)' => h \in Stored /\ Bears(h, v)
  BY <1>1 DEF Bears, Stored
<1> QED
  BY <1>1, <1>2, <1>3, SameBearers DEF PendingOK

LEMMA IndexKeepsIds ==
  ASSUME IdInv, NEW w \in Workers, \A v \in Workers : v = w, Index(w)
  PROVE  IdInv'
<1> PICK g : g = work[w].new
  OBVIOUS
<1>1. /\ work[w].pc = "index" /\ IsStep(work[w]) /\ PendingOK(w) /\ UNCHANGED store
      /\ g \in Stored /\ work[w].c \in Link /\ store[g] = work[w].c
  BY DEF Index, At, IdInv, IInv, WorkerOK, OwnOK, CandidateOK, PendingOK
<1>2. idx' = [idx EXCEPT ![g] = "current"]
  BY DEF Index
<1>3. Settled(w)'
  BY <1>1, MoveSettles, IdleSettles DEF Index, Move, IdInv
<1>4. ASSUME NEW v \in Values \cup {None}, NEW h \in Stored', NEW k \in Stored', Bears(h, v)', Bears(k, v)'
      PROVE  h = k
  <2>1. \A x \in Stored' : Bears(x, v)' => x = g \/ Bears(x, v)
    BY <1>1, <1>2 DEF Bears, Stored, IdInv, IInv, StoreOK
  <2>2. ASSUME NEW x \in Stored', x # g, Bears(x, v), Bears(g, v)'
        PROVE  FALSE
    <3>1. store[g].type = Id /\ store[g].alive /\ Search!SameValue(store[g].value, v)
      BY <1>1, <2>2 DEF Bears
    <3>2. Search!SameValue(store[x].value, store[g].value)
      BY <2>2, <3>1, SameValueEquivalence DEF Bears
    <3>3. x \in Stored /\ Bears(x, work[w].c.value)
      BY <1>1, <2>2, <3>2 DEF Bears
    <3> QED
      BY <1>1, <3>1, <3>3 DEF PendingOK
  <2>3. Bears(h, v) /\ Bears(k, v) => h = k
    BY DEF IdInv, IdsOnce, Bears
  <2> QED
    BY <1>4, <2>1, <2>2, <2>3
<1>5. IdsOnce'
  BY <1>4 DEF IdsOnce
<1>6. IInv'
  BY IndexOK DEF IdInv
<1>7. PendingOK(w)'
  BY <1>3, SettledOK, PTL
<1> QED
  BY <1>5, <1>6, <1>7 DEF IdInv

LEMMA NextIdInv ==
  ASSUME \A v, w \in Workers : v = w
  PROVE  IdInv /\ [Next]_vars => IdInv'
<1> SUFFICES ASSUME IdInv, [Next]_vars PROVE IdInv'
  OBVIOUS
<1>1. IInv /\ IInv'
  BY NextIInv DEF IdInv
<1>2. CASE Next
  <2>1. PICK w \in Workers : BeginEntity(w) \/ BeginCreate(w) \/ BeginUpdate(w) \/ Serve(w) \/ Kill(w)
    BY <1>2 DEF Next
  <2>2. \A v \in Workers : v = w
    OBVIOUS
  <2>3. CASE Index(w)
    BY <2>2, <2>3, IndexKeepsIds
  <2>4. Index(w) \/ (PendingOK(w)' /\ NoMoreBearers)
    <3>1. Settled(w)' => PendingOK(w)'
      BY SettledOK, PTL
    <3> QED
      BY <1>1, <2>1, <3>1, RequestSettles, SearchSettles, UpdateSettles, SameBearers,
         LookPends, WritePends, RecordPends DEF Serve
  <2> QED
    BY <1>1, <2>2, <2>3, <2>4, FewerIds
<1>3. CASE UNCHANGED vars
  BY <1>1, <1>3 DEF vars, IdInv, IdsOnce, PendingOK, Bears, Stored
<1> QED
  BY <1>2, <1>3

LEMMA InitIdInv == Init => IdInv
<1> SUFFICES ASSUME Init PROVE IdInv
  OBVIOUS
<1>1. IInv
  BY InitIInv
<1>2. Stored = {} /\ \A w \in Workers : Settled(w)
  BY DEF Init, Stored, Idle, Step, Settled
<1> QED
  BY <1>1, <1>2, SettledOK DEF IdInv, IdsOnce

(* With one worker, as uWSGI runs it (wsgi_config.json, processes: 1), no  *)
(* search ever finds an ID twice, at any moment of any request and however *)
(* often the worker is killed between two calls: the check of              *)
(* create_property (lridb.py 134-142) is never undone by what it left.     *)
THEOREM IdsStayUnique ==
  ASSUME \A v, w \in Workers : v = w
  PROVE  Spec => []OneHolder
<1>1. IdInv => OneHolder
  BY IdsOnceMeans DEF IdInv, IInv
<1> QED
  BY <1>1, InitIdInv, NextIdInv, PTL DEF Spec

-----------------------------------------------------------------------------
(***************************************************************************)
(* That the calls of StoreSteps carry out the requests of PropStore, when  *)
(* one worker serves them and is never killed.                             *)
(*                                                                         *)
(* The request under way appears as done when its last call returns;       *)
(* until then the store it found is shown.  RInv says what the calls made  *)
(* so far have done to that store: nothing that a search sees, or one      *)
(* version written, or some of the links that wait for an ID completed     *)
(* (Completing).  Each call keeps it, and the last one turns the store the *)
(* request found into one that PropStore allows.                           *)
(***************************************************************************)

(* The store as a request found it. *)
Past(b) == INSTANCE PropStore
  WITH entities <- b.entities, link <- b.link, UniqueForward <- {}, UniqueReverse <- {}

IdLike(l) == l.type = Id => l.to = None /\ l.value \in Values /\ l.complete

BookOK(b) == /\ b.entities \subseteq Entities
             /\ DOMAIN b.link \subseteq Guids
             /\ b.link \in [DOMAIN b.link -> Link]
             /\ \A g \in DOMAIN b.link : IdLike(b.link[g])

(* A request for candidate c, of store b: one disjunct per kind. *)
AskedEntity(b, made, c) ==
  /\ made \in Entities \ b.entities
  /\ \E v \in Values, u \in Users : c = Search!Candidate(Id, made, None, v, u, TRUE)

AskedCreate(b, c) ==
  \E e \in b.entities, u \in Users, a \in BOOLEAN :
    \/ \E t \in Literals, v \in Values : c = Search!Candidate(t, e, None, v, u, a)
    \/ \E t \in LinkTypes, x \in b.entities : c = Search!Candidate(t, e, x, None, u, a)
    \/ \E t \in LinkTypes, v \in Values : \/ c = Search!Candidate(t, e, None, v, u, a)
                                         \/ c = Search!Candidate(t, None, e, v, u, a)

AskedUpdate(b, c, p) ==
  \E e \in b.entities, a \in BOOLEAN :
    LET old == b.link[p]
        Renewed(x, v) == c = Search!Candidate(old.type, e, x, v, old.creator, a)
    IN /\ Past(b)!Updatable(p)
       /\ \/ old.to = None /\ \E v \in Values \ {old.value} : Renewed(None, v)
          \/ /\ old.to # None
             /\ \E v \in Values : \/ Past(b)!Owners(v) = {} /\ Renewed(old.to, None)
                                  \/ \E x \in Past(b)!Owners(v) \ {old.to} : Renewed(x, None)
          \/ /\ old.to # None \/ ~old.complete
             /\ \E x \in b.entities \ {old.to} : Renewed(x, None)
          \/ c = [old EXCEPT !.from = e, !.alive = a]

Asked(b, made, c, old) ==
  \/ old = None /\ AskedEntity(b, made, c)
  \/ old = None /\ made = None /\ AskedCreate(b, c)
  \/ old \in DOMAIN b.link /\ made = None /\ AskedUpdate(b, c, old)

(* The searches made: c is to be written, or g is there already. *)
Chosen(b, made, c, old) ==
  /\ \E d : Asked(b, made, d, old) /\ c \in Past(b)!Resolved(d)
  /\ c.alive => Past(b)!Existing(c) = {}
  /\ c.type = Id => Past(b)!IdFree(c)

Found(b, made, old, g) ==
  /\ old # None
  /\ \E d : /\ Asked(b, made, d, old)
            /\ \E c \in Past(b)!Resolved(d) : c.alive /\ g \in Past(b)!Existing(c)

Grown(b, made) == b.entities \cup ({made} \ {None})

(* Links d of b that wait for the ID of request t have been led to r. *)
Ends(t, d) == Past(t.seen)!Attach(t.seen.link[d], t.c.from)

(* The version l is what a search for the completed link a finds. *)
Hit(l, a) == /\ l.replaced_by = None
             /\ l.alive = TRUE
             /\ l.type = a.type
             /\ l.from = a.from
             /\ l.to = a.to
             /\ FoldUser[l.creator] = FoldUser[a.creator]
             /\ l.value = None

Led(n, t, d, r) ==
  LET a == Ends(t, d)
      X == Past(t.seen)!Existing(a)
  IN IF X # {} THEN r \in X
     ELSE r \in DOMAIN n.link \ (DOMAIN t.seen.link \cup {t.new}) /\ Hit(n.link[r], a)

Waits(t) == Past(t.seen)!Waiting(t.c)

(* The store n once the ID of request t is written and the waiting links   *)
(* done are completed; extra may be written already.                       *)
Completing(n, t, done, extra) ==
  LET L == t.seen.link
  IN /\ Chosen(t.seen, t.made, t.c, t.old)
     /\ t.c.type = Id
     /\ n.entities = Grown(t.seen, t.made)
     /\ t.new \in DOMAIN n.link \ DOMAIN L
     /\ n.link[t.new] = t.c
     /\ DOMAIN L \subseteq DOMAIN n.link
     /\ done \subseteq Waits(t)
     /\ \A g \in DOMAIN L \ done : n.link[g] = L[g]
     /\ \A d \in done : /\ n.link[d] = [L[d] EXCEPT !.replaced_by = n.link[d].replaced_by]
                        /\ Led(n, t, d, n.link[d].replaced_by)
     /\ \A k \in DOMAIN n.link \ (DOMAIN L \cup {t.new}) :
          k \in extra \/ \E d \in done : n.link[d].replaced_by = k /\ n.link[k] = Ends(t, d)
     /\ \A j, k \in DOMAIN n.link \ (DOMAIN L \cup {t.new}) : Hit(n.link[j], n.link[k]) => j = k

(* The store n once request s has written its version. *)
Written(n, s) ==
  /\ Chosen(s.seen, s.made, s.c, s.old)
  /\ n.entities = Grown(s.seen, s.made)
  /\ s.new \in Guids \ DOMAIN s.seen.link
  /\ \E f \in Past(s.seen)!Completions(Past(s.seen)!Waiting(s.c), s.c.from, s.new) :
       \E first \in Past(s.seen)!Firsts(f) : n.link = Past(s.seen)!After(s.c, s.new, {}, f, first)

TopOK(n, s) ==
  /\ s.pc = "look" => n = s.seen /\ Asked(s.seen, s.made, s.c, s.old)
  /\ s.pc = "write" => n = s.seen /\ Chosen(s.seen, s.made, s.c, s.old)
  /\ s.pc \in {"record", "index"} =>
       /\ n.link = s.seen.link
       /\ n.entities = Grown(s.seen, s.made)
       /\ Chosen(s.seen, s.made, s.c, s.old)
  /\ s.pc = "search" => Completing(n, s, {}, {})
  /\ s.pc \in {"point", "rerecord", "reindex"} =>
       \/ n = s.seen /\ Found(s.seen, s.made, s.old, s.new)
       \/ s.old # None /\ Written(n, s)

InnerOK(n, s) ==
  LET t == s.outer
      a == Ends(t, s.old)
      done == Waits(t) \ (s.todo \cup {s.old})
  IN /\ t.seen = s.seen
     /\ s.todo \subseteq Waits(t)
     /\ s.pc = "next" => Completing(n, t, Waits(t) \ s.todo, {})
     /\ s.pc # "next" => s.made = None /\ s.old \in Waits(t) \ s.todo
     /\ s.pc \in {"look", "write", "record", "index"} => s.c = a /\ Completing(n, t, done, {})
     /\ s.pc \in {"write", "record", "index"} =>
          /\ Past(t.seen)!Existing(a) = {}
          /\ \A k \in DOMAIN n.link : ~Hit(n.link[k], a)
     /\ s.pc \in {"point", "rerecord", "reindex"} =>
          /\ Led(n, t, s.old, s.new)
          /\ \/ Completing(n, t, done, {})
             \/ n.link[s.new] = a /\ Completing(n, t, done, {s.new})

ServingOK(n, s) ==
  /\ s.pc # "idle"
  /\ BookOK(s.seen)
  /\ s.pc = "next" => s.outer # None
  /\ IF s.outer = None THEN TopOK(n, s) ELSE InnerOK(n, s)

(* What the worker has written of its own. *)
OwnWritten(w) ==
  /\ work[w].pc \in {"record", "index"} => store[work[w].new] = work[w].c
  /\ work[w].pc \in {"rerecord", "reindex"} => store[work[w].old].replaced_by = work[w].new

RInv == /\ IInv
        /\ BookOK(Now)
        /\ \A w \in Workers : /\ OwnWritten(w)
                              /\ work[w] = Idle \/ ServingOK(Now, work[w])
------------------------------------------------------------------------------
(* Searches of the store as it is. *)

LEMMA SearchesNow ==
  /\ \A v : Search!Owners(v) = Past(Now)!Owners(v)
  /\ \A v : Search!Danglers(v) = Past(Now)!Danglers(v)
  /\ \A c : Search!Existing(c) = Past(Now)!Existing(c)
  /\ \A c : Search!Resolved(c) = Past(Now)!Resolved(c)
  /\ \A c : Search!IdFree(c) <=> Past(Now)!IdFree(c)
BY DEF Now, Search!Existing, Search!Resolved, Search!IdFree, Search!Danglers, Search!Owners,
  Search!Holders, Search!Live, Search!Current, Search!Written, Search!SameKey, Search!SameCreator,
  Search!SameValue, Search!Attach,
  Past!Existing, Past!Resolved, Past!IdFree, Past!Danglers, Past!Owners,
  Past!Holders, Past!Live, Past!Current, Past!Written, Past!SameKey, Past!SameCreator,
  Past!SameValue, Past!Attach

(* What is asked for and chosen. *)
SoundLink(c) == /\ c \in Link
                /\ c.replaced_by = None
                /\ c.type = Id => c.to = None /\ c.value \in Values

Sound(b, made, c, old) ==
  /\ SoundLink(c)
  /\ made \in Entities \cup {None}
  /\ old # None => /\ old \in DOMAIN b.link
                   /\ made = None
                   /\ b.link[old].replaced_by = None
                   /\ c.type = b.link[old].type

LEMMA PastOwners ==
  ASSUME NEW b, BookOK(b), NEW v
  PROVE  Past(b)!Owners(v) \subseteq Entities \cup {None}
BY DEF BookOK, Link, Search!Link, Past!Owners, Past!Holders, Past!Live, Past!Current, Past!Written

LEMMA SoundCandidate ==
  ASSUME NEW t \in Literals \cup LinkTypes, NEW f \in Entities \cup {None},
         NEW x \in Entities \cup {None}, NEW v \in Values \cup {None},
         NEW u \in Users, NEW a \in BOOLEAN,
         t = Id => x = None /\ v \in Values
  PROVE  SoundLink(Search!Candidate(t, f, x, v, u, a)) /\ Search!Candidate(t, f, x, v, u, a).type = t
<1> DEFINE c == Search!Candidate(t, f, x, v, u, a)
<1>1. c \in Link /\ c.replaced_by = None
  BY CandidateIsLink
<1>2. c.type = t /\ c.to = x /\ c.value = v
  BY DEF Search!Candidate
<1> QED
  BY <1>1, <1>2 DEF SoundLink

LEMMA AskedSound ==
  ASSUME NEW b, BookOK(b), NEW made, NEW c, NEW old, Asked(b, made, c, old)
  PROVE  Sound(b, made, c, old)
<1>1. CASE old = None /\ AskedEntity(b, made, c)
  <2>1. PICK v \in Values, u \in Users : c = Search!Candidate(Id, made, None, v, u, TRUE)
    BY <1>1 DEF AskedEntity
  <2> QED
    BY <1>1, <2>1, ConstantsAssumption, SoundCandidate DEF AskedEntity, Sound
<1>2. CASE old = None /\ made = None /\ AskedCreate(b, c)
  <2>1. PICK e \in b.entities, u \in Users, a \in BOOLEAN : AskedCreate(b, c)!(e, u, a)
    BY <1>2 DEF AskedCreate
  <2>2. e \in Entities
    BY <2>1 DEF BookOK
  <2>3. CASE \E t \in Literals, v \in Values : c = Search!Candidate(t, e, None, v, u, a)
    BY <1>2, <2>2, <2>3, SoundCandidate DEF Sound
  <2>4. CASE ~\E t \in Literals, v \in Values : c = Search!Candidate(t, e, None, v, u, a)
    <3>1. PICK t \in LinkTypes, f \in Entities \cup {None}, x \in Entities \cup {None},
               v \in Values \cup {None} : c = Search!Candidate(t, f, x, v, u, a)
      BY <2>1, <2>2, <2>4 DEF BookOK
    <3> QED
      BY <1>2, <3>1, SoundCandidate, ConstantsAssumption DEF Sound
  <2> QED
    BY <2>3, <2>4
<1>3. CASE old \in DOMAIN b.link /\ made = None /\ AskedUpdate(b, c, old)
  <2> DEFINE l == b.link[old]
  <2>1. PICK e \in b.entities, a \in BOOLEAN : AskedUpdate(b, c, old)!(e, a)
    BY <1>3 DEF AskedUpdate
  <2>2. /\ l \in Link /\ IdLike(l) /\ e \in Entities /\ l.replaced_by = None
        /\ old # None
    BY <1>3, <2>1, ConstantsAssumption DEF BookOK, Past!Updatable
  <2>3. l.type \in Literals \cup LinkTypes /\ l.creator \in Users /\ l.to \in Entities \cup {None}
    BY <2>2 DEF Link, Search!Link, Search!PropTypes
  <2>4. CASE c = [l EXCEPT !.from = e, !.alive = a]
    BY <1>3, <2>2, <2>4 DEF Sound, SoundLink, IdLike, Link, Search!Link
  <2>5. CASE c # [l EXCEPT !.from = e, !.alive = a]
    <3>1. PICK x \in Entities \cup {None}, v \in Values \cup {None} :
            /\ c = Search!Candidate(l.type, e, x, v, l.creator, a)
            /\ l.type = Id => x = None /\ v \in Values
      BY <2>1, <2>2, <2>3, <2>5, PastOwners DEF IdLike, BookOK
    <3>2. SoundLink(c) /\ c.type = l.type
      <4>1. PICK t \in Literals \cup LinkTypes, u \in Users : t = l.type /\ u = l.creator
        BY <2>3
      <4>2. /\ c = Search!Candidate(t, e, x, v, u, a)
            /\ t = Id => x = None /\ v \in Values
            /\ e \in Entities \cup {None}
        BY <2>2, <3>1, <4>1
      <4>3. SoundLink(Search!Candidate(t, e, x, v, u, a)) /\ Search!Candidate(t, e, x, v, u, a).type = t
        <5> PICK f \in Entities \cup {None} : f = e
          BY <4>2
        <5> PICK d : d = Search!Candidate(t, f, x, v, u, a)
          OBVIOUS
        <5>1. d \in Link /\ d.replaced_by = None
          BY CandidateIsLink
        <5>2. d.type = t /\ d.to = x /\ d.value = v
          BY DEF Search!Candidate
        <5>3. SoundLink(d) /\ d.type = t
          BY <4>2, <5>1, <5>2 DEF SoundLink
        <5> QED
          BY <5>3
      <4> QED
        BY <4>1, <4>2, <4>3
    <3> QED
      BY <1>3, <2>2, <3>2 DEF Sound
  <2> QED
    BY <2>4, <2>5
<1> QED
  BY <1>1, <1>2, <1>3 DEF Asked

(* Whatever its ID is resolved to, a candidate stays sound. *)
LEMMA ResolvedSound ==
  ASSUME NEW b, BookOK(b), NEW made, NEW d, NEW old, Sound(b, made, d, old),
         NEW c \in Past(b)!Resolved(d)
  PROVE  Sound(b, made, c, old) /\ IdLike(c)
<1>1. CASE d.type \in Literals \/ d.value = None
  <2>1. c = [d EXCEPT !.complete = TRUE]
    BY <1>1 DEF Past!Resolved
  <2> QED
    BY <2>1 DEF Sound, SoundLink, IdLike, Link, Search!Link
<1>2. CASE d.type \notin Literals /\ d.value # None /\ Past(b)!Owners(d.value) = {}
  <2>1. c = [d EXCEPT !.complete = FALSE]
    BY <1>2 DEF Past!Resolved
  <2> QED
    BY <1>2, <2>1, ConstantsAssumption DEF Sound, SoundLink, IdLike, Link, Search!Link
<1>3. CASE d.type \notin Literals /\ d.value # None /\ Past(b)!Owners(d.value) # {}
  <2>1. PICK e \in Past(b)!Owners(d.value) : c = Past(b)!Attach(d, e)
    BY <1>3 DEF Past!Resolved
  <2>2. e \in Entities \cup {None}
    BY <2>1, PastOwners
  <2> QED
    BY <1>3, <2>1, <2>2, ConstantsAssumption DEF Sound, SoundLink, IdLike, Link, Search!Link, Past!Attach
<1> QED
  BY <1>1, <1>2, <1>3

LEMMA ChosenSound ==
  ASSUME NEW b, BookOK(b), NEW made, NEW c, NEW old, Chosen(b, made, c, old)
  PROVE  Sound(b, made, c, old) /\ IdLike(c)
<1>1. PICK d : Asked(b, made, d, old) /\ c \in Past(b)!Resolved(d)
  BY DEF Chosen
<1> QED
  BY <1>1, AskedSound, ResolvedSound
------------------------------------------------------------------------------
(* Completing the links that wait for an ID. *)

(* A request that gives an ID. *)
Naming(t) == /\ BookOK(t.seen)
             /\ t.c \in Link
             /\ t.c.type = Id
             /\ t.c.value \in Values

(* A completed link. *)
Ended(a) == /\ a \in Link
            /\ a.type # Id
            /\ a.alive = TRUE
            /\ a.complete = TRUE
            /\ a.value = None
            /\ a.replaced_by = None

LEMMA CompletingNames ==
  ASSUME NEW n, NEW t, NEW done, NEW extra, BookOK(t.seen), Completing(n, t, done, extra)
  PROVE  Naming(t)
BY ChosenSound DEF Completing, Naming, Sound, SoundLink

LEMMA ExistingHits ==
  ASSUME NEW b, NEW a, Ended(a), NEW g
  PROVE  g \in Past(b)!Existing(a) <=> g \in DOMAIN b.link /\ Hit(b.link[g], a)
BY ConstantsAssumption
   DEF Ended, Hit, Past!Existing, Past!Current, Past!Written, Past!SameKey, Past!SameCreator, Past!SameValue

(* Completed links that say the same are found by the same searches. *)
LEMMA HitsAlike ==
  ASSUME NEW a, NEW b, Ended(a), Ended(b)
  PROVE  /\ Hit(a, a)
         /\ (Hit(b, a) => Hit(a, b))
         /\ \A l : Hit(l, a) /\ Hit(l, b) => Hit(b, a)
         /\ \A l : Hit(l, b) /\ Hit(b, a) => Hit(l, a)
         /\ \A x : Hit(b, a) <=> Past(x)!SameKey(a, b)
<1>1. \A l : /\ Hit(a, a)
            /\ (Hit(b, a) => Hit(a, b))
            /\ (Hit(l, a) /\ Hit(l, b) => Hit(b, a))
            /\ (Hit(l, b) /\ Hit(b, a) => Hit(l, a))
  BY DEF Ended, Hit
<1>2. ASSUME NEW x PROVE Hit(b, a) <=> Past(x)!SameKey(a, b)
  <2>1. Past(x)!SameKey(a, b) <=> /\ a.type = b.type /\ a.from = b.from /\ a.to = b.to
                                  /\ FoldUser[a.creator] = FoldUser[b.creator]
    BY DEF Ended, Past!SameKey, Past!SameCreator, Past!SameValue
  <2>2. Hit(b, a) <=> /\ b.type = a.type /\ b.from = a.from /\ b.to = a.to
                      /\ FoldUser[b.creator] = FoldUser[a.creator]
    BY DEF Ended, Hit
  <2> QED
    BY <2>1, <2>2
<1> QED
  BY <1>1, <1>2

LEMMA Waiter ==
  ASSUME NEW t, Naming(t), NEW d \in Waits(t)
  PROVE  /\ d \in DOMAIN t.seen.link
         /\ t.seen.link[d] \in Link
         /\ t.seen.link[d].type # Id
         /\ t.seen.link[d].value # None
         /\ t.seen.link[d].replaced_by = None
         /\ Ended(Ends(t, d))
<1> DEFINE l == t.seen.link[d]
<1>1. /\ d \in DOMAIN t.seen.link /\ l.replaced_by = None /\ l.alive /\ ~l.complete
      /\ Past(t.seen)!SameValue(l.value, t.c.value)
  BY DEF Waits, Naming, Past!Waiting, Past!Danglers, Past!Live, Past!Current, Past!Written
<1>2. l \in Link /\ IdLike(l) /\ t.c.from \in Entities \cup {None}
  BY <1>1 DEF Naming, BookOK, Link, Search!Link
<1>3. l.type # Id
  BY <1>1, <1>2 DEF IdLike
<1>4. l.value # None
  BY <1>1, ConstantsAssumption DEF Past!SameValue, Naming
<1>5. Ended(Ends(t, d))
  BY <1>1, <1>2, <1>3 DEF Ended, Ends, Past!Attach, Link, Search!Link
<1> QED
  BY <1>1, <1>2, <1>3, <1>4, <1>5

(* Where completed links lead. *)
LEMMA LedOut ==
  ASSUME NEW n, NEW t, Naming(t), NEW d \in Waits(t), NEW r, Led(n, t, d, r)
  PROVE  \/ /\ r \in DOMAIN t.seen.link
            /\ r \in Past(t.seen)!Existing(Ends(t, d))
         \/ /\ r \in DOMAIN n.link \ (DOMAIN t.seen.link \cup {t.new})
            /\ Hit(n.link[r], Ends(t, d))
            /\ Past(t.seen)!Existing(Ends(t, d)) = {}
<1>1. Ended(Ends(t, d))
  BY Waiter
<1>2. \A g \in Past(t.seen)!Existing(Ends(t, d)) : g \in DOMAIN t.seen.link
  BY <1>1, ExistingHits
<1> QED
  BY <1>2 DEF Led

(* What the store holds while links are completed: the versions found and  *)
(* not yet touched, those already pointed on, the ID, and completed links. *)
LEMMA CompletingHolds ==
  ASSUME NEW n, NEW t, Naming(t), NEW done, Completing(n, t, done, {}), NEW g \in DOMAIN n.link
  PROVE  \/ g \in DOMAIN t.seen.link \ done /\ n.link[g] = t.seen.link[g]
         \/ /\ g \in done /\ g \in DOMAIN t.seen.link
            /\ n.link[g].value # None /\ t.seen.link[g].value # None
         \/ g = t.new /\ g \notin DOMAIN t.seen.link /\ n.link[g].type = Id
         \/ /\ g \notin DOMAIN t.seen.link
            /\ g # t.new
            /\ \E d \in done : /\ n.link[g] = Ends(t, d)
                               /\ Past(t.seen)!Existing(Ends(t, d)) = {}
<1>1. CASE g \in DOMAIN t.seen.link \ done
  BY <1>1 DEF Completing
<1>2. CASE g \in done
  <2>1. /\ g \in DOMAIN t.seen.link /\ t.seen.link[g].value # None /\ t.seen.link[g] \in Link
    BY <1>2, Waiter DEF Completing
  <2>2. n.link[g] = [t.seen.link[g] EXCEPT !.replaced_by = n.link[g].replaced_by]
    BY <1>2 DEF Completing
  <2>3. n.link[g].value = t.seen.link[g].value
    BY <2>1, <2>2 DEF Link, Search!Link
  <2> QED
    BY <1>2, <2>1, <2>3
<1>3. CASE g = t.new
  BY <1>3 DEF Completing
<1>4. CASE g \notin DOMAIN t.seen.link /\ g # t.new
  <2>1. PICK d \in done : n.link[g] = Ends(t, d) /\ Led(n, t, d, g)
    BY <1>4 DEF Completing
  <2>2. d \in Waits(t)
    BY <2>1 DEF Completing
  <2> QED
    BY <1>4, <2>1, <2>2, LedOut
<1> QED
  BY <1>1, <1>2, <1>3, <1>4

(* complete_property's search, for the next link that waits. *)
LEMMA CompletingSearches ==
  ASSUME NEW n, NEW t, Naming(t), NEW done, Completing(n, t, done, {}), NEW d \in Waits(t) \ done
  PROVE  /\ \A g \in Past(n)!Existing(Ends(t, d)) : Led(n, t, d, g)
         /\ Past(n)!Existing(Ends(t, d)) = {}
            => /\ Past(t.seen)!Existing(Ends(t, d)) = {}
               /\ \A k \in DOMAIN n.link : ~Hit(n.link[k], Ends(t, d))
<1> DEFINE a == Ends(t, d)
<1>1. Ended(a)
  BY Waiter
<1>2. ASSUME NEW g \in Past(n)!Existing(a)
      PROVE  Led(n, t, d, g)
  <2>1. g \in DOMAIN n.link /\ Hit(n.link[g], a)
    BY <1>1, ExistingHits
  <2>2. CASE g \in DOMAIN t.seen.link \ done /\ n.link[g] = t.seen.link[g]
    BY <1>1, <2>1, <2>2, ExistingHits DEF Led
  <2>3. ASSUME g \notin DOMAIN t.seen.link, g # t.new, NEW b \in done,
               n.link[g] = Ends(t, b), Past(t.seen)!Existing(Ends(t, b)) = {}
        PROVE  Led(n, t, d, g)
    <3>1. b \in Waits(t)
      BY DEF Completing
    <3>2. Ended(Ends(t, b)) /\ Hit(Ends(t, b), a)
      BY <2>1, <2>3, <3>1, Waiter
    <3>3. ASSUME NEW x \in Past(t.seen)!Existing(a) PROVE FALSE
      <4>1. x \in DOMAIN t.seen.link /\ Hit(t.seen.link[x], a)
        BY <1>1, ExistingHits
      <4>2. Hit(t.seen.link[x], Ends(t, b))
        BY <1>1, <3>2, <4>1, HitsAlike
      <4> QED
        BY <2>3, <3>2, <4>1, <4>2, ExistingHits
    <3> QED
      BY <2>1, <2>3, <3>3 DEF Led
  <2> QED
    BY <1>1, <2>1, <2>2, <2>3, CompletingHolds DEF Hit, Ended
<1>3. ASSUME Past(n)!Existing(a) = {}, NEW g \in Past(t.seen)!Existing(a)
      PROVE  FALSE
  <2>1. g \in DOMAIN t.seen.link /\ Hit(t.seen.link[g], a)
    BY <1>1, ExistingHits
  <2>2. g \in DOMAIN n.link
    BY <2>1 DEF Completing
  <2>3. n.link[g] = t.seen.link[g]
    BY <2>1, <2>2, CompletingHolds DEF Hit
  <2> QED
    BY <1>1, <1>3, <2>1, <2>2, <2>3, ExistingHits
<1>4. ASSUME Past(n)!Existing(a) = {}, NEW k \in DOMAIN n.link, Hit(n.link[k], a)
      PROVE  FALSE
  BY <1>1, <1>4, ExistingHits
<1> QED
  BY <1>2, <1>3, <1>4

(* The ID is in the index, and its waiting links are found. *)
LEMMA CompletingStarts ==
  ASSUME NEW n, NEW m, NEW t, n.link = t.seen.link, n.entities = Grown(t.seen, t.made),
         Chosen(t.seen, t.made, t.c, t.old), t.c.type = Id, t.new \notin DOMAIN n.link,
         m.link = Extend(n.link, t.new, t.c), m.entities = n.entities
  PROVE  Completing(m, t, {}, {})
BY DEF Completing, Extend

LEMMA CompletingFinds ==
  ASSUME NEW n, NEW t, BookOK(t.seen), Completing(n, t, {}, {})
  PROVE  Past(n)!Danglers(t.c.value) = Waits(t)
<1>1. t.c.complete /\ t.c.type = Id
  BY ChosenSound DEF Completing, IdLike
<1>2. /\ DOMAIN n.link = DOMAIN t.seen.link \cup {t.new}
      /\ \A g \in DOMAIN t.seen.link : n.link[g] = t.seen.link[g]
      /\ n.link[t.new] = t.c
  BY DEF Completing
<1>3. ASSUME NEW g
      PROVE  g \in Past(n)!Danglers(t.c.value) <=> g \in Past(t.seen)!Danglers(t.c.value)
  BY <1>1, <1>2 DEF Past!Danglers, Past!Live, Past!Current, Past!Written, Past!SameValue
<1> QED
  BY <1>1, <1>3 DEF Waits, Past!Waiting

(* A completed link is written: it waits to be pointed at. *)
LEMMA CompletingWrites ==
  ASSUME NEW n, NEW m, NEW t, Naming(t), NEW done, Completing(n, t, done, {}),
         NEW d \in Waits(t) \ done, Past(t.seen)!Existing(Ends(t, d)) = {},
         \A k \in DOMAIN n.link : ~Hit(n.link[k], Ends(t, d)),
         NEW g, g \notin DOMAIN n.link,
         m.link = Extend(n.link, g, Ends(t, d)), m.entities = n.entities
  PROVE  Completing(m, t, done, {g}) /\ Led(m, t, d, g)
<1>1. /\ DOMAIN m.link = DOMAIN n.link \cup {g} /\ m.link[g] = Ends(t, d)
      /\ \A h \in DOMAIN n.link : m.link[h] = n.link[h] /\ h # g
  BY DEF Extend
<1>2. /\ DOMAIN t.seen.link \subseteq DOMAIN n.link /\ t.new \in DOMAIN n.link
      /\ done \subseteq DOMAIN t.seen.link
  BY Waiter DEF Completing
<1>3. \A b \in done : Led(m, t, b, m.link[b].replaced_by)
  <2>1. \A b \in done : m.link[b] = n.link[b]
    BY <1>1, <1>2
  <2>2. \A b, r : Led(n, t, b, r) => Led(m, t, b, r)
    BY <1>1 DEF Led
  <2> QED
    BY <2>1, <2>2 DEF Completing
<1>0. Ended(Ends(t, d))
  BY Waiter
<1>4. Led(m, t, d, g)
  BY <1>0, <1>1, <1>2, HitsAlike DEF Led
<1>5. \A k \in DOMAIN m.link \ (DOMAIN t.seen.link \cup {t.new}) :
        k \in {g} \/ \E b \in done : m.link[b].replaced_by = k /\ m.link[k] = Ends(t, b)
  BY <1>1, <1>2 DEF Completing
<1>6. \A j, k \in DOMAIN m.link \ (DOMAIN t.seen.link \cup {t.new}) : Hit(m.link[j], m.link[k]) => j = k
  <2> TAKE j, k \in DOMAIN m.link \ (DOMAIN t.seen.link \cup {t.new})
  <2>1. CASE j # g /\ k # g
    BY <1>1, <1>2, <2>1 DEF Completing
  <2>2. CASE j # g /\ k = g
    BY <1>1, <2>2
  <2>3. CASE j = g /\ k # g
    <3>1. PICK b \in done : n.link[k] = Ends(t, b)
      BY <1>1, <2>3 DEF Completing
    <3>2. Ended(Ends(t, b))
      BY <3>1, Waiter DEF Completing
    <3>3. ~Hit(m.link[k], m.link[g])
      BY <1>1, <2>3
    <3> QED
      BY <1>0, <1>1, <2>3, <3>1, <3>2, <3>3, HitsAlike
  <2> QED
    BY <2>1, <2>2, <2>3
<1> QED
  BY <1>1, <1>2, <1>3, <1>4, <1>5, <1>6 DEF Completing

(* The link that waited is pointed at its completion. *)
LEMMA CompletingPoints ==
  ASSUME NEW n, NEW m, NEW t, Naming(t), NEW done, NEW g, NEW d \in Waits(t) \ done,
         \/ Completing(n, t, done, {})
         \/ n.link[g] = Ends(t, d) /\ Completing(n, t, done, {g}),
         Led(n, t, d, g),
         m.link = [n.link EXCEPT ![d].replaced_by = g], m.entities = n.entities
  PROVE  Completing(m, t, done \cup {d}, {})
<1>1. d \in DOMAIN t.seen.link /\ t.seen.link[d] \in Link /\ n.link[d] = t.seen.link[d]
  BY Waiter DEF Completing
<1>2. /\ DOMAIN t.seen.link \subseteq DOMAIN n.link /\ t.new \in DOMAIN n.link
      /\ t.new \notin DOMAIN t.seen.link
      /\ done \subseteq DOMAIN t.seen.link
  BY Waiter DEF Completing
<1>3. /\ DOMAIN m.link = DOMAIN n.link
      /\ m.link[d] = [t.seen.link[d] EXCEPT !.replaced_by = g]
      /\ \A h \in DOMAIN n.link \ {d} : m.link[h] = n.link[h]
  BY <1>1, <1>2
<1>4. m.link[d].replaced_by = g
  BY <1>1, <1>3 DEF Link, Search!Link
<1>5. \A b \in done \cup {d} : Led(m, t, b, m.link[b].replaced_by)
  <2>1. \A b \in done : m.link[b] = n.link[b]
    BY <1>2, <1>3
  <2>2. \A b, r : Led(n, t, b, r) => Led(m, t, b, r)
    BY <1>1, <1>3 DEF Led
  <2> QED
    BY <1>4, <2>1, <2>2 DEF Completing
<1>0. /\ \A b \in done : n.link[b] = [t.seen.link[b] EXCEPT !.replaced_by = n.link[b].replaced_by]
      /\ \A k \in DOMAIN n.link \ (DOMAIN t.seen.link \cup {t.new}) :
           \/ k = g /\ n.link[k] = Ends(t, d)
           \/ \E b \in done : n.link[b].replaced_by = k /\ n.link[k] = Ends(t, b)
      /\ \A j, k \in DOMAIN n.link \ (DOMAIN t.seen.link \cup {t.new}) :
           Hit(n.link[j], n.link[k]) => j = k
  BY DEF Completing
<1>6. \A b \in done \cup {d} : m.link[b] = [t.seen.link[b] EXCEPT !.replaced_by = m.link[b].replaced_by]
  <2>1. \A b \in done : m.link[b] = n.link[b]
    BY <1>2, <1>3
  <2>2. \A b \in done : m.link[b] = [t.seen.link[b] EXCEPT !.replaced_by = m.link[b].replaced_by]
    BY <1>0, <2>1
  <2> QED
    BY <1>3, <1>4, <2>2
<1>7. \A k \in DOMAIN m.link \ (DOMAIN t.seen.link \cup {t.new}) :
        \E b \in done \cup {d} : m.link[b].replaced_by = k /\ m.link[k] = Ends(t, b)
  <2>1. /\ \A b \in done : m.link[b] = n.link[b]
        /\ \A k \in DOMAIN m.link \ DOMAIN t.seen.link : m.link[k] = n.link[k]
    BY <1>1, <1>2, <1>3
  <2> SUFFICES ASSUME NEW k \in DOMAIN m.link \ (DOMAIN t.seen.link \cup {t.new})
               PROVE  \E b \in done \cup {d} : m.link[b].replaced_by = k /\ m.link[k] = Ends(t, b)
    OBVIOUS
  <2>2. CASE k = g /\ n.link[k] = Ends(t, d)
    BY <1>3, <1>4, <2>1, <2>2
  <2>3. CASE \E b \in done : n.link[b].replaced_by = k /\ n.link[k] = Ends(t, b)
    BY <1>3, <2>1, <2>3
  <2> QED
    BY <1>0, <1>3, <2>2, <2>3
<1>8. \A j, k \in DOMAIN m.link \ (DOMAIN t.seen.link \cup {t.new}) : Hit(m.link[j], m.link[k]) => j = k
  <2>1. \A k \in DOMAIN m.link \ DOMAIN t.seen.link : m.link[k] = n.link[k]
    BY <1>1, <1>3
  <2> QED
    BY <1>0, <1>3, <2>1
<1>9. \A h \in DOMAIN t.seen.link \ (done \cup {d}) : m.link[h] = t.seen.link[h]
  <2>1. \A h \in DOMAIN t.seen.link \ done : n.link[h] = t.seen.link[h]
    BY DEF Completing
  <2> QED
    BY <1>2, <1>3, <2>1
<1> QED
  BY <1>1, <1>2, <1>3, <1>5, <1>6, <1>7, <1>8, <1>9 DEF Completing

(* When no link waits any more, the store is as PropStore has it. *)
LEMMA CompletingEnds ==
  ASSUME NEW n, NEW t, BookOK(t.seen), BookOK(n), Completing(n, t, Waits(t), {})
  PROVE  Written(n, t)
<1> DEFINE L == t.seen.link
           W == Waits(t)
           f == [d \in W |-> n.link[d].replaced_by]
           New == DOMAIN n.link \ (DOMAIN L \cup {t.new})
<1>1. Naming(t)
  BY CompletingNames
<1>2. W \subseteq DOMAIN L /\ DOMAIN L \subseteq Guids /\ DOMAIN n.link \subseteq Guids
  BY <1>1, Waiter DEF BookOK
<1>3. \A d \in W : \/ /\ f[d] \in DOMAIN L
                      /\ f[d] \in Past(t.seen)!Existing(Ends(t, d))
                   \/ /\ f[d] \in New
                      /\ Hit(n.link[f[d]], Ends(t, d))
                      /\ Past(t.seen)!Existing(Ends(t, d)) = {}
  <2> TAKE d \in W
  <2>1. PICK r : r = n.link[d].replaced_by /\ r = f[d]
    OBVIOUS
  <2>2. Led(n, t, d, r)
    BY <2>1 DEF Completing
  <2> QED
    BY <1>1, <2>1, <2>2, LedOut
<1>4. \A j, k \in New : Hit(n.link[j], n.link[k]) => j = k
  BY DEF Completing
<1>5. \A k \in New : \E d \in W : f[d] = k /\ n.link[k] = Ends(t, d)
  BY DEF Completing
<1>6. f \in [W -> Guids]
  BY <1>2, <1>3
<1>7. \A d \in W : LET X == Past(t.seen)!Existing(Ends(t, d))
                   IN f[d] \in IF X = {} THEN (Guids \ DOMAIN L) \ {t.new} ELSE X
  BY <1>2, <1>3
<1>8. \A d, b \in W : \/ Past(t.seen)!Existing(Ends(t, d)) # {}
                      \/ f[d] = f[b] <=> Past(t.seen)!SameKey(Ends(t, d), Ends(t, b))
  <2> SUFFICES ASSUME NEW d \in W, NEW b \in W, Past(t.seen)!Existing(Ends(t, d)) = {}
               PROVE  f[d] = f[b] <=> Hit(Ends(t, b), Ends(t, d))
    BY <1>1, Waiter, HitsAlike
  <2>1. Ended(Ends(t, d)) /\ Ended(Ends(t, b)) /\ f[d] \in New /\ Hit(n.link[f[d]], Ends(t, d))
    BY <1>1, <1>3, Waiter
  <2>2. ASSUME f[d] = f[b] PROVE Hit(Ends(t, b), Ends(t, d))
    <3>1. Hit(n.link[f[d]], Ends(t, b))
      BY <1>3, <2>1, <2>2
    <3> QED
      BY <2>1, <3>1, HitsAlike
  <2>3. ASSUME Hit(Ends(t, b), Ends(t, d)) PROVE f[d] = f[b]
    <3>1. CASE f[b] \in Past(t.seen)!Existing(Ends(t, b))
      <4>1. f[b] \in DOMAIN L /\ Hit(L[f[b]], Ends(t, d))
        BY <2>1, <2>3, <3>1, ExistingHits, HitsAlike
      <4> QED
        BY <2>1, <4>1, ExistingHits
    <3>2. CASE f[b] \in New /\ Hit(n.link[f[b]], Ends(t, b))
      <4>1. PICK x \in W : n.link[f[b]] = Ends(t, x)
        BY <1>5, <3>2
      <4>2. PICK y \in W : n.link[f[d]] = Ends(t, y)
        BY <1>5, <2>1
      <4>3. Ended(Ends(t, x)) /\ Ended(Ends(t, y))
        BY <1>1, Waiter
      <4>4. Hit(Ends(t, x), Ends(t, d))
        BY <2>1, <2>3, <3>2, <4>1, HitsAlike
      <4>5. Hit(Ends(t, d), Ends(t, y))
        BY <2>1, <4>2, <4>3, HitsAlike
      <4>6. Hit(Ends(t, x), Ends(t, y))
        BY <2>1, <4>3, <4>4, <4>5, HitsAlike
      <4> QED
        BY <1>4, <2>1, <3>2, <4>1, <4>2, <4>6
    <3> QED
      BY <1>3, <3>1, <3>2
  <2> QED
    BY <2>2, <2>3
<1>9. f \in Past(t.seen)!Completions(W, t.c.from, t.new)
  BY <1>6, <1>7, <1>8 DEF Past!Completions, Past!Fresh, Past!Written, Ends
<1> DEFINE Maker(g, d) == f[d] = g /\ (g \in New => n.link[g] = Ends(t, d))
           first == [g \in {f[d] : d \in DOMAIN f} |-> CHOOSE d \in W : Maker(g, d)]
<1>11. \A g \in {f[d] : d \in DOMAIN f} : first[g] \in W /\ Maker(g, first[g])
  <2> TAKE g \in {f[d] : d \in DOMAIN f}
  <2>1. \E d \in W : Maker(g, d)
    BY <1>5
  <2> QED
    BY <2>1, Zenon
<1>12. first \in Past(t.seen)!Firsts(f)
  BY <1>11 DEF Past!Firsts
<1>10. n.link = Past(t.seen)!After(t.c, t.new, {}, f, first)
  <2> DEFINE V(g) == Past(t.seen)!Version(g, t.c, t.new, {}, f, first)
             D == DOMAIN L \cup {t.new} \cup {f[d] : d \in DOMAIN f}
  <2> HIDE DEF first
  <2>1. DOMAIN n.link = D
    BY <1>3, <1>5 DEF Completing
  <2>2. ASSUME NEW g \in DOMAIN n.link
        PROVE  n.link[g] = V(g)
    <3>1. CASE g = t.new
      BY <3>1 DEF Completing, Past!Version
    <3>2. CASE g \in W
      BY <1>2, <3>2 DEF Completing, Past!Version
    <3>3. CASE g \in DOMAIN L \ W
      BY <3>3 DEF Completing, Past!Version, Past!Written
    <3>4. CASE g \in New
      <4>1. g \in {f[d] : d \in DOMAIN f}
        BY <1>5, <3>4
      <4>2. n.link[g] = Past(t.seen)!Attach(L[first[g]], t.c.from)
        BY <1>11, <3>4, <4>1 DEF Ends
      <4>3. V(g) = Past(t.seen)!Attach(L[first[g]], t.c.from)
        BY <1>2, <3>4 DEF Past!Version, Past!Written
      <4> QED
        BY <4>2, <4>3
    <3> QED
      BY <3>1, <3>2, <3>3, <3>4
  <2> QED
    BY <2>1, <2>2 DEF Past!After, Past!Written, BookOK
<1> HIDE DEF first
<1> QED
  BY <1>2, <1>9, <1>10, <1>12 DEF Written, Completing, Waits
------------------------------------------------------------------------------
(* Requests as PropStore has them. *)

LEMMA StoreSearches ==
  /\ \A v : Store!Owners(v) = Past(Shown)!Owners(v)
  /\ \A c : Store!Existing(c) = Past(Shown)!Existing(c)
  /\ \A c : Store!Resolved(c) = Past(Shown)!Resolved(c)
  /\ \A c : Store!IdFree(c) <=> Past(Shown)!IdFree(c)
  /\ \A c : Store!Waiting(c) = Past(Shown)!Waiting(c)
  /\ Store!Fresh = Guids \ DOMAIN Shown.link
BY DEF Store!Existing, Store!Resolved, Store!IdFree, Store!Waiting, Store!Danglers, Store!Owners,
  Store!Holders, Store!Live, Store!Current, Store!Written, Store!SameKey, Store!SameCreator,
  Store!SameValue, Store!Attach, Store!Fresh,
  Past!Existing, Past!Resolved, Past!IdFree, Past!Waiting, Past!Danglers, Past!Owners,
  Past!Holders, Past!Live, Past!Current, Past!Written, Past!SameKey, Past!SameCreator,
  Past!SameValue, Past!Attach

LEMMA StoreWrites ==
  /\ \A D, e, new : Store!Completions(D, e, new) = Past(Shown)!Completions(D, e, new)
  /\ \A f : Store!Firsts(f) = Past(Shown)!Firsts(f)
  /\ \A c, new, olds, f, first :
       Store!After(c, new, olds, f, first) = Past(Shown)!After(c, new, olds, f, first)
<1>1. \A c, e : Store!Attach(c, e) = Past(Shown)!Attach(c, e)
  BY DEF Store!Attach, Past!Attach
<1>2. \A D, e, new : Store!Completions(D, e, new) = Past(Shown)!Completions(D, e, new)
  BY DEF Store!Completions, Store!Fresh, Store!Written, Store!Existing, Store!Current,
         Store!SameKey, Store!SameCreator, Store!SameValue, Store!Attach,
         Past!Completions, Past!Fresh, Past!Written, Past!Existing, Past!Current,
         Past!SameKey, Past!SameCreator, Past!SameValue, Past!Attach
<1>3. \A c, new, olds, f, first :
        Store!After(c, new, olds, f, first) = Past(Shown)!After(c, new, olds, f, first)
  BY <1>1 DEF Store!After, Store!Version, Store!Written, Past!After, Past!Version, Past!Written
<1>4. \A f : Store!Firsts(f) = Past(Shown)!Firsts(f)
  BY DEF Store!Firsts, Past!Firsts
<1> QED
  BY <1>2, <1>3, <1>4

LEMMA UpdateServed ==
  ASSUME NEW c, NEW p, p \in DOMAIN Shown.link, AskedUpdate(Shown, c, p),
         Store!Replace(p, c), Shown'.entities = Shown.entities
  PROVE  Store!Next
<1>1. PICK e \in Shown.entities, a \in BOOLEAN : AskedUpdate(Shown, c, p)!(e, a)
  BY DEF AskedUpdate
<1>2. Store!Updatable(p) /\ \A v : Store!Owners(v) = Past(Shown)!Owners(v)
  BY <1>1, StoreSearches DEF Store!Updatable, Past!Updatable
<1>3. \/ \E v \in Values : Store!UpdateValue(p, e, v, a)
      \/ \E x \in Shown.entities : Store!UpdateTarget(p, e, x, a)
      \/ Store!UpdateState(p, e, a)
  BY <1>1, <1>2
     DEF Store!UpdateValue, Store!UpdateTarget, Store!UpdateState, Store!Candidate, Search!Candidate
<1> QED
  BY <1>3 DEF Store!Next, Store!Update, Store!Written

LEMMA FoundServed ==
  ASSUME NEW made, NEW old, NEW g, Found(Shown, made, old, g),
         Shown'.entities = Shown.entities, Shown'.link = [Shown.link EXCEPT ![old].replaced_by = g]
  PROVE  Store!Next
<1>1. PICK d : /\ Asked(Shown, made, d, old)
               /\ \E c \in Past(Shown)!Resolved(d) : c.alive /\ g \in Past(Shown)!Existing(c)
  BY DEF Found
<1>2. old \in DOMAIN Shown.link /\ AskedUpdate(Shown, d, old)
  BY <1>1 DEF Asked, Found
<1>3. Store!Replace(old, d)
  BY <1>1, StoreSearches DEF Store!Replace
<1> QED
  BY <1>2, <1>3, UpdateServed

LEMMA WriteServed ==
  ASSUME NEW made, NEW c, NEW old, Chosen(Shown, made, c, old),
         NEW new \in Guids \ DOMAIN Shown.link,
         NEW f \in Past(Shown)!Completions(Past(Shown)!Waiting(c), c.from, new),
         NEW first \in Past(Shown)!Firsts(f),
         Shown'.entities = Grown(Shown, made),
         Shown'.link = Past(Shown)!After(c, new, {old} \ {None}, f, first),
         BookOK(Shown)
  PROVE  Store!Next
<1>1. PICK d : Asked(Shown, made, d, old) /\ c \in Store!Resolved(d)
  BY StoreSearches DEF Chosen
<1>2. Store!Write(c, {old} \ {None})
  BY StoreSearches, StoreWrites DEF Store!Write, Chosen
<1>3. CASE old = None /\ AskedEntity(Shown, made, d)
  <2>1. PICK v \in Values, u \in Users : d = Store!Candidate(Id, made, None, v, u, TRUE)
    BY <1>3 DEF AskedEntity, Search!Candidate, Store!Candidate
  <2>2. Store!CreateEntity(made, v, u)
    <3>1. {old} \ {None} = {} /\ made \notin Shown.entities /\ made # None
      BY <1>3, ConstantsAssumption DEF AskedEntity
    <3>2. Shown'.entities = Shown.entities \cup {made}
      BY <3>1 DEF Grown
    <3> QED
      BY <1>1, <1>2, <2>1, <3>1, <3>2 DEF Store!CreateEntity
  <2>3. made \in Entities
    BY <1>3 DEF AskedEntity
  <2> QED
    BY <2>1, <2>2, <2>3 DEF Store!Next, Store!Create
<1>4. CASE old = None /\ made = None /\ AskedCreate(Shown, d)
  <2>1. PICK e \in Shown.entities, u \in Users, a \in BOOLEAN : AskedCreate(Shown, d)!(e, u, a)
    BY <1>4 DEF AskedCreate
  <2>2. Store!Write(c, {}) /\ Shown'.entities = Shown.entities
    <3>1. {old} \ {None} = {} /\ {made} \ {None} = {}
      BY <1>4
    <3> QED
      BY <1>2, <3>1 DEF Grown
  <2>3. ASSUME NEW t \in Literals, NEW v \in Values, d = Search!Candidate(t, e, None, v, u, a)
        PROVE  Store!CreateLiteral(t, e, v, u, a)
    BY <1>1, <2>2, <2>3 DEF Store!CreateLiteral, Store!Candidate, Search!Candidate
  <2>4. ASSUME NEW t \in LinkTypes, NEW x, NEW v, NEW reverse \in BOOLEAN,
               d = IF reverse THEN Search!Candidate(t, x, e, v, u, a)
                              ELSE Search!Candidate(t, e, x, v, u, a)
        PROVE  Store!CreateLink(t, e, x, v, u, a, reverse)
    BY <1>1, <2>2, <2>4 DEF Store!CreateLink, Store!Candidate, Search!Candidate
  <2>5. \/ \E t \in Literals, v \in Values : Store!CreateLiteral(t, e, v, u, a)
        \/ \E t \in LinkTypes, x \in Shown.entities : Store!CreateLink(t, e, x, None, u, a, FALSE)
        \/ \E t \in LinkTypes, v \in Values, reverse \in BOOLEAN :
             Store!CreateLink(t, e, None, v, u, a, reverse)
    BY <2>1, <2>3, <2>4
  <2> QED
    BY <2>5 DEF Store!Next, Store!Create
<1>5. CASE old \in DOMAIN Shown.link /\ made = None /\ AskedUpdate(Shown, d, old)
  <2>1. {old} \ {None} = {old} /\ Shown'.entities = Shown.entities
    BY <1>5, ConstantsAssumption DEF BookOK, Grown
  <2>2. Store!Replace(old, d)
    BY <1>1, <1>2, <2>1 DEF Store!Replace
  <2> QED
    BY <1>5, <2>1, <2>2, UpdateServed
<1> QED
  BY <1>1, <1>3, <1>4, <1>5 DEF Asked
------------------------------------------------------------------------------
(* How each call changes the store as searches see it. *)

LEMMA NowFields ==
  Now.entities = entities /\ Now.link = Indexed
BY DEF Now

LEMMA NowStays ==
  ASSUME UNCHANGED <<entities, store, idx>>
  PROVE  Now' = Now
BY DEF Now, Indexed, Stored

(* The index has the current version of what it does not call replaced. *)
LEMMA LatestCurrent ==
  ASSUME IInv, NEW g \in DOMAIN Indexed, Indexed[g].replaced_by = None
  PROVE  /\ g \in Stored /\ idx[g] = "current"
         /\ Indexed[g] = [store[g] EXCEPT !.replaced_by = None]
BY IndexedRecords DEF IInv, StoreOK, CopiesInOrder, InIndex, Indexed, States

LEMMA WriteNow ==
  ASSUME IInv, NEW w \in Workers, Write(w)
  PROVE  /\ Now'.link = Now.link
         /\ Now'.entities = Now.entities \cup ({work[w].made} \ {None})
         /\ \E g \in Guids \ Stored :
              /\ store'[g] = work[w].c
              /\ Goto(w, [work[w] EXCEPT !.pc = "record", !.new = g])
<1>1. PICK g \in Guids \ Stored : /\ store' = Extend(store, g, work[w].c)
                                 /\ idx' = Extend(idx, g, "none")
                                 /\ Goto(w, [work[w] EXCEPT !.pc = "record", !.new = g])
  BY Zenon DEF Write
<1>2. entities' = entities \cup ({work[w].made} \ {None})
  BY DEF Write
<1>3. DOMAIN idx = Stored
  BY DEF IInv, StoreOK
<1>4. /\ Stored' = Stored \cup {g} /\ store'[g] = work[w].c /\ idx'[g] = "none"
      /\ \A h \in Stored : store'[h] = store[h] /\ idx'[h] = idx[h]
  BY <1>1, <1>3 DEF Extend, Stored
<1>5. Indexed' = Indexed
  <2>1. {h \in Stored' : idx'[h] # "none"} = {h \in Stored : idx[h] # "none"}
    BY <1>4
  <2> QED
    BY <1>4, <2>1 DEF Indexed
<1> QED
  BY <1>1, <1>2, <1>4, <1>5 DEF Now

LEMMA IndexNow ==
  ASSUME IInv, NEW w \in Workers, Index(w), NEW g, g = work[w].new, NEW c, c = work[w].c,
         store[g] = c, c.replaced_by = None
  PROVE  /\ g \in Guids \ DOMAIN Indexed
         /\ Now'.link = Extend(Now.link, g, c)
         /\ Now'.entities = Now.entities
<1>1. /\ work[w].pc = "index" /\ g \in Stored /\ g \in Guids /\ idx[g] = "none" /\ c \in Link
      /\ UNCHANGED <<entities, store>>
  BY DEF Index, At, IInv, WorkerOK, OwnOK, StoreOK, CandidateOK
<1>2. idx' = [idx EXCEPT ![g] = "current"] /\ DOMAIN idx = Stored
  BY DEF Index, IInv, StoreOK
<1>3. g \notin DOMAIN Indexed
  BY <1>1 DEF Indexed
<1>4. Stored' = Stored /\ idx'[g] = "current" /\ \A h \in Stored \ {g} : idx'[h] = idx[h]
  BY <1>1, <1>2 DEF Stored
<1>5. [c EXCEPT !.replaced_by = None] = c
  BY <1>1 DEF Link, Search!Link
<1>6. Indexed' = Extend(Indexed, g, c)
  <2>1. {h \in Stored' : idx'[h] # "none"} = {h \in Stored : idx[h] # "none"} \cup {g}
    BY <1>1, <1>4
  <2> QED
    BY <1>1, <1>4, <1>5, <2>1 DEF Indexed, Extend
<1> QED
  BY <1>1, <1>3, <1>6 DEF Now

LEMMA PointNow ==
  ASSUME IInv, NEW w \in Workers, Point(w), Indexed[work[w].old].replaced_by = None
  PROVE  /\ Now' = Now
         /\ store'[work[w].old].replaced_by = work[w].new
<1> PICK p, g : p = work[w].old /\ g = work[w].new
  OBVIOUS
<1>1. /\ store' = [store EXCEPT ![p].replaced_by = g] /\ UNCHANGED <<entities, idx>>
      /\ p \in DOMAIN Indexed
  BY IndexedRecords DEF Point, At, IInv, WorkerOK, UpdateOK
<1>2. p \in Stored /\ idx[p] = "current"
  BY <1>1, LatestCurrent
<1>3. store[p] \in Link
  BY <1>2 DEF IInv, StoreOK
<1>4. /\ Stored' = Stored /\ \A h \in Stored \ {p} : store'[h] = store[h]
      /\ store'[p] = [store[p] EXCEPT !.replaced_by = g]
  BY <1>1, <1>2 DEF Stored
<1>5. /\ store'[p].replaced_by = g
      /\ [store'[p] EXCEPT !.replaced_by = None] = [store[p] EXCEPT !.replaced_by = None]
  BY <1>3, <1>4 DEF Link, Search!Link
<1>6. Indexed' = Indexed
  <2>1. \A h \in Stored :
          (IF idx'[h] = "current" THEN [store'[h] EXCEPT !.replaced_by = None] ELSE store'[h])
            = (IF idx[h] = "current" THEN [store[h] EXCEPT !.replaced_by = None] ELSE store[h])
    <3>1. \A h \in Stored \ {p} : store'[h] = store[h] /\ idx'[h] = idx[h]
      BY <1>1, <1>4
    <3>2. idx'[p] = "current"
      BY <1>1, <1>2
    <3> QED
      BY <1>2, <1>5, <3>1, <3>2
  <2> QED
    BY <1>1, <1>4, <2>1 DEF Indexed
<1> QED
  BY <1>1, <1>5, <1>6 DEF Now

LEMMA ReindexNow ==
  ASSUME IInv, NEW w \in Workers, Reindex(w), Indexed[work[w].old].replaced_by = None
  PROVE  /\ Now'.link = [Now.link EXCEPT ![work[w].old].replaced_by = store[work[w].old].replaced_by]
         /\ Now'.entities = Now.entities
<1> PICK p : p = work[w].old
  OBVIOUS
<1>1. /\ idx' = [idx EXCEPT ![p] = "replaced"] /\ UNCHANGED <<entities, store>>
      /\ p \in DOMAIN Indexed
  BY IndexedRecords DEF Reindex, At, IInv, WorkerOK, UpdateOK
<1>2. p \in Stored /\ idx[p] = "current" /\ Indexed[p] = [store[p] EXCEPT !.replaced_by = None]
  BY <1>1, LatestCurrent
<1>3. store[p] \in Link /\ DOMAIN idx = Stored
  BY <1>2 DEF IInv, StoreOK
<1>4. Stored' = Stored /\ idx'[p] = "replaced" /\ \A h \in Stored \ {p} : idx'[h] = idx[h]
  BY <1>1, <1>2, <1>3 DEF Stored
<1>5. [Indexed[p] EXCEPT !.replaced_by = store[p].replaced_by] = store[p]
  BY <1>2, <1>3 DEF Link, Search!Link
<1>6. Indexed' = [Indexed EXCEPT ![p].replaced_by = store[p].replaced_by]
  <2>1. {h \in Stored' : idx'[h] # "none"} = {h \in Stored : idx[h] # "none"}
    BY <1>2, <1>4
  <2>2. Indexed'[p] = store[p] /\ p \in DOMAIN Indexed
    BY <1>1, <1>2, <1>4 DEF Indexed
  <2>3. \A h \in DOMAIN Indexed \ {p} : Indexed'[h] = Indexed[h]
    BY <1>1, <1>4, <2>1 DEF Indexed
  <2>4. DOMAIN Indexed' = DOMAIN Indexed /\ Indexed' = [h \in DOMAIN Indexed |-> Indexed'[h]]
    BY <2>1 DEF Indexed
  <2> QED
    BY <1>5, <2>2, <2>3, <2>4
<1> QED
  BY <1>1, <1>6 DEF Now

IndexedOK == /\ entities \subseteq Entities
             /\ DOMAIN Indexed \subseteq Guids
             /\ Indexed \in [DOMAIN Indexed -> Link]

LEMMA IndexedIsOK == IInv => IndexedOK
<1> SUFFICES ASSUME IInv PROVE IndexedOK
  OBVIOUS
<1>1. \A g \in DOMAIN Indexed : Indexed[g] \in Link
  BY IndexedRecords DEF IInv
<1> QED
  BY <1>1 DEF IndexedOK, Indexed, IInv, StoreOK

(* IDs in the index keep the shape of IDs. *)
LEMMA BookKept ==
  ASSUME IInv', \A g \in DOMAIN Indexed' : IdLike(Indexed'[g])
  PROVE  BookOK(Now)'
<1>1. IndexedOK'
  BY IndexedIsOK, PTL
<1> QED
  BY <1>1 DEF BookOK, Now, IndexedOK

LEMMA BookExtended ==
  ASSUME IInv', BookOK(Now), NEW g, NEW c, IdLike(c), Now'.link = Extend(Now.link, g, c)
  PROVE  BookOK(Now)'
<1>1. \A h \in DOMAIN Indexed' : IdLike(Indexed'[h])
  BY NowFields DEF BookOK, Extend, Now
<1> QED
  BY <1>1, BookKept

LEMMA BookPointed ==
  ASSUME IInv', BookOK(Now), NEW p \in DOMAIN Now.link, NEW r,
         Now'.link = [Now.link EXCEPT ![p].replaced_by = r]
  PROVE  BookOK(Now)'
<1>1. Now.link[p] \in Link /\ IdLike(Now.link[p])
  BY DEF BookOK
<1>2. IdLike([Now.link[p] EXCEPT !.replaced_by = r])
  BY <1>1 DEF IdLike, Link, Search!Link
<1>3. \A h \in DOMAIN Now'.link : IdLike(Now'.link[h])
  BY <1>2 DEF BookOK
<1>4. Now'.link = Indexed'
  BY DEF Now
<1> QED
  BY <1>3, <1>4, BookKept

LEMMA BookSame ==
  ASSUME IInv', BookOK(Now), Now'.link = Now.link
  PROVE  BookOK(Now)'
<1>1. \A h \in DOMAIN Indexed' : IdLike(Indexed'[h])
  BY DEF BookOK, Now
<1> QED
  BY <1>1, BookKept
------------------------------------------------------------------------------
(* One worker: what is shown, before and after a call. *)

Alone(w) == \A v \in Workers : v = w

(* None is no record of what a worker does. *)
NoneIsNoStep == ~IsStep(None)

ShownIs(w) == Shown = IF work[w] = Idle THEN Now ELSE work[w].seen

LEMMA ShownBy ==
  ASSUME NEW w \in Workers, Alone(w)
  PROVE  ShownIs(w)
<1>1. Quiet <=> work[w] = Idle
  BY DEF Quiet, Alone
<1>2. work[w] # Idle => (CHOOSE v \in Workers : work[v] # Idle) = w
  BY DEF Alone
<1> QED
  BY <1>1, <1>2 DEF Shown, ShownIs

Amounts == Store!Next \/ Shown' = Shown

LEMMA Continues ==
  ASSUME RInv, NEW w \in Workers, Alone(w), IInv', BookOK(Now)', OwnWritten(w)',
         ServingOK(Now, work[w]), ServingOK(Now, work[w])', work'[w].seen = work[w].seen
  PROVE  RInv' /\ Amounts
<1>1. work[w] # Idle /\ work'[w] # Idle
  BY DEF ServingOK, Idle, Step
<1>2. ShownIs(w) /\ ShownIs(w)'
  BY ShownBy, PTL
<1>3. RInv'
  BY DEF RInv, Alone
<1> QED
  BY <1>1, <1>2, <1>3 DEF Amounts, ShownIs

LEMMA Stops ==
  ASSUME RInv, NEW w \in Workers, Alone(w), IInv', BookOK(Now)', work'[w] = Idle,
         ServingOK(Now, work[w]),
         \/ Now' = work[w].seen
         \/ Shown = work[w].seen /\ Shown' = Now' => Store!Next
  PROVE  RInv' /\ Amounts
<1>1. work[w] # Idle
  BY DEF ServingOK, Idle, Step
<1>2. ShownIs(w) /\ ShownIs(w)'
  BY ShownBy, PTL
<1>3. OwnWritten(w)'
  BY DEF OwnWritten, Idle, Step
<1>4. RInv'
  BY <1>3 DEF RInv, Alone
<1> QED
  BY <1>1, <1>2, <1>4 DEF Amounts, ShownIs

LEMMA Starts ==
  ASSUME RInv, NEW w \in Workers, Alone(w), IInv', NEW made, NEW c, NEW old, Begin(w, made, c, old),
         Asked(Now, made, c, old)
  PROVE  RInv' /\ Amounts
<1>1. /\ work'[w] = Step("look", made, c, old, [entities |-> entities, link |-> Indexed])
      /\ work[w] = Idle /\ UNCHANGED <<entities, store, idx>>
  BY Gone DEF Begin, At, RInv, ServingOK
<1>2. Now' = Now /\ work'[w].seen = Now
  BY <1>1, NowStays DEF Step, Now
<1>3. ServingOK(Now, work[w])'
  BY <1>1, <1>2 DEF ServingOK, TopOK, Step, RInv
<1>4. OwnWritten(w)' /\ work'[w] # Idle
  BY <1>1 DEF OwnWritten, Idle, Step
<1>5. BookOK(Now)'
  BY <1>2 DEF RInv
<1>6. ShownIs(w) /\ ShownIs(w)'
  BY ShownBy, PTL
<1>7. RInv'
  BY <1>3, <1>4, <1>5 DEF RInv, Alone
<1> QED
  BY <1>1, <1>2, <1>4, <1>6, <1>7 DEF Amounts, ShownIs

(* A worker's record after a call. *)
Turned(r, s, p, m, c, o, n, T, z) == Fields(r, p, m, c, o, n, T, z) /\ r.seen = s.seen

(* The worker at one of its calls. *)
LEMMA Serving ==
  ASSUME RInv, NEW w \in Workers, work[w].pc # "idle"
  PROVE  /\ IsStep(work[w])
         /\ ServingOK(Now, work[w])
         /\ BookOK(work[w].seen)
         /\ work[w].outer = None => TopOK(Now, work[w])
         /\ work[w].outer # None => /\ InnerOK(Now, work[w])
                                    /\ work[w].outer.outer = None
                                    /\ IsStep(work[w].outer)
                                    /\ BookOK(work[w].outer.seen)
<1>1. work[w] # Idle
  BY DEF Idle, Step
<1>2. IsStep(work[w]) /\ OuterOK(work[w])
  BY DEF RInv, IInv, WorkerOK
<1>3. ServingOK(Now, work[w])
  BY <1>1 DEF RInv
<1>4. work[w].outer # None => work[w].outer.outer = None /\ IsStep(work[w].outer)
  BY <1>2 DEF OuterOK
<1>5. work[w].outer # None => InnerOK(Now, work[w]) /\ work[w].outer.seen = work[w].seen
  BY <1>3 DEF ServingOK, InnerOK
<1> QED
  BY <1>2, <1>3, <1>4, <1>5 DEF ServingOK

(* While a waiting link is completed. *)
LEMMA InnerFacts ==
  ASSUME NEW n, NEW s, NEW t, t = s.outer, InnerOK(n, s), BookOK(t.seen),
         s.pc \in {"look", "write", "record", "index", "point", "rerecord", "reindex"}
  PROVE  /\ Naming(t)
         /\ s.old \in Waits(t) \ (Waits(t) \ (s.todo \cup {s.old}))
         /\ s.old # None
         /\ Ended(Ends(t, s.old))
         /\ s.old \in DOMAIN n.link
         /\ n.link[s.old] = t.seen.link[s.old]
         /\ n.link[s.old].replaced_by = None
<1>1. Completing(n, t, Waits(t) \ (s.todo \cup {s.old}), {}) \/ Completing(n, t, Waits(t) \ (s.todo \cup {s.old}), {s.new})
  BY DEF InnerOK
<1>2. Naming(t)
  BY <1>1, CompletingNames
<1>3. s.old \in Waits(t) \ (Waits(t) \ (s.todo \cup {s.old}))
  BY DEF InnerOK
<1>4. s.old \in DOMAIN t.seen.link /\ t.seen.link[s.old].replaced_by = None /\ Ended(Ends(t, s.old))
  BY <1>2, <1>3, Waiter
<1>5. s.old # None
  BY <1>4, ConstantsAssumption DEF BookOK
<1> QED
  BY <1>1, <1>2, <1>3, <1>4, <1>5 DEF Completing

LEMMA EndedResolves ==
  ASSUME NEW n, NEW a, Ended(a), NEW c \in Past(n)!Resolved(a)
  PROVE  c = a
BY DEF Ended, Past!Resolved, Link, Search!Link

LEMMA LookServes ==
  ASSUME RInv, NEW w \in Workers, Alone(w), Look(w)
  PROVE  RInv' /\ Amounts
<1> PICK n, s : n = Now /\ s = work[w]
  OBVIOUS
<1>1. /\ IInv /\ IInv' /\ s.pc = "look" /\ Now' = Now /\ BookOK(Now)'
  BY LookOK, NowStays DEF RInv, Look, At
<1>2. ServingOK(n, s) /\ IsStep(s) /\ BookOK(s.seen)
  BY <1>1, Serving
<1>3. PICK c \in Past(n)!Resolved(s.c) :
        \/ Goto(w, Idle) /\ (s.old = None \/ c.type = Id)
        \/ /\ s.old # None /\ c.alive
           /\ \E g \in Past(n)!Existing(c) : Goto(w, [s EXCEPT !.pc = "point", !.new = g])
        \/ /\ c.alive => Past(n)!Existing(c) = {}
           /\ c.type = Id => Past(n)!IdFree(c)
           /\ Goto(w, [s EXCEPT !.pc = "write", !.c = c])
  <2>1. PICK c \in Search!Resolved(s.c) : Look(w)!2!(c)
    BY Zenon DEF Look
  <2> QED
    BY <2>1, SearchesNow
<1>4. CASE s.outer = None
  <2>1. n = s.seen /\ Asked(s.seen, s.made, s.c, s.old)
    BY <1>1, <1>2, <1>4 DEF ServingOK, TopOK
  <2>2. CASE Goto(w, Idle)
    BY <1>1, <1>2, <2>1, <2>2, Gone, Stops
  <2>3. CASE ~Goto(w, Idle)
    <3>1. CASE \E g \in Past(n)!Existing(c) :
                 s.old # None /\ c.alive /\ Goto(w, [s EXCEPT !.pc = "point", !.new = g])
      <4>1. PICK g \in Past(n)!Existing(c) :
              s.old # None /\ c.alive /\ work'[w] = [s EXCEPT !.pc = "point", !.new = g]
        BY <1>1, <3>1, Gone
      <4> PICK r : r = work'[w]
        OBVIOUS
      <4>2. Turned(r, s, "point", s.made, s.c, s.old, g, s.todo, s.outer)
        <5>1. IsStep(s) /\ r = [s EXCEPT !.pc = "point", !.new = g]
          BY <1>2, <4>1
        <5> QED
          BY Zenon, <5>1 DEF Turned, Fields, IsStep
      <4>3. Found(r.seen, r.made, r.old, r.new)
        BY <1>3, <2>1, <4>1, <4>2 DEF Turned, Fields, Found
      <4>4. ServingOK(n, r)
        BY <1>2, <1>4, <2>1, <4>2, <4>3 DEF ServingOK, TopOK, Turned, Fields
      <4>5. OwnWritten(w)'
        BY <4>2 DEF OwnWritten, Turned, Fields
      <4> QED
        BY <1>1, <1>2, <4>2, <4>4, <4>5, Continues DEF Turned
    <3>2. CASE /\ c.alive => Past(n)!Existing(c) = {}
               /\ c.type = Id => Past(n)!IdFree(c)
               /\ Goto(w, [s EXCEPT !.pc = "write", !.c = c])
      <4>1. work'[w] = [s EXCEPT !.pc = "write", !.c = c]
        BY <1>1, <3>2, Gone
      <4> PICK r : r = work'[w]
        OBVIOUS
      <4>2. Turned(r, s, "write", s.made, c, s.old, s.new, s.todo, s.outer)
        BY Zenon, <1>2, <4>1 DEF Turned, Fields, IsStep
      <4>3. Chosen(r.seen, r.made, r.c, r.old)
        BY <1>3, <2>1, <3>2, <4>2 DEF Turned, Fields, Chosen
      <4>4. ServingOK(n, r)
        BY <1>2, <1>4, <2>1, <4>2, <4>3 DEF ServingOK, TopOK, Turned, Fields
      <4>5. OwnWritten(w)'
        BY <4>2 DEF OwnWritten, Turned, Fields
      <4> QED
        BY <1>1, <1>2, <4>2, <4>4, <4>5, Continues DEF Turned
    <3> QED
      BY <1>3, <2>3, <3>1, <3>2
  <2> QED
    BY <2>2, <2>3
<1>5. CASE s.outer # None
  <2> PICK t, a, done : /\ t = s.outer /\ a = Ends(t, s.old)
                        /\ done = Waits(t) \ (s.todo \cup {s.old})
    OBVIOUS
  <2>1. InnerOK(n, s) /\ BookOK(t.seen)
    BY <1>1, <1>5, Serving
  <2>2. /\ Naming(t) /\ s.old \in Waits(t) \ done /\ s.old # None /\ Ended(a)
        /\ s.old \in DOMAIN n.link
    BY <1>1, <2>1, InnerFacts
  <2>3. s.c = a /\ Completing(n, t, done, {})
    BY <1>1, <2>1 DEF InnerOK
  <2>4. c = a /\ c.type # Id /\ c.alive
    BY <2>2, <2>3, EndedResolves DEF Ended
  <2>5. CASE \E g \in Past(n)!Existing(c) : Goto(w, [s EXCEPT !.pc = "point", !.new = g])
    <3>1. PICK g \in Past(n)!Existing(a) : work'[w] = [s EXCEPT !.pc = "point", !.new = g]
      BY <1>1, <2>4, <2>5, Gone
    <3> PICK r : r = work'[w]
      OBVIOUS
    <3>2. Turned(r, s, "point", s.made, s.c, s.old, g, s.todo, s.outer)
      BY Zenon, <1>2, <3>1 DEF Turned, Fields, IsStep
    <3>3. Led(n, t, s.old, g)
      BY <2>2, <2>3, CompletingSearches
    <3>5. ServingOK(n, r)
      BY <1>1, <1>2, <1>5, <2>1, <2>3, <3>2, <3>3 DEF ServingOK, InnerOK, Turned, Fields
    <3>6. OwnWritten(w)'
      BY <3>2 DEF OwnWritten, Turned, Fields
    <3> QED
      BY <1>1, <1>2, <3>2, <3>5, <3>6, Continues DEF Turned
  <2>6. CASE /\ c.alive => Past(n)!Existing(c) = {}
             /\ Goto(w, [s EXCEPT !.pc = "write", !.c = c])
    <3>1. work'[w] = [s EXCEPT !.pc = "write", !.c = c]
      BY <1>1, <2>6, Gone
    <3> PICK r : r = work'[w]
      OBVIOUS
    <3>2. Turned(r, s, "write", s.made, a, s.old, s.new, s.todo, s.outer)
      BY Zenon, <1>2, <2>4, <3>1 DEF Turned, Fields, IsStep
    <3>3. /\ Past(t.seen)!Existing(a) = {}
          /\ \A k \in DOMAIN n.link : ~Hit(n.link[k], a)
      BY <2>2, <2>3, <2>4, <2>6, CompletingSearches
    <3>4. ServingOK(n, r)
      BY <1>1, <1>2, <1>5, <2>1, <2>3, <3>2, <3>3 DEF ServingOK, InnerOK, Turned, Fields
    <3>5. OwnWritten(w)'
      BY <3>2 DEF OwnWritten, Turned, Fields
    <3> QED
      BY <1>1, <1>2, <3>2, <3>4, <3>5, Continues DEF Turned
  <2> QED
    BY <1>3, <2>2, <2>4, <2>5, <2>6
<1> QED
  BY <1>4, <1>5

LEMMA WriteServes ==
  ASSUME RInv, NEW w \in Workers, Alone(w), Write(w)
  PROVE  RInv' /\ Amounts
<1> PICK n, s, m : n = Now /\ s = work[w] /\ m = Now'
  OBVIOUS
<1>1. IInv /\ IInv' /\ s.pc = "write" /\ BookOK(n)
  BY WriteOK DEF RInv, Write, At
<1>2. ServingOK(n, s) /\ IsStep(s) /\ BookOK(s.seen)
  BY <1>1, Serving
<1>3. PICK g \in Guids \ Stored : /\ store'[g] = s.c
                                 /\ work'[w] = [s EXCEPT !.pc = "record", !.new = g]
  BY <1>1, WriteNow, Gone
<1>4. m.link = n.link /\ m.entities = n.entities \cup ({s.made} \ {None})
  BY <1>1, WriteNow
<1> PICK r : r = work'[w]
  OBVIOUS
<1>5. Turned(r, s, "record", s.made, s.c, s.old, g, s.todo, s.outer)
  BY Zenon, <1>2, <1>3 DEF Turned, Fields, IsStep
<1>6. OwnWritten(w)'
  BY <1>3, <1>5 DEF OwnWritten, Turned, Fields
<1>7. BookOK(Now)'
  BY <1>1, <1>4, BookSame
<1>8. CASE s.outer = None
  <2>1. n = s.seen /\ Chosen(s.seen, s.made, s.c, s.old)
    BY <1>1, <1>2, <1>8 DEF ServingOK, TopOK
  <2>2. ServingOK(m, r)
    BY <1>2, <1>4, <1>5, <1>8, <2>1 DEF ServingOK, TopOK, Grown, Turned, Fields
  <2> QED
    BY <1>1, <1>2, <1>5, <1>6, <1>7, <2>2, Continues DEF Turned
<1>9. CASE s.outer # None
  <2>1. InnerOK(n, s)
    BY <1>1, <1>9, Serving
  <2>2. m.entities = n.entities
    BY <1>1, <1>4, <2>1 DEF InnerOK
  <2>3. \A t, done, extra : Completing(n, t, done, extra) => Completing(m, t, done, extra)
    BY <1>4, <2>2 DEF Completing, Led
  <2>4. ServingOK(m, r)
    BY <1>1, <1>2, <1>4, <1>5, <1>9, <2>1, <2>3 DEF ServingOK, InnerOK, Turned, Fields
  <2> QED
    BY <1>1, <1>2, <1>5, <1>6, <1>7, <2>4, Continues DEF Turned
<1> QED
  BY <1>8, <1>9

LEMMA RecordServes ==
  ASSUME RInv, NEW w \in Workers, Alone(w), Record(w)
  PROVE  RInv' /\ Amounts
<1> PICK n, s : n = Now /\ s = work[w]
  OBVIOUS
<1>1. IInv /\ IInv' /\ s.pc = "record" /\ Now' = Now /\ BookOK(Now)' /\ store' = store /\ OwnWritten(w)
  BY RecordOK, NowStays DEF RInv, Record, At
<1>2. ServingOK(n, s) /\ IsStep(s)
  BY <1>1, Serving
<1>3. work'[w] = [s EXCEPT !.pc = "index"]
  BY <1>1, Gone DEF Record, Move
<1> PICK r : r = work'[w]
  OBVIOUS
<1>4. Turned(r, s, "index", s.made, s.c, s.old, s.new, s.todo, s.outer)
  BY Zenon, <1>2, <1>3 DEF Turned, Fields, IsStep
<1>5. OwnWritten(w)'
  BY <1>1, <1>4 DEF OwnWritten, Turned, Fields
<1>6. CASE s.outer = None
  BY <1>1, <1>2, <1>4, <1>5, <1>6, Continues DEF ServingOK, TopOK, Turned, Fields
<1>7. CASE s.outer # None
  <2>1. ServingOK(n, r)
    BY <1>1, <1>2, <1>4, <1>7 DEF ServingOK, InnerOK, Turned, Fields
  <2> QED
    BY <1>1, <1>2, <1>4, <1>5, <2>1, Continues DEF Turned
<1> QED
  BY <1>6, <1>7

(* A version that gives no ID completes nothing. *)
LEMMA PlainWritten ==
  ASSUME NEW m, NEW s, BookOK(s.seen), Chosen(s.seen, s.made, s.c, s.old), s.c.type # Id,
         m.entities = Grown(s.seen, s.made),
         s.new \in Guids \ DOMAIN s.seen.link, m.link = Extend(s.seen.link, s.new, s.c)
  PROVE  Written(m, s)
<1> DEFINE f == [d \in {} |-> None]
<1>1. Past(s.seen)!Waiting(s.c) = {}
  BY DEF Past!Waiting
<1>2. f \in Past(s.seen)!Completions({}, s.c.from, s.new) /\ f \in Past(s.seen)!Firsts(f)
  BY DEF Past!Completions, Past!Firsts
<1>3. m.link = Past(s.seen)!After(s.c, s.new, {}, f, f)
  BY DEF Past!After, Past!Version, Past!Written, Extend
<1> QED
  BY <1>1, <1>2, <1>3 DEF Written

LEMMA IndexServes ==
  ASSUME RInv, NEW w \in Workers, Alone(w), Index(w)
  PROVE  RInv' /\ Amounts
<1> PICK n, s, m : n = Now /\ s = work[w] /\ m = Now'
  OBVIOUS
<1>1. /\ IInv /\ IInv' /\ s.pc = "index" /\ BookOK(n)
      /\ store[s.new] = s.c
  BY IndexOK DEF RInv, Index, At, OwnWritten
<1>2. ServingOK(n, s) /\ IsStep(s) /\ BookOK(s.seen)
  BY <1>1, Serving
<1>3. \/ s.c.type = Id /\ work'[w] = [s EXCEPT !.pc = "search"]
      \/ s.c.type # Id /\ s.old # None /\ work'[w] = [s EXCEPT !.pc = "point"]
      \/ s.c.type # Id /\ s.old = None /\ work'[w] = Idle
  BY <1>1, Gone DEF Index, Move
<1> PICK r : r = work'[w]
  OBVIOUS
<1>4. CASE s.outer = None
  <2>1. /\ n.link = s.seen.link
        /\ n.entities = Grown(s.seen, s.made)
        /\ Chosen(s.seen, s.made, s.c, s.old)
    BY <1>1, <1>2, <1>4 DEF ServingOK, TopOK
  <2>2. IdLike(s.c) /\ s.c.replaced_by = None
    BY <1>2, <2>1, ChosenSound DEF Sound, SoundLink
  <2>3. /\ s.new \in Guids \ DOMAIN n.link
        /\ m.link = Extend(n.link, s.new, s.c) /\ m.entities = n.entities
    BY <1>1, <2>2, IndexNow, NowFields
  <2>4. BookOK(Now)'
    BY <1>1, <2>2, <2>3, BookExtended
  <2>5. CASE s.c.type = Id
    <3>1. Completing(m, s, {}, {})
      BY <2>1, <2>3, <2>5, CompletingStarts
    <3>2. Turned(r, s, "search", s.made, s.c, s.old, s.new, s.todo, s.outer)
      BY Zenon, <1>2, <1>3, <2>5 DEF Turned, Fields, IsStep
    <3>3. Completing(m, r, {}, {})
      BY <3>1, <3>2 DEF Completing, Led, Ends, Waits, Turned, Fields
    <3>4. ServingOK(m, r) /\ OwnWritten(w)'
      BY <1>2, <1>4, <3>2, <3>3 DEF ServingOK, TopOK, OwnWritten, Turned, Fields
    <3> QED
      BY <1>1, <1>2, <2>4, <3>2, <3>4, Continues DEF Turned
  <2>6. CASE s.c.type # Id
    <3>1. Written(m, s)
      BY <1>2, <2>1, <2>3, <2>6, PlainWritten
    <3>2. CASE s.old # None
      <4>1. Turned(r, s, "point", s.made, s.c, s.old, s.new, s.todo, s.outer)
        BY Zenon, <1>3, <1>2, <2>6, <3>2 DEF Turned, Fields, IsStep
      <4>2. Written(m, r)
        BY <3>1, <4>1 DEF Written, Turned, Fields
      <4>3. ServingOK(m, r) /\ OwnWritten(w)'
        BY <1>2, <1>4, <3>2, <4>1, <4>2 DEF ServingOK, TopOK, OwnWritten, Turned, Fields
      <4> QED
        BY <1>1, <1>2, <2>4, <4>1, <4>3, Continues DEF Turned
    <3>3. CASE s.old = None
      <4>1. ASSUME Shown = s.seen, Shown' = m PROVE Store!Next
        <5>1. {s.old} \ {None} = {}
          BY <3>3
        <5> QED
          BY <1>2, <2>1, <3>1, <4>1, <5>1, WriteServed DEF Written
      <4> QED
        BY <1>1, <1>2, <1>3, <2>4, <2>6, <3>3, <4>1, Stops
    <3> QED
      BY <3>2, <3>3
  <2> QED
    BY <2>5, <2>6
<1>5. CASE s.outer # None
  <2> PICK t, a, done : /\ t = s.outer /\ a = Ends(t, s.old)
                        /\ done = Waits(t) \ (s.todo \cup {s.old})
    OBVIOUS
  <2>1. InnerOK(n, s) /\ BookOK(t.seen)
    BY <1>1, <1>5, Serving
  <2>2. /\ Naming(t) /\ s.old \in Waits(t) \ done /\ s.old # None /\ Ended(a)
    BY <1>1, <2>1, InnerFacts
  <2>3. /\ s.c = a /\ Completing(n, t, done, {}) /\ Past(t.seen)!Existing(a) = {}
        /\ \A k \in DOMAIN n.link : ~Hit(n.link[k], a)
    BY <1>1, <2>1 DEF InnerOK
  <2>4. s.c.type # Id /\ s.c.replaced_by = None /\ IdLike(s.c)
    BY <2>2, <2>3 DEF Ended, IdLike
  <2>5. /\ s.new \in Guids \ DOMAIN n.link
        /\ m.link = Extend(n.link, s.new, a) /\ m.entities = n.entities
    BY <1>1, <2>3, <2>4, IndexNow, NowFields
  <2>6. BookOK(Now)'
    BY <1>1, <2>3, <2>4, <2>5, BookExtended
  <2>7. Completing(m, t, done, {s.new}) /\ Led(m, t, s.old, s.new) /\ m.link[s.new] = a
    <3> PICK d \in Waits(t) \ done : d = s.old
      BY <2>2
    <3> PICK g : g = s.new
      OBVIOUS
    <3>1. /\ g \notin DOMAIN n.link /\ m.link = Extend(n.link, g, Ends(t, d))
          /\ Past(t.seen)!Existing(Ends(t, d)) = {} /\ m.entities = n.entities
          /\ \A k \in DOMAIN n.link : ~Hit(n.link[k], Ends(t, d))
      BY <2>3, <2>5
    <3>2. Naming(t) /\ Completing(n, t, done, {})
      BY <2>2, <2>3
    <3>3. Completing(m, t, done, {g}) /\ Led(m, t, d, g)
      BY <3>1, <3>2, CompletingWrites
    <3> QED
      BY <2>5, <3>3 DEF Extend
  <2>8. Turned(r, s, "point", s.made, s.c, s.old, s.new, s.todo, s.outer)
    BY Zenon, <1>3, <1>2, <2>2, <2>4 DEF Turned, Fields, IsStep
  <2>9. ServingOK(m, r) /\ OwnWritten(w)'
    BY <1>1, <1>2, <1>5, <2>1, <2>7, <2>8 DEF ServingOK, InnerOK, OwnWritten, Turned, Fields
  <2> QED
    BY <1>1, <1>2, <2>6, <2>8, <2>9, Continues DEF Turned
<1> QED
  BY <1>4, <1>5

LEMMA FindWaitingServes ==
  ASSUME RInv, NEW w \in Workers, Alone(w), NoneIsNoStep, FindWaiting(w)
  PROVE  RInv' /\ Amounts
<1> PICK n, s, T : n = Now /\ s = work[w] /\ T = Past(n)!Danglers(s.c.value)
  OBVIOUS
<1>1. IInv /\ IInv' /\ s.pc = "search" /\ Now' = Now /\ BookOK(Now)'
  BY FindWaitingOK, NowStays DEF RInv, FindWaiting, At
<1>2. ServingOK(n, s) /\ IsStep(s) /\ BookOK(s.seen) /\ s # None
  BY <1>1, Serving DEF NoneIsNoStep
<1>3. s.outer = None
  BY <1>1 DEF IInv, WorkerOK, OuterOK
<1>4. Completing(n, s, {}, {})
  BY <1>1, <1>2, <1>3 DEF ServingOK, TopOK
<1>5. T = Waits(s)
  BY <1>2, <1>4, CompletingFinds
<1>6. work'[w] = [s EXCEPT !.pc = "next", !.outer = s, !.todo = T]
  BY <1>1, Gone, SearchesNow DEF FindWaiting
<1> PICK r : r = work'[w]
  OBVIOUS
<1>7. Turned(r, s, "next", s.made, s.c, s.old, s.new, T, s)
  BY Zenon, <1>2, <1>6 DEF Turned, Fields, IsStep
<1>8. Waits(s) \ T = {}
  BY <1>5
<1>9. ServingOK(n, r) /\ OwnWritten(w)'
  BY <1>2, <1>4, <1>5, <1>7, <1>8 DEF ServingOK, InnerOK, OwnWritten, Turned, Fields
<1> QED
  BY <1>1, <1>2, <1>7, <1>9, Continues DEF Turned

LEMMA CompleteServes ==
  ASSUME RInv, NEW w \in Workers, Alone(w), Complete(w)
  PROVE  RInv' /\ Amounts
<1> PICK n, s, t : n = Now /\ s = work[w] /\ t = s.outer
  OBVIOUS
<1>1. IInv /\ IInv' /\ s.pc = "next" /\ Now' = Now /\ BookOK(Now)' /\ BookOK(n)
  BY CompleteOK, NowStays DEF RInv, Complete, At
<1>2. ServingOK(n, s) /\ IsStep(s) /\ BookOK(s.seen) /\ s.outer # None
  BY <1>1, Serving DEF ServingOK
<1>3. InnerOK(n, s) /\ t.outer = None /\ IsStep(t) /\ BookOK(t.seen)
  BY <1>1, <1>2, Serving
<1>4. t.seen = s.seen /\ s.todo \subseteq Waits(t) /\ Completing(n, t, Waits(t) \ s.todo, {})
  BY <1>1, <1>3 DEF InnerOK
<1>5. Naming(t)
  BY <1>3, <1>4, CompletingNames
<1> PICK r : r = work'[w]
  OBVIOUS
<1>6. CASE \E d \in s.todo :
             Goto(w, [s EXCEPT !.pc = "look", !.todo = s.todo \ {d}, !.old = d, !.made = None,
                               !.c = [Search!Attach(Indexed[d], t.c.from) EXCEPT !.replaced_by = None]])
  <2>1. PICK d \in s.todo :
        Goto(w, [s EXCEPT !.pc = "look", !.todo = s.todo \ {d}, !.old = d, !.made = None,
                          !.c = [Search!Attach(Indexed[d], t.c.from) EXCEPT !.replaced_by = None]])
    BY <1>6
  <2>2. PICK c : c = [Search!Attach(Indexed[d], t.c.from) EXCEPT !.replaced_by = None]
    OBVIOUS
  <2>3. work'[w] = [s EXCEPT !.pc = "look", !.todo = s.todo \ {d}, !.old = d, !.made = None, !.c = c]
    BY <1>1, <2>1, <2>2, Gone
  <2>4. c = Ends(t, d)
    <3>1. d \in Waits(t)
      BY <1>4, <2>1
    <3>2. d \in DOMAIN t.seen.link /\ Ended(Ends(t, d))
      BY <1>5, <3>1, Waiter
    <3>3. Indexed[d] = t.seen.link[d]
      BY <1>4, <2>1, <3>2, NowFields DEF Completing
    <3>4. Search!Attach(Indexed[d], t.c.from) = Ends(t, d)
      BY <3>3 DEF Search!Attach, Past!Attach, Ends
    <3> QED
      BY <2>2, <3>2, <3>4 DEF Ended, Link, Search!Link
  <2>5. Turned(r, s, "look", None, c, d, s.new, s.todo \ {d}, t)
    BY Zenon, <1>2, <2>3 DEF Turned, Fields, IsStep
  <2>6. Waits(t) \ ((s.todo \ {d}) \cup {d}) = Waits(t) \ s.todo /\ d \in Waits(t) \ (s.todo \ {d})
    BY <1>4, <2>1
  <2>7. ServingOK(n, r) /\ OwnWritten(w)'
    <3>1. /\ r.pc = "look" /\ r.made = None /\ r.c = Ends(t, d) /\ r.old = d
          /\ r.todo = s.todo \ {d} /\ r.outer = t /\ r.seen = t.seen
      BY <1>4, <2>4, <2>5 DEF Turned, Fields
    <3>2. InnerOK(n, r)
      BY <1>4, <2>6, <3>1 DEF InnerOK
    <3>3. t # None /\ BookOK(r.seen)
      BY <1>2, <1>3, <1>4, <3>1
    <3> QED
      BY <3>1, <3>2, <3>3 DEF ServingOK, OwnWritten
  <2> QED
    BY <1>1, <1>2, <2>5, <2>7, Continues DEF Turned
<1>7. CASE s.todo = {} /\ Goto(w, IF t.old = None THEN Idle ELSE [t EXCEPT !.pc = "point"])
  <2>1. Written(n, t)
    <3>1. Waits(t) \ s.todo = Waits(t)
      BY <1>7
    <3> QED
      BY <1>1, <1>3, <1>4, <3>1, CompletingEnds
  <2>2. CASE t.old = None
    <3>1. work'[w] = Idle
      BY <1>1, <1>7, <2>2, Gone
    <3>2. ASSUME Shown = s.seen, Shown' = n PROVE Store!Next
      <4>1. {t.old} \ {None} = {}
        BY <2>2
      <4> QED
        BY <1>3, <1>4, <2>1, <3>2, <4>1, WriteServed DEF Written
    <3> QED
      BY <1>1, <1>2, <3>1, <3>2, Stops
  <2>3. CASE t.old # None
    <3>1. work'[w] = [t EXCEPT !.pc = "point"]
      BY <1>1, <1>7, <2>3, Gone
    <3>2. Turned(r, t, "point", t.made, t.c, t.old, t.new, t.todo, t.outer)
      BY Zenon, <1>3, <3>1 DEF Turned, Fields, IsStep
    <3>3. Written(n, r)
      BY <2>1, <3>2 DEF Written, Turned, Fields
    <3>4. ServingOK(n, r) /\ OwnWritten(w)'
      BY <1>3, <2>3, <3>2, <3>3 DEF ServingOK, TopOK, OwnWritten, Turned, Fields
    <3> QED
      BY <1>1, <1>2, <1>4, <3>2, <3>4, Continues DEF Turned
  <2> QED
    BY <2>2, <2>3
<1> QED
  BY <1>6, <1>7 DEF Complete

(* The old version, until the index hears that it was replaced. *)
LEMMA WrittenFacts ==
  ASSUME NEW n, NEW s, BookOK(s.seen), s.old # None, Written(n, s)
  PROVE  /\ s.old \in DOMAIN s.seen.link /\ s.old # s.new
         /\ s.old \in DOMAIN n.link /\ n.link[s.old] = s.seen.link[s.old]
         /\ n.link[s.old].replaced_by = None
         /\ s.old \notin Past(s.seen)!Waiting(s.c)
<1>1. /\ s.old \in DOMAIN s.seen.link /\ s.seen.link[s.old].replaced_by = None
      /\ s.c.type = s.seen.link[s.old].type
  BY ChosenSound DEF Written, Sound
<1>2. s.old # s.new
  BY <1>1 DEF Written
<1>3. s.old \notin Past(s.seen)!Waiting(s.c)
  <2>1. IdLike(s.seen.link[s.old])
    BY <1>1 DEF BookOK
  <2> QED
    BY <1>1, <2>1
       DEF IdLike, Past!Waiting, Past!Danglers, Past!Live, Past!Current, Past!Written
<1>4. PICK f \in Past(s.seen)!Completions(Past(s.seen)!Waiting(s.c), s.c.from, s.new) :
        \E first \in Past(s.seen)!Firsts(f) : n.link = Past(s.seen)!After(s.c, s.new, {}, f, first)
  BY DEF Written
<1>5. DOMAIN f = Past(s.seen)!Waiting(s.c)
  BY <1>4 DEF Past!Completions
<1>6. s.old \in DOMAIN n.link /\ n.link[s.old] = s.seen.link[s.old]
  BY <1>1, <1>2, <1>3, <1>4, <1>5 DEF Past!After, Past!Version, Past!Written
<1> QED
  BY <1>1, <1>2, <1>3, <1>6

LEMMA FoundFacts ==
  ASSUME NEW b, BookOK(b), NEW made, NEW old, NEW g, Found(b, made, old, g)
  PROVE  old \in DOMAIN b.link /\ b.link[old].replaced_by = None
<1>1. PICK d : Asked(b, made, d, old) /\ old # None
  BY DEF Found
<1> QED
  BY <1>1, AskedSound DEF Sound

(* Until then, whatever is being completed, the old version is current. *)
LEMMA OldIsLatest ==
  ASSUME NEW n, NEW s, ServingOK(n, s), s.pc \in {"point", "rerecord", "reindex"}
  PROVE  /\ s.old \in DOMAIN n.link
         /\ n.link[s.old].replaced_by = None
<1>1. CASE s.outer = None
  <2>1. BookOK(s.seen) /\ TopOK(n, s)
    BY <1>1 DEF ServingOK
  <2>2. CASE n = s.seen /\ Found(s.seen, s.made, s.old, s.new)
    BY <2>1, <2>2, FoundFacts
  <2>3. CASE s.old # None /\ Written(n, s)
    BY <2>1, <2>3, WrittenFacts
  <2> QED
    BY <2>1, <2>2, <2>3 DEF TopOK
<1>2. CASE s.outer # None
  <2>1. BookOK(s.outer.seen) /\ InnerOK(n, s)
    BY <1>2 DEF ServingOK, InnerOK
  <2> QED
    BY <2>1, InnerFacts
<1> QED
  BY <1>1, <1>2

(* A call that only moves the update on. *)
LEMMA MovesOn ==
  ASSUME NEW n, NEW s, NEW r, NEW p \in {"rerecord", "reindex"}, ServingOK(n, s),
         s.pc \in {"point", "rerecord"},
         Turned(r, s, p, s.made, s.c, s.old, s.new, s.todo, s.outer)
  PROVE  ServingOK(n, r)
<1>1. CASE s.outer = None
  BY <1>1 DEF ServingOK, TopOK, Written, Turned, Fields
<1>2. CASE s.outer # None
  BY <1>2 DEF ServingOK, InnerOK, Turned, Fields
<1> QED
  BY <1>1, <1>2

LEMMA PointServes ==
  ASSUME RInv, NEW w \in Workers, Alone(w), Point(w)
  PROVE  RInv' /\ Amounts
<1> PICK n, s : n = Now /\ s = work[w]
  OBVIOUS
<1>1. IInv /\ IInv' /\ s.pc = "point" /\ BookOK(n)
  BY PointOK DEF RInv, Point, At
<1>2. ServingOK(n, s) /\ IsStep(s)
  BY <1>1, Serving
<1>3. Now' = Now /\ store'[s.old].replaced_by = s.new
  BY <1>1, <1>2, OldIsLatest, PointNow, NowFields
<1>4. work'[w] = [s EXCEPT !.pc = "rerecord"]
  BY <1>1, Gone DEF Point, Move
<1> PICK r : r = work'[w]
  OBVIOUS
<1>5. Turned(r, s, "rerecord", s.made, s.c, s.old, s.new, s.todo, s.outer)
  BY Zenon, <1>2, <1>4 DEF Turned, Fields, IsStep
<1>6. ServingOK(n, r)
  BY <1>1, <1>2, <1>5, MovesOn
<1>7. OwnWritten(w)'
  BY <1>3, <1>5 DEF OwnWritten, Turned, Fields
<1> QED
  BY <1>1, <1>2, <1>3, <1>5, <1>6, <1>7, Continues DEF Turned

LEMMA RerecordServes ==
  ASSUME RInv, NEW w \in Workers, Alone(w), Rerecord(w)
  PROVE  RInv' /\ Amounts
<1> PICK n, s : n = Now /\ s = work[w]
  OBVIOUS
<1>1. /\ IInv /\ IInv' /\ s.pc = "rerecord" /\ Now' = Now /\ BookOK(Now)'
      /\ store' = store /\ OwnWritten(w)
  BY RerecordOK, NowStays DEF RInv, Rerecord, At
<1>2. ServingOK(n, s) /\ IsStep(s)
  BY <1>1, Serving
<1>3. work'[w] = [s EXCEPT !.pc = "reindex"]
  BY <1>1, Gone DEF Rerecord, Move
<1> PICK r : r = work'[w]
  OBVIOUS
<1>4. Turned(r, s, "reindex", s.made, s.c, s.old, s.new, s.todo, s.outer)
  BY Zenon, <1>2, <1>3 DEF Turned, Fields, IsStep
<1>5. ServingOK(n, r)
  BY <1>1, <1>2, <1>4, MovesOn
<1>6. OwnWritten(w)'
  BY <1>1, <1>4 DEF OwnWritten, Turned, Fields
<1> QED
  BY <1>1, <1>2, <1>4, <1>5, <1>6, Continues DEF Turned

(* Pointing the old version last amounts to having it replaced at once. *)
LEMMA AfterPoints ==
  ASSUME NEW b, NEW c, NEW old \in DOMAIN b.link, NEW new, old # new, NEW f, old \notin DOMAIN f,
         NEW first
  PROVE  [Past(b)!After(c, new, {}, f, first) EXCEPT ![old].replaced_by = new]
         = Past(b)!After(c, new, {old}, f, first)
<1> DEFINE F == Past(b)!After(c, new, {}, f, first)
           G == Past(b)!After(c, new, {old}, f, first)
           H == [F EXCEPT ![old].replaced_by = new]
<1>1. DOMAIN F = DOMAIN G /\ old \in DOMAIN F
  BY DEF Past!After, Past!Written
<1>2. F[old] = b.link[old] /\ G[old] = [b.link[old] EXCEPT !.replaced_by = new]
  BY DEF Past!After, Past!Version, Past!Written
<1>3. \A g \in DOMAIN F \ {old} : F[g] = G[g]
  BY DEF Past!After, Past!Version, Past!Written
<1>4. \A g \in DOMAIN F : H[g] = G[g]
  BY <1>1, <1>2, <1>3
<1>5. DOMAIN H = DOMAIN F /\ H = [g \in DOMAIN H |-> H[g]] /\ G = [g \in DOMAIN G |-> G[g]]
  BY DEF Past!After
<1> QED
  BY <1>1, <1>4, <1>5

LEMMA WrittenEnds ==
  ASSUME NEW n, NEW m, NEW s, BookOK(s.seen), s.old # None, Written(n, s),
         m.link = [n.link EXCEPT ![s.old].replaced_by = s.new], m.entities = n.entities
  PROVE  /\ Chosen(s.seen, s.made, s.c, s.old)
         /\ s.new \in Guids \ DOMAIN s.seen.link
         /\ m.entities = Grown(s.seen, s.made)
         /\ \E f \in Past(s.seen)!Completions(Past(s.seen)!Waiting(s.c), s.c.from, s.new) :
              \E first \in Past(s.seen)!Firsts(f) :
                m.link = Past(s.seen)!After(s.c, s.new, {s.old} \ {None}, f, first)
<1>0. PICK f \in Past(s.seen)!Completions(Past(s.seen)!Waiting(s.c), s.c.from, s.new) :
        \E first \in Past(s.seen)!Firsts(f) : n.link = Past(s.seen)!After(s.c, s.new, {}, f, first)
  BY DEF Written
<1>1. PICK first \in Past(s.seen)!Firsts(f) : n.link = Past(s.seen)!After(s.c, s.new, {}, f, first)
  BY <1>0
<1>2. DOMAIN f = Past(s.seen)!Waiting(s.c)
  BY <1>1 DEF Past!Completions
<1>3. m.link = Past(s.seen)!After(s.c, s.new, {s.old}, f, first)
  BY <1>1, <1>2, WrittenFacts, AfterPoints
<1>4. {s.old} \ {None} = {s.old}
  OBVIOUS
<1> QED
  BY <1>1, <1>3, <1>4 DEF Written

LEMMA ReindexServes ==
  ASSUME RInv, NEW w \in Workers, Alone(w), Reindex(w)
  PROVE  RInv' /\ Amounts
<1> PICK n, s, m : n = Now /\ s = work[w] /\ m = Now'
  OBVIOUS
<1>1. /\ IInv /\ IInv' /\ s.pc = "reindex" /\ BookOK(n) /\ store' = store
      /\ store[s.old].replaced_by = s.new
  BY ReindexOK DEF RInv, Reindex, At, OwnWritten
<1>2. ServingOK(n, s) /\ IsStep(s) /\ BookOK(s.seen)
  BY <1>1, Serving
<1>3. s.old \in DOMAIN n.link /\ n.link[s.old].replaced_by = None
  BY <1>1, <1>2, OldIsLatest
<1>4. m.link = [n.link EXCEPT ![s.old].replaced_by = s.new] /\ m.entities = n.entities
  BY <1>1, <1>3, ReindexNow, NowFields
<1>5. BookOK(Now)'
  BY <1>1, <1>3, <1>4, BookPointed
<1>6. CASE s.outer = None
  <2>1. work'[w] = Idle
    BY <1>1, <1>6, Gone DEF Reindex
  <2>2. \/ n = s.seen /\ Found(s.seen, s.made, s.old, s.new)
        \/ s.old # None /\ Written(n, s)
    BY <1>1, <1>2, <1>6 DEF ServingOK, TopOK
  <2>3. ASSUME Shown = s.seen, Shown' = m PROVE Store!Next
    <3>1. CASE n = s.seen /\ Found(s.seen, s.made, s.old, s.new)
      BY <1>4, <2>3, <3>1, FoundServed
    <3>2. CASE s.old # None /\ Written(n, s)
      <4>1. /\ Chosen(s.seen, s.made, s.c, s.old)
            /\ s.new \in Guids \ DOMAIN s.seen.link
            /\ m.entities = Grown(s.seen, s.made)
            /\ \E f \in Past(s.seen)!Completions(Past(s.seen)!Waiting(s.c), s.c.from, s.new) :
                 \E first \in Past(s.seen)!Firsts(f) :
                   m.link = Past(s.seen)!After(s.c, s.new, {s.old} \ {None}, f, first)
        BY <1>2, <1>4, <3>2, WrittenEnds
      <4> QED
        BY <1>2, <2>3, <4>1, WriteServed
    <3> QED
      BY <2>2, <3>1, <3>2
  <2> QED
    BY <1>1, <1>2, <1>5, <2>1, <2>3, Stops
<1>7. CASE s.outer # None
  <2> PICK t, d, g, done : /\ t = s.outer /\ d = s.old /\ g = s.new
                           /\ done = Waits(t) \ (s.todo \cup {d})
    OBVIOUS
  <2> PICK r : r = work'[w]
    OBVIOUS
  <2>1. InnerOK(n, s) /\ BookOK(t.seen)
    BY <1>1, <1>7, Serving
  <2>2. Naming(t) /\ d \in Waits(t) \ done
    BY <1>1, <2>1, InnerFacts
  <2>3. /\ Led(n, t, d, g)
        /\ \/ Completing(n, t, done, {})
           \/ n.link[g] = Ends(t, d) /\ Completing(n, t, done, {g})
        /\ d \notin s.todo /\ s.todo \subseteq Waits(t) /\ t.seen = s.seen
    BY <1>1, <2>1 DEF InnerOK
  <2>4. m.link = [n.link EXCEPT ![d].replaced_by = g] /\ m.entities = n.entities
    BY <1>4
  <2>5. Completing(m, t, done \cup {d}, {})
    BY <2>2, <2>3, <2>4, CompletingPoints
  <2>6. done \cup {d} = Waits(t) \ s.todo
    BY <2>2, <2>3
  <2>7. work'[w] = [s EXCEPT !.pc = "next"]
    BY <1>1, <1>7, Gone DEF Reindex, Move
  <2>8. Turned(r, s, "next", s.made, s.c, s.old, s.new, s.todo, s.outer)
    BY Zenon, <1>2, <2>7 DEF Turned, Fields, IsStep
  <2>9. ServingOK(m, r) /\ OwnWritten(w)'
    BY <1>2, <1>7, <2>3, <2>5, <2>6, <2>8 DEF ServingOK, InnerOK, OwnWritten, Turned, Fields
  <2> QED
    BY <1>1, <1>2, <1>5, <2>8, <2>9, Continues DEF Turned
<1> QED
  BY <1>6, <1>7
------------------------------------------------------------------------------
(* Requests begin as PropStore has them asked. *)

LEMMA BeginEntityServes ==
  ASSUME RInv, NEW w \in Workers, Alone(w), BeginEntity(w)
  PROVE  RInv' /\ Amounts
<1>1. IInv'
  BY BeginEntityOK DEF RInv
<1>2. PICK e \in Entities \ entities, v \in Values, u \in Users :
        Begin(w, e, Search!Candidate(Id, e, None, v, u, TRUE), None)
  BY Zenon DEF BeginEntity
<1> PICK c : c = Search!Candidate(Id, e, None, v, u, TRUE)
  OBVIOUS
<1>3. AskedEntity(Now, e, c)
  BY NowFields DEF AskedEntity
<1> QED
  BY <1>1, <1>2, <1>3, Starts DEF Asked

LEMMA BeginCreateServes ==
  ASSUME RInv, NEW w \in Workers, Alone(w), BeginCreate(w)
  PROVE  RInv' /\ Amounts
<1>1. IInv'
  BY BeginCreateOK DEF RInv
<1>2. PICK e \in entities, u \in Users, a \in BOOLEAN : BeginCreate(w)!(e, u, a)
  BY Zenon DEF BeginCreate
<1>3. PICK c : Begin(w, None, c, None) /\ AskedCreate(Now, c)
  BY <1>2, NowFields DEF AskedCreate
<1> QED
  BY <1>1, <1>3, Starts DEF Asked

LEMMA BeginUpdateServes ==
  ASSUME RInv, NEW w \in Workers, Alone(w), BeginUpdate(w)
  PROVE  RInv' /\ Amounts
<1>1. IInv /\ IInv'
  BY BeginUpdateOK DEF RInv
<1>2. PICK p \in DOMAIN Indexed, e \in entities, a \in BOOLEAN : BeginUpdate(w)!(p, e, a)
  BY Zenon DEF BeginUpdate
<1>3. p \in Stored /\ store[p] \in Link /\ store[p].replaced_by = None /\ store[p].from # None
  <2>1. p \in Stored /\ store[p] \in Link
    BY <1>1, IndexedRecords DEF IInv, StoreOK, InIndex
  <2> QED
    BY <1>2, <2>1
<1>4. Indexed[p] = store[p]
  <2>1. [store[p] EXCEPT !.replaced_by = None] = store[p]
    BY <1>3 DEF Link, Search!Link
  <2> QED
    BY <2>1 DEF Indexed
<1> PICK n, l : n = Now /\ l = store[p]
  OBVIOUS
<1>5. /\ n.link[p] = l /\ n.entities = entities /\ p \in DOMAIN n.link
      /\ l.replaced_by = None /\ l.from # None
      /\ \A v : Search!Owners(v) = Past(n)!Owners(v)
  BY <1>3, <1>4, NowFields, SearchesNow
<1>6. Past(n)!Updatable(p)
  BY <1>5 DEF Past!Updatable
<1>7. \/ \E x, v : /\ Begin(w, None, Search!Candidate(l.type, e, x, v, l.creator, a), p)
                   /\ \/ l.to = None /\ v \in Values \ {l.value} /\ x = None
                      \/ /\ l.to # None /\ v = None
                         /\ \E y \in Values : \/ Past(n)!Owners(y) = {} /\ x = l.to
                                              \/ x \in Past(n)!Owners(y) \ {l.to}
                      \/ /\ l.to # None \/ ~l.complete
                         /\ v = None /\ x \in n.entities \ {l.to}
      \/ Begin(w, None, [l EXCEPT !.from = e, !.alive = a], p)
  BY <1>2, <1>5
<1>8. PICK c : Begin(w, None, c, p) /\ AskedUpdate(n, c, p)
  <2>1. CASE Begin(w, None, [l EXCEPT !.from = e, !.alive = a], p)
    BY <1>5, <1>6, <2>1 DEF AskedUpdate
  <2>2. CASE ~Begin(w, None, [l EXCEPT !.from = e, !.alive = a], p)
    <3>1. PICK x, v : <1>7!1!(x, v)
      BY <1>7, <2>2
    <3> PICK c : c = Search!Candidate(l.type, e, x, v, l.creator, a)
      OBVIOUS
    <3>2. \/ l.to = None /\ \E y \in Values \ {l.value} :
                              c = Search!Candidate(l.type, e, None, y, l.creator, a)
          \/ /\ l.to # None
             /\ \E y \in Values :
                  \/ /\ Past(n)!Owners(y) = {}
                     /\ c = Search!Candidate(l.type, e, l.to, None, l.creator, a)
                  \/ \E z \in Past(n)!Owners(y) \ {l.to} :
                       c = Search!Candidate(l.type, e, z, None, l.creator, a)
          \/ /\ l.to # None \/ ~l.complete
             /\ \E z \in n.entities \ {l.to} :
                  c = Search!Candidate(l.type, e, z, None, l.creator, a)
      BY <3>1
    <3>3. AskedUpdate(n, c, p)
      <4>1. AskedUpdate(n, c, p)!(e, a)
        BY Zenon, <1>5, <1>6, <3>2
      <4>2. e \in n.entities
        BY <1>5
      <4> QED
        BY Zenon, <4>1, <4>2 DEF AskedUpdate
    <3> QED
      BY <3>1, <3>3
  <2> QED
    BY <2>1, <2>2
<1> QED
  BY <1>1, <1>5, <1>8, Starts DEF Asked
------------------------------------------------------------------------------
(* The store as PropStore has it. *)

LEMMA InitServes == Init => RInv /\ Store!Init
<1> SUFFICES ASSUME Init PROVE RInv /\ Store!Init
  OBVIOUS
<1>1. IInv
  BY InitIInv
<1>2. entities = {} /\ DOMAIN store = {} /\ \A w \in Workers : work[w] = Idle
  BY DEF Init
<1>3. Indexed = [g \in {} |-> None] /\ DOMAIN Indexed = {}
  BY <1>2 DEF Indexed, Stored
<1>4. BookOK(Now)
  BY <1>2, <1>3 DEF BookOK, Now
<1>5. \A w \in Workers : OwnWritten(w)
  BY <1>2 DEF OwnWritten, Idle, Step
<1>6. Shown = Now
  BY <1>2 DEF Shown, Quiet
<1> QED
  BY <1>1, <1>2, <1>3, <1>4, <1>5, <1>6, NowFields DEF RInv, Store!Init

LEMMA NothingHappens ==
  ASSUME RInv, UNCHANGED vars
  PROVE  RInv' /\ Amounts
<1>1. IInv'
  BY NextIInv DEF RInv
<1>2. Now' = Now
  BY NowStays DEF vars
<1>3. Shown' = Shown
  BY <1>2 DEF Shown, Quiet, vars
<1> QED
  BY <1>1, <1>2, <1>3 DEF RInv, OwnWritten, Amounts, vars

LEMMA NextServes ==
  ASSUME \A v, w \in Workers : v = w, ~Kills, NoneIsNoStep, RInv, [Next]_vars
  PROVE  RInv' /\ Amounts
<1>1. CASE UNCHANGED vars
  BY <1>1, NothingHappens
<1>2. CASE Next
  <2>1. PICK w \in Workers :
          BeginEntity(w) \/ BeginCreate(w) \/ BeginUpdate(w) \/ Serve(w)
    BY <1>2 DEF Next, Kill
  <2>2. Alone(w)
    BY DEF Alone
  <2>3. CASE BeginEntity(w) \/ BeginCreate(w) \/ BeginUpdate(w)
    BY <2>2, <2>3, BeginEntityServes, BeginCreateServes, BeginUpdateServes
  <2>4. CASE Serve(w)
    BY <2>2, <2>4, LookServes, WriteServes, RecordServes, IndexServes, FindWaitingServes,
       CompleteServes, PointServes, RerecordServes, ReindexServes DEF Serve
  <2> QED
    BY <2>1, <2>3, <2>4
<1> QED
  BY <1>1, <1>2

(* Served by one worker that is never killed, as the deployment has it     *)
(* (wsgi_config.json: processes 1, no threads), every request of lri-b,    *)
(* with all its calls to the database (lridb.py 90-254, 813-935;           *)
(* neorest.py 230-300), amounts to one request of PropStore that succeeds  *)
(* or changes nothing: what PropStore promises holds between requests.     *)
THEOREM RequestsImplementStore ==
  ASSUME \A v, w \in Workers : v = w, ~Kills, NoneIsNoStep
  PROVE  Spec => KeepsStore
<1>1. RInv /\ [Next]_vars => RInv' /\ [Store!Next]_(Store!vars)
  BY NextServes DEF Amounts, Store!vars
<1> QED
  BY <1>1, InitServes, PTL DEF Spec, KeepsStore, Store!Spec
===============================================================================
