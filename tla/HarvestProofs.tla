----------------------------- MODULE HarvestProofs -----------------------------
(***************************************************************************)
(* For any documents, pages, clocks, failures and kills: no document       *)
(* published before the date in fromDate.txt is passed over but as         *)
(* NothingPassedOver excuses, and the index shows the newest document of   *)
(* each object whenever a harvest is through.                              *)
(***************************************************************************)
EXTENDS Harvest, TLAPS

Done(d) == d \in seen \/ d \in lost \/ d \in overtaken
Before(t) == \A d \in Docs : published[d] # None /\ published[d] < t => Done(d)

Clocks ==
  /\ clock \in Dates /\ own \in Dates
  /\ published \in [Docs -> Dates \cup {None}]
  /\ file \in Dates \cup {None}
  /\ from \in Dates \cup {0}
  /\ until \in Dates \cup {0}
  /\ pc \notin {"read", "down"} => until \in Dates

(* A harvest begins where the last one ended. *)
Begun == pc \notin {"read", "write", "down"} => from = 0 \/ (file # None /\ from = file)

(* What is overtaken when the connector's clock is not ahead. *)
InStep ==
  MaxAhead = 0 => /\ own <= clock /\ until <= clock /\ (file # None => file <= clock)
                  /\ overtaken = {}

Working == pc \in {"index", "lri"}

(* What the harvest under way has still to get to. *)
Pending(d) == d \in token \/ d \in page \/ (Working /\ d = doc)

Phases ==
  /\ pc \in {"read", "ask", "request", "take", "index", "lri", "truncate", "write", "down"}
  /\ pc \notin {"take", "index", "lri"} => page = {}

UnderWay ==
  pc \in {"request", "take", "index", "lri"} =>
    \A d \in Docs : published[d] # None /\ published[d] >= from /\ published[d] < until
                      => Done(d) \/ Pending(d)
Through == pc \in {"truncate", "write"} => Before(until)

IInv ==
  /\ Clocks
  /\ Begun
  /\ InStep
  /\ Phases
  /\ file # None => Before(file)
  /\ UnderWay
  /\ Through

LEMMA DatesAreNat == Dates \subseteq Nat \ {0} /\ None \notin Dates /\ MaxTime \in Nat
BY BoundsAssumption, NoneAssumption DEF Dates

LEMMA NumbersInPlace ==
  ASSUME IInv
  PROVE  /\ \A d \in Docs : published[d] # None => published[d] \in Nat \ {0}
         /\ clock \in Nat /\ own \in Nat /\ from \in Nat /\ until \in Nat
<1>1. clock \in Nat /\ own \in Nat /\ from \in Nat /\ until \in Nat
  BY DatesAreNat DEF IInv, Clocks
<1>2. ASSUME NEW d \in Docs, published[d] # None PROVE published[d] \in Nat \ {0}
  <2>1. published[d] \in Dates \cup {None}
    BY <1>2 DEF IInv, Clocks
  <2> QED BY <2>1, <1>2, DatesAreNat
<1> QED BY <1>1, <1>2

LEMMA NothingBeforeFrom ==
  ASSUME IInv, pc \notin {"read", "write", "down"}
  PROVE  Before(from)
<1>1. Before(0)
  BY NumbersInPlace DEF Before
<1> QED BY <1>1 DEF IInv, Begun

LEMMA InitEstablishes == Init => IInv
<1> SUFFICES ASSUME Init PROVE IInv
  OBVIOUS
<1>1. /\ clock \in Dates /\ clock = 1 /\ own = 1 /\ from = 0 /\ until = 0 /\ file = None /\ pc = "read" /\ page = {}
      /\ overtaken = {}
  BY BoundsAssumption DEF Init, Dates
<1>2. published \in [Docs -> Dates \cup {None}] /\ \A d \in Docs : published[d] = None
  BY DEF Init
<1>3. Clocks
  BY <1>1, <1>2 DEF Clocks
<1> QED BY <1>1, <1>2, <1>3 DEF IInv, Begun, InStep, Phases, UnderWay, Through, Before

(* A call for a document: the document is still in process, or it is    *)
(* through.                                                                *)
CallMade ==
  \/ UNCHANGED <<doc, seen>> /\ pc' = "lri"
  \/ pc' = "take" /\ doc' = None /\ seen' = seen \cup {doc}
Rest == UNCHANGED <<clock, own, published, overtaken, file, from, until, token, page>> /\ lost \subseteq lost'

LEMMA WithinDocument ==
  ASSUME IInv, Working, Rest, CallMade
  PROVE  IInv'
<1>1. /\ UNCHANGED <<clock, own, published, overtaken, file, from, until, token, page>>
      /\ \A d : Done(d) => Done(d)'
  BY DEF Rest, CallMade, Done
<1>2. pc' \in {"take", "lri"} /\ pc \in {"index", "lri"}
  BY DEF CallMade, Working
<1>3. Clocks' /\ Begun' /\ InStep' /\ Phases'
  BY <1>1, <1>2 DEF IInv, Clocks, Begun, InStep, Phases
<1>4. \A t : Before(t) => Before(t)'
  BY <1>1 DEF Before
<1>5. \A d : Pending(d) => Pending(d)' \/ Done(d)'
  BY <1>2 DEF Pending, Working, Rest, CallMade, Done
<1>6. UnderWay' /\ Through'
  BY <1>1, <1>2, <1>5 DEF IInv, UnderWay, Through
<1> QED BY <1>1, <1>3, <1>4, <1>6 DEF IInv

(* A document still to come is stamped by the node: where that is before   *)
(* the end of a harvest listed already, it is overtaken.                   *)
LEMMA PublishKeeps == ASSUME IInv, Publish PROVE IInv'
<1>1. PICK d \in Docs :
        /\ published[d] = None /\ published' = [published EXCEPT ![d] = clock]
        /\ overtaken' = IF IsPast(clock) THEN overtaken \cup {d} ELSE overtaken
  BY DEF Publish
<1>2. UNCHANGED <<clock, own, file, pc, from, until, token, page, doc, seen, lost>>
  BY DEF Publish, harvest, history
<1>3. \A e \in Docs : published'[e] = IF e = d THEN clock ELSE published[e]
  BY <1>1 DEF IInv, Clocks
<1>4. /\ \A e : Done(e) => Done(e)'
      /\ IsPast(clock) => Done(d)'
  BY <1>1, <1>2 DEF Done
<1>5. Clocks' /\ Begun' /\ Phases'
  BY <1>1, <1>2, <1>3 DEF IInv, Clocks, Begun, Phases
<1>6. InStep'
  BY <1>1, <1>2, NumbersInPlace, DatesAreNat DEF IInv, Clocks, InStep, IsPast, Phases
<1>7. (file # None => Before(file))'
  BY <1>1, <1>2, <1>3, <1>4 DEF IInv, Before, IsPast
<1>8. UnderWay'
  BY <1>1, <1>2, <1>3, <1>4 DEF IInv, UnderWay, IsPast, Pending, Working
<1>9. Through'
  BY <1>1, <1>2, <1>3, <1>4 DEF IInv, Through, Before, IsPast
<1> QED BY <1>5, <1>6, <1>7, <1>8, <1>9 DEF IInv

LEMMA WorldKeeps == ASSUME IInv, World \/ SetBack PROVE IInv'
<1>1. CASE Publish
  BY <1>1, PublishKeeps
<1>2. CASE Tick \/ OwnTick \/ SetBack \/ LoadType \/ Expire
  <2>1. /\ UNCHANGED <<published, overtaken, file, pc, from, until, token, page, doc, seen, lost>>
        /\ clock' \in Dates /\ own' \in Dates /\ clock <= clock'
        /\ MaxAhead = 0 /\ own <= clock => own' <= clock'
    BY <1>2, DatesAreNat, NumbersInPlace, BoundsAssumption
       DEF Tick, OwnTick, SetBack, LoadType, Expire, world, harvest, history, IInv, Clocks, Dates
  <2>2. \A n \in Nat : n <= clock => n <= clock'
    BY <2>1, DatesAreNat, NumbersInPlace
  <2>3. (file # None => file \in Nat) /\ until \in Nat
    BY DatesAreNat, NumbersInPlace DEF IInv, Clocks
  <2>4. InStep'
    BY <2>1, <2>2, <2>3 DEF IInv, InStep
  <2> QED
    BY <2>1, <2>4 DEF IInv, Clocks, Begun, Phases, Before, Done, UnderWay, Through, Pending, Working
<1> QED BY <1>1, <1>2 DEF World

LEMMA LoopKeeps == ASSUME IInv, Harvests \/ Restart PROVE IInv'
<1> USE DatesAreNat DEF world, harvest, history
<1>1. CASE Read
  <2>1. Clocks' /\ Begun' /\ Phases'
    BY <1>1 DEF Read, IInv, Clocks, Begun, Phases
  <2>2. InStep'
    BY <1>1 DEF Read, IInv, InStep
  <2> QED BY <1>1, <2>1, <2>2 DEF Read, IInv, UnderWay, Through, Before, Done
<1>2. CASE Ask
  <2>1. Clocks' /\ Begun' /\ InStep' /\ Phases'
    BY <1>2 DEF Ask, IInv, Clocks, Begun, InStep, Phases
  <2>2. UnderWay'
    <3>1. \A d \in Docs : published[d] # None /\ published[d] >= from /\ published[d] < until
                             => d \in Listed(from, until)
      BY NumbersInPlace DEF Listed
    <3> QED BY <1>2, <3>1 DEF Ask, UnderWay, Pending
  <2> QED BY <1>2, <2>1, <2>2 DEF Ask, IInv, Before, Done, Through
<1>3. CASE Request
  <2>1. PICK p \in Pages(token) : page' = p /\ token' = token \ p
    BY <1>3 DEF Request
  <2>2. p \subseteq token /\ page = {} /\ pc' = "take" /\ pc = "request"
    BY <1>3, <2>1 DEF Pages, Request, IInv, Phases
  <2>3. \A d : Pending(d) => Pending(d)'
    BY <2>1, <2>2 DEF Pending, Working
  <2>4. Clocks' /\ Begun' /\ InStep' /\ Phases'
    BY <1>3 DEF Request, IInv, Clocks, Begun, InStep, Phases
  <2>5. UnderWay'
    BY <1>3, <2>2, <2>3 DEF Request, IInv, UnderWay, Done
  <2> QED BY <1>3, <2>2, <2>4, <2>5 DEF Request, IInv, Before, Done, Through
<1>4. CASE Take
  <2>1. PICK d \in Oldest(page) :
          /\ page' = page \ {d}
          /\ \/ doc' = d /\ pc' = "index" /\ UNCHANGED seen
             \/ seen' = seen \cup {d} /\ UNCHANGED <<doc, pc>>
    BY <1>4 DEF Take
  <2>2. UNCHANGED <<clock, own, published, overtaken, file, from, until, token, lost>> /\ pc = "take"
    BY <1>4 DEF Take
  <2>3. \A e : Done(e) \/ Pending(e) => Done(e)' \/ Pending(e)'
    BY <2>1, <2>2 DEF Done, Pending, Working
  <2>4. \A e : Done(e) => Done(e)'
    BY <2>1, <2>2 DEF Done
  <2>5. Clocks' /\ Begun' /\ InStep' /\ Phases'
    BY <2>1, <2>2 DEF IInv, Clocks, Begun, InStep, Phases
  <2>6. UnderWay' /\ Through'
    BY <2>1, <2>2, <2>3 DEF IInv, UnderWay, Through
  <2> QED BY <2>2, <2>4, <2>5, <2>6 DEF IInv, Before
<1>5. CASE PageEnds
  <2>1. Clocks' /\ Begun' /\ InStep' /\ Phases'
    BY <1>5 DEF PageEnds, IInv, Clocks, Begun, InStep, Phases
  <2>2. UnderWay'
    BY <1>5 DEF PageEnds, IInv, UnderWay, Pending, Working, Done
  <2>3. Through'
    <3>1. CASE token = {}
      <4>1. \A d \in Docs : published[d] # None /\ published[d] < until /\ published[d] >= from => Done(d)
        BY <1>5, <3>1 DEF PageEnds, IInv, UnderWay, Pending, Working
      <4>2. \A d \in Docs : published[d] # None /\ ~(published[d] >= from) => Done(d)
        BY <1>5, NumbersInPlace, NothingBeforeFrom DEF Before, PageEnds
      <4>3. Before(until)
        BY <4>1, <4>2 DEF Before
      <4> QED BY <1>5, <4>3 DEF PageEnds, Through, Before, Done
    <3> QED BY <1>5, <3>1 DEF PageEnds, Through
  <2> QED BY <1>5, <2>1, <2>2, <2>3 DEF PageEnds, IInv, Before, Done
<1>6. CASE Truncate
  <2>1. Clocks' /\ Begun' /\ InStep' /\ Phases'
    BY <1>6 DEF Truncate, IInv, Clocks, Begun, InStep, Phases
  <2> QED BY <1>6, <2>1 DEF Truncate, IInv, UnderWay, Through, Before, Done
<1>7. CASE Write
  <2>1. Clocks' /\ Begun' /\ InStep' /\ Phases'
    BY <1>7 DEF Write, IInv, Clocks, Begun, InStep, Phases
  <2> QED BY <1>7, <2>1 DEF Write, IInv, UnderWay, Through, Before, Done
<1>8. CASE Restart
  <2>1. Clocks' /\ Begun' /\ InStep' /\ Phases'
    BY <1>8 DEF Restart, IInv, Clocks, Begun, InStep, Phases
  <2> QED BY <1>8, <2>1 DEF Restart, IInv, UnderWay, Through, Before, Done
<1> QED BY <1>1, <1>2, <1>3, <1>4, <1>5, <1>6, <1>7, <1>8 DEF Harvests

LEMMA DocumentKeeps ==
  ASSUME IInv, Index \/ IndexFails \/ CreatesEntity \/ CreatesProperty \/ EnterFails \/ PropertyFails
  PROVE  IInv'
<1> USE DEF world, harvest, history
<1>1. Working
  BY DEF Working, Index, IndexFails, CreatesEntity, CreatesProperty, EnterFails, PropertyFails,
         Enter, PickProp, EntityEnds, AskType, FindEnumeration, MakeMember, CreateProperty, At
<1>2. Rest
  BY DEF Rest, Index, IndexFails, CreatesEntity, CreatesProperty, EnterFails, PropertyFails,
         Enter, PickProp, EntityEnds, AskType, FindEnumeration, MakeMember, CreateProperty
<1>3. Index \/ IndexFails => pc = "index" /\ Begin
  BY DEF Index, IndexFails
<1>4. Begin => CallMade
  BY DEF Begin, CallMade
<1>5. \A id : pc = "lri" /\ Return(id) => CallMade
  BY DEF Return, CallMade
<1>6. \A f : pc = "lri" /\ Becomes(f) => CallMade
  BY DEF Becomes, CallMade
<1>7. \A stage : pc = "lri" /\ To(stage) => CallMade
  BY <1>6 DEF To
<1>8. Enter \/ EnterFails \/ EntityEnds => CallMade
  BY <1>5, <1>7 DEF Enter, EnterFails, EntityEnds, At
<1>9. PickProp => CallMade
  BY <1>6 DEF PickProp, At, CallMade
<1>10. CreatesProperty \/ PropertyFails => CallMade
  BY <1>6, <1>7 DEF CreatesProperty, AskType, FindEnumeration, MakeMember, CreateProperty,
                    PropertyFails, NextProp, At
<1> QED BY <1>1, <1>2, <1>3, <1>4, <1>8, <1>9, <1>10, WithinDocument DEF CreatesEntity

LEMMA FailureKeeps == ASSUME IInv, HarvestBreaks \/ KeyFails \/ WriteFails \/ Kill PROVE IInv'
<1> USE DatesAreNat DEF world, harvest, history
<1>1. CASE HarvestBreaks
  <2>1. UNCHANGED <<clock, own, published, overtaken, file, from, until, seen>> /\ pc \in {"request", "take"}
    BY <1>1 DEF HarvestBreaks
  <2>2. lost' = lost \cup token \cup page /\ page' = {} /\ pc' = "truncate"
    BY <1>1 DEF HarvestBreaks
  <2>3. \A d : Done(d) => Done(d)'
    BY <2>1, <2>2 DEF Done
  <2>4. Clocks' /\ Begun' /\ InStep' /\ Phases'
    BY <2>1, <2>2 DEF IInv, Clocks, Begun, InStep, Phases
  <2>5. \A d \in Docs : published[d] # None /\ published[d] < until /\ published[d] >= from => Done(d)'
    BY <2>1, <2>2, <2>3 DEF IInv, UnderWay, Pending, Working, Done
  <2>6. \A d \in Docs : published[d] # None /\ ~(published[d] >= from) => Done(d)'
    BY <2>1, <2>3, NumbersInPlace, NothingBeforeFrom DEF Before
  <2>7. Through' /\ UnderWay'
    BY <2>1, <2>2, <2>5, <2>6 DEF Through, UnderWay, Before
  <2> QED BY <2>1, <2>3, <2>4, <2>7 DEF IInv, Before
<1>2. CASE KeyFails
  <2>1. PICK d \in Oldest(page) : page' = page \ {d} /\ seen' = seen \cup {d} /\ lost' = lost \cup {d}
    BY <1>2 DEF KeyFails
  <2>2. UNCHANGED <<clock, own, published, overtaken, file, pc, from, until, token, doc>> /\ pc = "take"
    BY <1>2 DEF KeyFails
  <2>3. \A e : Done(e) => Done(e)'
    BY <2>1, <2>2 DEF Done
  <2>4. \A e : Pending(e) => Pending(e)' \/ Done(e)'
    BY <2>1, <2>2 DEF Pending, Working, Done
  <2>5. Clocks' /\ Begun' /\ InStep' /\ Phases'
    BY <2>1, <2>2 DEF IInv, Clocks, Begun, InStep, Phases
  <2>6. UnderWay' /\ Through'
    BY <2>2, <2>3, <2>4 DEF IInv, UnderWay, Through
  <2> QED BY <2>2, <2>3, <2>5, <2>6 DEF IInv, Before
<1>3. CASE WriteFails
  <2>1. Clocks' /\ Begun' /\ InStep' /\ Phases'
    BY <1>3 DEF WriteFails, IInv, Clocks, Begun, InStep, Phases
  <2> QED BY <1>3, <2>1 DEF WriteFails, IInv, UnderWay, Through, Before, Done
<1>4. CASE Kill
  <2>1. Clocks' /\ Begun' /\ InStep' /\ Phases'
    BY <1>4, NumbersInPlace DEF Kill, IInv, Clocks, Begun, InStep, Phases
  <2> QED BY <1>4, <2>1 DEF Kill, IInv, UnderWay, Through, Before, Done
<1> QED BY <1>1, <1>2, <1>3, <1>4

(* The inductive invariant: what is not yet processed of the harvest under *)
(* way is still to come, in the page or in the token.                      *)
THEOREM InvariantHolds == Spec => []IInv
<1>1. IInv /\ [Next]_vars => IInv'
  <2>1. CASE UNCHANGED vars
    BY <2>1 DEF vars, world, lri, harvest, history, IInv, Clocks, Begun, InStep, Phases, UnderWay, Through,
                Before, Done, Pending, Working
  <2> QED BY <2>1, WorldKeeps, LoopKeeps, DocumentKeeps, FailureKeeps DEF Next, Connector, Failure
<1> QED BY <1>1, InitEstablishes, PTL DEF Spec

(* Whatever fails and whenever the connector is killed, fromDate.txt never *)
(* holds a date before which a document was left out, but for those that a *)
(* failed request or call kept back (connector.py 49-57).                  *)
THEOREM NothingIsPassedOver == Spec => []NothingPassedOver
<1>1. IInv => NothingPassedOver
  BY DEF IInv, InStep, Before, Done, NothingPassedOver, Excused
<1> QED BY <1>1, InvariantHolds, PTL
-----------------------------------------------------------------------------
(* The index.  A harvest starts at a date no later than the file's and goes  *)
(* through its documents from the oldest to the newest, so an older document *)
(* indexed again is followed by the newer ones it has replaced.              *)

Indexes(d) == Id[Envelope[d].item]
Shows(d) == shown[Indexes(d)] # None /\ published[d] <= published[shown[Indexes(d)]]
Kept(d) == d \in seen \ lost /\ Envelope[d].accepted

(* What the harvest under way has still to index, and what it holds. *)
Due(d) == d \in token \cup page \/ (pc = "index" /\ d = doc)
Held(d) == d \in token \cup page \/ (Working /\ d = doc)
Harvesting == pc \in {"request", "take", "index", "lri"}

Published ==
  /\ seen \cup token \cup page \subseteq Docs
  /\ Working => doc \in Docs /\ Envelope[doc].accepted
  /\ \A d \in Docs : d \in seen \/ Held(d) => published[d] # None
  /\ shown \in [Ids -> Docs \cup {None}]
  /\ \A u \in Ids : shown[u] # None => published[shown[u]] # None
  /\ Harvesting \/ token = {}

(* The dates of a harvest. *)
Span ==
  /\ pc \notin {"read", "down"} =>
       /\ \A d \in Docs : Held(d) => published[d] >= from /\ published[d] <= until
       /\ file # None => file = from
  /\ pc = "write" => file = None

(* Oldest first. *)
InOrder ==
  /\ \A d \in page, e \in token : published[d] <= published[e]
  /\ Working => \A e \in token \cup page : published[doc] <= published[e]
  /\ Harvesting => \A d, e \in Docs :
       Kept(d) /\ published[d] >= from /\ published[d] <= until /\ ~Due(d) /\ Due(e)
         => published[d] <= published[e]

(* What is not in the index will be indexed again: by this harvest, or,   *)
(* when the clock has been set back, by a later one.                       *)
Beyond(d) == published[d] >= from /\ published[d] > until
Again(d) ==
  \/ pc \in {"read", "down"} /\ (file # None => published[d] >= file)
  \/ pc = "ask" /\ published[d] >= from
  \/ Harvesting /\ Due(d)
  \/ pc \notin {"read", "ask", "down"} /\ Beyond(d)
IndexOK ==
  /\ \A d \in Docs : Kept(d) => Shows(d) \/ Again(d)
  /\ pc = "lri" => doc \in lost \/ Shows(doc)

NInv == Published /\ Span /\ InOrder /\ IndexOK
LEMMA InitNewest == Init => NInv
BY NoneAssumption DEF Init, NInv, Published, Span, InOrder, IndexOK, Again, Beyond, Held, Due, Working, Kept, Harvesting, Ids

LEMMA IndexedUnderId ==
  ASSUME NInv, NEW d \in Docs, Envelope[d].accepted
  PROVE  /\ Indexes(d) \in Ids
         /\ Shows(d) => shown[Indexes(d)] \in Docs /\ published[shown[Indexes(d)]] # None
<1>1. Indexes(d) \in Ids
  BY EnvelopeAssumption DEF Indexes, Ids
<1> QED
  BY <1>1 DEF NInv, Published, Shows

(* Steps that neither take up nor finish a document. *)
LEMMA ElsewhereKeeps ==
  ASSUME IInv, NInv, UNCHANGED <<file, pc, from, until, token, page, doc, seen, shown>>, lost \subseteq lost',
         \A d \in Docs : published[d] # None => published'[d] = published[d]
  PROVE  NInv'
<1>1. Published'
  BY DEF NInv, Published, Held, Working, Harvesting, Ids
<1>2. \A d \in Docs : /\ Kept(d)' => Kept(d)
                      /\ (Held(d) <=> Held(d)') /\ (Due(d) <=> Due(d)')
                      /\ Kept(d) \/ Held(d) \/ Due(d) => published'[d] = published[d]
  BY DEF NInv, Published, Kept, Held, Due, Working
<1>3. Span'
  BY <1>2 DEF NInv, Span, Published, Held, Working
<1>4. InOrder'
  <2>1. \A d \in page \cup token : published'[d] = published[d]
    BY DEF NInv, Published, Held
  <2>2. Working => published'[doc] = published[doc]
    BY DEF NInv, Published, Held, Working
  <2> QED
    BY <1>2, <2>1, <2>2 DEF NInv, InOrder, Harvesting, Working
<1>5. \A d \in Docs : Envelope[d].accepted /\ Shows(d) /\ published[d] # None => Shows(d)'
  <2> SUFFICES ASSUME NEW d \in Docs, Envelope[d].accepted, Shows(d), published[d] # None
               PROVE  Shows(d)'
    OBVIOUS
  <2>1. shown' = shown /\ published'[d] = published[d]
    OBVIOUS
  <2>2. published'[shown[Indexes(d)]] = published[shown[Indexes(d)]]
    BY IndexedUnderId
  <2> QED
    BY <2>1, <2>2 DEF Shows, Indexes
<1>6. IndexOK'
  <2>1. \A d \in Docs : Kept(d) => published[d] # None /\ Envelope[d].accepted
    BY DEF NInv, Published, Kept
  <2>2. \A d \in Docs : Kept(d)' => Shows(d)' \/ Again(d)'
    BY <1>2, <1>5, <2>1 DEF NInv, IndexOK, Again, Beyond, Harvesting
  <2>3. pc = "lri" => doc \in lost' \/ Shows(doc)'
    BY <1>5 DEF NInv, IndexOK, Published, Held, Working
  <2> QED
    BY <2>2, <2>3 DEF IndexOK, Shows, Indexes
<1> QED
  BY <1>1, <1>3, <1>4, <1>6 DEF NInv

(* Dates of documents at hand. *)
LEMMA DatesAtHand ==
  ASSUME IInv, NInv
  PROVE  /\ \A d \in Docs : d \in seen \/ Held(d) => published[d] \in Nat
         /\ \A d \in Docs : Due(d) => Held(d)
         /\ from \in Nat /\ until \in Nat /\ clock \in Nat /\ (file # None => file \in Nat)
<1>1. file # None => file \in Nat
  BY DatesAreNat DEF IInv, Clocks
<1> QED
  BY <1>1, NumbersInPlace DEF NInv, Published, Held, Due, Working

(* A document in process is through: it is in the index, or lost. *)
LEMMA FinishKeeps ==
  ASSUME IInv, NInv, NEW x \in Docs, doc = x, pc \in {"index", "lri"}, pc' = "take", doc' = None, seen' = seen \cup {doc},
         lost \subseteq lost', x \in lost' \/ Shows(x)',
         UNCHANGED <<published, file, from, until, token, page>>,
         \A d \in Docs : Kept(d) /\ Shows(d) /\ ~(Due(d) /\ d # x) /\ ~Beyond(d) => Shows(d)',
         shown' \in [Ids -> Docs \cup {None}],
         \A u \in Ids : shown'[u] # None => published[shown'[u]] # None
  PROVE  NInv'
<1>1. Published'
  BY DEF NInv, Published, Held, Working, Harvesting
<1>2. \A d \in Docs : /\ Kept(d)' => Kept(d) \/ d = x
                      /\ Held(d)' <=> d \in token \cup page
                      /\ Due(d)' <=> d \in token \cup page
                      /\ Due(d)' => Due(d)
                      /\ Due(d) => Due(d)' \/ d = x
  BY DEF Kept, Held, Due, Working
<1>3. Span'
  BY <1>2 DEF NInv, Span, Published, Held, Working
<1>4. InOrder'
  BY <1>2 DEF NInv, InOrder, Published, Harvesting, Working
<1>5. IndexOK'
  <2>1. \A d \in Docs : Kept(d)' => Shows(d)' \/ Again(d)'
    <3> SUFFICES ASSUME NEW d \in Docs, Kept(d)', ~Due(d)', ~Beyond(d) PROVE Shows(d)'
      BY DEF Again, Harvesting, Beyond
    <3>1. CASE d = x
      BY <3>1 DEF Kept
    <3>2. CASE d # x
      BY <1>2, <3>2 DEF NInv, IndexOK, Again, Beyond, Harvesting
    <3> QED
      BY <3>1, <3>2
  <2> QED
    BY <2>1 DEF IndexOK
<1> QED
  BY <1>1, <1>3, <1>4, <1>5 DEF NInv

(* Another call for the same document. *)
LEMMA CallKeeps ==
  ASSUME IInv, NInv, Working, Working', UNCHANGED <<published, file, from, until, token, page, doc, seen>>,
         pc' = "lri", lost \subseteq lost', doc \in lost' \/ Shows(doc)',
         \A d \in Docs : Kept(d) /\ Shows(d) /\ ~(Due(d) /\ d # doc) /\ ~Beyond(d) => Shows(d)',
         shown' \in [Ids -> Docs \cup {None}],
         \A u \in Ids : shown'[u] # None => published[shown'[u]] # None
  PROVE  NInv'
<1>1. Published'
  BY DEF NInv, Published, Held, Working, Harvesting
<1>2. \A d \in Docs : /\ Kept(d)' => Kept(d)
                      /\ Held(d)' <=> Held(d)
                      /\ Due(d)' <=> d \in token \cup page
                      /\ Due(d)' => Due(d)
                      /\ Due(d) => Due(d)' \/ d = doc
  BY DEF Kept, Held, Due, Working
<1>3. Span'
  BY <1>2 DEF NInv, Span, Published, Held, Working
<1>4. InOrder'
  BY <1>2 DEF NInv, InOrder, Published, Harvesting, Working
<1>5. IndexOK'
  <2>1. \A d \in Docs : Kept(d)' => Shows(d)' \/ Again(d)'
    <3> SUFFICES ASSUME NEW d \in Docs, Kept(d)', ~Due(d)', ~Beyond(d) PROVE Shows(d)'
      BY DEF Again, Harvesting, Beyond
    <3>1. CASE d = doc
      BY <3>1 DEF Kept
    <3>2. CASE d # doc
      BY <1>2, <3>2 DEF NInv, IndexOK, Again, Beyond, Harvesting, Working
    <3> QED
      BY <3>1, <3>2
  <2> QED
    BY <2>1 DEF IndexOK
<1> QED
  BY <1>1, <1>3, <1>4, <1>5 DEF NInv

(* The document in process takes its place in the index.  Those it takes   *)
(* it from are older, or are still to come.                                *)
LEMMA IndexKeeps == ASSUME IInv, NInv, Index \/ IndexFails PROVE NInv'
<1>0. PICK x \in Docs : doc = x
  BY DEF Index, IndexFails, NInv, Published, Working
<1>1. /\ pc = "index" /\ Envelope[x].accepted /\ Indexes(x) \in Ids
      /\ published[x] # None /\ lost \subseteq lost' /\ Begin
      /\ UNCHANGED <<published, file, from, until, token, page>>
  BY <1>0, IndexedUnderId DEF Index, IndexFails, NInv, Published, Working, Held, harvest, world
<1>2. \/ shown' = [shown EXCEPT ![Indexes(x)] = x] /\ UNCHANGED lost
      \/ shown' = shown /\ x \in lost'
  BY <1>0 DEF Index, IndexFails, Indexes
<1>3. shown' \in [Ids -> Docs \cup {None}] /\ \A u \in Ids : shown'[u] # None => published[shown'[u]] # None
  BY <1>1, <1>2 DEF NInv, Published
<1>4. \A d \in Docs : Kept(d) /\ Shows(d) /\ ~(Due(d) /\ d # x) /\ ~Beyond(d) => Shows(d)'
  <2> SUFFICES ASSUME NEW d \in Docs, Kept(d), Shows(d), ~(Due(d) /\ d # x), ~Beyond(d) PROVE Shows(d)'
    OBVIOUS
  <2>1. CASE shown'[Indexes(d)] = shown[Indexes(d)]
    BY <1>1, <2>1 DEF Shows, Indexes
  <2>2. CASE shown'[Indexes(d)] # shown[Indexes(d)]
    <3>1. shown'[Indexes(d)] = x /\ x # None
      BY <1>1, <1>2, <2>2, NoneAssumption, IndexedUnderId DEF NInv, Published, Kept
    <3>2. published[d] <= published[x]
      <4>1. Held(x) /\ published[x] >= from /\ published[x] \in Nat /\ published[d] \in Nat /\ from \in Nat
        BY <1>0, <1>1, DatesAtHand DEF Held, Working, NInv, Span, Kept
      <4>2. CASE d = x
        BY <4>1, <4>2
      <4>3. CASE d # x /\ published[d] >= from
        <5>1. ~Due(d) /\ Due(x)
          BY <1>0, <1>1, <4>3 DEF Due
        <5>2. published[d] <= until
          BY <4>1, <4>3, DatesAtHand DEF Beyond
        <5> QED
          BY <1>1, <4>3, <5>1, <5>2 DEF NInv, InOrder, Harvesting
      <4> QED
        BY <4>1, <4>2, <4>3
    <3> QED
      BY <1>1, <3>1, <3>2 DEF Shows, Indexes
  <2> QED
    BY <2>1, <2>2
<1>5. x \in lost' \/ (shown'[Indexes(x)] = x /\ x # None /\ published[x] <= published[x])
  <2>1. published[x] \in Nat
    BY <1>0, <1>1, DatesAtHand DEF Held, Working
  <2> QED
    BY <1>1, <1>2, <2>1, NoneAssumption DEF NInv, Published
<1>6. x \in lost' \/ Shows(x)'
  BY <1>1, <1>5 DEF Shows, Indexes
<1>7. CASE pc' = "lri" /\ UNCHANGED <<doc, seen>>
  <2>1. doc \in lost' \/ Shows(doc)'
    BY <1>0, <1>6, <1>7 DEF Shows, Indexes
  <2>2. Working /\ Working'
    BY <1>1, <1>7 DEF Working
  <2>3. \A d \in Docs : Kept(d) /\ Shows(d) /\ ~(Due(d) /\ d # doc) /\ ~Beyond(d) => Shows(d)'
    BY <1>0, <1>4
  <2> QED
    BY <1>1, <1>3, <1>7, <2>1, <2>2, <2>3, CallKeeps
<1>8. CASE pc' = "take" /\ doc' = None /\ seen' = seen \cup {doc}
  BY <1>0, <1>1, <1>3, <1>4, <1>6, <1>8, FinishKeeps
<1> QED
  BY <1>1, <1>7, <1>8 DEF Begin

LEMMA DocumentKeepsNewest ==
  ASSUME IInv, NInv, CreatesEntity \/ CreatesProperty \/ EnterFails \/ PropertyFails
  PROVE  NInv'
<1> USE DEF world, harvest, history
<1>1. /\ pc = "lri"
      /\ UNCHANGED <<published, file, from, until, token, page, shown>> /\ lost \subseteq lost'
  BY DEF CreatesEntity, CreatesProperty, EnterFails, PropertyFails,
         Enter, PickProp, EntityEnds, AskType, FindEnumeration, MakeMember, CreateProperty, At
<1>2. UNCHANGED <<pc, doc, seen>> \/ (pc' = "take" /\ doc' = None /\ seen' = seen \cup {doc})
  <2>1. \A id : Return(id) => UNCHANGED <<pc, doc, seen>>
                              \/ (pc' = "take" /\ doc' = None /\ seen' = seen \cup {doc})
    BY DEF Return
  <2>2. \A f : Becomes(f) => UNCHANGED <<pc, doc, seen>>
    BY DEF Becomes
  <2>3. \A stage : To(stage) => UNCHANGED <<pc, doc, seen>>
    BY <2>2 DEF To
  <2>4. Enter \/ EnterFails \/ EntityEnds => UNCHANGED <<pc, doc, seen>>
                              \/ (pc' = "take" /\ doc' = None /\ seen' = seen \cup {doc})
    BY <2>1, <2>3 DEF Enter, EnterFails, EntityEnds
  <2>5. PickProp => UNCHANGED <<pc, doc, seen>>
    BY <2>2 DEF PickProp
  <2>6. CreatesProperty \/ PropertyFails => UNCHANGED <<pc, doc, seen>>
    BY <2>2, <2>3 DEF CreatesProperty, AskType, FindEnumeration, MakeMember, CreateProperty,
                      PropertyFails, NextProp
  <2> QED
    BY <2>4, <2>5, <2>6 DEF CreatesEntity
<1>3. CASE UNCHANGED <<pc, doc, seen>>
  BY <1>1, <1>3, ElsewhereKeeps
<1>4. CASE pc' = "take" /\ doc' = None /\ seen' = seen \cup {doc}
  <2>1. PICK x \in Docs : doc = x
    BY <1>1 DEF NInv, Published, Working
  <2>2. x \in lost' \/ Shows(x)'
    BY <1>1, <2>1 DEF NInv, IndexOK, Shows, Indexes
  <2>3. \A d \in Docs : Kept(d) /\ Shows(d) /\ ~(Due(d) /\ d # x) /\ ~Beyond(d) => Shows(d)'
    BY <1>1 DEF Shows, Indexes
  <2>4. shown' \in [Ids -> Docs \cup {None}] /\ \A u \in Ids : shown'[u] # None => published[shown'[u]] # None
    BY <1>1 DEF NInv, Published
  <2> QED
    BY <1>1, <1>4, <2>1, <2>2, <2>3, <2>4, FinishKeeps
<1> QED
  BY <1>2, <1>3, <1>4

LEMMA LoopKeepsNewest == ASSUME IInv, NInv, Harvests \/ Restart PROVE NInv'
<1> USE DEF world, harvest, history
<1>0. /\ \A d \in Docs : Shows(d) /\ UNCHANGED <<shown, published>> => Shows(d)'
      /\ \A d \in Docs : UNCHANGED <<seen, lost>> => (Kept(d)' <=> Kept(d))
  BY DEF Shows, Indexes, Kept
<1>1. CASE Read
  <2>1. /\ pc = "read" /\ pc' = "ask" /\ token = {} /\ page = {} /\ from' = (IF file = None THEN 0 ELSE file)
        /\ UNCHANGED <<published, shown, file, token, page, doc, seen, lost>>
    BY <1>1 DEF Read, NInv, Published, Harvesting, IInv, Phases
  <2>2. Published'
    BY <2>1 DEF NInv, Published, Held, Working, Harvesting
  <2>3. Span'
    BY <2>1 DEF Span, Held, Working
  <2>4. InOrder'
    BY <2>1 DEF InOrder, Harvesting, Working
  <2>5. IndexOK'
    <3>1. \A d \in Docs : Kept(d) => published[d] \in Nat
      BY DatesAtHand DEF Kept
    <3> QED
      BY <1>0, <2>1, <3>1, DatesAtHand DEF NInv, IndexOK, Again, Beyond, Harvesting
  <2> QED
    BY <2>2, <2>3, <2>4, <2>5 DEF NInv
<1>2. CASE Ask
  <2>1. /\ pc = "ask" /\ pc' = "request" /\ token' = Listed(from, until) /\ page = {}
        /\ UNCHANGED <<published, shown, file, from, until, page, doc, seen, lost>>
    BY <1>2 DEF Ask, IInv, Phases
  <2>2. \A d \in Docs : /\ d \in token' <=> published[d] # None /\ published[d] >= from /\ published[d] <= until
                        /\ Held(d)' <=> d \in token'
                        /\ Due(d)' <=> d \in token'
    BY <2>1 DEF Listed, Held, Due, Working
  <2>3. Published'
    BY <2>1, <2>2 DEF NInv, Published, Working, Harvesting, Listed
  <2>4. Span'
    BY <2>1, <2>2 DEF NInv, Span
  <2>5. \A d \in Docs : Kept(d) /\ published[d] >= from => Due(d)' \/ Beyond(d)
    BY <2>2, <2>1, DatesAtHand DEF Kept, NInv, Published, Beyond
  <2>6. InOrder'
    BY <2>1, <2>2, <1>0 DEF InOrder, Working, Harvesting, Kept, NInv, Published
  <2>7. IndexOK'
    BY <2>1, <2>5, <1>0 DEF NInv, IndexOK, Again, Beyond, Harvesting
  <2> QED
    BY <2>3, <2>4, <2>6, <2>7 DEF NInv
<1>3. CASE Request
  <2>1. PICK p \in Pages(token) : page' = p /\ token' = token \ p
    BY <1>3 DEF Request
  <2>2. /\ p \subseteq token /\ page = {} /\ pc' = "take" /\ pc = "request"
        /\ UNCHANGED <<published, shown, file, from, until, doc, seen, lost>>
        /\ \A d \in p, e \in token \ p : published[d] <= published[e]
    BY <1>3, <2>1 DEF Pages, Request, IInv, Phases
  <2>3. token' \cup page' = token \cup page
    BY <2>1, <2>2
  <2>4. \A d : (Held(d)' <=> Held(d)) /\ (Due(d)' <=> Due(d))
    BY <2>2, <2>3 DEF Held, Due, Working
  <2>5. Published'
    BY <2>2, <2>3, <2>4 DEF NInv, Published, Working, Harvesting
  <2>6. Span'
    BY <2>2, <2>4 DEF NInv, Span
  <2>7. InOrder'
    BY <2>1, <2>2, <2>4, <1>0 DEF NInv, InOrder, Working, Harvesting
  <2>8. IndexOK'
    BY <2>2, <2>4, <1>0 DEF NInv, IndexOK, Again, Beyond, Harvesting
  <2> QED
    BY <2>5, <2>6, <2>7, <2>8 DEF NInv
<1>4. CASE Take
  <2>1. PICK d \in Oldest(page) :
          /\ page' = page \ {d}
          /\ \/ Envelope[d].accepted /\ doc' = d /\ pc' = "index" /\ UNCHANGED seen
             \/ ~Envelope[d].accepted /\ seen' = seen \cup {d} /\ UNCHANGED <<doc, pc>>
    BY <1>4 DEF Take
  <2>2. /\ UNCHANGED <<published, shown, file, from, until, token, lost>> /\ pc = "take" /\ d \in Docs
        /\ d \in page /\ \A e \in page : published[d] <= published[e]
    BY <1>4 DEF Take, Oldest, NInv, Published
  <2>3. \A e \in token : published[d] <= published[e]
    BY <2>2 DEF NInv, InOrder
  <2>4. CASE Envelope[d].accepted /\ doc' = d /\ pc' = "index" /\ UNCHANGED seen
    <3>1. \A e : (Held(e)' <=> Held(e)) /\ (Due(e)' <=> Due(e))
      BY <2>1, <2>2, <2>4 DEF Held, Due, Working
    <3>2. Published'
      BY <2>1, <2>2, <2>4, <3>1 DEF NInv, Published, Working, Harvesting
    <3>3. Span'
      BY <2>2, <2>4, <3>1 DEF NInv, Span
    <3>4. InOrder'
      BY <2>1, <2>2, <2>3, <2>4, <3>1, <1>0 DEF NInv, InOrder, Working, Harvesting
    <3>5. IndexOK'
      BY <2>2, <2>4, <3>1, <1>0 DEF NInv, IndexOK, Again, Beyond, Harvesting
    <3> QED
      BY <3>2, <3>3, <3>4, <3>5 DEF NInv
  <2>5. CASE ~Envelope[d].accepted /\ seen' = seen \cup {d} /\ UNCHANGED <<doc, pc>>
    <3>1. \A e : /\ Held(e)' => Held(e)
                 /\ Due(e)' => Due(e)
                 /\ Due(e) => Due(e)' \/ e = d
                 /\ Kept(e)' <=> Kept(e)
                 /\ Kept(e) => e # d
      BY <2>1, <2>2, <2>5 DEF Held, Due, Kept, Working
    <3>2. Published'
      BY <2>1, <2>2, <2>5, <3>1 DEF NInv, Published, Working, Harvesting, Held
    <3>3. Span'
      BY <2>2, <2>5, <3>1 DEF NInv, Span, Held
    <3>4. InOrder'
      BY <2>1, <2>2, <2>3, <2>5, <3>1 DEF NInv, InOrder, Working, Harvesting
    <3>5. IndexOK'
      BY <2>2, <2>5, <3>1, <1>0 DEF NInv, IndexOK, Again, Beyond, Harvesting
    <3> QED
      BY <3>2, <3>3, <3>4, <3>5 DEF NInv
  <2> QED
    BY <2>1, <2>4, <2>5
<1>5. CASE PageEnds
  <2>1. /\ pc = "take" /\ page = {} /\ pc' = (IF token = {} THEN "truncate" ELSE "request")
        /\ UNCHANGED <<published, shown, file, from, until, token, page, doc, seen, lost>>
    BY <1>5 DEF PageEnds
  <2>2. \A e : (Held(e)' <=> Held(e)) /\ (Due(e)' <=> Due(e))
    BY <2>1 DEF Held, Due, Working
  <2>3. Published' /\ Span' /\ InOrder'
    BY <2>1, <2>2, <1>0 DEF NInv, Published, Span, InOrder, Working, Harvesting
  <2>4. IndexOK'
    BY <2>1, <2>2, <1>0 DEF NInv, IndexOK, Again, Beyond, Harvesting, Due
  <2> QED
    BY <2>3, <2>4 DEF NInv
<1>6. CASE Truncate
  BY <1>6, <1>0 DEF Truncate, NInv, Published, Span, InOrder, IndexOK, Working, Harvesting, Held, Again, Beyond
<1>7. CASE Write
  <2>1. /\ pc = "write" /\ pc' = "read" /\ file' = until
        /\ UNCHANGED <<published, shown, from, until, token, page, doc, seen, lost>>
    BY <1>7 DEF Write
  <2>2. Published' /\ Span' /\ InOrder'
    BY <2>1 DEF NInv, Published, Span, InOrder, Working, Harvesting, Held
  <2>3. \A d \in Docs : Kept(d) => (Shows(d) \/ published[d] >= until)
    BY <2>1, DatesAtHand DEF NInv, IndexOK, Again, Beyond, Harvesting, Kept
  <2>4. IndexOK'
    BY <2>1, <2>3, <1>0 DEF IndexOK, Again
  <2> QED BY <2>2, <2>4 DEF NInv
<1>8. CASE Restart
  BY <1>8, <1>0 DEF Restart, NInv, Published, Span, InOrder, IndexOK, Working, Harvesting, Held, Again, Beyond
<1> QED BY <1>1, <1>2, <1>3, <1>4, <1>5, <1>6, <1>7, <1>8 DEF Harvests

LEMMA FailureKeepsNewest == ASSUME IInv, NInv, HarvestBreaks \/ KeyFails \/ WriteFails \/ Kill PROVE NInv'
<1> USE DEF world, harvest, history
<1>0. /\ \A d \in Docs : Shows(d) /\ UNCHANGED <<shown, published>> => Shows(d)'
      /\ \A d \in Docs : UNCHANGED <<seen, lost>> => (Kept(d)' <=> Kept(d))
  BY DEF Shows, Indexes, Kept
<1>1. CASE HarvestBreaks
  <2>1. /\ pc \in {"request", "take"} /\ lost' = lost \cup token \cup page /\ page' = {} /\ token' = {}
        /\ pc' = "truncate" /\ UNCHANGED <<published, shown, file, from, until, doc, seen>>
    BY <1>1 DEF HarvestBreaks
  <2>2. \A d : Kept(d)' => Kept(d) /\ ~Due(d)
    BY <2>1 DEF Kept, Due
  <2>3. Published' /\ Span' /\ InOrder'
    BY <2>1 DEF NInv, Published, Span, InOrder, Working, Harvesting, Held
  <2>4. IndexOK'
    BY <2>1, <2>2, <1>0 DEF NInv, IndexOK, Again, Beyond
  <2> QED
    BY <2>3, <2>4 DEF NInv
<1>2. CASE KeyFails
  <2>1. PICK d \in Oldest(page) : page' = page \ {d} /\ seen' = seen \cup {d} /\ lost' = lost \cup {d}
    BY <1>2 DEF KeyFails
  <2>2. /\ UNCHANGED <<published, shown, file, pc, from, until, token, doc>> /\ pc = "take"
        /\ d \in page /\ d \in Docs
    BY <1>2 DEF KeyFails, Oldest, NInv, Published
  <2>3. \A e : /\ Held(e)' => Held(e)
               /\ Due(e)' => Due(e)
               /\ Due(e) => Due(e)' \/ e = d
               /\ Kept(e)' => Kept(e) /\ e # d
    BY <2>1, <2>2 DEF Held, Due, Kept, Working
  <2>4. Published'
    BY <2>1, <2>2, <2>3 DEF NInv, Published, Working, Harvesting, Held
  <2>5. Span'
    BY <2>1, <2>2, <2>3 DEF NInv, Span, Held
  <2>6. InOrder'
    BY <2>1, <2>2, <2>3 DEF NInv, InOrder, Working, Harvesting
  <2>7. IndexOK'
    BY <2>2, <2>3, <1>0 DEF NInv, IndexOK, Again, Beyond, Harvesting
  <2> QED
    BY <2>4, <2>5, <2>6, <2>7 DEF NInv
<1>3. CASE WriteFails
  BY <1>3, <1>0 DEF WriteFails, NInv, Published, Span, InOrder, IndexOK, Working, Harvesting, Held, Again, Beyond
<1>4. CASE Kill
  <2>1. /\ pc' = "down" /\ token' = {} /\ page' = {} /\ doc' = None
        /\ UNCHANGED <<published, shown, file, seen, lost>>
    BY <1>4 DEF Kill
  <2>2. Published' /\ Span' /\ InOrder'
    BY <2>1 DEF NInv, Published, Span, InOrder, Working, Harvesting, Held
  <2>3. \A d \in Docs : Again(d) => (file # None => published[d] >= file)
    BY DEF NInv, Span, Again, Beyond, Harvesting, Due, Held, Working
  <2>4. IndexOK'
    BY <2>1, <2>3, <1>0 DEF NInv, IndexOK, Again, Beyond
  <2> QED
    BY <2>2, <2>4 DEF NInv
<1> QED BY <1>1, <1>2, <1>3, <1>4

LEMMA WorldKeepsNewest == ASSUME IInv, NInv, World \/ SetBack PROVE NInv'
<1>1. UNCHANGED <<file, pc, harvest, page, doc, stack, seen, lost, shown>>
  BY DEF World, Publish, Tick, OwnTick, SetBack, LoadType, Expire, history
<1>2. \A d \in Docs : published[d] # None => published'[d] = published[d]
  BY DEF World, Publish, Tick, OwnTick, SetBack, LoadType, Expire, world, IInv, Clocks
<1> QED
  BY <1>1, <1>2, ElsewhereKeeps DEF harvest, history

(* When a harvest is through, the index shows the newest document of every  *)
(* object it has processed, although a harvest after a kill begins again    *)
(* with old ones (connector.py 49-105, 153-160).             *)
THEOREM NewestIsShown == Spec => []ShowsNewest
<1>1. IInv /\ NInv /\ [Next]_vars => NInv'
  <2> SUFFICES ASSUME IInv, NInv, [Next]_vars PROVE NInv'
    OBVIOUS
  <2>1. CASE UNCHANGED vars
    BY <2>1, ElsewhereKeeps DEF vars, world, harvest, history
  <2> QED
    BY <2>1, WorldKeepsNewest, LoopKeepsNewest, IndexKeeps, DocumentKeepsNewest, FailureKeepsNewest
       DEF Next, Connector, Failure
<1>2. IInv /\ NInv => ShowsNewest
  <2> SUFFICES ASSUME IInv, NInv, pc \in {"truncate", "write"}, NEW d \in seen \ lost, Envelope[d].accepted,
                      published[d] <= until
               PROVE  Shows(d)
    BY DEF ShowsNewest, Shows, Indexes
  <2>1. d \in Docs /\ Kept(d) /\ ~Again(d)
    BY DatesAtHand DEF NInv, Published, Kept, Again, Beyond, Harvesting
  <2> QED
    BY <2>1 DEF NInv, IndexOK
<1> QED
  BY <1>1, <1>2, InitNewest, InvariantHolds, PTL DEF Spec
==============================================================================
