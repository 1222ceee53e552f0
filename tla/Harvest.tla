-------------------------------- MODULE Harvest --------------------------------
(***************************************************************************)
(* The connector (lr-connector): a loop that reads documents from a node   *)
(* of the Learning Registry since the date of the last harvest, page by    *)
(* page, and writes what they say into an ElasticSearch index and into the *)
(* LRI. Exceptions are logged and passed over at every level. The process  *)
(* may be killed anywhere and is started again. The node and ElasticSearch *)
(* are modelled as the connector uses them. The node stamps documents with *)
(* its clock, the connector bounds its harvests by its own.                *)
(***************************************************************************)
EXTENDS Naturals, FiniteSets, Sequences

CONSTANTS Docs,         \* documents that may be published
          Envelope,     \* [Docs -> [accepted, key, tagger, curator, submitter, item]]
          Items,        \* the objects in the documents, the outer one and its children
          Id,           \* [Items -> their IDs]
          Props,        \* [Items -> sets of [type, value]; a value is a text or an item]
          InitTypes,    \* property types the LRI knows from the start
          LateTypes,    \* property types that may be loaded later
          EnumTypes,    \* those whose range is exactly enumeration_member
          LinkTypes,    \* those whose range is an entity type, EnumTypes among them
          Urns,         \* values formed as IDs
          Inside,       \* pairs of values the first of which is a part of the text of the second
          PageSize,
          MaxTime,      \* bound on the clocks
          MaxAhead,     \* how far the connector's clock may be ahead of the node's
          Faults,       \* what may fail: "page", "call", "file", "kill", "clock"
          MaxFaults,    \* bound on the failures
          None

Dates == 1..MaxTime

ASSUME BoundsAssumption == PageSize \in Nat \ {0} /\ MaxTime \in Nat \ {0} /\ {MaxAhead, MaxFaults} \subseteq Nat
ASSUME EnumAssumption ==
  EnumTypes \subseteq LinkTypes /\ \A i \in Items : \A p \in Props[i] : p.type \in EnumTypes => p.value \notin Items
ASSUME EnvelopeAssumption == \A d \in Docs : Envelope[d].accepted => Envelope[d].item \in Items
ASSUME NoneAssumption == None \notin Docs /\ None \notin Dates /\ None \notin Items

VARIABLES clock,        \* the node: its clock
          published,    \*   and the date of each document
          own,          \* the connector's clock
          types,        \* the LRI: the property types it knows,
          entities,     \*   IDs of its entities,
          members,      \*   those of type enumeration_member among them,
          facts,        \*   and its properties
          shown,        \* ElasticSearch: the document indexed under each ID
          file,         \* fromDate.txt; None when empty or missing
          pc,           \* what the connector does next
          from, until,  \* the harvest under way
          token,        \* documents the node has still to send
          page,         \* documents of the page still to process
          doc,          \* the document in process
          stack,        \* calls of createEntity, the innermost first
          denied,       \* entityCache: property types the LRI has said it does not know
          faults,
          seen, lost,   \* history: documents processed; those a failed call kept back;
          overtaken     \*   those with a date before the end of a harvest listed earlier

world == <<clock, own, published, overtaken>>
lri == <<types, entities, members, facts>>
harvest == <<from, until, token>>
history == <<faults, seen, lost>>
vars == <<world, lri, shown, file, pc, harvest, page, doc, stack, denied, history>>

Fail(f) == f \in Faults /\ faults < MaxFaults /\ faults' = faults + 1
Ids == {Id[i] : i \in Items}

Init ==
  /\ clock = 1 /\ own = 1 /\ published = [d \in Docs |-> None]
  /\ types = InitTypes /\ entities = {} /\ members = {} /\ facts = {}
  /\ shown = [u \in Ids |-> None]
  /\ file = None /\ pc = "read"
  /\ from = 0 /\ until = 0 /\ token = {} /\ page = {}
  /\ doc = None /\ stack = <<>>
  /\ denied = {}
  /\ faults = 0 /\ seen = {} /\ lost = {} /\ overtaken = {}

------------------------------------------------------------------------------
(* The world outside *)

(* The date ends a harvest that was listed already. *)
IsPast(t) == (file # None /\ t < file) \/ (pc \notin {"read", "ask", "down"} /\ t < until)

Publish ==
  /\ \E d \in Docs :
       /\ published[d] = None /\ published' = [published EXCEPT ![d] = clock]
       /\ overtaken' = IF IsPast(clock) THEN overtaken \cup {d} ELSE overtaken
  /\ UNCHANGED <<clock, own, lri, shown, file, pc, harvest, page, doc, stack, denied, history>>

Tick ==
  /\ clock < MaxTime /\ clock' = clock + 1
  /\ UNCHANGED <<own, published, overtaken, lri, shown, file, pc, harvest, page, doc, stack, denied, history>>

(* datetime.utcnow() of the connector's machine. It may be behind by       *)
(* whatever, and may be set back.                                          *)
OwnTick ==
  /\ own < MaxTime /\ own < clock + MaxAhead /\ own' = own + 1
  /\ UNCHANGED <<clock, published, overtaken, lri, shown, file, pc, harvest, page, doc, stack, denied, history>>

SetBack ==
  /\ Fail("clock") /\ own' \in 1..own - 1
  /\ UNCHANGED <<clock, published, overtaken, lri, shown, file, pc, harvest, page, doc, stack, denied, seen, lost>>

(* A schema is pushed while the LRI is down; it knows the type when it is  *)
(* started again.                                                          *)
LoadType ==
  /\ \E t \in LateTypes \ types : types' = types \cup {t}
  /\ UNCHANGED <<world, entities, members, facts, shown, file, pc, harvest, page, doc, stack, denied, history>>

(* local_cache_expiration. The answers that a type is there are cached as   *)
(* well, but stay true.                                                    *)
Expire ==
  /\ \E t \in denied : denied' = denied \ {t}
  /\ UNCHANGED <<world, lri, shown, file, pc, harvest, page, doc, stack, history>>

(* What the node lists for a harvest, and the next page of it, oldest first. *)
Listed(a, b) == {d \in Docs : published[d] # None /\ published[d] >= a /\ published[d] <= b}
Pages(left) ==
  {p \in SUBSET left : /\ Cardinality(p) = PageSize \/ (p = left /\ Cardinality(p) < PageSize)
                       /\ \A d \in p, e \in left \ p : published[d] <= published[e]}

------------------------------------------------------------------------------
(* run, doHarvest and harvestData of connector.py *)

Read ==
  /\ pc = "read"
  /\ from' = IF file = None THEN 0 ELSE file
  /\ until' = own
  /\ pc' = "ask"
  /\ UNCHANGED <<world, lri, shown, file, token, page, doc, stack, denied, history>>

(* The first request of a harvest. *)
Ask ==
  /\ pc = "ask"
  /\ token' = Listed(from, until)
  /\ pc' = "request"
  /\ UNCHANGED <<world, lri, shown, file, from, until, page, doc, stack, denied, history>>

Request ==
  /\ pc = "request"
  /\ \E p \in Pages(token) : page' = p /\ token' = token \ p
  /\ pc' = "take"
  /\ UNCHANGED <<world, lri, shown, file, from, until, doc, stack, denied, history>>

(* A request fails or a record is malformed: the exception is logged, and   *)
(* None is taken for the end of the harvest.                               *)
HarvestBreaks ==
  /\ pc \in {"request", "take"} /\ Fail("page")
  /\ lost' = lost \cup token \cup page
  /\ page' = {} /\ token' = {}
  /\ pc' = "truncate"
  /\ UNCHANGED <<world, lri, shown, file, from, until, doc, stack, denied, seen>>

Oldest(docs) == {d \in docs : \A e \in docs : published[d] <= published[e]}

Take ==
  /\ pc = "take"
  /\ \E d \in Oldest(page) :
       /\ page' = page \ {d}
       /\ IF Envelope[d].accepted
          THEN doc' = d /\ pc' = "index" /\ UNCHANGED seen
          ELSE seen' = seen \cup {d} /\ UNCHANGED <<doc, pc>>
  /\ UNCHANGED <<world, lri, shown, file, harvest, stack, denied, faults, lost>>

(* verifySignature: the key cannot be fetched, and nobody signed the       *)
(* document as far as the connector can tell.                              *)
KeyFails ==
  /\ pc = "take" /\ Fail("call")
  /\ \E d \in Oldest(page) :
       /\ Envelope[d].accepted
       /\ page' = page \ {d} /\ seen' = seen \cup {d} /\ lost' = lost \cup {d}
  /\ UNCHANGED <<world, lri, shown, file, pc, harvest, doc, stack, denied>>

PageEnds ==
  /\ pc = "take" /\ page = {}
  /\ pc' = IF token = {} THEN "truncate" ELSE "request"
  /\ UNCHANGED <<world, lri, shown, file, harvest, page, doc, stack, denied, history>>

(* writeFile: open empties the file before write fills it. *)
Truncate ==
  /\ pc = "truncate"
  /\ file' = None
  /\ pc' = "write"
  /\ UNCHANGED <<world, lri, shown, harvest, page, doc, stack, denied, history>>

(* Mutant: the date of the end of the harvest. *)
WriteNow ==
  /\ pc = "write"
  /\ file' = own
  /\ pc' = "read"
  /\ UNCHANGED <<world, lri, shown, harvest, page, doc, stack, denied, history>>

Write ==
  /\ pc = "write"
  /\ file' = until
  /\ pc' = "read"
  /\ UNCHANGED <<world, lri, shown, harvest, page, doc, stack, denied, history>>

WriteFails ==
  /\ pc = "write" /\ Fail("file")
  /\ pc' = "read"
  /\ UNCHANGED <<world, lri, shown, file, harvest, page, doc, stack, denied, seen, lost>>

------------------------------------------------------------------------------
(* process: insertIntoElasticSearch, insertIntoLrib *)

(* Documents of the tagger come in the name of an inBloom user. Keys and    *)
(* names stand for themselves in lower case, as the LRI looks for them.    *)
Creator(d) ==
  LET e == Envelope[d] IN
  IF e.key = "node" /\ e.tagger THEN IF e.curator = None THEN None ELSE <<"inbloom", e.curator>>
  ELSE <<e.key, IF e.curator # None THEN e.curator ELSE e.submitter>>

Frame(item) == [item |-> item, at |-> "enter", left |-> Props[item], prop |-> None, value |-> None]

Begin ==
  IF Creator(doc) = None
  THEN pc' = "take" /\ doc' = None /\ seen' = seen \cup {doc} /\ UNCHANGED stack
  ELSE pc' = "lri" /\ stack' = <<Frame(Envelope[doc].item)>> /\ UNCHANGED <<doc, seen>>

(* Mutant: the first document of an object stays. *)
IndexNew ==
  /\ pc = "index"
  /\ shown' = [shown EXCEPT ![Id[Envelope[doc].item]] = IF @ = None THEN doc ELSE @]
  /\ Begin
  /\ UNCHANGED <<world, lri, file, harvest, page, denied, faults, lost>>

Index ==
  /\ pc = "index"
  /\ shown' = [shown EXCEPT ![Id[Envelope[doc].item]] = doc]
  /\ Begin
  /\ UNCHANGED <<world, lri, file, harvest, page, denied, faults, lost>>

IndexFails ==
  /\ pc = "index" /\ Fail("call")
  /\ lost' = lost \cup {doc}
  /\ Begin
  /\ UNCHANGED <<world, lri, shown, file, harvest, page, denied>>

------------------------------------------------------------------------------
(* createEntity, createProperty and createEnumerationValueIfNeeded of      *)
(* lribhelper.py: every write is a step, with the searches before it.      *)

Top == Head(stack)
At(stage) == pc = "lri" /\ Top.at = stage
Becomes(frame) == stack' = <<frame>> \o Tail(stack) /\ UNCHANGED <<pc, doc, seen>>
To(stage) == Becomes([Top EXCEPT !.at = stage])
NextProp == Becomes([Top EXCEPT !.at = "props"])

(* createEntity returns an ID, or None after an exception.                 *)
Return(id) ==
  IF Len(stack) = 1
  THEN pc' = "take" /\ doc' = None /\ stack' = <<>> /\ seen' = seen \cup {doc}
  ELSE /\ stack' = <<[stack[2] EXCEPT !.at = "type", !.value = id]>> \o Tail(Tail(stack))
       /\ UNCHANGED <<pc, doc, seen>>

(* Mutant: an entity that is there is taken to be whole. *)
EnterNew ==
  /\ At("enter")
  /\ entities' = entities \cup {Id[Top.item]}
  /\ IF Id[Top.item] \in entities THEN Return(Id[Top.item]) ELSE To("props")
  /\ UNCHANGED <<world, types, members, facts, shown, file, harvest, page, denied, faults, lost>>

Enter ==
  /\ At("enter")
  /\ entities' = entities \cup {Id[Top.item]}
  /\ To("props")
  /\ UNCHANGED <<world, types, members, facts, shown, file, harvest, page, denied, faults, lost>>

EnterFails ==
  /\ At("enter") /\ Fail("call")
  /\ entities' \in {entities, entities \cup {Id[Top.item]}}
  /\ lost' = lost \cup {doc}
  /\ Return(None)
  /\ UNCHANGED <<world, types, members, facts, shown, file, harvest, page, denied>>

PickProp ==
  /\ At("props")
  /\ \E p \in Top.left :
       LET picked == [Top EXCEPT !.left = @ \ {p}, !.prop = p, !.at = "type", !.value = p.value]
       IN IF p.value \in Items
          THEN stack' = <<Frame(p.value), picked>> \o Tail(stack) /\ UNCHANGED <<pc, doc, seen>>
          ELSE Becomes(picked)
  /\ UNCHANGED <<world, lri, shown, file, harvest, page, denied, faults, lost>>

EntityEnds ==
  /\ At("props") /\ Top.left = {}
  /\ Return(Id[Top.item])
  /\ UNCHANGED <<world, lri, shown, file, harvest, page, denied, faults, lost>>

(* A type that was not there when it was asked for stays unknown until     *)
(* the answer expires.                                                     *)
Knows(t) == t \in types \ denied

AskType ==
  /\ At("type")
  /\ LET t == Top.prop.type IN
       /\ denied' = IF Knows(t) THEN denied ELSE denied \cup {t}
       /\ To(IF ~Knows(t) THEN "props" ELSE IF t \in EnumTypes THEN "enumeration" ELSE "value")
  /\ UNCHANGED <<world, lri, shown, file, harvest, page, faults, lost>>

Enumeration(t) == <<"enumeration", t>>
Member(t, v) == <<"enumeration_member", t, v>>
Values == {p.value : p \in UNION {Props[i] : i \in Items}}
Members(t) == {v \in Values :
                 \E f \in facts : f.from = Member(t, v) /\ f.type = "is_member_of_enumeration"}

(* has_enumeration_member is a text when there is one member, and "in"     *)
(* looks for a part of it; it is a list when there are several.            *)
IsListed(t, v) ==
  \/ v \in Members(t)
  \/ \E m \in Members(t) : Members(t) = {m} /\ <<v, m>> \in Inside

FindEnumeration ==
  /\ At("enumeration")
  /\ entities' = entities \cup {Enumeration(Top.prop.type)}
  /\ To(IF IsListed(Top.prop.type, Top.value) THEN "value" ELSE "member")
  /\ UNCHANGED <<world, types, members, facts, shown, file, harvest, page, denied, faults, lost>>

(* The LRI refuses an ID that is taken. *)
MakeMember ==
  /\ At("member")
  /\ LET m == Member(Top.prop.type, Top.value) IN
       IF m \in entities THEN NextProp /\ UNCHANGED <<entities, members>>
       ELSE To("name") /\ entities' = entities \cup {m} /\ members' = members \cup {m}
  /\ UNCHANGED <<world, types, facts, shown, file, harvest, page, denied, faults, lost>>

Text(v) == IF v \in Urns THEN v ELSE <<"text", v>>
Fact(id, type, value) == [from |-> id, type |-> type, value |-> value, creator |-> Creator(doc)]

(* The calls of propertyCreate, in the order they are made. *)
Said ==
  LET t == Top.prop.type
      m == Member(t, Top.value)
  IN CASE Top.at = "name" -> Fact(m, "name", Text(Top.value))
       [] Top.at = "join" -> Fact(m, "is_member_of_enumeration", Enumeration(t))
       [] Top.at = "value" -> Fact(Id[Top.item], t, 
                                     IF t \in EnumTypes THEN m
                                     ELSE IF Top.prop.value \in Items THEN Top.value ELSE Text(Top.value))

(* validate_fields of prop.py: the LRI refuses a null value, a link to what *)
(* is no urn: ID, and an enumeration value that is not there or that is no *)
(* enumeration member, neither by its types nor by an enumeration it has   *)
(* joined. A link to an ID that nobody has is taken.                       *)
IsId(value) == value \notin {Text(v) : v \in Values \ Urns}
IsMember(id) == id \in members \/ \E f \in facts : f.from = id /\ f.type = "is_member_of_enumeration"
Refused(f) ==
  \/ f.value = None
  \/ f.type \in LinkTypes /\ ~IsId(f.value)
  \/ f.type \in EnumTypes /\ ~IsMember(f.value)
Answer(f) == facts' = IF Refused(f) THEN facts ELSE facts \cup {f}

(* A refusal is an exception, and the next property is taken.              *)
CreateProperty ==
  /\ At("name") \/ At("join") \/ At("value")
  /\ Answer(Said)
  /\ To(CASE Refused(Said) \/ Top.at = "value" -> "props"
          [] Top.at = "name" -> "join"
          [] Top.at = "join" -> "value")
  /\ UNCHANGED <<world, types, entities, members, shown, file, harvest, page, denied, faults, lost>>

(* Any call of createProperty fails, carried out or not. *)
PropertyFails ==
  /\ Fail("call")
  /\ \/ At("type") /\ UNCHANGED <<entities, members, facts>>
     \/ /\ At("enumeration")
        /\ entities' \in {entities, entities \cup {Enumeration(Top.prop.type)}} /\ UNCHANGED <<members, facts>>
     \/ /\ At("member")
        /\ LET m == Member(Top.prop.type, Top.value) IN
             \/ UNCHANGED <<entities, members>>
             \/ m \notin entities /\ entities' = entities \cup {m} /\ members' = members \cup {m}
        /\ UNCHANGED facts
     \/ /\ At("name") \/ At("join") \/ At("value")
        /\ UNCHANGED facts \/ Answer(Said)
        /\ UNCHANGED <<entities, members>>
  /\ lost' = lost \cup {doc}
  /\ NextProp
  /\ UNCHANGED <<world, types, shown, file, harvest, page, denied>>

------------------------------------------------------------------------------
Kill ==
  /\ pc # "down" /\ Fail("kill")
  /\ pc' = "down"
  /\ from' = 0 /\ until' = 0 /\ token' = {} /\ page' = {}
  /\ doc' = None /\ stack' = <<>> /\ denied' = {}
  /\ UNCHANGED <<world, lri, shown, file, seen, lost>>

Restart ==
  /\ pc = "down" /\ pc' = "read"
  /\ UNCHANGED <<world, lri, shown, file, harvest, page, doc, stack, denied, history>>

Harvests == Read \/ Ask \/ Request \/ Take \/ PageEnds \/ Truncate \/ Write
CreatesEntity == Enter \/ PickProp \/ EntityEnds
CreatesProperty == AskType \/ FindEnumeration \/ MakeMember \/ CreateProperty
Connector == Harvests \/ Index \/ CreatesEntity \/ CreatesProperty \/ Restart
Failure == HarvestBreaks \/ KeyFails \/ WriteFails \/ IndexFails \/ EnterFails \/ PropertyFails \/ Kill \/ SetBack
World == Publish \/ Tick \/ OwnTick \/ LoadType \/ Expire

Next == Connector \/ Failure \/ World

Spec == Init /\ [][Next]_vars
FairSpec == Spec /\ WF_vars(Connector) /\ WF_vars(OwnTick)

------------------------------------------------------------------------------
(* That a document was overtaken is no excuse when the connector's clock is *)
(* never ahead.                                                            *)
Excused == lost \cup (IF MaxAhead = 0 THEN {} ELSE overtaken)

(* fromDate never passes over a document: whatever was published before it *)
(* has been processed, unless a failed request or call kept it back, or    *)
(* the connector's clock was ahead and the document came after the listing *)
(* with a date before its end. Kills and the moment fromDate.txt is empty  *)
(* lose none, nor does a clock that is behind or set back.                 *)
NothingPassedOver ==
  file # None => \A d \in Docs : published[d] # None /\ published[d] < file => d \in seen \cup Excused

(* When a harvest is through, the index shows the newest document of each  *)
(* object up to its end, though harvests after a kill, or after the clock  *)
(* was set back, process old ones again.                                   *)
ShowsNewest ==
  pc \in {"truncate", "write"} =>
    \A d \in seen \ lost : Envelope[d].accepted /\ published[d] <= until =>
      LET e == shown[Id[Envelope[d].item]] IN e # None /\ published[d] <= published[e]

(* The items of a document. *)
Children(i) == {p.value : p \in Props[i]} \cap Items
Parts(i) ==
  {j \in Items : \A s \in SUBSET Items : i \in s /\ (\A k \in s : Children(k) \subseteq s) => j \in s}

(* An enumeration value whose entity was made but not joined to its        *)
(* enumeration can never be used again: its ID is taken.                   *)
Stuck(t, v) == Member(t, v) \in entities /\ ~IsListed(t, v)

ValueOf(p) == IF p.value \in Items THEN Id[p.value]
              ELSE IF p.type \in EnumTypes THEN Member(p.type, p.value) ELSE Text(p.value)

(* What the LRI will take: not a link to what is no ID.                    *)
Owed(i) == {p \in Props[i] : /\ p.type \in InitTypes
                              /\ (p.type \in LinkTypes => IsId(ValueOf(p)))
                              /\ (p.type \in EnumTypes => ~Stuck(p.type, p.value))}

Whole(d) ==
  \A i \in Parts(Envelope[d].item) :
    /\ Id[i] \in entities
    /\ \A p \in Owed(i) :
         [from |-> Id[i], type |-> p.type, value |-> ValueOf(p), creator |-> Creator(d)] \in facts

(* At last the LRI has all a published document says, every item of it,    *)
(* though the connector is killed between any two calls; unless a call for *)
(* the document failed, or one of its types is loaded only later, or the   *)
(* LRI refuses it, as it does a link to a text.                            *)
Delivered ==
  <>[](\A d \in Docs : /\ published[d] # None /\ d \notin Excused
                       /\ Envelope[d].accepted /\ Creator(d) # None
                       => Whole(d))

------------------------------------------------------------------------------
(* What the comments lead one to expect and the code does not keep.        *)

(* "make sure the enumeration and our enumeration value exist"             *)
(* (lribhelper.py 68) before the property is written.                      *)
EnumerationMade ==
  At("value") /\ Top.prop.type \in EnumTypes => Member(Top.prop.type, Top.value) \in entities

(* The same, of the values the LRI holds between two harvests. *)
NoneStuck ==
  pc = "read" => \A i \in Items : \A p \in Props[i] : p.type \in EnumTypes => ~Stuck(p.type, p.value)
==============================================================================
