# Formal models of the inBloom legacy projects

TLA+ models of the programs in this repository, the TLC configurations that
check them on small instances, and proofs checked by TLAPS. The models follow
the code: where a document or a comment says something else, the code is
modelled and the difference is listed under *Divergences*.

## The system and its parts

The repository holds several programs around one service, the *Learning
Registry Index* (LRI), which keeps a graph of entities and properties.

| Part | Where | State it keeps | Operations | Hard to test |
|---|---|---|---|---|
| property store | `lri-b/lridb.py`, `neorest.py`, `prop.py` | nodes and relationships of a graph database, two indexes | `property/create`, `property/update`, search for properties | versions, two spellings of an ID, links made before their target, requests of several threads, kills between database calls |
| entities | `lri-b/entity.py` | none of its own | `entity/create` with roll-back | failure of one of many calls, retries, lost answers |
| requests and cache | `lri-b/request.py`, `cache.py`, `user.py`, `webapp.py` | memcached or a process's dictionary; the errors of the shared store object | authenticate, dispatch, read, fill and clear the cache | a fill that races a clear, exceptions that pass by the clear |
| searching | `lri-b/lridb.py` 269-680, 793-900 | a cursor handed to the client | `entity/search` in pages, shapes | rows against entities, what a cursor forgets |
| schema | `lri-b/schema.py` | indexes of types and property types | bootstrap, load, closure of dependencies, reverse types | a fixed point that ends early, loops among types |
| loading | `lri-b/parseccssxml.py`, `query_sequencer.py`, `lri_admin.py` | the tree of entities parsed, what was sent of it | parse the Common Core standards, create their entities, create an LRI | parents made on the way in the order of a dictionary, refused requests taken for done |
| CCSS middleware | `lri-middleware` | none between requests | POST of documents as many LRI requests, GET of listings: query, prune, sort, format | partial imports, order of paths, reads while others write |
| connector | `lr-connector` | `fromDate.txt`; which property types are missing | harvest the Learning Registry, create entities in LRI | kills between calls, a failed harvest that is recorded as done, repeated documents |
| gateway | `gateway` | SQL rows of providers, users, operators, verifications; LDAP accounts | register, verify e-mail, create credentials | two registrations of one e-mail, a mail or LDAP call that fails half way |
| others | `databrowser`, `Excel2EdFi`, `lri`, `datastore_docs`, `dev-tools`, `SampleData` | | browsers, converters, documentation, data | |

A client's request reaches `webapp.py`, which hands it to `request.py`; this
authenticates the user, answers searches from the cache or from the store, and
passes writes to `entity.py` and `prop.py`, which call `lridb.py` (what a
property means) on top of `neorest.py` (Neo4j's REST interface). Every other
part is a client of this service. uWSGI runs one worker process
(`wsgi_config.json`, `"processes":1`) and kills it when a request takes more
than 180 seconds (`"harakiri":180`); `webapp.py` started by hand serves each
request in a thread of its own, all on one store object.

## Modules

| Module | Models | Run as |
|---|---|---|
| `IdRegistry` | what the store promises about IDs: each is held by at most one entity | abstract specification |
| `PropStore` | the write requests, one after another, each a single step | `MCPropStore` |
| `PropStoreProofs` | theorems about `PropStore` | TLAPS |
| `StoreSteps` | the same requests as single database calls by workers that may be killed; implements `PropStore` | `MCStoreSteps` |
| `StoreStepsProofs` | theorems about `StoreSteps`; that it implements `PropStore` | TLAPS |
| `EntityCreate` | `entity/create` with failing calls, retries and roll-back | `MCEntityCreate` |
| `EntityCreateProofs` | theorems about `EntityCreate` | TLAPS |
| `SearchPaging` | `entity/search` in pages | itself |
| `SearchCache` | the cache of searches | `MCSearchCache` |
| `SearchProofs` | theorems about `SearchPaging` and `SearchCache` | TLAPS |
| `SchemaClosure` | processing of a loaded schema and its push to the database | `MCSchemaClosure` |
| `SchemaClosureProofs` | theorems about `SchemaClosure` | TLAPS |
| `CcssPost` | POST to the middleware: a document becomes LRI requests | by `Ccss` |
| `CcssGet` | GET from the middleware: query, prune, sort | by `Ccss` |
| `Ccss` | composes both and says what clients rely on | `MCCcss` |
| `CcssProofs` | theorems about `Ccss` | TLAPS |
| `StandardsLoad` | parsing and sending of the Common Core standards | by `StandardsRead` |
| `StandardsRead` | GET of `/standards` while they are loaded | `MCStandards` |
| `StandardsProofs` | theorems about `StandardsRead` | TLAPS |
| `Harvest` | the connector, against a Learning Registry node, ElasticSearch and the LRI | `MCHarvest` |
| `HarvestProofs` | theorems about `Harvest` | TLAPS |

### PropStore

`entities` is the set of nodes, `link` a function from the guids in use to the
records written (`type`, `from`, `to`, `value`, `creator`, `alive`,
`complete`, `replaced_by`). Nothing is ever overwritten but `replaced_by`: an
update writes a new record and points the old one at it.

| Action | Code |
|---|---|
| `CreateEntity` | `entity.create`, its IDs |
| `CreateLiteral`, `CreateLink` | `prop.create`, `lridb.create_property` with the searches for existing and unique versions, the swap to the primary type, `complete_property` of the links that wait |
| `UpdateValue`, `UpdateTarget`, `UpdateState` | `prop.update`, `neorest.update_property` |
| `Live`, `SameKey`, `Existing`, `Owners`, `Danglers` | the searches of `lridb.property_search`, which compare values (`Fold`) and creators (`FoldUser`, `SameCreator`) in lower case |

Left out: requests that are refused (they change nothing), the check that a
value is an enumeration member (`prop.py` 155-180), names with wildcards. An
update carries a `value` or a `to`, not both. Where the code takes the first
of several hits the model takes any. A record found dead completes the links
that wait for it as well, as in the code. The other properties of an
`entity/create` are the `CreateLiteral` and `CreateLink` steps that follow;
their roll-back is in `EntityCreate`. The finite set `Guids` bounds the
records, so the system stops when they are used up: the configurations do not
check for deadlock.

### StoreSteps

`store`, `rec` and `idx` are the three places a version is kept in: the
properties of the relationship, the JSON text among them, the index. `work`
says, for every worker, what it will call next. A request goes
`look` - `write` - `record` - `index` and, for an ID, `search` - `next` over the
links that wait, and an update `point` - `rerecord` - `reindex`. The searches
before the first write are one step, so threads interleave somewhat less than
in the program: what is found wrong with them is wrong in the program, and what
is claimed for them (`SuccessorFound`, `CopiesInOrder`) depends on the order of
a worker's own writes only. Removing and adding the index entry of
`replaced_by` is one step. A node appears together with its ID. Types with
`is_unique` are left out.

### EntityCreate

The graph database as `nodes`, `rels` (a relationship is a property of a node
and the try that made it), `recorded` and `indexed`; the request under way in
`req`. `Faults` are the calls that may fail: those that are tried again
(`"node"`, `"link"`), such a call carried out without an answer (`"lost"`), and
any other exception or a kill (`"abort"`). The database refuses to delete a
node that has relationships. IDs of one request are distinct and no link waits
for them.

### SearchPaging

Each term of a query is a list of rows, one per property found, naming an
entity; all terms must match. `starts` and `old` are what the cursor keeps. The
client comes back with any of the `Limits` until there is no cursor. Lists of
alternatives (OR) and the shape of an answer are left out; `fit` stands for the
entities whose shape meets `constrain_by`.

### SearchCache

Answers are told apart by `db`, the number of writes the store had seen when
they were read; `acknowledged` is the newest state a write was answered for. A
request takes three steps, so that other threads come in between.

### SchemaClosure

A schema says of every type its parents, its reverse, whether it is primary
(an original of its pair) and whether it was loaded under a short name. `order`
is the order in which a Python dictionary lists the types, arbitrary but the
same in every pass. `Inherit`, `Unknown` and `PassEnds` are the loop of
`resolve_dependency_tree` that collects ancestors, `Take`, `PassOver` and
`OrderEnds` the one that orders the types; `Pair` is
`resolve_reverse_properties` as one step, which ends with a `KeyError` when it
completes the pair of a type that was not loaded (`Absent`); `Push` tries to create
one type. `pushed` lists the types tried, `failed` those that could not be created,
which is only logged; a record the entity does not accept ends the push with an
exception. `Pushed` ends `create_lri`. The guard against more than ten passes per type is left out: a
pass is repeated only when its last type gained an ancestor, and it cannot gain
more than there are.

### CcssPost, CcssGet, Ccss

`lri` maps the IDs of entities to the records the middleware wrote, `post` holds
for each thread the document and the requests still to be sent, in the order of
`getInserts`. `Begin` builds them (`Inserts`, with one operator per kind of
document), `Send` is one request answered, `SendFails` and `SendBreaks` one that
is not, `Finish` the answer to the client. `lost` remembers requests that failed.
A GET is a function of `lri`: `CreateQuery` chooses the search, `Hits` and
`Pages` are what the LRI answers, in any order, `Prune` and `Sort` what is made
of it, `Answers` the answers that may come of it. A search by a link finds nothing
under an ID that no entity has. A list is cut at `PageSize`, that of paths at
`PathsLimit`, for which `ccss.py` 558 asks.

The format a POST names decides how its document is read (`IsXml`; a resource in
another format is not read and sent without an ID, `NoName`) and is sent on to the
LRI, whose answer the middleware reads as JSON in any case (`AnswersJson`). A kind
that is not built (`Unbuilt`) ends with 501. Authors, texts and the rendering as XML
or JSON are left out, and `/property_names`, which lists no entities; `/standards`
is in `StandardsRead`.

### StandardsLoad, StandardsRead

The IDs of the standards are sequences of their parts, of which the kind of
standard is read (`Kind`, `MathKind`, `ElaKind`). `ProcessMath` and `ProcessEla`
take the parsed items one by one, in any order in which parents come before what
is below them. An item makes some entities (`MathMakes`, `ElaMakes`: itself and its
branch) and adds links to them (`MathLinks`, `ElaLinks`); `Grown` is `tree` with both.
An item that needs an entity it does not make (`Needs`), and a heading of Math,
stop the program. `Send` creates one entity in the LRI, or loses it. A reader is one
GET of `/standards`: `Find` searches, `Fetch` asks for the entities it still needs, a
set of pairs of an entity and what led to it, in any order; `Expand` and `Anchor`
turn to the components and the anchors, `FetchPart` fetches them, `Answer` answers.
Each step sees the LRI as it is then. The text of an ID, its prefixes and the shapes
of the answer are left out; so are the option `competency_container` and the branch
for standards without a CCSS ID (`query.py` 325, 394-405), since what the loader
makes is in no container and has such an ID.

Assumed are `DocumentsAssumption`: the IDs of the files can be parsed, each file
holds its own framework, and CCRA is the one ELA domain without grades, as the
comment at `parseccssxml.py` 145 has it; `RequestsAssumption`: an option of a GET is
given an ID of its kind; `PageAssumption`: a page has a size.

### Harvest

| Action | Code |
|---|---|
| `Read`, `Ask`, `Request`, `PageEnds`, `Truncate`, `Write` | the loop of `connector.run`, `doHarvest`, `harvestData`; `writeFile` in two steps, since `open` empties the file |
| `HarvestBreaks` | the `except` of `harvestData`: the harvest is over, and its date kept |
| `Take`, `KeyFails`, `Index`, `IndexFails` | `process`: signature, ElasticSearch, and `createEntity` called |
| `Enter`, `PickProp`, `EntityEnds`, `EnterFails` | `lribhelper.createEntity`; `stack` holds its nested calls |
| `AskType`, `FindEnumeration`, `MakeMember`, `CreateProperty`, `PropertyFails` | `createProperty`, `createEnumerationValueIfNeeded` |
| `Kill`, `Restart` | the process ends anywhere and is started again by hand |
| `Refused` | `prop.validate_fields` of the LRI: no value, a link to what is no ID (`IsId`, `lridb.problems_with_id`), an enumeration value that is no member |
| `Publish`, `Tick` | the node, its clock and the dates it gives documents |
| `OwnTick`, `SetBack` | the connector's own clock, `datetime.utcnow()` of `connector.py` 51: behind the node's by whatever, ahead of it by `MaxAhead` at most, and it may be set back |
| `LoadType`, `Expire` | a schema is loaded into the LRI; the cache of missing property types runs out |

A call that fails may have been carried out. The node lists what was published
from one date to another, both included, oldest first, in pages. `denied` is
the part of `entityCache` that matters: the answer that a type exists stays
true. `overtaken` holds the documents published with a date before the end of a
harvest listed earlier. What the texts of a document are made into (IDs, lower case, hashes) is
given by the constants `Id` and `Props`; `Inside` says which value is a part of
the text of another. The creation of the ElasticSearch index on the first start
is left out.

## Runs

| Run | Instance | Shows |
|---|---|---|
| `PropStore` | 2 entities, 4 records, 2 IDs one in two spellings, one literal and one link type with its reverse | requests one after another: types (`TypeOK`), IDs are unique in any spelling (`IdUnique`), no link waits for an ID that is taken (`NoStrandedLink`), no fact lives twice (`NoDuplicates`), histories do not branch, change or run in circles of several versions (`HistoryKept`, `ChainsEnd`), completion never loses a link (`CompletionLosesNoLink`), and IDs behave as `IdRegistry` says (`KeepsRegistry`) |
| `PropStoreUsers` | 3 creators, 2 of them the same but for case, unique types | a version is followed only by one of its own type and, case aside, of its own creator (`VersionsAgree`) |
| `StoreSteps` | 1 worker, no kills, 4 requests, 5 records, a creator in two cases | call by call, a request amounts to one step of `PropStore` or none (`KeepsStore`) |
| `StoreKills` | 1 worker killed anywhere, 4 requests | still no ID is found twice (`OneHolder`), a replaced version has a successor in the index (`SuccessorFound`), the three copies are never wrong in the direction that cannot be noticed (`CopiesInOrder`) |
| `EntityCreate` | 2 IDs, 2 other properties, 2 tries, 3 failures, 2 requests | what is indexed is whole (`TypeOK`), `IdOnce`, `CreatedComplete`, `RolledBack`; requests end (`Answered`) |
| `SearchPaging` | 3 entities, 2 terms of up to 3 rows, limits 1 and 2 | pages hold exactly what matches (`EveryHitReturned`, `NothingElseReturned`) and end (`PagesEnd`) |
| `SearchCache` | 1 worker, 2 queries, 5 writes | searches see acknowledged writes (`SeesAcknowledged`, `CacheCurrent`), although an exception leaves the cache as it was |
| `SchemaClosure` | 4 types, every order of them, hierarchies with loops, diamonds and unknown parents, pairs of reverse types, one of them unknown; creations that fail | nobody gets an ancestor that is not one (`ClosureSound`), none is missing when parents are listed first (`ParentsFirstWhole`), no type is tried before all it is made from were (`OrderSound`), a loop is what a hierarchy is refused for and always is (`RefusedIffCircular`), primary types are named by those they name (`PrimaryPairs`), and it ends (`Ends`) |
| `Ccss` | 2 POSTs in threads, 19 documents, 2 failing requests, pages of 2, of paths of 3 | a path is read back whole and in order (`ReadsWhole`), or its beginning (`ReadsInOrder`), nothing is stored before what it holds (`RefsFirst`), and what is stored is listed under its kind and under those of its parents that are there (`ImportedIsFound`) |
| `Standards` | 10 pairs of lists of standards, 1 lost request, 1 reader, pages of 3 | what is written is the tree that the IDs describe (`LoadedWhole`), a GET answers with what was there at its beginning and nothing that is not there at its end (`AnswersBetween`), with all components (`PartsWhole`), and does not fail once all is loaded (`LoadedIsRead`) |
| `Harvest` | 2 documents about one resource, a child object, an enumeration value, a link to a text, 2 dates, pages of 1, 1 failure, kill or clock set back, the connector's clock behind or 1 ahead | no document is passed over but those published after a listing with a date before its end (`NothingPassedOver`), the index shows the newest (`ShowsNewest`), at last the LRI has all it takes (`Delivered`) |
| `SelfReplacement` | as small as shows it | the divergence below |

Four records are enough for a version, its successor, a link waiting and the
record that completes it, and an ID in two spellings is enough for a search and
a comparison to disagree; a second literal type adds nothing the ID type does
not do, since types meet in a search only as equal or different. In
`EntityCreate` two tries and three failures reach every exit of every loop, and
a second request meets what the first left behind. In `SearchPaging` three rows
over three entities hold every pattern of a repeated entity before, on and
after the cut of a page. Four types hold a diamond with its top, a loop with a
type below it, and two pairs of reverse types. In `Ccss` a path of three steps
is the shortest in which the middle one is lost, and pages of two are exceeded
by its steps and by three frameworks. In `Harvest` two documents on two dates
meet in one page boundary and in one resource, one being older, the child is the
second level of nested calls, and one failure breaks each of them. A clock
ahead by one is ahead of every date a document may yet get. Failures that come
together, a broken harvest and a kill, two kills, a kill and a clock set back,
matter to the dates and the order alone, and of these `HarvestProofs` speaks for
any number. Symmetry is used on guids, entities, values
and workers, which the code only compares, and not where liveness is checked.

**Fairness.** `EntityCreate` assumes weak fairness of the program's own next
call (`Progress`): the code is one thread of straight calls. Failures are
bounded and never fair; `Answered` excludes the loop that makes the node, which
does not end (below). `SearchPaging` assumes weak fairness of `Next`, that is,
of the program and of a client that follows its cursors as `client.py` does.
`SchemaClosure` is one thread, with weak fairness of its steps. `Harvest`
assumes weak fairness of the connector's own steps and that somebody starts it
again after a kill, and that its clock goes on until it has caught up with the
node's: a harvest lists nothing later than that clock. Documents, types and failures
need never come.

## Divergences

Checked by a run:

* `SelfReplacement`: an update whose result equals the old version but for case,
  or that only says `alive: true`, points the version at itself; no search finds
  it any more (`neorest.py` 288, `lridb.py` 199).

Met while modelling; the configuration of this name shows the trace when TLC is
run on it:

* `ThreadsSameId` (`MCStoreSteps`): two threads give one ID to two entities
  (`lridb.py` 137).
* `KillStrandsLink` (`MCStoreSteps`): a kill between an ID and the completion of
  the links waiting for it leaves them waiting for good (`lridb.py` 247).
* `ThreadsFork` (`MCStoreSteps`): of two threads updating one version the second
  takes the first's successor out of the history (`neorest.py` 288).
* `KillKeepsStale` (`MCStoreSteps`): a kill before the index entry of
  `replaced_by` is renewed leaves the old version in the searches (`neorest.py`
  295).
* `NodeRetries` (`MCEntityCreate`): `while not success or tries == max_tries`
  does not end while the call fails, and goes on after a success that follows
  exactly `max_tries` failures (`neorest.py` 71).
* `EntityLeftOver` (`MCEntityCreate`): properties other than IDs are not rolled
  back (`entity.py` 185), though `test_atomic_creation.yaml` wants "nothing left
  over".
* `PagesForgetConstraint`, `PagesRepeat` (`SearchPaging`): the cursor does not
  keep `constrain_by` (`lridb.py` 444), and an entity comes on two pages
  (`lridb.py` 355); `client.py` 104 prints "DUPLICATE!".
* `CacheRace` (`MCSearchCache`): with two threads a search that read before a
  write fills the cache after the write cleared it (`request.py` 199).
* `UniqueLiteral`, `UniqueReverse` (`MCPropStore`): `is_unique` is not checked by
  updates, nor for a type whose reverse is unique (`lridb.py` 106), though
  `bootstrap.json` 442 says "no more than one instance of this property is
  allowed".
* `ClosureStopsEarly` (`MCSchemaClosure`): the count of changes starts anew with
  every type (`schema.py` 259), so the loop that should "iterate till there are
  no more changes" (`schema.py` 244) ends while ancestors are missing.
* `CcssToldCreated` (`MCCcss`): "201 Created" although a request was refused or
  lost, or the action is unknown (`ccss.py` 312-369).
* `CcssForks` (`MCCcss`): of two steps with the same previous one is lost
  (`sort.py` 147).
* `StandardsFail` (`MCStandards`): GETs fail while standards are loaded, and for
  a grade of exactly one standard, whose `contains` is not a list (`query.py`
  440).
* `HarvestMember` (`MCHarvest`): `has_enumeration_member` is a text when there is
  one member, and a new value that is a part of that text is taken to exist
  (`lribhelper.py` 85), though "make sure the enumeration and our enumeration
  value exist" (68). The LRI then refuses the property.
* `HarvestStuck` (`MCHarvest`): a kill between the entity of an enumeration value
  and its joining the enumeration leaves the ID taken, and no document can use
  the value again (`lribhelper.py` 87).

Met while modelling, without a configuration:

* Creators are indexed and searched in lower case (`neorest.py` 153-158, 184-188),
  while users are told apart by case (`request.py` 45): of two users that differ
  only in case one updates the other's versions, and links of both that wait for an
  ID come to share one version, with the creator of the first.
* A type whose creation fails is only logged (`schema.py` 426), and types made from
  it are created all the same.
* A POST that names its format, even `xml`, ends with its first request: the option
  is sent on (`insert.py` 200), the LRI answers in that format (`request.py` 152-178)
  and `getJson` fails on the answer (`utils.py` 15-37). The entity is there.
* A child that was stored before its parent is in no listing of the parent until
  that is stored as well (`lridb.py` 728-731).
* With the connector's clock ahead of the node's, documents published after a
  listing with a date before its end are passed over for good (`connector.py` 51):
  `overtaken` in `Harvest`.
* A text as the value of a link property, as documents give it for
  `educational_framework`, is refused by the LRI (`prop.py` 140-147), and the
  connector goes on without the property.
* A harvest that breaks off is recorded as done: `harvestData` logs the
  exception and returns no token, and `run` keeps the new date (`connector.py`
  55, 99). These documents are `lost` in `Harvest`.
* A property type that was missing when first asked for stays missing for a day
  (`lribhelper.py` 172), so documents harvested meanwhile lose the property.
* A listing without results is 500 for `/competency_paths` and `/grade_levels`
  (`sort.py` 206); only the first page of 25 is read (`ccss.py` 486); a document
  with orderings is 500 (`insert.py` 610 calls `makeId` without `self`), and so is
  every update (`insert.py` 1565); `/sections` is 500 (`prune.py` 579); listing
  all paths empties their steps (`sort.py` 121).
* GET `/standards?grade_level=` of a grade of Math answers with nothing, for the
  grade contains domains and only standards are taken (`query.py` 414).
* Two standards with one statement code end the parser with a `KeyError`
  (`parseccssxml.py` 257); a step the LRI refused counts as a success
  (`query_sequencer.py` 235).
* "Make sure reverse properties point to primary" (`schema.py` 384) does not hold
  of chains of reverses; a type loaded under a short name with a reverse is
  refused as claimed twice (`schema.py` 347-362).

## Proofs

`PropStoreProofs` proves, for any sets of entities, guids, values, users and
types: `TypeOK`, `IdUnique`, `NoStrandedLink`, `NoDuplicates`, `HistoryKept`,
`VersionsAgree`, `ChainsEnd`, `CompletionLosesNoLink` and `KeepsRegistry`. Assumed
is what `PropStore` assumes of its
constants: `Fold` and `FoldUser` are functions on values and on users (they need not
be idempotent), the ID
type is a literal type, literal and link types are disjoint, unique types are
property types (`TypesAssumption`), and `None` is no member of the other sets.

*Argument.* Every step is brought to one of two normal forms (`NextNormal`):
`Merge`, a version that is already there takes the place of another, or `Put`, a
record is written, takes the place of some, and the links that waited for it are
completed. `PutEffect` says once what `Put` does to each record, the old ones,
the new one and the completed ones; the theorems are proved from it and from
`Merge`. `TypeOK` gives the shape of each kind of record; `IdUnique` needs that
an ID is written only after `IdFree` or when the same entity has it already;
`NoStrandedLink` needs that the completions run whenever an ID is written.
`VersionsAgree` and `ChainsEnd` use that a version's successor is fresh or was
found by a search for its own key, and a search finds only versions without a
successor, so a new pointer never closes a circle but the one of length one that
`SelfReplacement` exhibits. `CompletionIsWhole` follows a waiting link through
`PutEffect`: it is led to a new record or to one found, and either lives.
`StoreKeepsRegistry` is the refinement of `IdRegistry`: by `IdUnique` one living
ID property at most answers to a key before and after a step, and a step writes
one ID at most.

`StoreStepsProofs` proves `CopiesInOrder` and `SuccessorFound` for any number of
workers, requests and kills, also for the threads of `webapp.py`. Neither is
inductive: that an index entry follows its `rec` depends on what a worker has
done before it reaches the call. The strengthening `IInv` says what each worker
may rely on at its next call: between `record` and `index` its new version is
its own (no index entry, no other worker names it), from `index` on it is in the
index, from `point` to `reindex` the old version has the copies that the order
demands, and the request that is resumed after the waiting links were completed
still finds its versions. `Undisturbed` shows once that no step of another
worker takes this away, because the copies only grow; there is then one lemma
per action for the worker that moves. A kill makes a worker idle, which needs
nothing. Assumed are that the ID type is a literal type, that literal and
link types are disjoint, and that `None` is no entity, guid or value.

`IdsStayUnique` proves `OneHolder` for one worker and any kills (with two threads
it is false, see `ThreadsSameId`). `IdInv` adds to `IInv` what the searches of
`create_property` have found out: from then until the new version is in the
index, no version bears the ID that is about to be written (`PendingOK`). A kill
leaves a version that is not in the index, which bears nothing.

`RequestsImplementStore` proves `KeepsStore`, that the calls implement `PropStore`,
for one worker that is never killed, as `wsgi_config.json` has it (`processes`
1, no threads). While a request is under way the store it found is shown, and
what it has written appears with its last call. `RInv` says how far the store
has moved from the one the request found, call by call: what was asked and what
the searches chose (`Asked`, `Chosen`, `Found`); nothing that a search sees, until
the index is written; one version more then (`Written`); and while links that
wait for an ID are completed, exactly the completions made so far
(`Completing`), each led to a version that was there when the request began or
to a new one that all links that say the same, case aside, share, made of the first
of them (`Led`). `CompletingSearches` is the heart
of it: a search made half way, with some links completed, finds what `PropStore`
has it find in the store as it was. `CompletingEnds` and `WrittenEnds` then give
the step of `PropStore`. `Past(b)` is `PropStore` at an earlier store `b`. Besides
one worker and no kills it is assumed that `None`, which stands for outer work
that is not there, is not itself the record of a worker (`NoneIsNoStep`). Before
the proof `RInv` was checked by TLC on the instance of `StoreSteps`.

`EntityCreateProofs` proves all invariants of `EntityCreate` for any IDs, other
properties, tries and failures. `IInv` ties the request's progress to the
database: while only IDs have been written, whatever of the new node is in the
index is in `done` (`Kept`), from which `RolledBack` follows, as the roll-back
deletes what is in `done`; what is neither left to do nor under way is in the
index unless something failed (`Covered`), from which `CreatedComplete` follows;
an ID under way was found free (`StepOK`), which gives `IdOnce`. Assumed are
`TriesAssumption`, `OthersAssumption` and that `None` is no node.

`SearchProofs` proves `EveryHitReturned` for all rows and limits, and
`NothingElseReturned` for queries without a constraint (with one, pages after
the first hold more, see above). Where a term's next query starts is of no use
for this: starts are counted in entities and used on rows. What holds is that
the first query of the first page starts every term at its first row and so
finds every answer; from then on (`~Fresh`) each answer is left over from a page
(`old`), found for this one (`new`), or returned.

It proves both properties of `SearchCache` for one worker and any number of
queries and writes: an answer kept is at least as new as what was acknowledged
when the worker was last free. For two workers it is false.

`SchemaClosureProofs` proves, for any finite set of types, any hierarchy and any
order of the dictionaries, that the variables keep their types (`TypeOK`),
`ClosureSound` and `OrderSound`, and that a circular hierarchy is never pushed.
`OrderSound` speaks of the types tried, whether they were created or failed, and
still holds when the push broke off. That an order is sound although ancestors may be missing needs this: a parent
loses a dependant only when that dependant has been put in order, so every
direct child of a type stays among its `deps` until it is in `sorted`.

`AncestorsAreWhole` proves `ParentsFirstWhole`: where parents are listed first,
each type in its turn takes up parents that are whole already (`Gathered`), in
the first pass. `PrimaryTypesPair` proves `PrimaryPairs`. `RefusedMeansCircular`
proves `RefusedIffCircular`, which counts passes: of the types not yet in order
one has no dependant left unless two types are above each other (`SomeReady`,
`Waiting`), so each pass but the first puts at least one in order
(`Progressing`), and twice as many passes as types suffice. `SomeReady` takes a
type with the fewest types not above it, by `LeastNumber`: any set of numbers has a
least one, which serves for induction.

`HarvestProofs` proves `NothingPassedOver` for any documents, pages, dates,
failures and kills. Neither the date in the file nor what was processed says
enough; `IInv` adds that during a harvest every document from `from` to before
`until` is processed, kept back, overtaken, or still in `token`, `page` or `doc`. A
new document gets the node's date, and is `overtaken` if that is before the end of a
harvest listed by then. `InStep` says that this cannot be when the connector's clock
is never ahead (`MaxAhead` is 0): no date kept is then later than the node's clock,
and nothing is overtaken. Neither clock is assumed to be right otherwise.
`NewestIsShown` proves `ShowsNewest`: after a kill a harvest begins again at an old
date and overwrites newer documents with older ones. `NInv` adds that it goes
through them oldest first (`InOrder`), and that what the index does not show as
it should is still to be indexed (`Again`). Assumed is `EnvelopeAssumption`, that
an accepted document names one of the items, `BoundsAssumption` and
`NoneAssumption`.

`CcssProofs` proves the four invariants of `Ccss`: `RefsFirst`, `ImportedIsFound`,
`ReadsInOrder` and `ReadsWhole`, for any documents with paths and grades of any
length, any number of POSTs in threads, any size of a page and any number of
failing requests. What the LRI holds at a moment does not say who asked for it.
`CInv` adds that: each POST has sent a beginning of its `Inserts`, and all of that
is there or `lost`; each entity was loaded, or is one of the `Inserts` of a POST
that had sent all before it. From this and the order of the `Inserts`
(`InsertsGood`, `PathCreated`: container, step, container, step, ..., path) follows
`RefsFirst`. `ImportedIsFound` then takes each listing an entity belongs in, the
search that listing makes (`Searches`) and the branch of `Hits` that finds it. For the
steps of a path, which the LRI may list in any order, `PassIs` says what one pass
makes of a beginning of the path: a longer one if the next step is among the
listed; so as many passes as there are steps, which is what `sort.py` makes, reach
the first step that is missing (`SortIs`). That first is found because only one
step has no `previous`. Documents whose steps have one `orderId` twice, or whose
`previous` do not form a chain, are not `StoredChains`; `CcssForks` shows what
becomes of them. Assumed is that no name in a document or loaded is one of those
made for steps and containers, which end in a random text (`insert.py` 536, 641);
that what a document names is no missing value, and what was loaded is from no
POST (`DocsAssumption`, `LoadedAssumption`); that a page has a place
(`PagesAssumption`). TLC evaluates these on the instance, on which it has checked
`CInv` as well.

`StandardsProofs` proves the four invariants of `StandardsRead`, for any lists of
items in any order, any strands, readers, requests, size of a page and number of
lost entities. Assumed are the three assumptions above and nothing else.

*The tree.* The type of an entity follows from its dotted ID (`At`, `IsNode`), and so
do the links to it (`Into`; `RelatedIs` says that `Relations` finds exactly these). Each
kind of item makes and links some beginnings of its dotted ID and what is `Into` them
(`Shown`, one lemma per kind). Unions do not care about order, so the tree of the
items processed so far is `Grown` by all their entities and links, and `TreeOf` turns
this into `Relations` of their types, provided each item found what it needs
(`Closed`). `LoadInv` says this of each phase, and that the LRI holds entities as they
are in the tree. It gives `LoadedWhole`: that parents precede what is below them is
needed only for the program not to stop, not for the tree to be right.

*The answers.* `LoadInv` says of the LRI that it is a part of one tree that no longer
changes, in which each standard of ELA is contained in one grade and that in one
domain (`By`). `ReadInv` says of each GET that what it has read is asked for and was
read as it is in the tree (`ItemsKept`), what it still needs is in the tree, asked
for, not read yet and led to by one entity (`NeedKept`), from which follows that no
standard comes twice; that both together are all that was there when it began, if
the search fits on a page (`AllKept`, from `FoundAll`); and that parts read and needed are
those of the standards read (`PartsKept`). `AnswersBetween` and `PartsWhole` are what
this says at the end. For `LoadedIsRead`, `NoFailure` needs that in a tree that was
loaded as a whole each item of ELA has a parent (`NoOrphan`) and all links lead to
what is there (`AllThere`). TLC has checked `LoadInv` and `ReadInv` on the instance of
`Standards`.

Recursion in these modules is by functions over the length of a sequence, so that
the proofs can go from one step to the next: an induction is the least number, by
`LeastNumber`, for which the claim fails.

Every invariant that a passing run checks is stated by a theorem. Only
model-checked is liveness (`Answered`, `PagesEnd`, `Ends`, `Delivered`), because TLAPS
does not prove properties under fairness, and that the traces of *Divergences*
exist. Some theorems are for the configuration their run has, because without it
they are false or, for `KeepsStore`, not claimed: one worker for the cache and for
`OneHolder`, one that is not killed for `KeepsStore`, a query without a constraint
for `NothingElseReturned`.

## Plan

1. Done: property store, its database calls, entity creation, paging, cache,
   schema, middleware, loading of standards, connector.
2. `GatewayRegistration`: registrations and validations in threads, mail and LDAP
   calls that fail, rows committed although the answer is an error; e-mail
   unique, a token redeemed once, a verified user has the whole account.
3. Failing calls in `StoreSteps`, above all an ID that could not be written and
   whose waiting links are completed all the same (`lridb.py` 242).
4. The content of cached answers, with and without history (`request.py` 177);
   users and their tokens (`user.py`); shapes of answers
   (`lridb.get_entity_properties`).

## Not modelled

Texts of messages, logging, timing, rendering as XML or YAML; Neo4j, memcached,
LDAP and mail servers beyond what the calls need; the browser front ends, the
converter and the data. `PROJECT.json` lists every part with the reason.
