# NetGraphy in TLA+

NetGraphy keeps a network source of truth in a graph database.  Schema files in
YAML say which node and edge types exist; from them the API, the agent's tools,
the query engine, the forms of the web client and the ingestion mappings are
derived.  This directory models the parts of it where the order of events, or
the agreement of several derivations, decides whether the graph, its schema and
what is said about them stay right.

1. [Inventory](#1-inventory): what the system consists of
2. [Modules](#2-modules): what is modelled, and how it maps to the code
3. [Runs](#3-runs): what TLC checks, with which bounds and fairness
4. [Proofs](#4-proofs): what TLAPS proves, and along which argument
5. [Divergences](#5-divergences): where code and documentation disagree
6. [Limits](#6-limits): what the models show of the code besides, and what is not modelled
7. [Plan](#7-plan): what comes next

## 1. Inventory

All paths are below `src/`; packages are below `src/packages/`, routers and
services below `src/apps/api/netgraphy_api/`.  The API is one asyncio process
(FastAPI), so code between two `await`s runs without interruption and everything
else may interleave.  The worker is a Celery process of its own.  Both talk to one
Neo4j database; the API also talks to NATS.

| Component | State it keeps | Operations | Talks to | Status |
|---|---|---|---|---|
| Node and edge CRUD: `services/node_service.py`, `edge_service.py`, `graph_db/repositories` | none; nodes and relationships in Neo4j | create, update, delete, list | registry (validation), RBAC, Neo4j driver, event bus, `_AuditEvent` nodes | GraphCrud, NodeProperties |
| Schema registry: `schema_engine/registry.py`, loaders | four dicts of definitions in memory; every process has its own | load, register, resolve mixins, validate properties | read by nearly everything; written at startup and by Git sync | in GitSync and NodeProperties |
| Schema generators: `schema_engine/generators` | none; results cached by the router | pure functions of the registry | registry | the agent's half: Tools |
| Schema migration: `services/schema_service.py` | none; Neo4j labels, properties, indexes | preview, apply migration, ensure indexes | registry, driver, event bus | not modelled |
| Event bus: `events/bus.py` | NATS client, connected flag, dict of local subscribers | connect, publish, subscribe, close | NATS JetStream; called after every write | EventBus |
| Git sync: `sync_engine/service.py` | `_GitSource`, `_SyncEvent` nodes | register, sync, preview, delete | git subprocess, registry, driver, event bus | GitSync |
| Ingestion: `ingestion/pipeline.py`, mappers, parsers | `IngestionRun` nodes | execute run: collect, parse, map, upsert | driver, registry, event bus | Mapping, Ingestion |
| Worker: `apps/worker/main.py` | Celery queue in Redis | execute ingestion, job, sync | pipeline; a registry of its own | not modelled |
| Query engine: `query_engine`, `routers/queries.py`, `reports.py` | saved queries, saved reports | validate and compile a query AST to Cypher, execute, report, save | registry, driver | QuerySchema, CypherQuery, Reports, Queries |
| Agent and chat: `ai`, `query_engine/tool_executor.py`, `routers/chat.py` | providers, conversations, messages in Neo4j | rounds of tool calls, confirmation, streams | model providers, tool executor | Tools, Agent |
| Accounts: `routers/auth.py`, `auth/*`, `app.py` | `_User`, `_Group`, `_Permission`, `_APIToken` nodes; JWTs held by clients | login, refresh, users, groups, permissions, tokens | driver, RBAC | Accounts |
| Access control: `auth/rbac.py` | none | decide on a permission | the roles and group permissions of a request | Permissions |
| Infrastructure as code: `iac/*`, `routers/iac.py` | backups, intended configurations, compliance results, profiles, contexts, rules, mappings | backup, generate, check, replace a device | git, Jinja2, driver | ConfigText, ConfigContexts, Replacement, Infrastructure |
| Web client: `apps/web/src` | zustand stores | edits, undo, fetch | REST API | not modelled |

What is hard in it, and hardly reached by the tests of the repository (unit tests
of the Cypher builder, the schema engine, parsers and filters):

* **Interleaving at awaits.**  A service checks, awaits, and writes: the node it
  found may be gone, the cardinality it counted may have changed, the name it
  looked up may be taken.  There are no transactions around check and write.
* **Partial failure.**  A statement may commit and its reply be lost; the audit
  record is written best-effort after the node, the event after both; a pipeline
  logs what fails and goes on; a replacement of a device stops half way.
* **Two ways in.**  The agent's tools call the repositories and so pass by the
  checks, stamps, audit records and events of the services.
* **Several derivations of one schema.**  Which tool is offered, which permission
  guards it, what it executes, and which filters a query may use are derived
  apart from each other, and meet in nothing but names.
* **Mutation in place.**  Validation writes defaults into the caller's dict, and
  mixins are merged into the definitions themselves.
* **Copies that go stale.**  A JWT carries the role of its user; a compliance
  result is about texts that may have been replaced; the total of a page is read
  after its rows.
* **A bus over a connection that comes and goes**: a flag set by callbacks, a
  live dictionary iterated across awaits, at-least-once consumers.
* **State per process.**  The registry is changed in memory by a Git sync, and
  by nothing else, in one process; a restart forgets it.

`PROJECT.json` lists each hazard with its line and the properties that would catch it.

## 2. Modules

Each module below is one component.  Its `MC` module gives TLC an instance, a
module ending in `Proofs` has its theorems.  A property that is a
conjunction is given with the names of its parts.  Operators with a comment that
begins with "Slip" are plausible mistakes in the code; no definition uses them,
and each property is known to fail when one of them takes the place of the operator
below it.

Two small modules are used by several: `Selection.tla` chooses the elements of a sequence
at some of its places, as a list comprehension with a condition does, and `Overlay.tla`
lays functions over one another, as `dict.update` does.

### GraphCrud and AtomicGraph

`GraphCrud.tla` models every create, update and delete of nodes and edges, through
the services (`via = "service"`) and through the agent's tools (`via = "tool"`).

* A request is a program with a counter `pc[r]`; each stage is one await.
  `create_node` goes `idle -> persist -> audit -> emit -> done`; updates and
  deletions look the node up first (`exists`); an edge creation reads its
  `source`, its `target`, counts per constraint (`card_target`, `card_source`) and
  then persists.  The tools start at the repository.
* The database is `nodes` and `edges`; one Cypher statement is one atomic step.
  `Persist` may also lose the reply: the write has taken effect and the handler
  is left by the exception.  `DbFails` is a statement that raises without effect.
  `Audit` may fail and is swallowed.  `Crash` loses all requests in flight.
* The verdicts of validation and permission checks are a free choice: they only
  decide whether a request goes on.  An object created by request `r` has `r` as
  identifier (`uuid4`).
* `applied` and `earlier` are history variables: which writes matched
  something, and which requests had ended when one began.

`AtomicGraph.tla` is the promise: a graph whose nodes and edges appear, disappear
(a node with its edges) and keep their identifiers, in single steps.  `GraphCrud`
instantiates it, with the identifiers given out so far as its `issued`, and
`AtomicGraphSpec` is checked and proved.

Properties: `ReferentialIntegrity`, `DeletedForGood`, `CardinalityEnforced` (for
clients that create edges one at a time; `crud_race` shows why),
`EndpointsAllowed` (services), `NodeReportsTruthful`, `EventsFitAnswers`
(`ReportsTruthful`: an event is untrue in one case only, an edge whose end was
deleted after the checks; `SuccessIsReported`), `ReportsInRealTime`,
`EventuallyReported`.

### NodeProperties

`NodeProperties.tla` models the values: what `validate_node_properties` fills in and
refuses, what `NodeService` stamps, what the repository validates again, what
`CREATE` and `SET` store (no nulls), and what the update event says.  A body is a
partial function from names to values; `body[r]` is the dict a request carries and
mutates; `store` is what each node has.  Formats, lengths, ranges, enums and
patterns are one set `allowed` per attribute.  Requests interleave as in
GraphCrud; deletions are modelled there.

Properties: `Conforms` (every node satisfies its schema, although updates are validated
apart from what is stored, but for the attributes that the agent's update tool, which
nothing validates, was the last to write: that tool spoils no other attribute, and what it
spoiled is right again after a validated write of it; section 5 has the promise),
`ValuesAccountedFor` (`TypeOK`, `UpdaterRecorded`, and `EventsTellTheValue`: an
attribute whose updates did not overlap has the value the last event says),
`OnlyNamedOrDefaulted`.

### EventBus

`EventBus.tla` models the connection with its callbacks, `connect`, `close`,
`publish`, the local dispatch and the durable consumer.  The NATS client and server
are external: messages travel in order, may be lost with the connection, are
refused without a stream, and are dropped when their message id is known; what is
not acknowledged comes again.  `at[e]` is the position of the two nested loops of
`_dispatch_local` over the live dict and the live list of handlers.

Properties: `LocalDelivery` (`TypeOK`, `HeardByAll`), `RaisesForNewPatterns` (a publish
raises exactly when a pattern is subscribed to for the first time while one of its
handlers runs: the live dict grows under the loop, `bus.py:349`), `AcksTruthful`
(`AckedIsStored`, for events with one correlation id each, and `HandledBeforeAck`),
`ConnectedIsTrue`, `PublishEnds`, `EventuallyHandled`.

The `Emit` steps of GraphCrud, NodeProperties and Ingestion rest on `PublishEnds` and
`RaisesForNewPatterns`: a service publishes after its write and returns after that.  As
it stands, no code of the repository calls `subscribe`, so that they never raise.

### GitSync

`GitSync.tla` models `SyncService`, the routes that start it, and the schema registry
it writes to.

* `registry` holds the two dicts a sync can reach, `_node_types` and `_mixins`, as
  partial functions.  Every definition and every merged attribute carries its
  origin, a source with a commit (`"core"` for the directories on disk), because
  that is what the properties tell apart.  `Register` is `_register` (later
  definitions replace earlier ones), `Resolve` is `_resolve_mixins`, `Applied` is
  `_apply_schemas`: the whole directory is parsed before anything is registered.
* `pc[r]` is a call of `sync()`: `clone -> files* -> stamp -> record -> announce
  -> done`, with `fail` for the `except` clause.  There is no lock, so that two
  calls for one source may overlap.  Cloning runs `git` without an `await`, and so
  does the schemas domain; `Advance` therefore runs the loop over the mappings up
  to the next domain that awaits the database (`"files"`) in one step.  That domain
  writes nothing (`WriteFiles`): its statements have `SET` before `ON CREATE SET`,
  each raises, and each exception is logged.
* `Stamp` and `Record` have three outcomes: done, done with the reply lost, not
  done.  `RecordFailure` records the failure if it can.  `Restart` loses what runs
  and reloads the registry from disk, where nothing of the sources is.
* `stamped` and `overlapped` are history variables: sources this process stamped
  "success", and sources that had two calls under way.

Properties: `MixinsResolved` (`MixinsMerged` and `OwnDefinitionsWin`, whatever order
files, mixins and syncs come in), `RegistryFitsStamps` (`NeverBehind`: a source
stamped as synced is in force, at the stamped commit or a later one;
`AppliedAsAWhole`: whatever syncs overlap, of a source with anything in the registry some
commit is there as a whole, and without overlap that is the newest one),
`RecordsFitAnswers` (`TypeOK`, `SuccessIsRecorded`, `StatusTruthful`),
`DeletedStaysDeleted`.  `NeverBehind` excludes sources with overlapping calls: there, an
older clone may be applied, or stamped, after a newer one, which is a hazard in the list.
That a directory is applied as a whole or not at all is what the code does; the
documentation describes it file by file, see section 5.

### Permissions and Accounts

`Permissions.tla` is `auth/rbac.py`, a pure decision: the roles with what they
inherit, the patterns of permission strings, the permissions of groups, and the
explanation that `/permissions/check` gives of them.  Accounts, Queries and Agent use it.

`Accounts.tla` models `routers/auth.py`, the backends, the middleware and the start
of the process.  A request comes with a credential (none, a JWT, an API token),
which `Resolve` turns into a context with the role in the JWT, or of the owner
of the token; `Enrich` adds the permissions of groups, and goes on without them
when the database call fails; then what the operation requires is looked up, and the
operation runs from one database call to the next.  `Written` is the Cypher
statement of each operation.  A restart deletes the users named `admin`, and the
first login into an empty database seeds one.  The history `seen[r]` holds the
databases that stood while `r` was under way, because that is as much as a code
without transactions can promise: each decision refers to one of them.

Properties: `NamesUnique` (two users, or two groups, share a name only when their
creations overlapped), `PrivilegesJustified` (`TokensJustified`, `AccessJustified`,
`ChangeJustified`), `AccountsWellFormed` (`TypeOK`, `NothingDangles`: no membership or
permission without its user or group), `SuccessMeansDone`.

### Mapping and Ingestion

`Mapping.tla` is what the mapping engine makes of parsed records: an entry of a mapping
and a record give a node or an edge mutation, with templates that print a field; an
entry whose expression raises is left out and is an error.  `Ingestion.tla` is the
pipeline: for each device and command it collects, parses, maps, writes edges and
batches of nodes (`bulk_upsert`), and ends with an event; the outcome of collecting and
parsing is an input (`Output`), and so is whether the text of a mapping definition is a
mapping at all (`malformed`).  One that is not raises out of `execute()`, since
`apply_mapping` is called outside of any `try` (`pipeline.py:228`): the run is `raised`
and announces nothing.  The two runs of the model interleave at each database call, a
call may fail, and the process may end.  A batch is one statement, but no constraint
makes two of them wait for each other, so that an upsert creates what was not there when
it began (`known`).

Properties: `GraphTrueToRuns` (`TypeOK`, `ProvenanceTrue`, `KeysUnique`,
`DryRunsWriteNothing`), `RunsComplete` (`EdgesByTheNextRun`: an edge is written before the
nodes of its own command, so it may take a second run; `EveryPairTried`: a device,
command, record or entry that fails keeps no other from being tried, and the errors are
those that failed), `RunsEnd`.  A batch sets the attributes of its first item only
(`node_repository.py:243`).  What holds of a node is therefore this: its keys and those
attributes come from one item, and each other attribute from some item of a batch that
had it first.

### QuerySchema, CypherQuery, Reports and Queries

`QuerySchema.tla` is the validator: paths through aliases, the operators of each type,
pagination, and the paths the schema advertises.  `CypherQuery.tla` is the compiler, whose
state is the list of `MATCH` clauses with the variables they bind, and the meaning of what
it compiles to: the bindings of the clauses in a graph, with the three-valued comparisons
of Cypher.  `Reports.tla` does the same for reports, with columns and aggregates.
`Queries.tla` puts them to use: `POST /queries/structured`, the query, list, find, count
and lookup tools of the agent, reports and their CSV, Cypher, saved queries and saved
reports.  The rows and the total are read in two transactions, and another writer may come
between them, who deletes, writes and creates nodes and edges (`Changed`).  What is
advertised is `AllowedPaths`, of `get_allowed_filter_paths`, and `ToolPaths`, of the
descriptions of the query tools.

The reference that answers are compared with (`Meant`) does not use the compiler: a
node is meant by a query when, for each relationship it has conditions on, one edge
fulfils all of them.

Properties: `RowsTrue` (`AnswersMatch`, `ReportsFiltered`), `ConditionsKept`
(`DirectFiltersKept`: query and list tools never drop a condition on the objects
themselves, and never ask without one if they were given some; `FindFiltersReach`: a find
tool's filters on the other end reach the query exactly under the name its own name ends
with; `AdvertisedWork`: of the advertised paths, those that lead from the type (`Leads`)
are accepted, and the others are refused, or left out by a query tool that has
conditions on the objects themselves), `PagesComplete`, `EntitledChanges`.  Section 5 has
what the documents promise of the two.

### Tools and Agent

`Tools.tla` derives what the agent gets from a schema: the tools with their names,
the rule of each (permission, confirmation), the capabilities with the tools behind
them, and, in the other direction, what the executor and the permission check make
of a name.  A name is the sequence of its pieces, so that plurals, underscores and
names that contain other names are there.  `Agent.tla` is the loop: `POST /chat` and
`POST /chat/stream`, the providers, the conversation.  The model is external and may
call anything at any time, tools that were not offered and names that nobody
generated included; a chat ends after `MaxRounds`.  `exchange` is what the loop has said
to the model and got back, over all rounds, and `sent` what the adapter of the provider
made of the conversation when the model was asked last, by its `chat` or by its
`chat_stream` (`api`).  A reply without calls ends the loop (`AfterText`).

Properties: `OffersHonest` (`OfferedToolsRun`: a tool that is offered is not denied
and does what it was generated for; `OffersAsListed`), `ToolsWithinBounds`
(`WritesEntitled`, `ConfirmedFirst`), `TranscriptWhole` (`TurnSaved`,
`ResultsFollowCalls`), `EveryChatEnds`.  `WritesEntitled` leaves out what is run for
everybody (`Unasked`: edges, and names no tool has that agent and executor read
differently), and `ResultsFollowCalls` a stream that goes on after a round with calls
(`Unattached`).  Both are in section 5.

### ConfigText, ConfigContexts, Replacement and Infrastructure

`ConfigText.tla` is the comparison of two configurations: the section of a feature, by
indentation or by JSON keys, and what is missing or extra; JSON that is no object raises.
`ConfigContexts.tla` is the choice and the merge of the config contexts of a device, by
weight.  `Replacement.tla` is what a mapping makes of interface names, properties and
relations.  `Infrastructure.tla` composes them with the graph: the context of a device,
checks over several devices, previews and replacements, and the creation of rules and
contexts, each from one database call to the next, with failing calls and devices that
are deleted.  The runs of backups and of intended configurations raise at their first
device (`RunRaises`, section 5) and store nothing.  The texts that checks compare are then
those an administrator stores by statements of his own (`POST /query/cypher`).

Properties: `ComplianceTrue` (`VerdictsTrue`: a stored result agrees with two texts
that the device has had; `OverallAsReported`), `ContextTrue` (the context that is shown
has, for each setting, the value of the heaviest context that applies, of all that were
active when the device was read and perhaps of some made since; for a device nobody has
written to), `ReplacementDone` (a replacement that succeeds has done all that it does,
also as the retry of one that failed half way; no interface comes twice, and no device
changes its identity).

What a replacement does is less than what its documentation says (section 5), and
`ReplacementDone` says how much: `InterfacesMoved` (each interface attached along the
schema's direction has one of its new name at the destination, with its properties),
`RelationsMoved` (relations that start at the device), `LinksMoved` (an interface of the
destination has the links of the one it stands for, or it is attached against the
schema's direction).  It speaks of a replacement that nobody disturbs (`Undisturbed`): both
devices are there, its source is nobody's destination, and who else writes to its
destination replaces the same device by the same mapping.  A property for which the mapping
has a rule, or whose name another one is renamed to, is left out.

## 3. Runs

Every cfg states its own bounds; requests are made at most once each, so all runs
stop and deadlock is not checked.

| Run | Bounds | States | What it shows |
|---|---|---|---|
| `crud_all` | 2 requests, every operation, both ways in, 1 crash, lost replies | 82,208 | all properties of GraphCrud except the two below, refinement of AtomicGraph, every request ends |
| `crud_edges` | 3 requests: edge creations one at a time, deletions at any moment; two node types | 288,011 | `CardinalityEnforced`, `EndpointsAllowed` |
| `crud_race` | 2 edge creations at the same time | violated | the cardinality check and the creation are not one transaction |
| `props_all` | 2 requests, a type with a required, a defaulted and two managed attributes, 21 bodies with nulls, undeclared and internal names | 70,702 | all properties of NodeProperties |
| `bus_local` | 2 events, 2 patterns, 2 handlers each, subscribed to at any moment; with a server, without, closed | 156,170 | `LocalDelivery`, `RaisesForNewPatterns` |
| `bus_nats` | 2 events, 1 loss of the connection, closing at any moment | 92,469 | the rest of EventBus, with liveness |
| `sync_all` | 2 sources, 3 commits of which one does not parse, 2 calls, 1 restart | 1,129,536 | all properties of GitSync |
| `accounts_all` | 2 requests of 31 commands, on an empty and on a small database, lost replies, 1 restart | 104,875 | all properties of Accounts |
| `ingest_all` | 2 runs, dry or not, of 2 commands on 3 devices, 1 fault, 1 definition that may be malformed | 231,585 | all properties of Ingestion |
| `query_all` | questions of every kind over graphs of 3 node types and 3 edge types, one at a time with a writer, and pairs of chores | 1,170,655 | all properties of Queries |
| `agent_all` | every tool of 7 node types and 3 edge types and 6 invented names, 2 rounds, up to 3 requests at a time | 102,435 | all properties of Agent |
| `iac_all` | every text of up to 3 lines against 3 intended ones, every small JSON object, pairs of checks and of replacements, contexts of a device, 1 fault | 159,829 | all properties of Infrastructure |

**Why the bounds are enough to be interesting.**  Most hazards here are an
interleaving of two requests: a check of one and a write of the other.  Three are
needed where two creations must not overlap and a third request interferes
(`crud_edges`), or where a conversation is deleted while two chats use it
(`agent_all`).

* CRUD: two nodes and one edge give each request something that exists, something
  another request deletes, and something it creates itself.  In `props_all` `"u"` is a
  value one attribute refuses and another takes.
* Bus: two events let one be in the handler while the other is on the wire at the
  moment the connection goes.
* Sync: the first plugin changes a type and a mixin from commit to commit, grows the
  mixin that is on disk, and has a commit with one bad file; the second one's type
  uses the mixin of the first, so that the order of the syncs decides which
  definitions are there to be merged.
* Accounts: an empty database makes a login seed, a small one has an administrator, a
  member of a group with a permission, a JWT of each kind and an API token; every
  operation meets every other, also on the same user, group, name or token.
* Ingestion: two mappings, and two entries of one, make nodes of one label with different
  attributes; a record overrides the host name, so that two devices write one node; a
  command is down, a record garbled, an entry raises, a batch has a key `MERGE` refuses,
  and the edge joins nodes of one command.
* Queries: an edge type with two kinds of targets, one with a type at both of its ends
  beside another, an edge in either direction, nodes
  without edges and with two, values that are null, an attribute that is sensitive and
  one that is not filterable; each operator class appears, alone and in pairs that
  share a relationship or must not.
* Agent: a slug that ends in `s`, one with underscores, an irregular plural, a type
  with a prefix, a hidden type and one that is not exposed, edge names inside of tool
  names; a limit on tools that half of them exceed.
* Infrastructure: texts of up to three lines with heads, children, separators and a child
  that looks like a head; three contexts with one, several and no scope; mappings
  that match by platform and by name; a replacement of a device that itself replaces.
  `Elements` holds as many interfaces as two replacements can add.

What no run covers: three concurrent writers of one node, more than one crash, fault
or loss of the connection, more than two rounds of tool calls.

**Fairness.**  `crud_all` assumes weak fairness of each request's next step: the
event loop resumes a coroutine whose await has ended, and the driver ends every
call by a reply or an exception.  `ingest_all` and `agent_all` assume the same of
runs and requests (the clients of model providers have timeouts).  Crashes, faults
and clients are not fair.  `bus_nats` assumes that `nats-py` reconnects and runs its
callbacks, that a `publish` returns (JetStream's publish has a timeout), that the
server delivers what is not acknowledged, and that a durable handler called again
and again succeeds in the end (strong fairness of `Handle`, since every failure
takes the message out of hand).  Losses, closing, connecting and subscribing are not
fair.  The other modules state safety only: their requests end as GraphCrud's do.

**Fault cases.**  A database call may fail without effect, or take effect and lose its
reply; the process may stop; NATS messages and acknowledgements may be lost or
repeated.  The order of messages on one connection is kept.

## 4. Proofs

All theorems hold for every value of the constants that satisfies the named
assumptions of the module, which TLC evaluates on the instances above.

`GraphCrudProofs.tla`, for every set of requests, types and initial objects:

* `TypeCorrect`: `Spec => []TypeOK`.
* `GraphWellFormed`, `DeletionFinal`: `ReferentialIntegrity` is not inductive.  The
  strengthening says of the identifiers what uuid4 gives: an object whose
  identifier is a request was created by that request, which is in `applied` and
  asked for a creation of that kind; a request that has not written is not in
  `applied`.  A creation therefore finds its identifier free, and a deletion
  followed by a late `SET` finds no match.
* `CardinalityKept`: under `SerialEdges`, what a creation counted stays true until
  it writes, because only another creation could invalidate it.  The invariant
  says which counts are still zero at each stage.
* `Implements == Spec => AtomicGraphSpec`: every step but `Persist` leaves the graph
  and the issued identifiers alone; `Persist` maps to the abstract operation or, when
  nothing matched, to a stutter.
* `NodeReportsAreTrue`, `ReportsKeepRealTime`: the invariant ties the stages after the
  write to `applied`, and says that whatever had ended when a request began has ended
  still; the log only ever grows by a request that is still running, which cannot be in
  anyone's `earlier`.
* `EventsAndAnswersFit`, `EndpointsStayAllowed`: `Told` says that a logged request either
  wrote (`applied`) or is excused: it wanted an edge one end of which was deleted.  For
  that, `Named` says that the ends of a requested edge were issued, and `Gone` that an
  issued node that is not there was deleted: a `CREATE` whose `MATCH` finds no end can
  only be explained so.
  `EndsChecked` says that what an endpoint check found still fits until the node is
  deleted, since identifiers are not used again.  `EndpointsStayAllowed` needs `"tool"
  \notin Vias`: the agent's tool creates edges without the checks.

`GraphAssumption` types the constants and keeps the identifiers of initial objects
apart from requests; `InitialGraphAssumption` says the database at the start is one
the checks could have let through.

`NodePropertiesProofs.tla`: `NodesConform`, `OthersKeepTheirValues` and
`ValuesAreAccountedFor`.  The invariant of the first two says of each stage what the body
of a request has become: validated, then stamped, then validated again, and in each case
good enough to be added to a conforming node without making it anything else.  A `SET` of
a good body keeps every attribute it does not name.  `NodesConform` needs
`SchemaDeclares`, that a type declares the lifecycle attributes that the service stamps
and lets them be anything; the metadata mixin of the repository does, and a type without
it would refuse every stamped body.  A write that the agent's tool does not validate is
anything; it is the last to have written each attribute it names, until another write
names that attribute.  `ValuesAreAccountedFor` needs nothing of the schema.  Its invariant
`ValueInv` says of each request what it has written and reported (`Standing`); that writes
and events are in real-time order and events carry what was written (`InOrder`); and that
an attribute is what the last write that named it says (`LastTells`).  The last event
about an attribute is then that of its last writer, unless its writers overlapped.

`EventBusProofs.tla`:

* `SubscribersHear`: a position in two nested loops over a live dict.  The invariant
  places every handler that subscribed before the dispatch behind the position
  (heard) or ahead of it; patterns are compared by the order of their insertion, and
  `LeastElement` gives the next one.  Handlers are only appended, and a new pattern
  comes last, so that nothing moves from ahead of the position to behind it.
* `RaisesAreForNewPatterns`: the dispatch compares the size of the dict with the one it began
  with before each entry.  The invariant says that while it is under way that size is
  the number of patterns if and only if no pattern came since.
* `AcknowledgementsAreTrue` needs `OwnIdentifiers`, that no two events share an id of
  the stream: a second one with a known id is acknowledged without being stored.
* `ConnectionIsKnown`: every callback that is still to run is accounted for.

`GitSyncProofs.tla`, for all sources, contents, mappings and numbers of commits and
syncs:

* `MixinsAreResolved`: three steps write the registry (`Clone`, `WriteFiles`, `Restart`),
  and each resolves the mixins after it has registered definitions.  `ResolveFact` says
  that resolving any well formed registry merges all of it, also the types registered
  long ago; `RegisterFact` that registering parsed definitions keeps the registry well
  formed, which includes that a type's own attributes are its own.  The rest of the
  invariant (`Clones`) says that a sync in the middle of its mappings has a commit to
  read from.
* `RecordsAreTruthful`, `DeletedSourcesStay`: the invariant `RecordsInv` says of each call
  where it is in its mappings, and that as long as it has no error the schemas among the
  mappings before that place were valid at the commit it cloned (`Placed`); and that it
  has a record only once it is past recording (`Recorded`).  A call that no step touches
  keeps both (`OthersStay`), so that each step is about one call (`OneMoves`).
* `RegistryFits`: the invariant `FitInv` adds what relates the registry to the commits.  Of
  a source without overlapping syncs, each entry in the registry is from a commit whose
  other definitions are there too, or later ones (`Whole`); of any source, overlapping syncs
  or not, some commit is there as a whole (`Composed`); no entry is later than the
  head of the branch or than what the sync under way has cloned (`Entries`), which is
  why applying that clone never puts back something older (`LaterStays`, and it is here
  that overlap would break the proof); and what a call without errors has passed is in
  force (`InForce`), so that its stamp is true.  Definitions that two sources both have
  are left out (`Alone`): the last sync wins there.

`AccountsProofs.tla`, for every set of commands and databases to start from
(`CommandAssumption`, `WorldAssumption`):

* `AccountsStayWellFormed`: each statement of `Written` keeps a well formed database
  so (`WriteEffect`); additions match on both ends, deletions detach.
* `PrivilegesAreJustified`, `SuccessIsDone`: of each request and stage the invariant
  `Justified(r)` says what the request has found out, each time about some database
  in `seen[r]`.  `seen[r]` only grows until the request ends, so what was justified
  stays so, and the invariant of one request is not disturbed by another; the rest
  is one lemma per stage.
* `NamesAreUnique`: identifiers are drawn by requests (`UuidsAreNew`), names are never
  changed (`NamesStay`), and a creation has seen its name free in a database of its
  own `seen`.  A second owner of the name was therefore created after that, while
  the first was under way.

`AgentProofs.tla`, for every schema, any providers, commands and number of rounds.
`ScenarioAssumption` says that a chat never names a conversation whose identifier is
still to be drawn, and that a role is one of the five.

* `TranscriptsAreWhole`: `Apart` says that nobody else talks in the conversation that a
  request made, or will make; `Kept`, that each message kept is a question, or an answer
  with its question before it, that none is there twice, and that the turn of an answered
  chat is there unless its conversation was deleted; `Rounds`, that of the calls of the
  last round those are without a result that the loop has still to take.  What `chat`
  sends is then whole whenever the model is asked, because a round is left with all its
  calls answered, and what a stream sends is the history alone, as long as it has made no
  call.
* `ToolsStayWithinBounds` is about names: a tool is generated under one, its rule is kept
  under it, `_check_tool_permission` and the executor take it apart again, each in its own
  way.  `NamesAssumption` keeps the slugs and plurals of different types from reading as
  each other's and a prefix from being `create`, `update` or `delete`, which the schemas
  of the repository fulfil.  Under it, `AllToolsGood` and `AllRulesGood` say what all the
  names of a schema look like (`FlattenFacts`: the list is that of the types one after
  another), `WritesAsked` that the type the executor writes is the type the permission is
  about, and `ConfirmedNames` that what is to be confirmed has a name that begins with
  `delete`, whose rule asks for confirmation.  The invariant `Fair` says of each call that
  it ran if and only if its user was granted what the name requires, and that `POST /chat`
  took none of the tools it was given that need confirmation.  The names of `Unasked` are
  no part of it.
* `OffersAreHonest` reads the same names in the other direction, from the generator to the
  executor.  `Made` says from which type, and by which template, each generated tool is; a
  name comes apart again at its joining word (`Parted`, `JoinedSplits`), so that the type
  and the attribute the executor finds are those the tool was generated for, and the
  permission of its rule is the one the executor asks for.  Readers may read, so that a tool
  without a rule is offered rightly if it writes nothing.  `WordsAssumption` is what this
  needs of a schema: `by`, `to`, `from` and `via` are in no slug and no plural, and types
  differ in their names and their plurals; the schemas of the repository fulfil it.

`QueriesProofs.tla`, for every schema, any commands, graphs and saved texts
(`SchemaAssumption`: attribute types are known ones, edge types and their ends come in
lists; `CommandAssumption`: limits and offsets are natural numbers, as `Pagination` in
`query_engine/models.py` has them, conditions and columns are lists; `GraphAssumption`: a
graph is finite and its ids have an order, here that of numbers):

* `ConditionsAreKept`: `ListedResolves` and `AdvertisedValid` follow a path from what the
  schema advertises through the validator; `DirectFacts` says what choosing the direct
  conditions keeps.  The invariant `AsParsed` says that a query stays the one that was
  asked, but for the page, and that it is refused exactly when validation refuses it.  A
  path leads from a type (`Leads`) when its alias stands for the edge type it was
  advertised for (several may share one) and its far type is at the end that the direction
  from this type reaches; `AdvertisedValid` is about both kinds.
* `ChangesAreEntitled`: an action property; `Checked` says which permissions a client has
  that is about to write, or to run Cypher.
* `RowsAreTrue` is the correctness of the compiler.  `Compiled` says what its state is after
  each condition: which variable stands for which alias, and that each condition is asked of
  the variable of its own path.  `BindingsAre` gives the meaning of the clauses, a fold over
  bindings, as the walks along them in the graph, and `FoundIsMeant` that a node begins such
  a walk if and only if it is meant.  For reports, columns are compiled into the same state
  beside the filters, in the order of the columns (`Beside`, `ColumnsBeside`), and
  `RowIsMeant` says that a row without optional columns comes from a node that fulfils them.
  `OrdersAre` says that a sorted answer has each node once.  The invariant `ReadInv` carries
  this from the reads to the answer, each about the graph it was read from (`at`), and
  `GraphInv` says that other writers leave a graph finite.
* `PagesAreComplete`: while the graph stays as it is, the default order, by id, is one
  sequence (`OneOrder`).  `PagesInv` says that what a client has read so far is that
  sequence up to the place where its next page begins (`NextBefore`), and `PagesJoin` that
  the next page continues it; a page that is not full ends it.

`InfrastructureProofs.tla`, for all scenes that fit (`SceneAssumption`: the catalogue is
finite, its contexts are well formed and its mappings have their fields, `CatalogFits`;
texts and results that are there at first are of the form the program gives them,
`RecordsFit`; an interface belongs to one device, as `HAS_INTERFACE` has it in
`schemas/core/edges.yaml`, and no device has two of one name to begin with, `GraphFits`):

* `ContextIsTrue`: `MergedIs` gives the merge of contexts as a chain of `DeepMerge`s,
  and `OneMore`, along that chain, that each leaf has the value of the last context
  that applies and sets it, which in an order by weight is the heaviest (`MergedWins`).
  The invariant `ContextInv` says that what was read of a device is what it is while
  nobody writes to it (`Current`), that contexts are only added (`Ready`), and so that what
  is merged is right for a set of contexts between those of the two reads.
* `ComplianceIsTrue` has two halves.  For the verdicts, `WalkIs` gives the walk over the
  lines of a configuration as a chain of states, `SectionIs` the section of a feature as
  the lines below the head that is open, and `CompareIs` that, where sections are exact,
  comparing them is comparing what the configurations say under the heads of the rule; the
  invariant `VerdictInv` says that what a check reads are texts that the device has had
  (`Reading`, `TextsOK`).  For what is reported, `ReportInv` says that while a check is alone
  the results of the rules done so far are as it found them (`InHand`), and that its last
  outcome of a device agrees with them (`ReportedOK`): another check that writes would be
  one that runs, which `AloneOK` excludes.  A check that ends before it has begun (its
  first look-up fails) writes nothing, so `AloneOK` speaks of those that run.
* `ReplacementIsDone`: an action property of the graph does most of the work.  `Evolves`
  says what any step may do to it: delete a device with its relationships; add an
  interface to a destination, under a name that its device has not; change the properties
  of an interface by a write of a replacement; and nothing else to what is there.  The
  invariant `ReplacementInv` says that what a replacement has read covers what is still
  there of its source, as long as nobody writes to it (`ReadOK`, kept by `StillRead`);
  that what it has shown, followed by what it has to do, is its plan (`PlanOK`); and that
  what it has shown is done (`DoneOK`). An item stays done because interfaces are kept by
  their names and relations by their ends, and because others who replace the same device
  by the same mapping write the same properties to an interface (`WritersAgree`), unless
  two interfaces of the source get one name, which `Sole` leaves out and `Injective` from
  the property.  A link needs both of its interfaces: the local one is there because the
  interfaces come first in the plan (`PlanFacts`), the remote one because it had its name
  when the link was read (`RemotesNamed`).

Only model-checked:

* all liveness and whatever needs `ENABLED`, which the prover does not reach:
  `EventuallyReported`, `PublishEnds`, `EventuallyHandled`, `RunsEnd`, `EveryChatEnds`;
* `GraphTrueToRuns` and `RunsComplete` of Ingestion.  What they say of a node depends on
  what the mapping entries of one label have in common, which only an instance gives, and
  batches are loaded item by item with a fold that overwrites what an earlier item wrote.

## 5. Divergences

`crud_race` is a run whose property states what the documentation says, and TLC shows
the behaviour that contradicts it: **cardinality can be exceeded**.
`edge_repository.py:35`: `create_edge` counts in reads of its own and writes in a later
transaction; two requests both count zero.  Line 109 and
`docs/core-concepts/edges.md:41` say the cardinality is enforced before the edge
reaches the database.

The others are in the models as the code has them.  Where a property is near, it states
what the code does in place of the promise, and is named:

* **The agent's update tool is not validated.**  `tool_executor.py:427` passes its input to
  the repository; `docs/core-concepts/validation.md:41`: "MCP tools and agent actions go
  through the same validation path. There is no way to bypass schema validation and write
  invalid data to the graph."  `Conforms` says how far the damage goes.
* **One bad schema file fails its whole directory**, at a sync and at the start:
  `yaml_loader.py:133` parses all of it before anything is registered
  (`sync_engine/service.py:324`, `registry.py:55`).
  `docs/plugins-extensions/extending-schema.md:78`: "If a file fails validation, the engine
  logs the error and skips it. Valid files are merged into the schema registry".  See
  `AppliedAsAWhole` and its slip `Applied_FileByFile`, which is what the document says.
* **A malformed mapping definition aborts a run.**  `apply_mapping` at `pipeline.py:228` is
  outside of any `try`, so that text which is no mapping, or has `mappings: null`, raises
  through `execute()`, which neither goes on with the other devices nor announces its
  result; `pipeline.py:4`: "Errors are isolated per-device and per-command so that one
  failure does not abort the entire run."  See `RunsEnd`, `EveryPairTried`.
* **The mapping engine has no custom filters.**  `mapping_engine.py:23` makes an environment
  without those of `filters.py`; `parsers/mappings/cisco_ios_cdp_to_graph.yaml:13` uses
  `extract_hostname` and `normalize_interface_name`: each such entry is an error.
* **Edges are joined and parted for everybody.**  `_check_tool_permission`
  (`agent.py:362-386`) finds no type in `connect_` and `disconnect_` tools and asks
  nothing; an invented plural such as `create_ip_addresss` is no type to `agent.py:400` and
  one to `tool_executor.py:586`.  `agent.py:12`: "It never exceeds the user's permissions",
  `agent.py:74-77` and `docs/ai-assistant/user-equivalent-permissions.md:26`: "no tool call
  reaches the graph without passing a current permission check."  `WritesEntitled` holds of
  the rest.
* **Disconnecting is never confirmed**, and a stream confirms nothing:
  `policy_generator.py:187` gives `disconnect_` tools `requires_confirmation: False`, and
  `run_stream` executes the calls of its fallback at once (`agent.py:251`);
  `user-equivalent-permissions.md:30`: "Tools that perform destructive operations --
  `delete_` and `disconnect_` -- require explicit user confirmation before execution."
  `ConfirmedFirst` holds of what `POST /chat` was given.
* **A stream that goes on after calls sends results without them.**  `chat_stream` of the
  OpenAI-compatible provider sends role and content only (`providers.py:306`);
  `chat.py:202`: "OpenAI requires tool messages to follow an assistant message with
  tool_calls".  `ResultsFollowCalls` holds of the rest.
* **Find tools answer unfiltered.**  They offer `{alias}_filters` (`mcp_generator.py:479`,
  `docs/core-concepts/generated-tools.md:42`: "`find_devices_by_location` accepts
  `located_in_filters`"), and the executor reads the filters under the end of the tool's
  name (`tool_executor.py:239`, here `location_filters`): those under the advertised name
  are dropped.  Under the name that is read, a path is refused unless the alias is that
  name.  `FindFiltersReach` says which is which.
* **Advertised paths are refused.**  The descriptions of query tools list incoming paths
  (`mcp_generator.py:122-135`), which `validate` accepts only of a type that is a source
  too; and `get_allowed_filter_paths` ("Return all valid filter paths",
  `validator.py:437`) lists far types of an edge type for a type at both of its ends, of
  which `validate` accepts the sources only (`validator.py:374`).  See `AdvertisedWork`.
* **Backups and intended configurations are never made.**  `BackupResult` and
  `IntendedResult` require `success` (line 35 of both files) and are made without it,
  outside of the `try` (`backup.py:168`, `intended.py:268`): both runs raise `TypeError` at
  their first device.  `backup.py:10-11`: "Store in Git backup repository", "Record backup
  metadata in graph (provenance)".
* **A replacement transfers less than it says.**  `transformation.py:11-14`: "All IP
  addresses, VLANs, descriptions, and connectivity transferred", "full relationship
  topology". Relations of interfaces (`IP_ON_INTERFACE`, `MAC_ON_INTERFACE`), relations
  that end at the device and properties of relations are not transferred, and an interface
  that the undirected `MERGE` (`transformation.py:349`) attached against the schema's
  direction loses its links.  `ReplacementDone` says what is.
* **`unique_source` of a `many_to_one` edge has no effect.**
  `edge_repository.py:131` looks at the constraint for `one_to_one` and `one_to_many`
  only; `docs/schema-designer/constraints.md:46` gives `many_to_one` as its example.
* **A patch resets defaults.**  `registry.py:211` writes the default of each attribute
  the body lacks, for updates too; `docs/core-concepts/attributes.md:50` says defaults
  are for creation.
* **A patch must repeat the required attributes.**  `node_service.py:148` validates it
  as a whole node; the comment above says "partial -- only the properties being set".
* **Events of edges never reach a stream.**  `bus.py:514`: their subject is
  `netgraphy.edge.>`, and no stream has it; `bus.py:46` describes the DATA stream as
  "Node and edge lifecycle events".
* **Types of one name replace each other.**  `registry.py:74` assigns by name;
  `docs/plugins-extensions/extending-schema.md:88` promises a conflict error.
* **A start can leave an installation without an administrator.**  `app.py:114` deletes
  the users named `admin` and logs "Cleared stale admin users for re-seeding";
  `auth.py:107` seeds one only when there are no users at all.
* **Filters of a report can be void.**  `report_compiler.py:279` puts the filters on
  columns of related nodes after an `OPTIONAL MATCH`; `report_models.py:6` describes them
  as filters.
* **Traversal tools never run.**  They are offered to everybody and refused when
  called; `agent.py:288`: "The model must never see tools it cannot actually execute".

## 6. Limits

### What the models show besides

These are facts of the code that the properties exclude by a condition, or that follow
from a definition; they are worth a look by its owners.

* **Events.**  A pattern that is subscribed to for the first time during a dispatch makes
  that publish raise.  Events of one class that share a correlation id are stored once.
* **Git sync.**  Overlapping syncs of one source may leave the older schema in force;
  attributes of a mixin that a later commit drops stay; the files of the other domains
  are never written; `git clone` holds up the event loop.
* **Accounts.**  A JWT keeps its role until it expires; a failing look-up of groups lets
  the request go on with the role alone; two overlapping creations may give a name
  twice; `POST /groups/{id}/permissions` and `POST /api-tokens` answer success although the
  group or user is gone.
* **Ingestion.**  Edges are written before the nodes of their command, and counted as
  applied whether or not they matched; an upsert that fails leaves no error in the result.
  A batch has the keys of the first mutation of its label and the attributes of its first
  item; overlapping runs may create one node twice, since there is no constraint
  (`ensure_indexes` has no caller).  `KeysUnique` leaves out labels that mappings give
  different keys.
  The worker's task imports a package that the repository does not have, so that runs
  stay queued; `POST /ingestion/preview` passes raw dicts to the pipeline; the router
  stores `template` and the pipeline reads `template_content`; filters are stored as
  `python_source` and `is_active` and loaded as `source` and `active`; `register_parser`
  has `SET` before `ON CREATE SET`; `GET /parsers/command-bundles` is shadowed by an
  earlier route.
* **Queries.**  Existence and count of one relationship in one query replace each other;
  two conditions on the other end of one relationship, and a sort by a field that is not
  returned, are Cypher errors; edges of a type to itself are incoming for queries and
  outgoing for reports; ties of a sort make pages overlap; the total of a report counts
  before `DISTINCT`; equal headers are an error; deleting a saved report answers 204
  whatever it did; `query_service.py:65` speaks of operators where `rbac.py` requires an
  administrator; a query that only counts has the default limit of 50, and is refused for
  a type whose `max_page_size` is below; dotted fields in `group_by` are passed over.
* **Agent.**  Tools without a rule are offered to everybody; two aliases or edge types
  may share a tool name; a `tool_name_prefix` keeps a tool from being dispatched; some
  tools that capabilities name are not generated; there is no endpoint that
  confirms, and a deletion outside of the tools that were sent is not confirmed; the
  history is the oldest messages of a conversation; the owner of a conversation is not
  compared; a failed chat leaves its question without an answer; the conversion for
  Anthropic drops calls, the stream for OpenAI drops tools; the fallback of a stream
  repeats its text and runs calls without confirmation.
* **Infrastructure.**  A match inside of a match ends the outer section; falsy JSON values
  compare equal; two rules of one feature share a result, and results of removed rules and
  devices remain; one malformed scope fails every context preview; JSON that is no object
  makes a check of its device an error; a device that is named twice in a check has the
  results of the second time, so that `OverallAsReported` speaks of its last outcome; a
  device deleted between read and write counts as a success; interface names that collide
  overwrite each other; the fallback by platform prefers mappings for any model; a mapping
  given by name is used whatever its status; a device may replace itself; the `id` of an
  interface is copied unless the mapping drops it.

### What is left out

* **Reads** that feed no decision (list, get, counts, histories, previews of syncs).
* **Values** are as fine as the properties need: an attribute has a set of allowed
  values in place of types, ranges and patterns; names, timestamps, headers, texts and
  logging are left out.  Expressions in templates print a field, or raise.
* **Verdicts** of validation and permission are a free choice in GraphCrud; those of
  validation are computed in NodeProperties, those of permission in Permissions.
* **Schema generators** other than the agent's render Python, TypeScript, OpenAPI and
  Markdown, and keep no state.  **Documentation, health, developer and architecture
  endpoints** are reads or single statements.
* **Schema migration** (`services/schema_service.py`): `ensure_indexes` has no caller; a
  migration is a loop of independent statements, generated from a diff, and no other
  component reads what it leaves half done.
* **Worker**: `execute_job` and `execute_sync` are skeletons that nothing dispatches.
* **Accounts**: LDAP, whose library is no dependency, and single sign-on; only the way
  a login falls through to them is modelled.  The signing key is configured.
* **Queries**: audit records are external; a binding of clauses is computed as Neo4j does
  for `MATCH`; of several sort fields the first is compiled; the descriptions of tools stop
  after ten attributes and eight relationships, which is left out.
* **Agent**: the prompt, tracing, and titles of conversations; what the tools read is in
  Queries, and what they write in GraphCrud.
* **Infrastructure**: git, the filters an administrator edits, and list endpoints; a
  compliance result is merged as if a constraint kept it single; of several scope fields
  that are malformed the first one counts; the
  direction of a relation merged without one is the database's choice; several reads
  with no use in between are one step; interfaces come in one order.
* **Web client**: a rendering of the API's answers.
* **Time** is not modelled: tokens do not expire, and streams keep their messages.
* **External**: Neo4j is a set of atomic statements with read-committed isolation
  between them; NATS is a server with streams, message ids and acknowledgements, as
  far as `bus.py` uses them; `git` gives the head of a branch or fails; the model behind
  the agent answers anything.

No module uses a recursive operator.

## 7. Plan

Done: the components above, with eight modules of proofs.  Next, most important first:

1. Proofs: `KeysUnique`, `EveryPairTried` and `ProvenanceTrue` of Ingestion.
2. The runs of backup and of intended configurations, once their results can be made
   (`backup.py:168`, `intended.py:268`): storing a text, and its race with a check.
3. Larger instances: three writers of one node, two faults in one run.
4. Schema migration, once something reads what a migration has done, and the worker, once
   its tasks can run.
