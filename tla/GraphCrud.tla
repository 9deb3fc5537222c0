------------------------------- MODULE GraphCrud -------------------------------
(*****************************************************************************)
(* Node and edge CRUD: NodeService and EdgeService (apps/api), the           *)
(* repositories below them (packages/graph_db) and the agent's tool executor *)
(* that calls the repositories directly.                                     *)
(*                                                                           *)
(* Requests run concurrently in one asyncio process.  Every await is a point *)
(* where another request may run, so a request is a small program with a     *)
(* counter, and each database round trip is one step of it.  The database    *)
(* is Neo4j: one Cypher statement is one atomic step.  A statement may also  *)
(* fail, or take effect and still raise because the reply is lost.  The      *)
(* process may crash: requests in flight vanish, the database stays.         *)
(*                                                                           *)
(* Abstractions: property values, provenance and permissions only decide     *)
(* whether the synchronous validate and authorize steps reject the request,  *)
(* so their verdict is a free choice.  (NodeProperties.tla models values.)    *)
(* An object created by a request carries that request as its identifier:    *)
(* uuid4 gives every creation an identifier of its own.                      *)
(*****************************************************************************)
EXTENDS Naturals, Sequences, FiniteSets

CONSTANTS
  Requests,        \* requests that may be made; each is made at most once
  NodeTypes,       \* node types of the schema registry
  EdgeTypes,       \* edge types of the schema registry
  EdgeDef,         \* edge type -> [cardinality, unique_source, unique_target,
                   \*               source, target] (sets of allowed node types)
  Nodes0,          \* nodes in the database at the start
  Edges0,          \* edges in the database at the start
  Ops,             \* operations the clients use in this instance
  Vias,            \* paths they use: a subset of {"service", "tool"}
  SerialEdges,     \* TRUE: clients wait for one edge creation before the next
  MaxCrashes       \* bound on process crashes

Cardinalities == {"one_to_one", "one_to_many", "many_to_one", "many_to_many"}

NodeIds == {n.id : n \in Nodes0} \union Requests
EdgeIds == {e.id : e \in Edges0} \union Requests

Node == [id : NodeIds, type : NodeTypes]
Edge == [id : EdgeIds, type : EdgeTypes, src : NodeIds, dst : NodeIds]

\* Cardinality enforcement as EdgeRepository._check_cardinality decides it.
ChecksTarget(t) ==
  /\ EdgeDef[t].cardinality \in {"one_to_one", "many_to_one"}
  /\ EdgeDef[t].unique_target

ChecksSource(t) ==
  /\ EdgeDef[t].cardinality \in {"one_to_one", "one_to_many"}
  /\ EdgeDef[t].unique_source

ASSUME GraphAssumption ==
  /\ MaxCrashes \in Nat
  /\ SerialEdges \in BOOLEAN
  /\ EdgeDef \in [EdgeTypes -> [cardinality : Cardinalities,
                                unique_source : BOOLEAN, unique_target : BOOLEAN,
                                source : SUBSET NodeTypes, target : SUBSET NodeTypes]]
  /\ Nodes0 \subseteq Node
  /\ Edges0 \subseteq Edge
  /\ {n.id : n \in Nodes0} \intersect Requests = {}
  /\ {e.id : e \in Edges0} \intersect Requests = {}

\* The database at the start is one the checks below could have let through.
ASSUME InitialGraphAssumption ==
  /\ \A n, m \in Nodes0 : n.id = m.id => n = m
  /\ \A e, f \in Edges0 : e.id = f.id => e = f
  /\ \A e \in Edges0 :
       /\ \E n \in Nodes0 : n.id = e.src /\ n.type \in EdgeDef[e.type].source
       /\ \E n \in Nodes0 : n.id = e.dst /\ n.type \in EdgeDef[e.type].target
  /\ \A e, f \in Edges0 : e.type = f.type =>
       /\ ChecksTarget(e.type) /\ e.dst = f.dst => e = f
       /\ ChecksSource(e.type) /\ e.src = f.src => e = f

--------------------------------------------------------------------------------
\* What a client asks for.
NodeOps == {"create_node", "update_node", "delete_node"}
EdgeOps == {"create_edge", "update_edge", "delete_edge", "disconnect"}

Call ==
  [op : {"create_node"}, type : NodeTypes, via : {"service", "tool"}]
  \union [op : {"update_node", "delete_node"}, type : NodeTypes, id : NodeIds,
          via : {"service", "tool"}]
  \union [op : {"create_edge"}, type : EdgeTypes, src : NodeIds, dst : NodeIds,
          via : {"service", "tool"}]
  \union [op : {"update_edge", "delete_edge"}, type : EdgeTypes, id : EdgeIds,
          via : {"service"}]
  \union [op : {"disconnect"}, type : EdgeTypes, src : NodeIds, dst : NodeIds,
          via : {"tool"}]

NoCall == [op |-> "none"]

VARIABLES
  nodes,     \* nodes in the database
  edges,     \* relationships in the database
  pc,        \* where each request is
  call,      \* what each request asked for
  audited,   \* requests whose _AuditEvent node is in the database
  log,       \* requests in the order in which their events were dispatched
  applied,   \* history: requests whose write changed or matched something
  earlier,   \* history: requests that had ended when each one began
  crashes    \* number of crashes so far

db    == <<nodes, edges, applied>>
vars  == <<nodes, edges, pc, call, audited, log, applied, earlier, crashes>>

Ended  == {"done", "failed", "lost"}
Stages == {"idle", "exists", "source", "target", "card_target", "card_source",
           "persist", "audit", "emit"} \union Ended

InFlight(r) == pc[r] \notin Ended \union {"idle"}

Init ==
  /\ nodes = Nodes0
  /\ edges = Edges0
  /\ pc = [r \in Requests |-> "idle"]
  /\ call = [r \in Requests |-> NoCall]
  /\ audited = {}
  /\ log = <<>>
  /\ applied = {}
  /\ earlier = [r \in Requests |-> {}]
  /\ crashes = 0

Goto(r, stage) == pc' = [pc EXCEPT ![r] = stage]

--------------------------------------------------------------------------------
(* What the database answers.                                                *)

\* NodeRepository.get_node over a set of labels.
HasNode(id, types) == \E n \in nodes : n.id = id /\ n.type \in types

Inbound(t, id)  == {e \in edges : e.type = t /\ e.dst = id}
Outbound(t, id) == {e \in edges : e.type = t /\ e.src = id}

\* Edges the write of an edge operation matches.
MatchedEdges(c) ==
  IF c.op = "disconnect" THEN Outbound(c.type, c.src) \intersect Inbound(c.type, c.dst)
                         ELSE {e \in edges : e.type = c.type /\ e.id = c.id}

\* Whether the write of call c finds anything to work on.  CREATE needs no
\* match; an edge creation matches both ends by id alone, without a label.
Matches(c) ==
  CASE c.op = "create_node" -> TRUE
    [] c.op \in {"update_node", "delete_node"} -> HasNode(c.id, {c.type})
    [] c.op = "create_edge" -> HasNode(c.src, NodeTypes) /\ HasNode(c.dst, NodeTypes)
    [] OTHER -> MatchedEdges(c) # {}

--------------------------------------------------------------------------------
(* Where a request goes next.                                                *)

\* create_edge runs the unique_target query, then the unique_source query.
AfterTargetCheck(t) == IF ChecksSource(t) THEN "card_source" ELSE "persist"
\* Slip: only the source is checked.
FirstCheck_SourceOnly(t) == AfterTargetCheck(t)
FirstCheck(t) == IF ChecksTarget(t) THEN "card_target" ELSE AfterTargetCheck(t)

\* The first await of the handler.  The tool executor goes to the repository.
FirstStage(c) ==
  IF c.op = "create_edge" THEN
    IF c.via = "service" THEN "source" ELSE FirstCheck(c.type)
  ELSE IF c.op \in {"update_node", "delete_node"} /\ c.via = "service"
    THEN "exists" ELSE "persist"

\* Slip: the row count of an update or a deletion is not looked at.
AfterWrite_IgnoresMatch(c) ==
  IF c.via = "tool" THEN "done" ELSE IF c.op \in NodeOps THEN "audit" ELSE "emit"

\* Slip: an edge update returns without its event.
AfterWrite_SilentUpdate(c) ==
  IF ~Matches(c) /\ c.op # "create_edge" THEN "failed"
  ELSE IF c.via = "tool" \/ c.op = "update_edge" THEN "done"
  ELSE IF c.op \in NodeOps THEN "audit" ELSE "emit"

\* After a write: only NodeService keeps an audit record, only the services
\* emit an event, and create_edge does not look at what the MATCH found.
AfterWrite(c) ==
  IF ~Matches(c) /\ c.op # "create_edge" THEN "failed"
  ELSE IF c.via = "tool" THEN "done"
  ELSE IF c.op \in NodeOps THEN "audit"
  ELSE "emit"

\* Identifiers a client can have seen: those of objects in the database at the
\* start, those of applied creations, those it was sent in a reply.
KnownNodeIds ==
  {n.id : n \in Nodes0} \union {r \in applied : call[r].op = "create_node"}
KnownEdgeIds ==
  {e.id : e \in Edges0} \union
    {r \in Requests : call[r].op = "create_edge" /\ (r \in applied \/ pc[r] = "done")}

Nameable(c) ==
  CASE c.op = "create_node" -> TRUE
    [] c.op \in {"update_node", "delete_node"} -> c.id \in KnownNodeIds
    [] c.op \in {"create_edge", "disconnect"} -> {c.src, c.dst} \subseteq KnownNodeIds
    [] OTHER -> c.id \in KnownEdgeIds

--------------------------------------------------------------------------------
(* The steps of a request.                                                   *)

\* The request arrives and runs to its first await; validation or
\* authorization may reject it on the way.
Begin(r, c) ==
  /\ pc[r] = "idle"
  /\ c.op \in Ops /\ c.via \in Vias /\ Nameable(c)
  /\ SerialEdges /\ c.op = "create_edge" =>
       \A q \in Requests : InFlight(q) => call[q].op # "create_edge"
  /\ call' = [call EXCEPT ![r] = c]
  /\ earlier' = [earlier EXCEPT ![r] = {q \in Requests : pc[q] \in Ended}]
  /\ Goto(r, FirstStage(c)) \/ Goto(r, "failed")
  /\ UNCHANGED <<db, audited, log, crashes>>

\* A read of the database that decides between two stages.
Read(r, stage, found, then) ==
  /\ pc[r] = stage
  /\ Goto(r, IF found THEN then ELSE "failed")
  /\ UNCHANGED <<db, call, audited, log, earlier, crashes>>

\* update and delete of NodeService look the node up first.
CheckExists(r) ==
  Read(r, "exists", HasNode(call[r].id, {call[r].type}), "persist")

\* EdgeService._validate_endpoints reads the source, then the target.
CheckSource(r) ==
  Read(r, "source", HasNode(call[r].src, EdgeDef[call[r].type].source), "target")

\* Slip: the target is looked up without its type.
CheckTarget_AnyType(r) ==
  \E ok \in BOOLEAN :
    Read(r, "target", ok /\ HasNode(call[r].dst, NodeTypes), FirstCheck(call[r].type))

\* Property validation and authorization follow, and may reject.
CheckTarget(r) ==
  \E ok \in BOOLEAN :
    Read(r, "target", ok /\ HasNode(call[r].dst, EdgeDef[call[r].type].target),
         FirstCheck(call[r].type))

\* EdgeRepository._check_cardinality, one count query per constraint.
CountInbound(r) ==
  Read(r, "card_target", Inbound(call[r].type, call[r].dst) = {},
       AfterTargetCheck(call[r].type))

CountOutbound(r) ==
  Read(r, "card_source", Outbound(call[r].type, call[r].src) = {}, "persist")

--------------------------------------------------------------------------------
(* Writes.                                                                   *)

InsertNode(r) ==
  /\ call[r].op = "create_node"
  /\ nodes' = nodes \union {[id |-> r, type |-> call[r].type]}
  /\ UNCHANGED edges

\* Slip: the update is an upsert.
SetProperties_Merge(r) ==
  /\ call[r].op \in {"update_node", "update_edge"}
  /\ nodes' = IF call[r].op = "update_node"
                THEN nodes \union {[id |-> call[r].id, type |-> call[r].type]} ELSE nodes
  /\ UNCHANGED edges

\* SET on a matched node or edge: the topology stays.
SetProperties(r) ==
  /\ call[r].op \in {"update_node", "update_edge"}
  /\ UNCHANGED <<nodes, edges>>

\* Slip: a deletion that does not detach.
DetachDelete_KeepsEdges(r) ==
  /\ call[r].op = "delete_node"
  /\ nodes' = {n \in nodes : ~(n.id = call[r].id /\ n.type = call[r].type)}
  /\ UNCHANGED edges

\* MATCH (n) DETACH DELETE n.
DetachDelete(r) ==
  /\ call[r].op = "delete_node"
  /\ nodes' = {n \in nodes : ~(n.id = call[r].id /\ n.type = call[r].type)}
  /\ edges' = IF Matches(call[r])
                THEN {e \in edges : call[r].id \notin {e.src, e.dst}} ELSE edges

\* Slip: the edge is written from the arguments, not from matched nodes.
InsertEdge_Unmatched(r) ==
  /\ call[r].op = "create_edge"
  /\ edges' = edges \union {[id |-> r, type |-> call[r].type,
                              src |-> call[r].src, dst |-> call[r].dst]}
  /\ UNCHANGED nodes

\* MATCH (a), (b) CREATE (a)-[r]->(b).
InsertEdge(r) ==
  /\ call[r].op = "create_edge"
  /\ edges' = IF Matches(call[r])
                THEN edges \union {[id |-> r, type |-> call[r].type,
                                    src |-> call[r].src, dst |-> call[r].dst]}
                ELSE edges
  /\ UNCHANGED nodes

DeleteEdges(r) ==
  /\ call[r].op \in {"delete_edge", "disconnect"}
  /\ edges' = edges \ MatchedEdges(call[r])
  /\ UNCHANGED nodes

Write(r) ==
  InsertNode(r) \/ SetProperties(r) \/ DetachDelete(r) \/ InsertEdge(r) \/ DeleteEdges(r)

\* The statement commits.  The reply may still be lost: then the driver raises
\* and the handler is left by the exception.
Persist(r) ==
  /\ pc[r] = "persist"
  /\ Write(r)
  /\ applied' = IF Matches(call[r]) THEN applied \union {r} ELSE applied
  /\ Goto(r, AfterWrite(call[r])) \/ Goto(r, "failed")
  /\ UNCHANGED <<call, audited, log, earlier, crashes>>

\* A statement raises and has no effect: the handler is left by the exception.
DbFails(r) ==
  /\ pc[r] \in {"exists", "source", "target", "card_target", "card_source", "persist"}
  /\ Goto(r, "failed")
  /\ UNCHANGED <<db, call, audited, log, earlier, crashes>>

\* NodeService._persist_audit: a failed write is logged and swallowed.
Audit(r) ==
  /\ pc[r] = "audit"
  /\ audited' \in {audited, audited \union {r}}
  /\ Goto(r, "emit")
  /\ UNCHANGED <<db, call, log, earlier, crashes>>

\* Slip: the event is published in the background, after the reply.
Emit_Background(r) ==
  /\ \/ pc[r] = "emit" /\ UNCHANGED log
     \/ pc[r] = "done" /\ r \notin {log[i] : i \in DOMAIN log} /\ log' = Append(log, r)
  /\ Goto(r, "done")
  /\ UNCHANGED <<db, call, audited, earlier, crashes>>

\* Slip: the event waits for the audit record.
Emit_AuditedOnly(r) ==
  /\ pc[r] = "emit" /\ r \in audited
  /\ log' = Append(log, r)
  /\ Goto(r, "done")
  /\ UNCHANGED <<db, call, audited, earlier, crashes>>

\* EventBus.publish never raises; the reply to the client follows.
Emit(r) ==
  /\ pc[r] = "emit"
  /\ log' = Append(log, r)
  /\ Goto(r, "done")
  /\ UNCHANGED <<db, call, audited, earlier, crashes>>

\* The process dies with every request in flight.
Crash ==
  /\ crashes < MaxCrashes
  /\ crashes' = crashes + 1
  /\ pc' = [r \in Requests |-> IF InFlight(r) THEN "lost" ELSE pc[r]]
  /\ UNCHANGED <<db, call, audited, log, earlier>>

Step(r) ==
  \/ CheckExists(r)
  \/ CheckSource(r)
  \/ CheckTarget(r)
  \/ CountInbound(r)
  \/ CountOutbound(r)
  \/ Persist(r)
  \/ DbFails(r)
  \/ Audit(r)
  \/ Emit(r)

Next ==
  \/ \E r \in Requests : Step(r) \/ \E c \in Call : Begin(r, c)
  \/ Crash

Spec == Init /\ [][Next]_vars

\* The event loop resumes every coroutine whose await has finished, and every
\* database call ends, by a reply or by an exception.
FairSpec == Spec /\ \A r \in Requests : WF_vars(Step(r))

--------------------------------------------------------------------------------
(* Properties.                                                               *)

\* Every variable has its type; what a request asked for is known once begun.
TypeOK ==
  /\ nodes \subseteq Node
  /\ edges \subseteq Edge
  /\ pc \in [Requests -> Stages]
  /\ call \in [Requests -> Call \union {NoCall}]
  /\ audited \subseteq Requests
  /\ log \in Seq(Requests)
  /\ applied \subseteq Requests
  /\ earlier \in [Requests -> SUBSET Requests]
  /\ crashes \in 0..MaxCrashes

LiveIds == {n.id : n \in nodes}
Logged  == {log[i] : i \in DOMAIN log}

\* However creations and deletions interleave, fail or crash, an edge joins two
\* nodes that exist, and an identifier belongs to one node and one edge.
ReferentialIntegrity ==
  /\ \A e \in edges : {e.src, e.dst} \subseteq LiveIds
  /\ \A n, m \in nodes : n.id = m.id => n = m
  /\ \A e, f \in edges : e.id = f.id => e = f

\* Once a deletion has taken effect its node is gone for good: no update in
\* flight, and no edge whose endpoint checks it passed, brings anything back.
DeletedForGood ==
  \A r \in applied : call[r].op = "delete_node" =>
    /\ call[r].id \notin LiveIds
    /\ \A e \in edges : call[r].id \notin {e.src, e.dst}

\* The uniqueness the repository checks for is what the database holds.
CardinalityEnforced ==
  \A e, f \in edges : e.type = f.type =>
    /\ ChecksTarget(e.type) /\ e.dst = f.dst => e = f
    /\ ChecksSource(e.type) /\ e.src = f.src => e = f

\* An edge of a type joins nodes of the types its definition allows.
EndpointsAllowed ==
  \A e \in edges :
    /\ \E n \in nodes : n.id = e.src /\ n.type \in EdgeDef[e.type].source
    /\ \E n \in nodes : n.id = e.dst /\ n.type \in EdgeDef[e.type].target

\* The event log and the audit trail name only mutations of nodes that took
\* effect, and the event comes at most once, never for a request that failed.
NodeReportsTruthful ==
  /\ \A r \in Logged \union audited : call[r].op \in NodeOps => r \in applied
  /\ \A r \in Logged : pc[r] = "done"
  /\ \A i, j \in DOMAIN log : log[i] = log[j] => i = j

\* The event log names only mutations that took effect, but for the edges whose
\* end was deleted after the checks: nothing else makes an event untrue.
ReportsTruthful ==
  \A r \in Logged \ applied :
    /\ call[r].op = "create_edge"
    /\ \E d \in applied : call[d].op = "delete_node" /\ call[d].id \in {call[r].src, call[r].dst}

\* A client of the services that is told of success can rely on the event being
\* out: no operation returns before it, or without it.
SuccessIsReported ==
  \A r \in Requests : pc[r] = "done" /\ call[r].via = "service" => r \in Logged

\* Events and answers fit each other: what is told happened, and what was
\* answered is told.
EventsFitAnswers == ReportsTruthful /\ SuccessIsReported

\* A request that began after another had ended reports after it.
ReportsInRealTime ==
  \A i, j \in DOMAIN log : i < j => log[j] \notin earlier[log[i]]

\* A mutation that took effect is reported unless its reply was lost or the
\* process crashed, and every request ends.
EventuallyReported ==
  \A r \in Requests :
    /\ r \in applied ~> \/ r \in Logged \/ pc[r] \in {"failed", "lost"}
                        \/ r \in applied /\ call[r].via = "tool"
    /\ InFlight(r) ~> pc[r] \in Ended

--------------------------------------------------------------------------------
(* Refinement.                                                               *)

\* Identifiers given to an edge so far; KnownNodeIds are those given to a node.
IssuedEdgeIds ==
  {e.id : e \in Edges0} \union {r \in applied : call[r].op = "create_edge"}

Graph == INSTANCE AtomicGraph WITH
  issued <- [nodes |-> KnownNodeIds, edges |-> IssuedEdgeIds]

\* The services and repositories implement the atomic graph: whatever the
\* interleaving, failure or crash, the database moves by atomic steps only.
AtomicGraphSpec == Graph!Spec
================================================================================
