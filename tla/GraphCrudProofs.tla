---------------------------- MODULE GraphCrudProofs ----------------------------
(*****************************************************************************)
(* Proofs about GraphCrud for any number of requests, any schema, any        *)
(* initial database the checks could have let through and any operations.    *)
(*                                                                           *)
(* The inductive invariant Inductive says why the graph stays well formed:   *)
(* a request that has not written yet owns an identifier nobody else can     *)
(* use, every identifier in the database was issued by an applied creation,  *)
(* and a deletion that was applied named an identifier issued before it.     *)
(*****************************************************************************)
EXTENDS GraphCrud, TLAPS

\* A request still at work has not been applied unless its write is behind it.
AppliedLate ==
  \A r \in applied : pc[r] \in {"audit", "emit"} \union Ended

\* Whatever is in the database was there at the start or was issued.
IdsIssued ==
  /\ \A n \in nodes : n.id \in KnownNodeIds
  /\ \A e \in edges : e.id \in IssuedEdgeIds

\* A request that has begun asked for something.
Asked ==
  \A r \in Requests : pc[r] # "idle" => call[r] \in Call

\* What an applied deletion named was issued.
DeletedIssued ==
  \A r \in applied : call[r].op = "delete_node" => call[r].id \in KnownNodeIds

Inductive ==
  /\ TypeOK
  /\ AppliedLate
  /\ IdsIssued
  /\ Asked
  /\ DeletedIssued
  /\ ReferentialIntegrity
  /\ DeletedForGood

--------------------------------------------------------------------------------
\* Init gives every variable its type.
LEMMA InitType == Init => TypeOK
BY GraphAssumption DEF Init, TypeOK, Stages, Ended

\* The rows a write adds have the types of the request's arguments.
LEMMA WriteType ==
  ASSUME TypeOK, Asked, NEW r \in Requests, pc[r] = "persist", Write(r)
  PROVE  nodes' \subseteq Node /\ edges' \subseteq Edge
<1>0. call[r] \in Call
  BY DEF Asked
<1>1. CASE InsertNode(r)
  <2>1. call[r].type \in NodeTypes
    BY <1>0, <1>1 DEF InsertNode, Call
  <2>2. [id |-> r, type |-> call[r].type] \in Node
    BY <2>1 DEF Node, NodeIds
  <2>3. QED
    BY <1>1, <2>2 DEF InsertNode, TypeOK
<1>2. CASE SetProperties(r)
  BY <1>2 DEF SetProperties, TypeOK
<1>3. CASE DetachDelete(r)
  BY <1>3 DEF DetachDelete, TypeOK
<1>4. CASE InsertEdge(r)
  <2>1. /\ call[r].type \in EdgeTypes
        /\ call[r].src \in NodeIds
        /\ call[r].dst \in NodeIds
    BY <1>0, <1>4 DEF InsertEdge, Call
  <2>2. [id |-> r, type |-> call[r].type, src |-> call[r].src, dst |-> call[r].dst] \in Edge
    BY <2>1 DEF Edge, EdgeIds
  <2>3. QED
    BY <1>4, <2>2 DEF InsertEdge, TypeOK
<1>5. CASE DeleteEdges(r)
  BY <1>5 DEF DeleteEdges, TypeOK
<1>6. QED
  BY <1>1, <1>2, <1>3, <1>4, <1>5 DEF Write

\* Every step preserves the types, and what a request asked for stays known.
LEMMA TypeStep ==
  TypeOK /\ Asked /\ [Next]_vars => TypeOK' /\ Asked'
<1> SUFFICES ASSUME TypeOK, Asked, [Next]_vars
             PROVE  TypeOK' /\ Asked'
  OBVIOUS
<1> USE DEF TypeOK, Asked, Goto, Stages, Ended
<1>1. ASSUME NEW r \in Requests, NEW c \in Call, Begin(r, c)
      PROVE  TypeOK' /\ Asked'
  <2>1. FirstStage(c) \in Stages
    BY DEF FirstStage, FirstCheck, AfterTargetCheck
  <2>2. earlier' \in [Requests -> SUBSET Requests]
    BY <1>1 DEF Begin
  <2>3. QED
    BY <1>1, <2>1, <2>2 DEF Begin, db
<1>2. ASSUME NEW r \in Requests, NEW s, NEW f, NEW t \in Stages \ {"idle"}, s # "idle",
             Read(r, s, f, t)
      PROVE  TypeOK' /\ Asked'
  BY <1>2 DEF Read, db
<1>3. ASSUME NEW r \in Requests, Persist(r)
      PROVE  TypeOK' /\ Asked'
  <2>1. nodes' \subseteq Node /\ edges' \subseteq Edge
    BY <1>3, WriteType DEF Persist
  <2>2. AfterWrite(call[r]) \in Stages
    BY DEF AfterWrite
  <2>3. QED
    BY <1>3, <2>1, <2>2 DEF Persist
<1>4. ASSUME NEW r \in Requests, DbFails(r)
      PROVE  TypeOK' /\ Asked'
  BY <1>4 DEF DbFails, db
<1>5. ASSUME NEW r \in Requests, Audit(r)
      PROVE  TypeOK' /\ Asked'
  BY <1>5 DEF Audit, db
<1>6. ASSUME NEW r \in Requests, Emit(r)
      PROVE  TypeOK' /\ Asked'
  BY <1>6 DEF Emit, db
<1>7. CASE Crash
  BY <1>7, GraphAssumption DEF Crash, db, InFlight
<1>8. CASE UNCHANGED vars
  BY <1>8 DEF vars
<1>9. ASSUME NEW r \in Requests,
             \/ CheckExists(r) \/ CheckSource(r) \/ CheckTarget(r)
             \/ CountInbound(r) \/ CountOutbound(r)
      PROVE  TypeOK' /\ Asked'
  BY <1>9, <1>2 DEF CheckExists, CheckSource, CheckTarget, CountInbound, CountOutbound,
     FirstCheck, AfterTargetCheck
<1>10. QED
  BY <1>1, <1>3, <1>4, <1>5, <1>6, <1>7, <1>8, <1>9 DEF Next, Step

\* TypeOK holds in every reachable state, for every value of the constants.
THEOREM TypeCorrect == Spec => []TypeOK
<1>1. Init => TypeOK /\ Asked
  BY InitType DEF Init, Asked
<1>2. TypeOK /\ Asked /\ [Next]_vars => (TypeOK /\ Asked)'
  BY TypeStep
<1>3. QED
  BY <1>1, <1>2, PTL DEF Spec

--------------------------------------------------------------------------------
\* A step that is not a write leaves the database alone, and an applied request
\* stays behind its write and keeps what it asked for.
LEMMA QuietStep ==
  ASSUME TypeOK, AppliedLate, [Next]_vars, \A r \in Requests : ~Persist(r)
  PROVE  /\ UNCHANGED <<nodes, edges, applied>>
         /\ \A q \in applied : call'[q] = call[q]
         /\ AppliedLate'
<1> USE DEF TypeOK, AppliedLate, Goto, Ended, db
<1>1. ASSUME NEW r \in Requests, NEW c \in Call, Begin(r, c)
      PROVE  /\ UNCHANGED <<nodes, edges, applied>>
             /\ \A q \in applied : call'[q] = call[q]
             /\ AppliedLate'
  <2>1. r \notin applied
    BY <1>1 DEF Begin
  <2>2. QED
    BY <1>1, <2>1 DEF Begin
<1>2. ASSUME NEW r \in Requests,
             NEW s \in {"exists", "source", "target", "card_target", "card_source"},
             NEW f, NEW t, Read(r, s, f, t)
      PROVE  /\ UNCHANGED <<nodes, edges, applied>>
             /\ \A q \in applied : call'[q] = call[q]
             /\ AppliedLate'
  BY <1>2 DEF Read
<1>3. ASSUME NEW r \in Requests, DbFails(r) \/ Audit(r) \/ Emit(r)
      PROVE  /\ UNCHANGED <<nodes, edges, applied>>
             /\ \A q \in applied : call'[q] = call[q]
             /\ AppliedLate'
  BY <1>3 DEF DbFails, Audit, Emit
<1>4. CASE Crash
  BY <1>4 DEF Crash, InFlight
<1>5. CASE UNCHANGED vars
  BY <1>5 DEF vars
<1>6. ASSUME NEW r \in Requests,
             \/ CheckExists(r) \/ CheckSource(r) \/ CheckTarget(r)
             \/ CountInbound(r) \/ CountOutbound(r)
      PROVE  /\ UNCHANGED <<nodes, edges, applied>>
             /\ \A q \in applied : call'[q] = call[q]
             /\ AppliedLate'
  BY <1>6, <1>2 DEF CheckExists, CheckSource, CheckTarget, CountInbound, CountOutbound
<1>7. QED
  BY <1>1, <1>3, <1>4, <1>5, <1>6 DEF Next, Step

\* Each write keeps the graph well formed and deletions final.
LEMMA WriteStep ==
  ASSUME Inductive, NEW r \in Requests, Persist(r)
  PROVE  /\ AppliedLate'
         /\ IdsIssued'
         /\ DeletedIssued'
         /\ ReferentialIntegrity'
         /\ DeletedForGood'
<1> USE DEF Inductive
<1>0. /\ pc[r] = "persist"
      /\ call[r] \in Call
      /\ call' = call
      /\ Write(r)
      /\ applied' = IF Matches(call[r]) THEN applied \union {r} ELSE applied
      /\ r \notin applied
  BY DEF Persist, Asked, AppliedLate, Ended
<1>1. AppliedLate'
  <2>1. pc' = [pc EXCEPT ![r] = AfterWrite(call[r])] \/ pc' = [pc EXCEPT ![r] = "failed"]
    BY DEF Persist, Goto
  <2>2. AfterWrite(call[r]) \in {"audit", "emit"} \union Ended
    BY DEF AfterWrite, Ended
  <2>3. QED
    BY <1>0, <2>1, <2>2 DEF AppliedLate, Ended, TypeOK
<1>2. KnownNodeIds \subseteq KnownNodeIds' /\ IssuedEdgeIds \subseteq IssuedEdgeIds'
  BY <1>0 DEF KnownNodeIds, IssuedEdgeIds
<1>3. r \notin KnownNodeIds /\ r \notin IssuedEdgeIds
  BY <1>0, GraphAssumption DEF KnownNodeIds, IssuedEdgeIds
<1>4. r \notin LiveIds /\ \A e \in edges : e.id # r
  BY <1>3 DEF IdsIssued, LiveIds
<1>5. CASE InsertNode(r)
  <2>1. /\ Matches(call[r])
        /\ call[r].op = "create_node"
        /\ nodes' = nodes \union {[id |-> r, type |-> call[r].type]}
        /\ edges' = edges
    BY <1>5 DEF InsertNode, Matches
  <2>2. applied' = applied \union {r} /\ r \in KnownNodeIds'
    BY <1>0, <2>1 DEF KnownNodeIds
  <2>3. LiveIds' = LiveIds \union {r}
    <3>1. r \in LiveIds'
      BY <2>1, [id |-> r, type |-> call[r].type].id = r DEF LiveIds
    <3>2. LiveIds \subseteq LiveIds'
      BY <2>1 DEF LiveIds
    <3>3. \A n \in nodes' : n \in nodes \/ n.id = r
      BY <2>1
    <3>4. QED
      BY <3>1, <3>2, <3>3 DEF LiveIds
  <2>4. IdsIssued'
    BY <2>1, <2>2, <1>2 DEF IdsIssued
  <2>5. DeletedIssued'
    BY <1>0, <1>2, <2>1, <2>2 DEF DeletedIssued
  <2>6. ReferentialIntegrity'
    BY <1>4, <2>1, <2>3 DEF ReferentialIntegrity, LiveIds
  <2>7. DeletedForGood'
    BY <1>0, <1>3, <2>1, <2>2, <2>3 DEF DeletedForGood, DeletedIssued
  <2>8. QED
    BY <1>1, <2>4, <2>5, <2>6, <2>7
<1>6. CASE SetProperties(r)
  <2>1. nodes' = nodes /\ edges' = edges /\ call[r].op \in {"update_node", "update_edge"}
    BY <1>6 DEF SetProperties
  <2>2. LiveIds' = LiveIds
    BY <2>1 DEF LiveIds
  <2>3. IdsIssued' /\ DeletedIssued'
    BY <1>0, <1>2, <2>1 DEF IdsIssued, DeletedIssued
  <2>4. ReferentialIntegrity' /\ DeletedForGood'
    BY <1>0, <2>1, <2>2 DEF ReferentialIntegrity, DeletedForGood
  <2>5. QED
    BY <1>1, <2>3, <2>4
<1>7. CASE DetachDelete(r)
  <2>1. /\ call[r].op = "delete_node"
        /\ nodes' = {n \in nodes : ~(n.id = call[r].id /\ n.type = call[r].type)}
        /\ Matches(call[r]) => edges' = {e \in edges : call[r].id \notin {e.src, e.dst}}
        /\ ~Matches(call[r]) => edges' = edges
    BY <1>7 DEF DetachDelete
  <2>2. Matches(call[r]) <=> \E n \in nodes : n.id = call[r].id /\ n.type = call[r].type
    BY <2>1 DEF Matches, HasNode
  <2>3. IdsIssued'
    BY <1>2, <2>1 DEF IdsIssued
  <2>4. CASE ~Matches(call[r])
    <3>1. nodes' = nodes /\ edges' = edges /\ applied' = applied
      BY <1>0, <2>1, <2>2, <2>4
    <3>2. LiveIds' = LiveIds
      BY <3>1 DEF LiveIds
    <3>3. QED
      BY <1>0, <1>1, <1>2, <2>3, <3>1, <3>2
      DEF DeletedIssued, ReferentialIntegrity, DeletedForGood
  <2>5. CASE Matches(call[r])
    <3>1. PICK n \in nodes : n.id = call[r].id /\ n.type = call[r].type
      BY <2>2, <2>5
    <3>2. nodes' = nodes \ {n}
      BY <2>1, <3>1 DEF ReferentialIntegrity
    <3>3. LiveIds' = LiveIds \ {call[r].id}
      BY <3>1, <3>2 DEF LiveIds, ReferentialIntegrity
    <3>4. edges' = {e \in edges : call[r].id \notin {e.src, e.dst}}
      BY <2>1, <2>5
    <3>5. DeletedIssued'
      BY <1>0, <1>2, <3>1 DEF DeletedIssued, IdsIssued
    <3>6. ReferentialIntegrity'
      BY <3>2, <3>3, <3>4 DEF ReferentialIntegrity
    <3>7. DeletedForGood'
      BY <1>0, <3>3, <3>4 DEF DeletedForGood
    <3>8. QED
      BY <1>1, <2>3, <3>5, <3>6, <3>7
  <2>6. QED
    BY <2>4, <2>5
<1>8. CASE InsertEdge(r)
  <2> DEFINE e0 == [id |-> r, type |-> call[r].type, src |-> call[r].src, dst |-> call[r].dst]
  <2>1. /\ call[r].op = "create_edge"
        /\ nodes' = nodes
        /\ Matches(call[r]) => edges' = edges \union {e0}
        /\ ~Matches(call[r]) => edges' = edges
    BY <1>8 DEF InsertEdge
  <2>2. LiveIds' = LiveIds
    BY <2>1 DEF LiveIds
  <2>3. Matches(call[r]) => {e0.src, e0.dst} \subseteq LiveIds
    BY <2>1 DEF Matches, HasNode, LiveIds
  <2>4. IdsIssued'
    BY <1>0, <1>2, <2>1 DEF IdsIssued, IssuedEdgeIds
  <2>5. DeletedIssued'
    BY <1>0, <1>2, <2>1 DEF DeletedIssued
  <2>6. ReferentialIntegrity'
    BY <1>4, <2>1, <2>2, <2>3 DEF ReferentialIntegrity
  <2>7. DeletedForGood'
    BY <1>0, <2>1, <2>2, <2>3 DEF DeletedForGood
  <2>8. QED
    BY <1>1, <2>4, <2>5, <2>6, <2>7
<1>9. CASE DeleteEdges(r)
  <2>1. /\ call[r].op \in {"delete_edge", "disconnect"}
        /\ nodes' = nodes /\ edges' \subseteq edges
    BY <1>9 DEF DeleteEdges
  <2>2. LiveIds' = LiveIds
    BY <2>1 DEF LiveIds
  <2>3. IdsIssued' /\ DeletedIssued'
    BY <1>0, <1>2, <2>1 DEF IdsIssued, DeletedIssued
  <2>4. ReferentialIntegrity' /\ DeletedForGood'
    BY <1>0, <2>1, <2>2 DEF ReferentialIntegrity, DeletedForGood
  <2>5. QED
    BY <1>1, <2>3, <2>4
<1>10. QED
  BY <1>0, <1>5, <1>6, <1>7, <1>8, <1>9 DEF Write

\* Inductive holds at the start.
LEMMA InitInductive == Init => Inductive
<1> SUFFICES ASSUME Init PROVE Inductive
  OBVIOUS
<1>1. AppliedLate /\ DeletedIssued /\ DeletedForGood /\ Asked
  BY DEF Init, AppliedLate, DeletedIssued, DeletedForGood, Asked
<1>2. IdsIssued
  BY DEF Init, IdsIssued, KnownNodeIds, IssuedEdgeIds
<1>3. ReferentialIntegrity
  BY InitialGraphAssumption DEF Init, ReferentialIntegrity, LiveIds
<1>4. QED
  BY <1>1, <1>2, <1>3, InitType DEF Inductive

\* Inductive is preserved by every step.
LEMMA InductiveStep == Inductive /\ [Next]_vars => Inductive'
<1> SUFFICES ASSUME Inductive, [Next]_vars PROVE Inductive'
  OBVIOUS
<1>1. TypeOK' /\ Asked'
  BY TypeStep DEF Inductive
<1>2. CASE \E r \in Requests : Persist(r)
  BY <1>1, <1>2, WriteStep DEF Inductive
<1>3. CASE \A r \in Requests : ~Persist(r)
  <2>1. /\ nodes' = nodes /\ edges' = edges /\ applied' = applied
        /\ \A q \in applied : call'[q] = call[q]
        /\ AppliedLate'
    BY <1>3, QuietStep DEF Inductive
  <2>2. KnownNodeIds' = KnownNodeIds /\ IssuedEdgeIds' = IssuedEdgeIds
    BY <2>1 DEF KnownNodeIds, IssuedEdgeIds
  <2>3. LiveIds' = LiveIds
    BY <2>1 DEF LiveIds
  <2>4. IdsIssued' /\ DeletedIssued'
    BY <2>1, <2>2 DEF Inductive, IdsIssued, DeletedIssued
  <2>5. ReferentialIntegrity' /\ DeletedForGood'
    BY <2>1, <2>3 DEF Inductive, ReferentialIntegrity, DeletedForGood
  <2>6. QED
    BY <1>1, <2>1, <2>4, <2>5 DEF Inductive
<1>4. QED
  BY <1>2, <1>3

LEMMA Invariance == Spec => []Inductive
BY InitInductive, InductiveStep, PTL DEF Spec

\* Edges never dangle and identifiers are never shared, whatever the number of
\* requests and however they interleave, fail or crash.
THEOREM GraphWellFormed == Spec => []ReferentialIntegrity
<1>1. Inductive => ReferentialIntegrity
  BY DEF Inductive
<1>2. QED
  BY <1>1, Invariance, PTL

\* A deletion that took effect is final.
THEOREM DeletionFinal == Spec => []DeletedForGood
<1>1. Inductive => DeletedForGood
  BY DEF Inductive
<1>2. QED
  BY <1>1, Invariance, PTL

--------------------------------------------------------------------------------
(* Cardinality, for clients that create edges one at a time.                 *)

\* At most one edge creation is under way.
OneCreator ==
  \A p, q \in Requests :
    /\ InFlight(p) /\ call[p].op = "create_edge"
    /\ InFlight(q) /\ call[q].op = "create_edge"
    => p = q

\* The stages of edge creation belong to edge creations, and what a count
\* query found is still so when the edge is written.
Counted ==
  \A r \in Requests :
    /\ pc[r] \in {"source", "target", "card_target", "card_source"} =>
         call[r].op = "create_edge"
    /\ pc[r] = "exists" => call[r].op # "create_edge"
    /\ call[r].op = "create_edge" =>
         /\ pc[r] \in {"card_source", "persist"} /\ ChecksTarget(call[r].type) =>
              Inbound(call[r].type, call[r].dst) = {}
         /\ pc[r] = "persist" /\ ChecksSource(call[r].type) =>
              Outbound(call[r].type, call[r].src) = {}

SerialInductive == TypeOK /\ Asked /\ OneCreator /\ Counted /\ CardinalityEnforced

\* Writes other than edge creations never add an edge.
LEMMA WriteShrinks ==
  ASSUME NEW r, Write(r), call[r].op # "create_edge"
  PROVE  edges' \subseteq edges
BY DEF Write, InsertNode, SetProperties, DetachDelete, InsertEdge, DeleteEdges

LEMMA SerialStep ==
  SerialEdges /\ SerialInductive /\ [Next]_vars => SerialInductive'
<1> SUFFICES ASSUME SerialEdges, SerialInductive, [Next]_vars
             PROVE  SerialInductive'
  OBVIOUS
<1> USE DEF SerialInductive
<1>1. TypeOK' /\ Asked'
  BY TypeStep
<1>2. SUFFICES OneCreator' /\ Counted' /\ CardinalityEnforced'
  BY <1>1
<1>3. ASSUME NEW r \in Requests, NEW c \in Call, Begin(r, c)
      PROVE  OneCreator' /\ Counted' /\ CardinalityEnforced'
  <2>1. edges' = edges /\ CardinalityEnforced'
    BY <1>3 DEF Begin, db, CardinalityEnforced
  <2>2. OneCreator'
    BY <1>3 DEF Begin, OneCreator, InFlight, Goto, TypeOK
  <2>3. Counted'
    <3>1. \A q \in Requests \ {r} : pc'[q] = pc[q] /\ call'[q] = call[q]
      BY <1>3 DEF Begin, Goto, TypeOK
    <3>2. call'[r] = c /\ pc'[r] \in {FirstStage(c), "failed"}
      BY <1>3 DEF Begin, Goto, TypeOK
    <3>3. c.op # "create_edge" => FirstStage(c) \in {"exists", "persist"}
      BY DEF FirstStage
    <3>4. c.op = "create_edge" =>
            /\ FirstStage(c) \in {"source", "card_target", "card_source", "persist"}
            /\ FirstStage(c) \in {"card_source", "persist"} => ~ChecksTarget(c.type)
            /\ FirstStage(c) = "persist" => ~ChecksSource(c.type)
      BY DEF FirstStage, FirstCheck, AfterTargetCheck
    <3>5. QED
      BY <2>1, <3>1, <3>2, <3>3, <3>4 DEF Counted, Inbound, Outbound
  <2>4. QED
    BY <2>1, <2>2, <2>3
<1>4. ASSUME NEW r \in Requests, Persist(r)
      PROVE  OneCreator' /\ Counted' /\ CardinalityEnforced'
  <2>1. call' = call /\ Write(r) /\ pc[r] = "persist"
    BY <1>4 DEF Persist
  <2>2. \A q \in Requests \ {r} : pc'[q] = pc[q]
    BY <1>4 DEF Persist, Goto, TypeOK
  <2>3. pc'[r] \notin {"source", "target", "card_target", "card_source", "persist", "idle", "exists"}
    BY <1>4 DEF Persist, Goto, TypeOK, AfterWrite
  <2>4. OneCreator'
    BY <2>1, <2>2 DEF OneCreator, InFlight, Ended
  <2>5. CASE call[r].op # "create_edge"
    <3>1. edges' \subseteq edges
      BY <2>1, <2>5, WriteShrinks
    <3>2. QED
      BY <2>1, <2>2, <2>3, <2>4, <3>1 DEF Counted, CardinalityEnforced, Inbound, Outbound
  <2>6. CASE call[r].op = "create_edge"
    <3>1. \A q \in Requests \ {r} : ~(InFlight(q) /\ call[q].op = "create_edge")
      BY <2>1, <2>6 DEF OneCreator, InFlight, Ended
    <3>2. Counted'
      BY <2>1, <2>2, <2>3, <2>6, <3>1 DEF Counted, InFlight, Ended
    <3>3. InsertEdge(r)
      BY <2>1, <2>6 DEF Write, InsertNode, SetProperties, DetachDelete, DeleteEdges
    <3>4. \/ edges' = edges
          \/ edges' = edges \union {[id |-> r, type |-> call[r].type,
                                     src |-> call[r].src, dst |-> call[r].dst]}
      BY <3>3 DEF InsertEdge
    <3>5. /\ ChecksTarget(call[r].type) => Inbound(call[r].type, call[r].dst) = {}
          /\ ChecksSource(call[r].type) => Outbound(call[r].type, call[r].src) = {}
      BY <2>1, <2>6 DEF Counted
    <3>6. CardinalityEnforced'
      BY <3>4, <3>5 DEF CardinalityEnforced, Inbound, Outbound
    <3>7. QED
      BY <2>4, <3>2, <3>6
  <2>7. QED
    BY <2>5, <2>6
<1>5. ASSUME UNCHANGED <<edges, call>>,
             \A q \in Requests : pc'[q] = pc[q] \/ pc'[q] \notin {"source", "target",
                "card_target", "card_source", "persist", "exists"},
             \A q \in Requests : InFlight(q)' => InFlight(q)
      PROVE  OneCreator' /\ Counted' /\ CardinalityEnforced'
  <2>1. CardinalityEnforced'
    BY <1>5 DEF CardinalityEnforced
  <2>2. OneCreator'
    BY <1>5 DEF OneCreator
  <2>3. Counted'
    <3>1. edges' = edges /\ call' = call
      BY <1>5
    <3>2. SUFFICES ASSUME NEW q \in Requests,
                          pc'[q] \in {"source", "target", "card_target",
                                     "card_source", "persist", "exists"}
                   PROVE  pc'[q] = pc[q]
      BY <3>1 DEF Counted, Inbound, Outbound
    <3>3. QED
      BY <1>5, <3>2
  <2>4. QED
    BY <2>1, <2>2, <2>3
<1>6. ASSUME NEW r \in Requests, DbFails(r) \/ Audit(r) \/ Emit(r)
      PROVE  OneCreator' /\ Counted' /\ CardinalityEnforced'
  BY <1>5, <1>6 DEF DbFails, Audit, Emit, Goto, TypeOK, db, InFlight, Ended
<1>7. CASE Crash
  BY <1>5, <1>7 DEF Crash, TypeOK, db, InFlight, Ended
<1>8. CASE UNCHANGED vars
  BY <1>5, <1>8 DEF vars, InFlight
<1>9. ASSUME NEW r \in Requests, NEW s, s \notin Ended \union {"idle"}, NEW f, NEW t,
             Read(r, s, f, t), t # "exists",
             t \in {"source", "target", "card_target", "card_source"} =>
               call[r].op = "create_edge",
             call[r].op = "create_edge" =>
               /\ t \in {"card_source", "persist"} /\ ChecksTarget(call[r].type) /\ f =>
                    Inbound(call[r].type, call[r].dst) = {}
               /\ t = "persist" /\ ChecksSource(call[r].type) /\ f =>
                    Outbound(call[r].type, call[r].src) = {}
      PROVE  OneCreator' /\ Counted' /\ CardinalityEnforced'
  <2>1. /\ edges' = edges /\ call' = call
        /\ pc[r] = s /\ pc'[r] = IF f THEN t ELSE "failed"
        /\ \A q \in Requests \ {r} : pc'[q] = pc[q]
    BY <1>9 DEF Read, Goto, db, TypeOK
  <2>2. OneCreator'
    BY <1>9, <2>1 DEF OneCreator, InFlight
  <2>3. CardinalityEnforced'
    BY <2>1 DEF CardinalityEnforced
  <2>4. Counted'
    BY <1>9, <2>1 DEF Counted, Inbound, Outbound
  <2>5. QED
    BY <2>2, <2>3, <2>4
<1>10. ASSUME NEW r \in Requests, CheckExists(r)
       PROVE  OneCreator' /\ Counted' /\ CardinalityEnforced'
  <2>1. Read(r, "exists", HasNode(call[r].id, {call[r].type}), "persist")
    BY <1>10 DEF CheckExists
  <2>2. call[r].op # "create_edge" /\ "exists" \notin Ended \union {"idle"}
    BY <2>1 DEF Read, Counted, Ended
  <2>3. QED
    BY <1>9, <2>1, <2>2
<1>11. ASSUME NEW r \in Requests, CheckSource(r)
       PROVE  OneCreator' /\ Counted' /\ CardinalityEnforced'
  <2>1. Read(r, "source", HasNode(call[r].src, EdgeDef[call[r].type].source), "target")
    BY <1>11 DEF CheckSource
  <2>2. call[r].op = "create_edge" /\ "source" \notin Ended \union {"idle"}
    BY <2>1 DEF Read, Counted, Ended
  <2>3. QED
    BY <1>9, <2>1, <2>2
<1>12. ASSUME NEW r \in Requests, CheckTarget(r)
       PROVE  OneCreator' /\ Counted' /\ CardinalityEnforced'
  <2>1. PICK ok \in BOOLEAN :
          Read(r, "target", ok /\ HasNode(call[r].dst, EdgeDef[call[r].type].target),
               FirstCheck(call[r].type))
    BY <1>12 DEF CheckTarget
  <2>2. call[r].op = "create_edge" /\ "target" \notin Ended \union {"idle"}
    BY <2>1 DEF Read, Counted, Ended
  <2>3. /\ FirstCheck(call[r].type) # "exists"
        /\ FirstCheck(call[r].type) \in {"card_source", "persist"}
             => ~ChecksTarget(call[r].type)
        /\ FirstCheck(call[r].type) = "persist" => ~ChecksSource(call[r].type)
    BY DEF FirstCheck, AfterTargetCheck
  <2>4. QED
    BY <1>9, <2>1, <2>2, <2>3
<1>13. ASSUME NEW r \in Requests, CountInbound(r)
       PROVE  OneCreator' /\ Counted' /\ CardinalityEnforced'
  <2>1. Read(r, "card_target", Inbound(call[r].type, call[r].dst) = {},
             AfterTargetCheck(call[r].type))
    BY <1>13 DEF CountInbound
  <2>2. call[r].op = "create_edge" /\ "card_target" \notin Ended \union {"idle"}
    BY <2>1 DEF Read, Counted, Ended
  <2>3. /\ AfterTargetCheck(call[r].type) # "exists"
        /\ AfterTargetCheck(call[r].type) = "persist" => ~ChecksSource(call[r].type)
    BY DEF AfterTargetCheck
  <2>4. QED
    BY <1>9, <2>1, <2>2, <2>3
<1>14. ASSUME NEW r \in Requests, CountOutbound(r)
       PROVE  OneCreator' /\ Counted' /\ CardinalityEnforced'
  <2>1. Read(r, "card_source", Outbound(call[r].type, call[r].src) = {}, "persist")
    BY <1>14 DEF CountOutbound
  <2>2. call[r].op = "create_edge" /\ "card_source" \notin Ended \union {"idle"}
    BY <2>1 DEF Read, Counted, Ended
  <2>3. ChecksTarget(call[r].type) => Inbound(call[r].type, call[r].dst) = {}
    BY <2>1, <2>2 DEF Read, Counted
  <2>4. QED
    BY <1>9, <2>1, <2>2, <2>3
<1>15. QED
  BY <1>3, <1>4, <1>6, <1>7, <1>8, <1>10, <1>11, <1>12, <1>13, <1>14 DEF Next, Step

\* Clients that wait for one edge creation before the next keep every
\* cardinality constraint: the count query and the write of one creation are
\* never separated by another creation.
THEOREM CardinalityKept == SerialEdges => (Spec => []CardinalityEnforced)
<1>1. Init => SerialInductive
  <2> SUFFICES ASSUME Init PROVE SerialInductive
    OBVIOUS
  <2>1. Asked /\ OneCreator /\ Counted
    BY DEF Init, Asked, OneCreator, InFlight, Counted
  <2>2. CardinalityEnforced
    BY InitialGraphAssumption DEF Init, CardinalityEnforced
  <2>3. QED
    BY <2>1, <2>2, InitType DEF SerialInductive
<1>2. SerialInductive => CardinalityEnforced
  BY DEF SerialInductive
<1>3. CASE SerialEdges
  <2>1. SerialInductive /\ [Next]_vars => SerialInductive'
    BY <1>3, SerialStep
  <2>2. QED
    BY <1>1, <1>2, <2>1, PTL DEF Spec
<1>4. CASE ~SerialEdges
  BY <1>4
<1>5. QED
  BY <1>3, <1>4

-----------------------------------------------------------------------------
(* GraphCrud implements AtomicGraph: only the step that commits a statement  *)
(* moves the graph, and it moves it by one atomic operation or not at all.   *)
(* Reads, failures, audit records, events and crashes are stutters.          *)

\* What AtomicGraph sees of a state.
Seen == <<nodes, edges, KnownNodeIds, IssuedEdgeIds>>

LEMMA SeenIsGvars == Seen' = Seen => UNCHANGED Graph!gvars
BY DEF Seen, Graph!gvars

\* The write of a request that is not a creation issues no identifier.
LEMMA NothingIssued ==
  ASSUME NEW r \in Requests, Persist(r), call[r].op \notin {"create_node", "create_edge"}
  PROVE  KnownNodeIds' = KnownNodeIds /\ IssuedEdgeIds' = IssuedEdgeIds
<1>1. call' = call /\ (applied' = applied \/ applied' = applied \union {r})
  BY DEF Persist
<1>2. QED
  BY <1>1 DEF KnownNodeIds, IssuedEdgeIds

\* The write of a creation issues the request's identifier when it applies.
LEMMA CreationIssues ==
  ASSUME NEW r \in Requests, Persist(r), Matches(call[r])
  PROVE  /\ call[r].op = "create_node" => /\ KnownNodeIds' = KnownNodeIds \union {r}
                                          /\ IssuedEdgeIds' = IssuedEdgeIds
         /\ call[r].op = "create_edge" => /\ KnownNodeIds' = KnownNodeIds
                                          /\ IssuedEdgeIds' = IssuedEdgeIds \union {r}
<1>1. call' = call /\ applied' = applied \union {r}
  BY DEF Persist
<1>2. QED
  BY <1>1 DEF KnownNodeIds, IssuedEdgeIds

\* An identifier of a request that has not been applied is fresh.
LEMMA Fresh ==
  ASSUME NEW r \in Requests, r \notin applied
  PROVE  r \notin KnownNodeIds /\ r \notin IssuedEdgeIds
BY GraphAssumption DEF KnownNodeIds, IssuedEdgeIds

\* Every committed statement is an atomic operation of the graph, or none.
LEMMA WriteRefines ==
  ASSUME Inductive, NEW r \in Requests, Persist(r)
  PROVE  [Graph!Next]_(Graph!gvars)
<1> USE DEF Inductive
<1>0. /\ pc[r] = "persist" /\ Write(r) /\ call' = call
      /\ applied' = IF Matches(call[r]) THEN applied \union {r} ELSE applied
      /\ r \notin applied
  BY DEF Persist, AppliedLate, Ended
<1>1. call[r] \in Call
  BY <1>0 DEF Asked
<1>2. r \notin KnownNodeIds /\ r \notin IssuedEdgeIds
  BY <1>0, Fresh
<1>3. CASE InsertNode(r)
  <2> DEFINE n == [id |-> r, type |-> call[r].type]
  <2>1. /\ call[r].op = "create_node" /\ Matches(call[r])
        /\ nodes' = nodes \union {n} /\ edges' = edges
    BY <1>3 DEF InsertNode, Matches
  <2>2. n \in Graph!Node
    BY <1>1, <2>1 DEF Call, Graph!Node, NodeIds
  <2>3. KnownNodeIds' = KnownNodeIds \union {r} /\ IssuedEdgeIds' = IssuedEdgeIds
    BY <2>1, CreationIssues
  <2>4. Graph!AddNode(n)
    BY <1>2, <2>1, <2>3 DEF Graph!AddNode
  <2>5. QED
    BY <2>2, <2>4 DEF Graph!Next
<1>4. CASE SetProperties(r)
  <2>1. call[r].op \in {"update_node", "update_edge"} /\ UNCHANGED <<nodes, edges>>
    BY <1>4 DEF SetProperties
  <2>2. KnownNodeIds' = KnownNodeIds /\ IssuedEdgeIds' = IssuedEdgeIds
    BY <2>1, NothingIssued
  <2>3. QED
    BY <2>1, <2>2, SeenIsGvars DEF Seen
<1>5. CASE DetachDelete(r)
  <2>1. /\ call[r].op = "delete_node"
        /\ nodes' = {n \in nodes : ~(n.id = call[r].id /\ n.type = call[r].type)}
        /\ Matches(call[r]) => edges' = {e \in edges : call[r].id \notin {e.src, e.dst}}
        /\ ~Matches(call[r]) => edges' = edges
    BY <1>5 DEF DetachDelete
  <2>2. Matches(call[r]) <=> \E n \in nodes : n.id = call[r].id /\ n.type = call[r].type
    BY <2>1 DEF Matches, HasNode
  <2>3. KnownNodeIds' = KnownNodeIds /\ IssuedEdgeIds' = IssuedEdgeIds
    BY <2>1, NothingIssued
  <2>4. CASE ~Matches(call[r])
    BY <2>1, <2>2, <2>3, <2>4, SeenIsGvars DEF Seen
  <2>5. CASE Matches(call[r])
    <3>1. PICK n \in nodes : n.id = call[r].id /\ n.type = call[r].type
      BY <2>2, <2>5
    <3>2. nodes' = nodes \ {n}
      BY <2>1, <3>1 DEF ReferentialIntegrity
    <3>3. edges' = {e \in edges : n.id \notin {e.src, e.dst}}
      BY <2>1, <2>5, <3>1
    <3>4. Graph!RemoveNode(n)
      BY <2>3, <3>2, <3>3 DEF Graph!RemoveNode
    <3>5. n \in Graph!Node
      BY DEF TypeOK, Node, Graph!Node
    <3>6. QED
      BY <3>4, <3>5 DEF Graph!Next
  <2>6. QED
    BY <2>4, <2>5
<1>6. CASE InsertEdge(r)
  <2> DEFINE e == [id |-> r, type |-> call[r].type, src |-> call[r].src, dst |-> call[r].dst]
  <2>1. /\ call[r].op = "create_edge"
        /\ nodes' = nodes
        /\ Matches(call[r]) => edges' = edges \union {e}
        /\ ~Matches(call[r]) => edges' = edges
    BY <1>6 DEF InsertEdge
  <2>2. CASE ~Matches(call[r])
    <3>1. applied' = applied
      BY <1>0, <2>2
    <3>2. KnownNodeIds' = KnownNodeIds /\ IssuedEdgeIds' = IssuedEdgeIds
      BY <1>0, <3>1 DEF KnownNodeIds, IssuedEdgeIds
    <3>3. QED
      BY <2>1, <2>2, <3>2, SeenIsGvars DEF Seen
  <2>3. CASE Matches(call[r])
    <3>1. KnownNodeIds' = KnownNodeIds /\ IssuedEdgeIds' = IssuedEdgeIds \union {r}
      BY <2>1, <2>3, CreationIssues
    <3>2. {e.src, e.dst} \subseteq Graph!LiveIds
      BY <2>1, <2>3 DEF Matches, HasNode, Graph!LiveIds
    <3>3. e.id = r /\ r \notin IssuedEdgeIds
      BY <1>2, <2>1
    <3>4. [nodes |-> KnownNodeIds, edges |-> IssuedEdgeIds]'
            = [[nodes |-> KnownNodeIds, edges |-> IssuedEdgeIds] EXCEPT !.edges = @ \union {e.id}]
      BY <3>1, <3>3
    <3>5. edges' = edges \union {e} /\ nodes' = nodes
      BY <2>1, <2>3
    <3> HIDE DEF e
    <3>6. Graph!AddEdge(e)
      BY <3>2, <3>3, <3>4, <3>5 DEF Graph!AddEdge
    <3>7. e \in Graph!Edge
      BY <1>1, <2>1 DEF Call, Graph!Edge, EdgeIds, e
    <3>8. QED
      BY <3>6, <3>7 DEF Graph!Next
  <2>4. QED
    BY <2>2, <2>3
<1>7. CASE DeleteEdges(r)
  <2>1. /\ call[r].op \in {"delete_edge", "disconnect"}
        /\ edges' = edges \ MatchedEdges(call[r]) /\ nodes' = nodes
    BY <1>7 DEF DeleteEdges
  <2>2. KnownNodeIds' = KnownNodeIds /\ IssuedEdgeIds' = IssuedEdgeIds
    BY <2>1, NothingIssued
  <2>3. MatchedEdges(call[r]) \in SUBSET edges
    BY DEF MatchedEdges, Outbound, Inbound
  <2>4. Graph!RemoveEdges(MatchedEdges(call[r]))
    BY <2>1, <2>2 DEF Graph!RemoveEdges
  <2>5. QED
    BY <2>3, <2>4 DEF Graph!Next
<1>8. QED
  BY <1>0, <1>3, <1>4, <1>5, <1>6, <1>7 DEF Write

\* Every step of the services is a step of the atomic graph, or a stutter.
LEMMA StepRefines == Inductive /\ [Next]_vars => [Graph!Next]_(Graph!gvars)
<1> SUFFICES ASSUME Inductive, [Next]_vars PROVE [Graph!Next]_(Graph!gvars)
  OBVIOUS
<1>1. CASE \E r \in Requests : Persist(r)
  BY <1>1, WriteRefines
<1>2. CASE \A r \in Requests : ~Persist(r)
  <2>1. /\ nodes' = nodes /\ edges' = edges /\ applied' = applied
        /\ \A q \in applied : call'[q] = call[q]
    BY <1>2, QuietStep DEF Inductive
  <2>2. KnownNodeIds' = KnownNodeIds /\ IssuedEdgeIds' = IssuedEdgeIds
    BY <2>1 DEF KnownNodeIds, IssuedEdgeIds
  <2>3. QED
    BY <2>1, <2>2, SeenIsGvars DEF Seen
<1>3. QED
  BY <1>1, <1>2

\* The services, repositories and tools implement the atomic graph, whatever
\* the interleaving of requests, the failures and the crashes.
THEOREM Implements == Spec => AtomicGraphSpec
<1>1. Init => Graph!Init
  BY DEF Init, Graph!Init, KnownNodeIds, IssuedEdgeIds
<1>2. QED
  BY <1>1, StepRefines, Invariance, PTL DEF Spec, AtomicGraphSpec, Graph!Spec

-----------------------------------------------------------------------------
(* Proofs about what the services report: the audit trail and the events.    *)
(* A request reports from stages that lie behind its write, so what it says  *)
(* has happened; and it reports from a stage no ended request is in, so a    *)
(* request that began later cannot have reported before it.                  *)

\* A node request that is about to report, or has reported, was applied.
BehindWrite ==
  /\ \A r \in Requests : pc[r] \in {"audit", "emit"} /\ call[r].op \in NodeOps => r \in applied
  /\ \A r \in audited : pc[r] # "idle"

\* Requests that had ended when another began have ended for good.
EarlierEnded ==
  \A r \in Requests : \A q \in earlier[r] : pc[q] \in Ended

ReportInductive ==
  TypeOK /\ Asked /\ BehindWrite /\ NodeReportsTruthful /\ EarlierEnded /\ ReportsInRealTime

\* Steps that leave the log and the ended requests alone.
LEMMA SilentStep ==
  ASSUME ReportInductive, log' = log,
         \A q \in Requests : pc[q] \in Ended => pc'[q] = pc[q],
         \A q \in Logged : call'[q] = call[q] /\ earlier'[q] = earlier[q],
         applied \subseteq applied'
  PROVE  /\ Logged' = Logged
         /\ \A r \in Logged : call'[r].op \in NodeOps => r \in applied'
         /\ \A r \in Logged' : pc'[r] = "done"
         /\ \A i, j \in DOMAIN log' : log'[i] = log'[j] => i = j
         /\ ReportsInRealTime'
<1>1. Logged' = Logged /\ Logged \subseteq Requests
  BY DEF Logged, ReportInductive, TypeOK
<1>2. \A r \in Logged : pc'[r] = "done"
  BY <1>1 DEF ReportInductive, NodeReportsTruthful, Ended
<1>3. ReportsInRealTime'
  BY DEF ReportInductive, ReportsInRealTime, Logged
<1>4. \A r \in Logged : call'[r].op \in NodeOps => r \in applied'
  BY DEF ReportInductive, NodeReportsTruthful
<1>5. \A i, j \in DOMAIN log' : log'[i] = log'[j] => i = j
  BY DEF ReportInductive, NodeReportsTruthful
<1>6. QED
  BY <1>1, <1>2, <1>3, <1>4, <1>5

LEMMA BeginReports ==
  ASSUME ReportInductive, NEW r \in Requests, NEW c \in Call, Begin(r, c)
  PROVE  BehindWrite' /\ NodeReportsTruthful' /\ EarlierEnded' /\ ReportsInRealTime'
<1> USE DEF ReportInductive
<1>1. /\ pc[r] = "idle" /\ log' = log /\ applied' = applied /\ audited' = audited
      /\ \A q \in Requests \ {r} : pc'[q] = pc[q] /\ call'[q] = call[q] /\ earlier'[q] = earlier[q]
      /\ earlier'[r] = {q \in Requests : pc[q] \in Ended}
      /\ pc'[r] \in {FirstStage(c), "failed"}
  BY DEF Begin, db, Goto, TypeOK
<1>2. FirstStage(c) \notin {"audit", "emit", "idle"}
  BY DEF FirstStage, FirstCheck, AfterTargetCheck
<1>3. r \notin Logged /\ r \notin audited /\ Logged \subseteq Requests /\ audited \subseteq Requests
  BY <1>1 DEF NodeReportsTruthful, BehindWrite, Logged, TypeOK
<1>4. \A q \in Requests : pc[q] \in Ended => pc'[q] = pc[q]
  BY <1>1 DEF Ended
<1>5. EarlierEnded'
  BY <1>1, <1>4 DEF EarlierEnded, TypeOK
<1>6. BehindWrite'
  BY <1>1, <1>2, <1>3 DEF BehindWrite
<1>7. \A q \in Logged : call'[q] = call[q] /\ earlier'[q] = earlier[q]
  BY <1>1, <1>3
<1>8. \A q \in audited' : call'[q].op \in NodeOps => q \in applied'
  BY <1>1, <1>3 DEF NodeReportsTruthful
<1>9. QED
  BY <1>1, <1>4, <1>5, <1>6, <1>7, <1>8, SilentStep DEF NodeReportsTruthful

\* A step of a request short of its reports, a failure or a crash.
LEMMA QuietReports ==
  ASSUME ReportInductive, UNCHANGED <<call, audited, log, earlier>>,
         applied \subseteq applied',
         \A q \in Requests : pc[q] \in Ended \union {"idle"} => pc'[q] = pc[q],
         \A q \in Requests : pc[q] # "idle" => pc'[q] # "idle",
         \A q \in Requests : pc'[q] \in {"audit", "emit"} /\ call[q].op \in NodeOps =>
                               q \in applied'
  PROVE  BehindWrite' /\ NodeReportsTruthful' /\ EarlierEnded' /\ ReportsInRealTime'
<1> USE DEF ReportInductive
<1>1. EarlierEnded'
  BY DEF EarlierEnded, TypeOK
<1>2. BehindWrite'
  BY DEF BehindWrite, TypeOK
<1>3. \A q \in audited' : call'[q].op \in NodeOps => q \in applied'
  BY DEF NodeReportsTruthful
<1>4. QED
  BY <1>1, <1>2, <1>3, SilentStep DEF NodeReportsTruthful, Logged

LEMMA PersistReports ==
  ASSUME ReportInductive, NEW r \in Requests, Persist(r)
  PROVE  BehindWrite' /\ NodeReportsTruthful' /\ EarlierEnded' /\ ReportsInRealTime'
<1> USE DEF ReportInductive
<1>1. /\ UNCHANGED <<call, audited, log, earlier>> /\ pc[r] = "persist"
      /\ applied' = IF Matches(call[r]) THEN applied \union {r} ELSE applied
      /\ \A q \in Requests \ {r} : pc'[q] = pc[q]
      /\ pc'[r] \in {AfterWrite(call[r]), "failed"}
  BY DEF Persist, Goto, TypeOK
<1>2. AfterWrite(call[r]) \in {"audit", "emit"} /\ call[r].op \in NodeOps => Matches(call[r])
  BY DEF AfterWrite, NodeOps
<1>3. AfterWrite(call[r]) # "idle"
  BY DEF AfterWrite
<1>4. QED
  BY <1>1, <1>2, <1>3, QuietReports DEF BehindWrite, Ended

LEMMA AuditReports ==
  ASSUME ReportInductive, NEW r \in Requests, Audit(r)
  PROVE  BehindWrite' /\ NodeReportsTruthful' /\ EarlierEnded' /\ ReportsInRealTime'
<1> USE DEF ReportInductive
<1>1. /\ pc[r] = "audit" /\ UNCHANGED <<call, log, earlier, applied>>
      /\ audited' \in {audited, audited \union {r}}
      /\ \A q \in Requests \ {r} : pc'[q] = pc[q]
      /\ pc'[r] = "emit"
  BY DEF Audit, Goto, TypeOK, db
<1>2. EarlierEnded' /\ BehindWrite'
  BY <1>1 DEF EarlierEnded, BehindWrite, TypeOK, Ended
<1>3. \A q \in audited' : call'[q].op \in NodeOps => q \in applied'
  BY <1>1 DEF NodeReportsTruthful, BehindWrite
<1>4. QED
  BY <1>1, <1>2, <1>3, SilentStep DEF NodeReportsTruthful, Ended

LEMMA EmitReports ==
  ASSUME ReportInductive, NEW r \in Requests, Emit(r)
  PROVE  BehindWrite' /\ NodeReportsTruthful' /\ EarlierEnded' /\ ReportsInRealTime'
<1> USE DEF ReportInductive
<1>1. /\ pc[r] = "emit" /\ UNCHANGED <<call, earlier, applied, audited>>
      /\ log' = Append(log, r)
      /\ \A q \in Requests \ {r} : pc'[q] = pc[q]
      /\ pc'[r] = "done"
  BY DEF Emit, Goto, TypeOK, db
<1>2. EarlierEnded' /\ BehindWrite'
  BY <1>1 DEF EarlierEnded, BehindWrite, TypeOK, Ended
<1>3. /\ log \in Seq(Requests) /\ Len(log') = Len(log) + 1
      /\ DOMAIN log = 1..Len(log) /\ DOMAIN log' = 1..(Len(log) + 1)
      /\ Len(log) \in Nat
      /\ \A i \in 1..Len(log) : log'[i] = log[i] /\ log[i] \in Requests
      /\ log'[Len(log) + 1] = r
  BY <1>1 DEF TypeOK
<1>4. r \notin Logged /\ \A i \in DOMAIN log : pc[log[i]] = "done"
  BY <1>1 DEF NodeReportsTruthful, Logged
<1>5. Logged' = Logged \union {r}
  BY <1>3 DEF Logged
<1>6. \A q \in Logged' \union audited' : call'[q].op \in NodeOps => q \in applied'
  BY <1>1, <1>5 DEF NodeReportsTruthful, BehindWrite
<1>7. \A q \in Logged' : pc'[q] = "done"
  BY <1>1, <1>4, <1>5, <1>3 DEF NodeReportsTruthful, Logged
<1>8. \A i, j \in DOMAIN log' : log'[i] = log'[j] => i = j
  BY <1>3, <1>4 DEF NodeReportsTruthful, Logged
<1>9. ReportsInRealTime'
  <2> SUFFICES ASSUME NEW i \in DOMAIN log', NEW j \in DOMAIN log', i < j
               PROVE  log'[j] \notin earlier[log'[i]]
    BY <1>1 DEF ReportsInRealTime
  <2>1. i \in 1..Len(log) /\ log'[i] = log[i] /\ log[i] \in Requests
    BY <1>3
  <2>2. CASE j = Len(log) + 1
    BY <1>1, <1>3, <2>1, <2>2 DEF EarlierEnded, Ended
  <2>3. CASE j \in 1..Len(log)
    BY <1>3, <2>1, <2>3 DEF ReportsInRealTime
  <2>4. QED
    BY <1>3, <2>2, <2>3
<1>10. QED
  BY <1>2, <1>6, <1>7, <1>8, <1>9 DEF NodeReportsTruthful

LEMMA ReportStep == ReportInductive /\ [Next]_vars => ReportInductive'
<1> SUFFICES ASSUME ReportInductive, [Next]_vars PROVE ReportInductive'
  OBVIOUS
<1> USE DEF ReportInductive
<1>1. TypeOK' /\ Asked'
  BY TypeStep
<1>2. SUFFICES BehindWrite' /\ NodeReportsTruthful' /\ EarlierEnded' /\ ReportsInRealTime'
  BY <1>1
<1>3. ASSUME NEW r \in Requests,
             NEW s \in {"exists", "source", "target", "card_target", "card_source"},
             NEW f, NEW t, t \notin {"audit", "emit", "idle"}, Read(r, s, f, t)
      PROVE  BehindWrite' /\ NodeReportsTruthful' /\ EarlierEnded' /\ ReportsInRealTime'
  BY <1>3, QuietReports DEF Read, db, Goto, TypeOK, BehindWrite, Ended
<1>4. ASSUME NEW r \in Requests,
             \/ CheckExists(r) \/ CheckSource(r) \/ CheckTarget(r)
             \/ CountInbound(r) \/ CountOutbound(r)
      PROVE  BehindWrite' /\ NodeReportsTruthful' /\ EarlierEnded' /\ ReportsInRealTime'
  BY <1>3, <1>4 DEF CheckExists, CheckSource, CheckTarget, CountInbound, CountOutbound,
     FirstCheck, AfterTargetCheck
<1>5. ASSUME NEW r \in Requests, DbFails(r)
      PROVE  BehindWrite' /\ NodeReportsTruthful' /\ EarlierEnded' /\ ReportsInRealTime'
  BY <1>5, QuietReports DEF DbFails, db, Goto, TypeOK, BehindWrite, Ended
<1>6. CASE Crash
  BY <1>6, QuietReports DEF Crash, InFlight, db, TypeOK, BehindWrite, Ended
<1>7. CASE UNCHANGED vars
  BY <1>7, QuietReports DEF vars, BehindWrite
<1>8. QED
  BY <1>4, <1>5, <1>6, <1>7, BeginReports, PersistReports, AuditReports, EmitReports
  DEF Next, Step

LEMMA ReportInit == Init => ReportInductive
<1> SUFFICES ASSUME Init PROVE ReportInductive
  OBVIOUS
<1>1. TypeOK /\ log = <<>> /\ DOMAIN log = {}
  BY InitType DEF Init
<1>2. NodeReportsTruthful /\ ReportsInRealTime
  BY <1>1 DEF Init, NodeReportsTruthful, ReportsInRealTime, Logged
<1>3. QED
  BY <1>1, <1>2 DEF Init, ReportInductive, Asked, BehindWrite, EarlierEnded

LEMMA ReportInvariance == Spec => []ReportInductive
BY ReportInit, ReportStep, PTL DEF Spec

\* The audit trail and the event log never name a node mutation that did not
\* take effect, and no request reports twice or reports and fails.
THEOREM NodeReportsAreTrue == Spec => []NodeReportsTruthful
<1>1. ReportInductive => NodeReportsTruthful
  BY DEF ReportInductive
<1>2. QED
  BY <1>1, ReportInvariance, PTL

\* Reports come in real-time order: of two requests that do not overlap, the
\* earlier one is reported first.
THEOREM ReportsKeepRealTime == Spec => []ReportsInRealTime
<1>1. ReportInductive => ReportsInRealTime
  BY DEF ReportInductive
<1>2. QED
  BY <1>1, ReportInvariance, PTL

-----------------------------------------------------------------------------
(* Proofs about what a request relies on between its checks and its write:   *)
(* that edges have the ends their type allows, and that an event of an edge  *)
(* that was not written has a deletion to blame.                             *)

\* What may become of one request in a step of the system.
Moved(q) ==
  \/ pc'[q] = pc[q] /\ call'[q] = call[q]
  \/ /\ pc[q] = "idle" /\ call'[q] \in Call
     /\ Nameable(call'[q]) /\ call'[q].via \in Vias
     /\ pc'[q] \in {FirstStage(call'[q]), "failed"}
  \/ /\ pc[q] # "idle" /\ call'[q] = call[q]
     /\ \/ pc'[q] \in {"failed", "lost"}
        \/ pc[q] = "exists" /\ pc'[q] = "persist"
        \/ /\ pc[q] = "source" /\ pc'[q] = "target"
           /\ HasNode(call[q].src, EdgeDef[call[q].type].source)
        \/ /\ pc[q] = "target" /\ pc'[q] = FirstCheck(call[q].type)
           /\ HasNode(call[q].dst, EdgeDef[call[q].type].target)
        \/ pc[q] = "card_target" /\ pc'[q] = AfterTargetCheck(call[q].type)
        \/ pc[q] = "card_source" /\ pc'[q] = "persist"
        \/ Persist(q) /\ pc'[q] = AfterWrite(call[q])
        \/ pc[q] = "audit" /\ pc'[q] = "emit"
        \/ Emit(q)

\* A request that asks for an edge names nodes that were issued, on a path in use.
Named ==
  \A r \in Requests : pc[r] # "idle" =>
    /\ call[r].via \in Vias
    /\ call[r].op = "create_edge" => {call[r].src, call[r].dst} \subseteq KnownNodeIds

\* An issued node that is gone was deleted.
DeletedBy(i) == \E d \in applied : call[d].op = "delete_node" /\ call[d].id = i
Gone == \A i \in KnownNodeIds : i \in LiveIds \/ DeletedBy(i)

\* Why an edge that is reported may not be there.
Excused(r) ==
  call[r].op = "create_edge" /\ (DeletedBy(call[r].src) \/ DeletedBy(call[r].dst))
Told ==
  \A r \in Requests : pc[r] \in {"audit", "emit"} \/ r \in Logged => r \in applied \/ Excused(r)

EventInductive ==
  Inductive /\ ReportInductive /\ Named /\ Gone /\ Told /\ SuccessIsReported

--------------------------------------------------------------------------------
\* Every step does to a request what Moved says.
LEMMA StepMoves ==
  ASSUME TypeOK, [Next]_vars, NEW q \in Requests  PROVE Moved(q)
<1> USE DEF TypeOK, Goto
<1>1. ASSUME NEW r \in Requests, NEW c \in Call, Begin(r, c)  PROVE Moved(q)
  <2>1. CASE q = r
    BY <1>1, <2>1 DEF Begin, Moved
  <2>2. CASE q # r
    BY <1>1, <2>2 DEF Begin, Moved
  <2> QED  BY <2>1, <2>2
<1>2. ASSUME NEW r \in Requests, q # r, Step(r)  PROVE pc'[q] = pc[q] /\ call'[q] = call[q]
  BY <1>2 DEF Step, CheckExists, CheckSource, CheckTarget, CountInbound, CountOutbound, Read,
              Persist, DbFails, Audit, Emit
<1>3. CASE CheckExists(q) \/ CheckSource(q)
  BY <1>3 DEF CheckExists, CheckSource, Read, Moved
<1>4. CASE CheckTarget(q)
  BY <1>4 DEF CheckTarget, Read, Moved
<1>5. CASE CountInbound(q) \/ CountOutbound(q)
  BY <1>5 DEF CountInbound, CountOutbound, Read, Moved
<1>6. CASE Persist(q)
  <2>1. pc[q] = "persist" /\ call'[q] = call[q] /\ pc'[q] \in {AfterWrite(call[q]), "failed"}
    BY <1>6 DEF Persist
  <2> QED  BY <1>6, <2>1 DEF Moved
<1>7. CASE DbFails(q) \/ Audit(q)
  BY <1>7 DEF DbFails, Audit, Moved
<1>8. CASE Emit(q)
  BY <1>8 DEF Emit, Moved
<1>9. CASE Crash \/ UNCHANGED vars
  BY <1>9 DEF Crash, InFlight, vars, Moved
<1> QED
  BY <1>1, <1>2, <1>3, <1>4, <1>5, <1>6, <1>7, <1>8, <1>9 DEF Next, Step, Moved

\* The log grows by the events that are emitted.
LEMMA LogMoves ==
  ASSUME TypeOK, [Next]_vars
  PROVE  /\ Logged \subseteq Logged'
         /\ \A q \in Requests : Emit(q) => q \in Logged'
         /\ \A q \in Logged' \ Logged : q \in Requests /\ Emit(q)
<1>1. ASSUME NEW r \in Requests, Emit(r)  PROVE Logged' = Logged \union {r}
  <2>1. /\ log \in Seq(Requests) /\ log' = Append(log, r) /\ Len(log) \in Nat
        /\ DOMAIN log = 1..Len(log) /\ DOMAIN log' = 1..(Len(log) + 1)
        /\ \A i \in 1..Len(log) : log'[i] = log[i]
        /\ log'[Len(log) + 1] = r
    BY <1>1 DEF Emit, TypeOK
  <2> QED  BY <2>1 DEF Logged
<1>2. ASSUME \A r \in Requests : ~Emit(r)  PROVE Logged' = Logged
  <2>1. log' = log
    BY <1>2 DEF Next, Step, CheckExists, CheckSource, CheckTarget, CountInbound,
                CountOutbound, Read, Persist, DbFails, Audit, Begin, Crash, vars
  <2> QED  BY <2>1 DEF Logged
<1> QED  BY <1>1, <1>2

\* What was issued stays issued, what was deleted stays deleted, and a new node
\* has an identifier that nobody can have named.
LEMMA GraphMoves ==
  ASSUME Inductive, [Next]_vars
  PROVE  /\ applied \subseteq applied' /\ \A d \in applied : call'[d] = call[d]
         /\ KnownNodeIds \subseteq KnownNodeIds'
         /\ \A n \in nodes' : n \in nodes \/ n.id \notin KnownNodeIds
         /\ Gone => Gone'
<1> USE DEF Inductive
<1>1. CASE \A r \in Requests : ~Persist(r)
  <2>1. /\ UNCHANGED <<nodes, edges, applied>>
        /\ \A q \in applied : call'[q] = call[q]
    BY <1>1, QuietStep
  <2>2. KnownNodeIds' = KnownNodeIds /\ LiveIds' = LiveIds
    BY <2>1 DEF KnownNodeIds, LiveIds
  <2>3. \A i \in KnownNodeIds : DeletedBy(i) => DeletedBy(i)'
    BY <2>1 DEF DeletedBy
  <2> QED  BY <2>1, <2>2, <2>3 DEF Gone
<1>2. ASSUME NEW r \in Requests, Persist(r)
      PROVE  /\ applied \subseteq applied' /\ \A d \in applied : call'[d] = call[d]
             /\ KnownNodeIds \subseteq KnownNodeIds'
             /\ \A n \in nodes' : n \in nodes \/ n.id \notin KnownNodeIds
             /\ Gone => Gone'
  <2>1. /\ call' = call /\ Write(r) /\ r \notin applied
        /\ applied' = IF Matches(call[r]) THEN applied \union {r} ELSE applied
    BY <1>2 DEF Persist, AppliedLate, Ended
  <2>2. applied \subseteq applied' /\ KnownNodeIds \subseteq KnownNodeIds'
    BY <2>1 DEF KnownNodeIds
  <2>3. \A i \in KnownNodeIds : DeletedBy(i) => DeletedBy(i)'
    BY <2>1, <2>2 DEF DeletedBy
  <2>4. CASE InsertNode(r)
    <3>1. /\ call[r].op = "create_node"
          /\ nodes' = nodes \union {[id |-> r, type |-> call[r].type]}
      BY <2>4 DEF InsertNode
    <3>2. r \notin KnownNodeIds
      BY <2>1, GraphAssumption DEF KnownNodeIds
    <3>3. LiveIds \subseteq LiveIds' /\ r \in LiveIds'
      <4>1. [id |-> r, type |-> call[r].type].id = r
        OBVIOUS
      <4> QED  BY <3>1, <4>1 DEF LiveIds
    <3>4. KnownNodeIds' \subseteq KnownNodeIds \union {r}
      BY <2>1 DEF KnownNodeIds
    <3> QED  BY <2>1, <2>2, <2>3, <3>1, <3>2, <3>3, <3>4 DEF Gone
  <2>5. CASE ~InsertNode(r)
    <3>1. /\ nodes' \subseteq nodes /\ call[r].op # "create_node"
          /\ \A n \in nodes \ nodes' : call[r].op = "delete_node" /\ call[r].id = n.id
                                       /\ n.type = call[r].type
      BY <2>1, <2>5 DEF Write, SetProperties, DetachDelete, InsertEdge, DeleteEdges
    <3>2. KnownNodeIds' = KnownNodeIds
      BY <2>1, <3>1 DEF KnownNodeIds
    <3>3. ASSUME NEW n \in nodes \ nodes'  PROVE DeletedBy(n.id)'
      <4>1. call[r].op = "delete_node" /\ call[r].id = n.id /\ Matches(call[r])
        BY <3>1, <3>3 DEF Matches, HasNode
      <4> QED  BY <2>1, <4>1 DEF DeletedBy
    <3>4. \A i \in LiveIds : i \in LiveIds' \/ DeletedBy(i)'
      BY <3>3 DEF LiveIds
    <3> QED  BY <2>1, <2>2, <2>3, <3>1, <3>2, <3>4 DEF Gone
  <2> QED  BY <2>4, <2>5
<1> QED  BY <1>1, <1>2

\* What a request named when it began stays named.
LEMMA NamedStep ==
  ASSUME Inductive, Named, [Next]_vars  PROVE Named'
<1> SUFFICES ASSUME NEW q \in Requests, pc'[q] # "idle"
             PROVE  /\ call'[q].via \in Vias
                    /\ call'[q].op = "create_edge" =>
                         {call'[q].src, call'[q].dst} \subseteq KnownNodeIds'
  BY DEF Named
<1>1. Moved(q) /\ KnownNodeIds \subseteq KnownNodeIds'
  BY StepMoves, GraphMoves DEF Inductive
<1>2. CASE pc[q] # "idle"
  <2>1. call'[q] = call[q]
    BY <1>1, <1>2 DEF Moved
  <2> QED  BY <1>1, <1>2, <2>1 DEF Named
<1>3. CASE pc[q] = "idle"
  <2>1. Nameable(call'[q]) /\ call'[q].via \in Vias
    BY <1>1, <1>3 DEF Moved, Persist, Emit
  <2> QED  BY <1>1, <2>1 DEF Nameable
<1> QED  BY <1>2, <1>3

\* A creation whose write matched nothing has lost one of its ends.
LEMMA ToldStep ==
  ASSUME EventInductive, [Next]_vars  PROVE Told'
<1> USE DEF EventInductive
<1> SUFFICES ASSUME NEW q \in Requests, pc'[q] \in {"audit", "emit"} \/ q \in Logged'
             PROVE  q \in applied' \/ Excused(q)'
  BY DEF Told
<1>1. /\ applied \subseteq applied' /\ \A d \in applied : call'[d] = call[d]
  BY GraphMoves
<1>2. \A i : DeletedBy(i) => DeletedBy(i)'
  BY <1>1 DEF DeletedBy
<1>3. ASSUME pc[q] \in {"audit", "emit"} \/ q \in Logged  PROVE q \in applied' \/ Excused(q)'
  <2>1. call'[q] = call[q]
    <3>1. Moved(q)
      BY StepMoves DEF Inductive
    <3>2. pc[q] # "idle"
      BY <1>3 DEF ReportInductive, NodeReportsTruthful
    <3> QED  BY <3>1, <3>2 DEF Moved
  <2>2. q \in applied \/ Excused(q)
    BY <1>3 DEF Told
  <2> QED  BY <1>1, <1>2, <2>1, <2>2 DEF Excused
<1>4. CASE pc[q] \notin {"audit", "emit"} /\ q \notin Logged
  <2>1. q \notin Logged'
    BY <1>4, LogMoves DEF Inductive, Emit
  <2>2. Persist(q) /\ pc'[q] = AfterWrite(call[q])
    <3>1. Moved(q) /\ pc'[q] \in {"audit", "emit"}
      BY <2>1, StepMoves DEF Inductive
    <3>2. \A c : FirstStage(c) \notin {"audit", "emit"}
      BY DEF FirstStage, FirstCheck, AfterTargetCheck
    <3>3. \A t : FirstCheck(t) \notin {"audit", "emit"} /\ AfterTargetCheck(t) \notin {"audit", "emit"}
      BY DEF FirstCheck, AfterTargetCheck
    <3> QED  BY <1>4, <3>1, <3>2, <3>3 DEF Moved, Emit
  <2>3. /\ call' = call /\ pc[q] = "persist"
        /\ applied' = IF Matches(call[q]) THEN applied \union {q} ELSE applied
    BY <2>2 DEF Persist
  <2>4. CASE Matches(call[q])
    BY <2>3, <2>4
  <2>5. CASE ~Matches(call[q])
    <3>1. call[q].op = "create_edge"
      BY <1>4, <2>1, <2>2, <2>5 DEF AfterWrite
    <3>2. \A i : HasNode(i, NodeTypes) <=> i \in LiveIds
      BY DEF HasNode, LiveIds, Inductive, TypeOK, Node
    <3>3. call[q].src \notin LiveIds \/ call[q].dst \notin LiveIds
      BY <2>5, <3>1, <3>2 DEF Matches
    <3>4. {call[q].src, call[q].dst} \subseteq KnownNodeIds
      BY <2>3, <3>1 DEF Named
    <3>5. DeletedBy(call[q].src) \/ DeletedBy(call[q].dst)
      BY <3>3, <3>4 DEF Gone
    <3> QED  BY <1>2, <2>3, <3>1, <3>5 DEF Excused
  <2> QED  BY <2>4, <2>5
<1> QED  BY <1>3, <1>4

\* A service answers only after its event.
LEMMA AnsweredStep ==
  ASSUME EventInductive, [Next]_vars  PROVE SuccessIsReported'
<1> USE DEF EventInductive
<1> SUFFICES ASSUME NEW q \in Requests, pc'[q] = "done", call'[q].via = "service"
             PROVE  q \in Logged'
  BY DEF SuccessIsReported
<1>1. Moved(q) /\ Logged \subseteq Logged' /\ (Emit(q) => q \in Logged')
  BY StepMoves, LogMoves DEF Inductive
<1>2. \A c, t : FirstStage(c) # "done" /\ FirstCheck(t) # "done" /\ AfterTargetCheck(t) # "done"
  BY DEF FirstStage, FirstCheck, AfterTargetCheck
<1>3. AfterWrite(call[q]) = "done" => call[q].via = "tool"
  BY DEF AfterWrite
<1>4. CASE pc'[q] = pc[q] /\ call'[q] = call[q]
  BY <1>1, <1>4 DEF SuccessIsReported
<1>5. CASE ~(pc'[q] = pc[q] /\ call'[q] = call[q])
  <2>1. Emit(q)
    BY <1>1, <1>2, <1>3, <1>5 DEF Moved
  <2> QED  BY <1>1, <2>1
<1> QED  BY <1>4, <1>5

LEMMA EventInit == Init => EventInductive
<1> SUFFICES ASSUME Init  PROVE EventInductive
  OBVIOUS
<1>1. Inductive /\ ReportInductive
  BY InitInductive, ReportInit
<1>2. Logged = {} /\ KnownNodeIds = LiveIds /\ \A r \in Requests : pc[r] = "idle"
  BY DEF Init, Logged, KnownNodeIds, LiveIds
<1> QED
  BY <1>1, <1>2 DEF EventInductive, Named, Gone, Told, SuccessIsReported

LEMMA EventStep == EventInductive /\ [Next]_vars => EventInductive'
<1> SUFFICES ASSUME EventInductive, [Next]_vars  PROVE EventInductive'
  OBVIOUS
<1>1. Inductive' /\ ReportInductive'
  BY InductiveStep, ReportStep DEF EventInductive
<1>2. Named' /\ Gone'
  BY NamedStep, GraphMoves DEF EventInductive
<1> QED  BY <1>1, <1>2, ToldStep, AnsweredStep DEF EventInductive

\* Whatever the interleaving, failures and crashes: the services answer "done"
\* only after their event, and an event that names something not done is that of
\* an edge whose end was deleted after the checks (NodeService, EdgeService).
THEOREM EventsAndAnswersFit == Spec => []EventsFitAnswers
<1>1. EventInductive => EventsFitAnswers
  <2> SUFFICES ASSUME EventInductive, NEW r \in Logged \ applied
               PROVE  /\ call[r].op = "create_edge"
                      /\ \E d \in applied : /\ call[d].op = "delete_node"
                                            /\ call[d].id \in {call[r].src, call[r].dst}
    BY DEF EventInductive, EventsFitAnswers, ReportsTruthful
  <2>1. r \in Requests
    BY DEF EventInductive, Inductive, TypeOK, Logged
  <2> QED  BY <2>1 DEF EventInductive, Told, Excused, DeletedBy
<1> QED  BY EventInit, EventStep, <1>1, PTL DEF Spec

--------------------------------------------------------------------------------
(* The ends of edges, for clients that use the services.                      *)

\* A node of a type that the end of an edge may have; there may be none.
Fits(i, types) == \A n \in nodes : n.id = i => n.type \in types

\* What the endpoint checks found still holds, up to the deletion of the node.
EndsChecked ==
  \A r \in Requests :
    /\ pc[r] = "exists" => call[r].op # "create_edge"
    /\ call[r].op = "create_edge" =>
         /\ pc[r] \in {"target", "card_target", "card_source", "persist"} =>
              Fits(call[r].src, EdgeDef[call[r].type].source)
         /\ pc[r] \in {"card_target", "card_source", "persist"} =>
              Fits(call[r].dst, EdgeDef[call[r].type].target)

EndsInductive == Inductive /\ Named /\ EndsChecked /\ EndpointsAllowed

LEMMA EndsCheckedStep ==
  ASSUME "tool" \notin Vias, EndsInductive, [Next]_vars  PROVE EndsChecked'
<1> USE DEF EndsInductive
<1> SUFFICES ASSUME NEW q \in Requests
             PROVE  /\ pc'[q] = "exists" => call'[q].op # "create_edge"
                    /\ call'[q].op = "create_edge" =>
                         /\ pc'[q] \in {"target", "card_target", "card_source", "persist"} =>
                              Fits(call[q].src, EdgeDef[call[q].type].source)'
                         /\ pc'[q] \in {"card_target", "card_source", "persist"} =>
                              Fits(call[q].dst, EdgeDef[call[q].type].target)'
  BY DEF EndsChecked
<1>1. Moved(q)
  BY StepMoves DEF Inductive
<1>2. CASE pc[q] = "idle"
  <2>1. CASE pc'[q] = "idle"
    BY <2>1
  <2>2. CASE pc'[q] # "idle"
    <3>1. /\ call'[q] \in Call /\ call'[q].via \in Vias
          /\ pc'[q] \in {FirstStage(call'[q]), "failed"}
      BY <1>1, <1>2, <2>2 DEF Moved, Persist, Emit
    <3>2. call'[q].op = "create_edge" => call'[q].via = "service"
      BY <3>1 DEF Call
    <3>3. /\ call'[q].op = "create_edge" => FirstStage(call'[q]) = "source"
      BY <3>2 DEF FirstStage
    <3> QED  BY <3>1, <3>3
  <2> QED  BY <2>1, <2>2
<1>3. CASE pc[q] # "idle"
  <2> DEFINE c == call[q]
             Src == Fits(c.src, EdgeDef[c.type].source)
             Dst == Fits(c.dst, EdgeDef[c.type].target)
  <2>1. call'[q] = c
    BY <1>1, <1>3 DEF Moved
  <2>2. c.op = "create_edge" => {c.src, c.dst} \subseteq KnownNodeIds
    BY <1>3 DEF Named
  <2>3. \A i, types : HasNode(i, types) => Fits(i, types)
    BY DEF HasNode, Fits, Inductive, ReferentialIntegrity
  <2>4. \A c1 : AfterWrite(c1) \notin {"exists", "target", "card_target", "card_source", "persist"}
    BY DEF AfterWrite
  <2>5. \A t : /\ FirstCheck(t) \in {"card_target", "card_source", "persist"}
               /\ AfterTargetCheck(t) \in {"card_source", "persist"}
    BY DEF FirstCheck, AfterTargetCheck
  <2>6. /\ pc'[q] = "exists" => pc[q] = "exists"
        /\ c.op = "create_edge" =>
             /\ pc'[q] \in {"target", "card_target", "card_source", "persist"} => Src
             /\ pc'[q] \in {"card_target", "card_source", "persist"} => Dst
    <3> HIDE DEF Src, Dst
    <3>1. /\ pc[q] = "exists" => c.op # "create_edge"
          /\ c.op = "create_edge" =>
               /\ pc[q] \in {"target", "card_target", "card_source", "persist"} => Src
               /\ pc[q] \in {"card_target", "card_source", "persist"} => Dst
      BY DEF EndsChecked, Src, Dst
    <3>2. /\ HasNode(c.src, EdgeDef[c.type].source) => Src
          /\ HasNode(c.dst, EdgeDef[c.type].target) => Dst
      BY <2>3 DEF Src, Dst
    <3> QED  BY <1>1, <1>3, <2>4, <2>5, <3>1, <3>2 DEF Moved, Emit, Goto, Inductive, TypeOK
  <2>7. ASSUME c.op = "create_edge"
        PROVE  /\ Src => Fits(c.src, EdgeDef[c.type].source)'
               /\ Dst => Fits(c.dst, EdgeDef[c.type].target)'
    BY <2>1, <2>2, <2>7, GraphMoves DEF Fits
  <2> QED  BY <2>1, <2>6, <2>7 DEF EndsChecked
<1> QED  BY <1>2, <1>3
\* An edge is written between the nodes that were checked, or not at all.
LEMMA EndsWritten ==
  ASSUME EndsInductive, [Next]_vars  PROVE EndpointsAllowed'
<1> USE DEF EndsInductive
<1> SUFFICES ASSUME NEW e \in edges'
             PROVE  /\ \E n \in nodes' : n.id = e.src /\ n.type \in EdgeDef[e.type].source
                    /\ \E n \in nodes' : n.id = e.dst /\ n.type \in EdgeDef[e.type].target
  BY DEF EndpointsAllowed
<1>1. CASE \A r \in Requests : ~Persist(r)
  <2>1. nodes' = nodes /\ edges' = edges
    BY <1>1, QuietStep DEF Inductive
  <2> QED  BY <2>1 DEF EndpointsAllowed
<1>2. ASSUME NEW r \in Requests, Persist(r)
      PROVE  /\ \E n \in nodes' : n.id = e.src /\ n.type \in EdgeDef[e.type].source
             /\ \E n \in nodes' : n.id = e.dst /\ n.type \in EdgeDef[e.type].target
  <2>1. pc[r] = "persist" /\ Write(r)
    BY <1>2 DEF Persist
  <2>2. CASE e \in edges
    <3>1. PICK n \in nodes : n.id = e.src /\ n.type \in EdgeDef[e.type].source
      BY <2>2 DEF EndpointsAllowed
    <3>2. PICK m \in nodes : m.id = e.dst /\ m.type \in EdgeDef[e.type].target
      BY <2>2 DEF EndpointsAllowed
    <3>3. n \in nodes' /\ m \in nodes'
      <4>1. CASE DetachDelete(r)
        <5>1. /\ nodes' = {x \in nodes : ~(x.id = call[r].id /\ x.type = call[r].type)}
              /\ call[r].op = "delete_node"
              /\ Matches(call[r]) => call[r].id \notin {e.src, e.dst}
          BY <4>1 DEF DetachDelete
        <5>2. ~Matches(call[r]) => nodes' = nodes
          BY <5>1 DEF Matches, HasNode
        <5> QED  BY <3>1, <3>2, <5>1, <5>2
      <4>2. CASE ~DetachDelete(r)
        BY <2>1, <4>2 DEF Write, InsertNode, SetProperties, InsertEdge, DeleteEdges
      <4> QED  BY <4>1, <4>2
    <3> QED  BY <3>1, <3>2, <3>3
  <2>3. CASE e \notin edges
    <3>1. /\ call[r].op = "create_edge" /\ nodes' = nodes /\ Matches(call[r])
          /\ e.type = call[r].type /\ e.src = call[r].src /\ e.dst = call[r].dst
      BY <2>1, <2>3 DEF Write, InsertNode, SetProperties, DetachDelete, InsertEdge, DeleteEdges
    <3>2. /\ Fits(e.src, EdgeDef[e.type].source)
          /\ Fits(e.dst, EdgeDef[e.type].target)
      BY <2>1, <3>1 DEF EndsChecked
    <3>3. /\ \E n \in nodes : n.id = e.src
          /\ \E n \in nodes : n.id = e.dst
      BY <3>1 DEF Matches, HasNode
    <3> QED  BY <3>1, <3>2, <3>3 DEF Fits
  <2> QED  BY <2>2, <2>3
<1> QED  BY <1>1, <1>2

\* Clients of the services never get an edge between nodes of types that its
\* definition does not allow, although the checks, the write and the deletions
\* of others are separate transactions (EdgeService._validate_endpoints).
THEOREM EndpointsStayAllowed == "tool" \notin Vias => (Spec => []EndpointsAllowed)
<1>1. Init => EndsInductive
  <2> SUFFICES ASSUME Init  PROVE EndsInductive
    OBVIOUS
  <2>1. Named /\ EndsChecked
    BY DEF Init, Named, EndsChecked
  <2>2. EndpointsAllowed
    BY InitialGraphAssumption DEF Init, EndpointsAllowed
  <2> QED  BY <2>1, <2>2, InitInductive DEF EndsInductive
<1>2. EndsInductive => EndpointsAllowed
  BY DEF EndsInductive
<1>3. CASE "tool" \notin Vias
  <2>1. EndsInductive /\ [Next]_vars => EndsInductive'
    BY <1>3, InductiveStep, NamedStep, EndsCheckedStep, EndsWritten DEF EndsInductive
  <2> QED  BY <1>1, <1>2, <2>1, PTL DEF Spec
<1>4. CASE ~("tool" \notin Vias)
  BY <1>4
<1> QED  BY <1>3, <1>4
================================================================================
