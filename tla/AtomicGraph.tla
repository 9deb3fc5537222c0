------------------------------ MODULE AtomicGraph ------------------------------
(*****************************************************************************)
(* What the graph store promises its users: a property graph in which every  *)
(* mutation is one indivisible step, an edge always joins two nodes that     *)
(* exist, a node leaves together with its edges, and an identifier is given  *)
(* to at most one node and one edge, ever.  GraphCrud.tla, the detailed      *)
(* model of the services and repositories, is shown to implement it.         *)
(*****************************************************************************)
CONSTANTS
  NodeIds,      \* identifiers a node may carry
  EdgeIds,      \* identifiers an edge may carry
  NodeTypes,    \* node types (labels)
  EdgeTypes,    \* edge types
  Nodes0,       \* nodes present at the start
  Edges0        \* edges present at the start

VARIABLES
  nodes,        \* the nodes of the graph: records [id, type]
  edges,        \* the edges of the graph: records [id, type, src, dst]
  issued        \* identifiers ever given out: [nodes |-> ..., edges |-> ...]

gvars == <<nodes, edges, issued>>

Node == [id : NodeIds, type : NodeTypes]
Edge == [id : EdgeIds, type : EdgeTypes, src : NodeIds, dst : NodeIds]

LiveIds == {n.id : n \in nodes}

Init ==
  /\ nodes = Nodes0
  /\ edges = Edges0
  /\ issued = [nodes |-> {n.id : n \in Nodes0}, edges |-> {e.id : e \in Edges0}]

AddNode(n) ==
  /\ n.id \notin issued.nodes
  /\ nodes' = nodes \union {n}
  /\ issued' = [issued EXCEPT !.nodes = @ \union {n.id}]
  /\ UNCHANGED edges

\* A node leaves the graph with every edge that touches it.
RemoveNode(n) ==
  /\ n \in nodes
  /\ nodes' = nodes \ {n}
  /\ edges' = {e \in edges : n.id \notin {e.src, e.dst}}
  /\ UNCHANGED issued

AddEdge(e) ==
  /\ {e.src, e.dst} \subseteq LiveIds
  /\ e.id \notin issued.edges
  /\ edges' = edges \union {e}
  /\ issued' = [issued EXCEPT !.edges = @ \union {e.id}]
  /\ UNCHANGED nodes

RemoveEdges(es) ==
  /\ edges' = edges \ es
  /\ UNCHANGED <<nodes, issued>>

Next ==
  \/ \E n \in Node : AddNode(n) \/ RemoveNode(n)
  \/ \E e \in Edge : AddEdge(e)
  \/ \E es \in SUBSET edges : RemoveEdges(es)

Spec == Init /\ [][Next]_gvars
================================================================================
