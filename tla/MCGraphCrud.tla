------------------------------ MODULE MCGraphCrud ------------------------------
(* Instances of GraphCrud for TLC.                                           *)
EXTENDS GraphCrud, TLC

Def(c, us, ut, src, dst) ==
  [cardinality |-> c, unique_source |-> us, unique_target |-> ut,
   source |-> src, target |-> dst]

\* Two nodes of one type.
TwoNodes == {[id |-> "n1", type |-> "Device"], [id |-> "n2", type |-> "Device"]}
OneEdge == {[id |-> "e1", type |-> "REPLACES", src |-> "n1", dst |-> "n2"]}
NoEdges == {}
TwoTypes == TwoNodes \union {[id |-> "n3", type |-> "Site"]}

\* An edge type with both constraints, in a cardinality that checks both.
Replaces == [t \in {"REPLACES"} |-> Def("one_to_one", TRUE, TRUE, {"Device"}, {"Device"})]
Symmetry == Permutations(Requests)
================================================================================
