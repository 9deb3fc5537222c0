------------------------------- MODULE MCEventBus -------------------------------
(* Instances of EventBus for TLC.                                            *)
EXTENDS EventBus, TLC

NodeEvents == [e \in Events |-> "data"]
EdgeEvents == [e \in Events |-> "edge"]
Own        == [e \in Events |-> e]
HearSome   == [p \in Patterns |-> IF p = "all" THEN Events ELSE {"e1"}]
================================================================================
