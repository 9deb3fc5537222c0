---------------------------- MODULE MCNodeProperties ----------------------------
(* Instances of NodeProperties for TLC.                                      *)
EXTENDS NodeProperties, TLC

\* A required attribute, one with a default, the lifecycle mixin.
Attribute == [required |-> TRUE, auto |-> FALSE, default |-> None, allowed |-> {"v"}]
Lifecycle == [Attribute EXCEPT !.auto = TRUE]
Device ==
  [name |-> Attribute, status |-> [Attribute EXCEPT !.default = "v", !.allowed = {"u", "v"}],
   created_by |-> Lifecycle, updated_by |-> Lifecycle]

\* Its status was given when it was created, and is not the default.
DeviceProps == [name |-> "v", status |-> "u", created_by |-> Node0, updated_by |-> Node0]

\* Every body over a required and a managed attribute, "u" being no value for
\* the first, and bodies with an undeclared and with an internal name.
MixedBodies ==
  PropsOver({"name", "updated_by"}, {"u", "v", None}) \union
  {[name |-> "v", extra |-> "v"], [name |-> "v", _x |-> "v"], [name |-> "v", status |-> None],
   [name |-> "v", status |-> "u"], [name |-> "v", created_by |-> None]}

Symmetry == Permutations(Requests)
================================================================================
