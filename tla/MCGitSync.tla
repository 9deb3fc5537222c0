------------------------------- MODULE MCGitSync -------------------------------
(* Instances of GitSync for TLC.                                             *)
EXTENDS GitSync, TLC

NodeType(n, own, mixins) == [kind |-> "NodeType", name |-> n, own |-> own, mixins |-> mixins]
Mixin(n, own) == [kind |-> "Mixin", name |-> n, own |-> own, mixins |-> <<>>]
Files(ds) == [definitions |-> ds, valid |-> TRUE]
WithBadFile(ds) == [definitions |-> ds, valid |-> FALSE]

\* On disk: a node type with a mixin.
OnDisk == {NodeType("Device", {"name"}, <<"life">>), Mixin("life", {"stamp"})}

\* A plugin that adds a type with a mixin of its own, changes both, and extends
\* the mixin on disk; its second commit does not parse.  The other plugin has a
\* type that uses the mixin of the first.
Network == <<Files({NodeType("Router", {"name"}, <<"geo">>), Mixin("geo", {"name", "loc"})}),
             WithBadFile({NodeType("Router", {"name"}, <<"geo">>), Mixin("geo", {"loc"})}),
             Files({NodeType("Router", {"loc"}, <<"geo", "life">>), Mixin("geo", {"name"}),
                    Mixin("life", {"stamp", "loc"})})>>
Lab == Files({NodeType("Probe", {"name"}, <<"geo">>)})
Plugins == [s \in {"net", "lab"} |-> IF s = "net" THEN Network ELSE <<Lab, Lab, Lab>>]
Around == [s \in {"net", "lab"} |->
  IF s = "net" THEN <<"files", "schemas", "files", "jobs">> ELSE <<"unknown", "schemas">>]

================================================================================
