------------------------------ MODULE ConfigContexts ------------------------------
(*****************************************************************************)
(* packages/iac/intended.py: which config contexts apply to a device, and    *)
(* what they give it when they are merged.                                   *)
(*                                                                           *)
(* A context is [name, active, weight, scope, data, garbled]: scope gives    *)
(* each scope that is set the values it accepts (a regular expression is the *)
(* set it matches, none when it is invalid), data gives each key its leaves, *)
(* a scalar being the leaf ".".  The data of a device is [props, platform,   *)
(* location, interfaces]; "" stands for what it lacks.                       *)
(*****************************************************************************)
EXTENDS Integers, Sequences, FiniteSets, Overlay

Prop(data, name) == IF name \in DOMAIN data.props THEN data.props[name] ELSE ""

\* The attribute a scope is compared with.
ScopeValue(data, scope) ==
  CASE scope = "locations" -> data.location
    [] scope = "roles"     -> Prop(data, "role")
    [] scope = "platforms" -> data.platform
    [] scope = "tags"      -> Prop(data, "tag")
    [] scope = "hosts"     -> Prop(data, "hostname")

\* Slip: one scope that matches is enough.
ContextMatches_Any(cc, data) ==
  DOMAIN cc.scope = {} \/ \E s \in DOMAIN cc.scope : ScopeValue(data, s) \in cc.scope[s]

\* _context_matches: every scope that is set matches; without one it is global.
ContextMatches(cc, data) ==
  \A s \in DOMAIN cc.scope : ScopeValue(data, s) \in cc.scope[s]

IsScalar(leaves) == "." \in DOMAIN leaves

\* _deep_merge: override wins, two dicts are merged.
DeepMerge(base, override) ==
  Over([k \in DOMAIN override \intersect DOMAIN base |->
          IF IsScalar(base[k]) \/ IsScalar(override[k]) THEN override[k]
                                                        ELSE Over(override[k], base[k])],
       Over(override, base))

\* The orders in which the database may return the contexts: by weight.
ByWeight(contexts) ==
  {q \in [1..Cardinality(contexts) -> contexts] :
     \A i, j \in DOMAIN q : i < j => q[i] # q[j] /\ q[i].weight <= q[j].weight}

\* resolve_config_contexts over one of those orders.
MergedContexts(order, data) ==
  LET merged[i \in 0..Len(order)] ==
        IF i = 0 THEN <<>>
        ELSE IF ContextMatches(order[i], data) /\ order[i].garbled # "data"
               THEN DeepMerge(merged[i - 1], order[i].data)
               ELSE merged[i - 1]
  IN merged[Len(order)]

\* A context as it comes from the database: a scalar has no other leaf.
WellFormed(cc) ==
  /\ cc.weight \in Int /\ cc.garbled \in {"", "data", "scope"}
  /\ \A k \in DOMAIN cc.data : IsScalar(cc.data[k]) => DOMAIN cc.data[k] = {"."}

\* A scope that is no JSON list raises, whatever the device.
ScopeRaises(contexts) == \E cc \in contexts : cc.garbled = "scope"

--------------------------------------------------------------------------------
(* What the contexts are meant to give.                                      *)

\* The contexts that set leaf p of key k for a device.
Setting(contexts, data, k, p) ==
  {cc \in contexts : /\ cc.garbled = "" /\ k \in DOMAIN cc.data /\ p \in DOMAIN cc.data[k]
                     /\ \A s \in DOMAIN cc.scope : ScopeValue(data, s) \in cc.scope[s]}

\* The applicable contexts that set k all give it a scalar, or all a dict.
Uniform(contexts, data, k) ==
  \/ \A cc \in contexts : k \in DOMAIN cc.data => IsScalar(cc.data[k])
  \/ \A cc \in contexts : k \in DOMAIN cc.data => ~IsScalar(cc.data[k])

Heaviest(contexts) == {cc \in contexts : \A o \in contexts : o.weight <= cc.weight}

\* Each leaf has a value of the heaviest context that applies and sets it.
HeaviestWins(context, contexts, data) ==
  \A cc \in contexts : \A k \in DOMAIN cc.data : \A p \in DOMAIN cc.data[k] :
    Uniform(contexts, data, k) /\ Setting(contexts, data, k, p) # {} =>
      /\ k \in DOMAIN context /\ p \in DOMAIN context[k]
      /\ \E top \in Heaviest(Setting(contexts, data, k, p)) : context[k][p] = top.data[k][p]
================================================================================
