------------------------------- MODULE Replacement -------------------------------
(*****************************************************************************)
(* packages/iac/transformation.py: how the state of a device is rewritten    *)
(* for the device that replaces it.                                          *)
(*                                                                           *)
(* A mapping is [name, source, destination, model, active, names, rules,     *)
(* transfer, skip]: names is its interface_map in order, each pattern being  *)
(* the function it is on the names it matches (none when it is invalid), and *)
(* rules gives properties [do, to]: drop, rename or translate.               *)
(*****************************************************************************)
EXTENDS SequencesExt, Functions, Selection, Overlay

\* transform_interface_name: the first pattern that matches, or the name itself.
InterfaceName(name, patterns) ==
  LET i == SelectInSeq(patterns, LAMBDA p : name \in DOMAIN p) IN
  IF i = 0 THEN name ELSE patterns[i][name]

RuleOf(rules, key) == IF key \in DOMAIN rules THEN rules[key] ELSE [do |-> "preserve"]

\* Properties the loop skips: those of the platform itself.
Internal(key) == key \in {"_source"}

\* transform_properties: preserve, drop, rename or translate the value.
TransformProperties(props, rules) ==
  LET kept == {k \in DOMAIN props : ~Internal(k) /\ RuleOf(rules, k).do # "drop"}
      Key(k) == IF RuleOf(rules, k).do = "rename" THEN rules[k].to ELSE k
      Value(k) == IF RuleOf(rules, k).do = "translate" /\ props[k] \in DOMAIN rules[k].to
                    THEN rules[k].to[props[k]] ELSE props[k]
  IN [key \in {Key(k) : k \in kept} |-> Value(CHOOSE k \in kept : Key(k) = key)]

\* get_mapping, as transform_device calls it: active ones for the two
\* platforms, those for a model first; the database picks among equals.
MappingsFor(mappings, source, destination) ==
  LET fitting == {m \in mappings :
                    m.active /\ m.source = source /\ m.destination = destination}
      special == {m \in fitting : m.model}
  IN IF special # {} THEN special ELSE fitting

\* Fields of a device that do not transfer.
Identity == {"id", "hostname", "serial_number", "asset_tag", "created_at"}

\* Links transfer when the mapping says so, other relations unless it does not.
TransfersLinks(m) == "CONNECTED_TO" \in m.transfer /\ "CONNECTED_TO" \notin m.skip
Transfers(m, type) == type \notin m.skip /\ (m.transfer = {} \/ type \in m.transfer)

\* The writes of transform_device, in order: an interface each, a link each, a
\* relation each, the properties of the device, and the record of it all.
InterfaceItem(iface, m) ==
  LET name == InterfaceName(iface.name, m.names) IN
  [kind |-> "iface", name |-> name,
   props |-> Put(TransformProperties(iface, m.rules), "name", name)]

LinkItem(link, m) ==
  [kind |-> "link", local |-> InterfaceName(link.local, m.names),
   remote |-> link.remote, device |-> link.device]

Items(state, m) ==
  LET ifaces == [i \in DOMAIN state.ifaces |-> InterfaceItem(state.ifaces[i], m)]
      links == IF TransfersLinks(m)
                 THEN [i \in DOMAIN state.links |-> LinkItem(state.links[i], m)] ELSE <<>>
      rels == Chosen(state.rels, {i \in DOMAIN state.rels : Transfers(m, state.rels[i].type)})
      props == TransformProperties(state.device, m.rules)
      kept == Restrict(props, DOMAIN props \ Identity)
  IN ifaces \o links
     \o [i \in DOMAIN rels |-> [kind |-> "rel", type |-> rels[i].type, target |-> rels[i].target]]
     \o (IF DOMAIN kept = {} THEN <<>> ELSE <<[kind |-> "props", props |-> kept]>>)
     \o <<[kind |-> "record"]>>
================================================================================
