---------------------------- MODULE MCInfrastructure ----------------------------
(* Instances of Infrastructure for TLC.                                      *)
EXTENDS Infrastructure, TLC

CONSTANTS r1, r2

Execute == {"execute"}
Manage == {"execute", "manage"}

\* Commands.
Nothing == [op |-> "create", perms |-> Execute, into |-> "other", object |-> "none"]
Run(op, ds) == [op |-> op, perms |-> Execute, devices |-> ds]
Resolve(d) == [op |-> "context", perms |-> {}, device |-> d]
Replace(op, s, d, m) == [op |-> op, perms |-> Manage, source |-> s, destination |-> d, mapping |-> m]
Add(into, object) == [op |-> "create", perms |-> Manage, into |-> into, object |-> object]

\* Configurations.
NtpHead == Line(0, "ntp")
Server  == Line(1, "server 1")
Peer    == Line(1, "ntp")
Other   == Line(0, "aaa")
Lines   == {NtpHead, Server, Peer, Other, Line(0, "!")}
Texts   == {Cli(q) : q \in UNION {[1..n -> Lines] : n \in 0..3}}
Meant   == {Cli(<<NtpHead, Server>>), Cli(<<NtpHead, Server, Line(1, "server 2"), Other>>),
            Cli(<<Other, NtpHead, Line(1, "server 2"), Server>>)}
Leaves  == {(".":> "1"), ("." :> "0"), ("x" :> "1")}
Objects == {Json(o) : o \in UNION {[ks -> Leaves] : ks \in SUBSET {"ntp", "aaa"}}}
Lists   == {Json("[]" :> ("x" :> "1")), Json("[]" :> [x |-> "1", y |-> "1"])}

Rule(name, feature, rank, type, words, ordered) ==
  [name |-> name, feature |-> feature, rank |-> rank, platform |-> "eos", type |-> type,
   words |-> words, broken |-> FALSE, ordered |-> ordered, remediate |-> TRUE,
   strategy |-> "intended_deploy"]
NtpRule == Rule("ntp-cli", "ntp", 2, "cli", {"ntp"}, FALSE)
AaaRule == Rule("aaa-cli", "aaa", 1, "cli", {"aaa"}, FALSE)
BadRule == [NtpRule EXCEPT !.name = "bad", !.feature = "bgp", !.rank = 3, !.broken = TRUE,
                           !.strategy = "manual"]

\* Contexts.
Context(name, weight, scope, data) ==
  [name |-> name, active |-> TRUE, weight |-> weight, scope |-> scope, data |-> data, garbled |-> ""]
Everywhere == Context("all", 1, <<>>, [ntp |-> ("." :> "server 1"), syslog |-> ("host" :> "h1")])
InLab      == Context("lab", 5, [locations |-> {"lab"}, roles |-> {"leaf", "spine"}],
                      [ntp |-> ("." :> "server 2"), syslog |-> ("port" :> "514")])
Spines     == Context("spines", 9, [locations |-> {"lab"}, roles |-> {"spine"}],
                      [ntp |-> ("." :> "server 3")])
Garbled    == [Spines EXCEPT !.name = "garbled", !.garbled = "data"]
\* Mappings.
Names == <<[Eth1 |-> "Eth1/1", Eth2 |-> "Eth1/2"] @@ ("Eth1/1" :> "Eth1/1/1"),
           [Mgmt0 |-> "mgmt0"] @@ ("Eth1/1" :> "Eth1/1/1")>>
MappingOf(name, transfer, skip) ==
  [name |-> name, source |-> "eos", destination |-> "nxos", model |-> FALSE, active |-> TRUE,
   names |-> Names,
   rules |-> [serial_number |-> [do |-> "drop"], id |-> [do |-> "drop"],
              speed |-> [do |-> "translate", to |-> [fast |-> "10g"]],
              descr |-> [do |-> "rename", to |-> "description"]],
   transfer |-> transfer, skip |-> skip]
Usual == MappingOf("usual", {"CONNECTED_TO", "MEMBER_OF"}, {"HAS_BACKUP"})
Loose == [MappingOf("loose", {}, {"MEMBER_OF"}) EXCEPT !.model = TRUE, !.active = FALSE, !.rules = <<>>]

Catalog == [contexts |-> {Everywhere, InLab, Spines, Garbled},
            rules |-> {NtpRule, AaaRule}, mappings |-> {Usual, Loose},
            features |-> {[name |-> "ntp"]}, other |-> {}]

DeviceProps(id, role, more) ==
  [id |-> id, hostname |-> id, role |-> role, status |-> "active"] @@ more

\* The graph: old is connected to hub, and new is to replace old.
Graph ==
  [platform |-> [old |-> "eos", new |-> "nxos", hub |-> "nxos"],
   location |-> [old |-> "lab", new |-> "", hub |-> "lab"],
   devices |-> [old |-> DeviceProps("old", "leaf", [serial_number |-> "s1", speed |-> "fast"]),
                new |-> DeviceProps("new", "leaf", [serial_number |-> "s2"]),
                hub |-> [DeviceProps("hub", "spine", <<>>) EXCEPT !.status = "planned"]],
   ifaces |-> [i1 |-> [id |-> "i1", name |-> "Eth1", speed |-> "fast", descr |-> "up"],
               i3 |-> [id |-> "i3", name |-> "Mgmt0"],
               i2 |-> [id |-> "i2", name |-> "Eth9", mtu |-> "9000"]],
   edges |-> {<<"old", "HAS_INTERFACE", "i1">>, <<"old", "HAS_INTERFACE", "i3">>, <<"hub", "HAS_INTERFACE", "i2">>,
              <<"i1", "CONNECTED_TO", "i2">>, <<"old", "MEMBER_OF", "vlan">>,
              <<"old", "HAS_CONFIG_PROFILE", "linked">>},
   backups |-> <<>>, intended |-> <<>>, results |-> <<>>, catalog |-> Catalog,
   others |-> {"vlan"}, leaving |-> {}, collected |-> {}]

Given(text) == [text |-> text]
Scene(c1, c2, more) == [cmd |-> (r1 :> c1) @@ (r2 :> c2)] @@ more @@ Graph
Check == Run("compliance", <<"old">>)

\* One check of every short configuration, and of every small object.
Comparisons ==
  {Scene(Check, Nothing,
         [backups |-> [old |-> Given(t)], intended |-> [old |-> Given(m)],
          catalog |-> [Catalog EXCEPT !.rules = {[NtpRule EXCEPT !.ordered = o]}]])
     : t \in Texts, m \in Meant, o \in BOOLEAN}
  \union
  {Scene(Check, Nothing,
         [backups |-> [old |-> Given(t)], intended |-> [old |-> Given(m)],
          catalog |-> [Catalog EXCEPT !.rules = {Rule("js", "ntp", 1, "json", ws, FALSE)}]])
     : t \in Objects \union Lists \union {Cli(<<NtpHead>>)}, m \in Objects \union Lists, ws \in {{}, {"ntp"}}}

\* Two requests at a time on the configurations of a device.
Stored == [backups |-> [old |-> Given(Cli(<<NtpHead, Server, Other>>))],
           intended |-> [old |-> Given(Cli(<<NtpHead, Server>>))],
           collected |-> {[device |-> "old", text |-> Cli(<<NtpHead>>)]},
           catalog |-> [Catalog EXCEPT !.rules = @ \union {BadRule}]]
Late == [Spines EXCEPT !.name = "late", !.weight = 20, !.scope = [roles |-> {"leaf"}]]
ConfigCommands ==
  {Run("backup", <<"old">>), Run("intended", <<>>), Check, Run("compliance", <<>>),
   Resolve("old"), Resolve("hub"), Resolve("gone"),
   Add("contexts", Late), Add("contexts", [Spines EXCEPT !.name = "broken", !.garbled = "scope"]),
   Add("rules", [AaaRule EXCEPT !.name = "aaa-2", !.feature = "ntp"])}
Configurations ==
  {Scene(c, d, Stored) : c, d \in ConfigCommands}
  \union {Scene(c, d, [leaving |-> {"old"}] @@ Stored) : c \in {Check, Resolve("old")}, d \in ConfigCommands}
  \union {Scene(Check, Check, [catalog |-> Catalog, leaving |-> {"old"}] @@ Stored)}
  \union {Scene(Run("compliance", <<"old", "hub", "old">>), Nothing, Stored)}

\* Two replacements at a time, or a replacement and the contexts of a device.
ReplaceCommands ==
  {Replace("transform", "old", "new", ""), Replace("transform", "old", "new", "loose"),
   Replace("transform", "hub", "new", "usual"), Replace("transform", "new", "hub", "usual"),
   Replace("preview", "old", "new", "")}
Replacements ==
  {Scene(c, d, <<>>) : c \in ReplaceCommands,
                       d \in ReplaceCommands \union {Resolve("new"), Resolve("old")}}
  \union {Scene(Replace("transform", "old", "new", ""), Replace("transform", "new", "old", ""),
                [leaving |-> {ds}]) : ds \in {"old", "new", "hub"}}

Everything == Comparisons \union Configurations \union Replacements
================================================================================
