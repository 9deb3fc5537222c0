--------------------------------- MODULE MCAgent ---------------------------------
(* Instances of Agent for TLC.                                                *)
EXTENDS Agent, TLC
CONSTANTS r1, r2, r3

AnyPiece == STRING

Type(name, slug, plural) ==
  [name |-> name, slug |-> slug, plural |-> plural, prefix |-> <<>>, exposed |-> TRUE, create |-> TRUE,
   update |-> TRUE, delete |-> TRUE, filters |-> TRUE, primary |-> <<"name">>, keys |-> {},
   attrs |-> {<<"name">>}, orphans |-> FALSE, shown |-> TRUE, hidden |-> FALSE]
Types ==
  <<[Type("Device", <<"device">>, <<"device", "s">>) EXCEPT
       !.primary = <<"hostname">>, !.keys = {<<"asset", "_", "tag">>},
       !.attrs = {<<"hostname">>, <<"asset", "_", "tag">>}, !.orphans = TRUE],
    [Type("Chassis", <<"chassi", "s">>, <<"chassi", "s">>) EXCEPT !.update = FALSE],
    [Type("IPAddress", <<"ip", "_", "addre", "s", "s">>, <<>>) EXCEPT !.filters = FALSE, !.delete = FALSE],
    [Type("Policy", <<"policy">>, <<"polic", "ies">>) EXCEPT !.create = FALSE, !.attrs = {}],
    [Type("Vault", <<"vault">>, <<>>) EXCEPT !.hidden = TRUE, !.attrs = {}],
    [Type("Probe", <<"probe">>, <<>>) EXCEPT !.prefix = <<"net", "_">>, !.update = FALSE],
    [Type("Note", <<"note">>, <<>>) EXCEPT !.exposed = FALSE]>>

Edge(name, slug, source, target) ==
  [name |-> name, slug |-> slug, alias |-> slug, traversable |-> TRUE, source |-> source, target |-> target,
   exposed |-> TRUE, create |-> TRUE, delete |-> TRUE, agent |-> TRUE]
Links ==
  <<Edge("IN_CHASSIS", <<"in", "_", "chassi", "s">>, <<"Device">>, <<"Chassis">>),
    Edge("HAS_ADDRESS", <<"has", "_", "addre", "s", "s">>, <<"Device", "Chassis">>, <<"IPAddress">>),
    [Edge("GOVERNS", <<"governs">>, <<"Policy">>, <<"Device">>) EXCEPT !.delete = FALSE, !.agent = FALSE]>>

Read == <<"query", "_", "device", "s">>
Make == <<"create", "_", "device">>
Drop == <<"delete", "_", "device">>

Command(kind, user, role) ==
  [kind |-> kind, user |-> user, role |-> role, grants |-> {}, conv |-> None, replies |-> [i \in 0..1 |-> {}], value |-> None,
   env |-> "anthropic"]
In(conv, c) == [c EXCEPT !.conv = conv]
\* The calls the model may ask for: the same in both rounds, in the first only,
\* or in the first and then one more.
Asking(replies, c) == [c EXCEPT !.replies = [i \in DOMAIN @ |-> replies]]
Once(replies, c) == [c EXCEPT !.replies[0] = replies]
First(replies, c) == [c EXCEPT !.replies = [i \in DOMAIN @ |-> IF i = 0 THEN replies ELSE {<<Make>>}]]
Grant(types) == [enabled |-> TRUE, can |-> {"read", "create"}, types |-> types, runs |-> FALSE, jobs |-> {}]

Some == {<<Read>>, <<Make, Drop>>, <<Drop, Make>>}
Single == {<<n>> : n \in ToolNames}
MadeUp == {<<"list", "_", "device", "s">>, <<"search", "_", "device", "s">>, <<"delete", "_", "note">>,
           <<"create", "_", "chassi", "s">>, <<"do", "_", "it">>, <<"create", "_", "vault", "s">>,
           <<"create", "_", "ip", "_", "addre", "s", "s", "s">>}
Names == {<<n>> : n \in MadeUp}

Ann(kind) == Command(kind, "ann", "editor")
Bob(kind) == Command(kind, "bob", "viewer")
Root(kind) == Command(kind, "root", "admin")
Of(a, b, c) == (r1 :> a) @@ (r2 :> b) @@ (r3 :> c)

Sweeps ==
  {r1 :> First(Single \union Names, c) :
     c \in {Ann("chat"), Bob("chat"), Ann("stream"), [Bob("chat") EXCEPT !.grants = {Grant({"Chassis"})}]}}
Talks ==
  {Of(In("c1", Once(Some, Ann("chat"))), In("c1", Ann("chat")), In("c1", Ann("delete"))),
   Of(In("c1", Once({<<Read, Make>>}, Ann("stream"))), In("c1", Ann("chat")), In("c1", Bob("delete"))),
   Of(Once({<<Make, Drop>>}, Ann("chat")), Once({<<Read>>}, Ann("stream")), In("c1", Ann("delete"))),
   Of(In("gone", Once({<<Read>>}, Bob("chat"))), In("c1", Bob("stream")), In("c1", Ann("delete")))}
Provider(rank, type, enabled) == [rank |-> rank, type |-> type, enabled |-> enabled]
Set(kind, id, value, c) == [c EXCEPT !.kind = kind, !.conv = id, !.value = value]
Admin ==
  {Of(Asking({<<Read, Make>>}, Ann("chat")), Set("update_provider", "p1", Provider(1, "anthropic", on), Root("x")),
      Set("delete_provider", "p1", None, who)) : on \in BOOLEAN, who \in {Root("x"), Bob("x")}} \union
  {Of(In("c1", Asking({<<Make>>}, Ann("chat"))), Set("create_provider", None, Provider(0, type, TRUE), Root("x")),
      Set("update_provider", "none such", Provider(1, "openai", TRUE), Root("x"))) :
     type \in {"vertex", "bedrock", "openai", "other"}}
Bare == {Of(Asking({<<Read>>}, [Bob("chat") EXCEPT !.env = env]), Set("delete_provider", "p1", None, Root("x")),
            In("c1", Bob("delete"))) : env \in {None, "anthropic"}}
Everything == Sweeps \union Talks \union Admin \union Bare

OneProvider == "p1" :> Provider(1, "openai", TRUE)
OneConversation == "c1" :> "ann"
\* The first and the last tools of the manifest.
Halves == {{AllTools[i].name : i \in 1..MaxTools}, {AllTools[i].name : i \in (Len(AllTools) - MaxTools + 1)..Len(AllTools)}}
================================================================================
