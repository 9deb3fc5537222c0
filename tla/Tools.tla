---------------------------------- MODULE Tools ----------------------------------
(* What the schema generators derive for the assistant, and how a tool's name *)
(* is understood when it is called:                                           *)
(*   generators/mcp_generator.py      the tools and their names,              *)
(*   generators/policy_generator.py   the rule of each tool, the boundaries,  *)
(*   generators/engine.py             tools joined with their rules,          *)
(*   generators/agent_generator.py    the capabilities the tools back,        *)
(*   query_engine/tool_executor.py    name -> operation and type,             *)
(*   ai/agent.py                      name -> the permission looked up first. *)
(*                                                                            *)
(* A name is the sequence of its pieces, the underscores among them, and a    *)
(* final s is a piece: "query_devices" is <<"query", "_", "device", "s">>.    *)
(* The name of a type in lower case is its slug without underscores.          *)
EXTENDS Naturals, Sequences, SequencesExt, FiniteSetsExt

CONSTANTS
  NodeTypes,  \* sequence of [name, slug, plural, prefix, exposed, create, update, delete,
              \*   filters, primary, keys, attrs, orphans, shown, hidden]
  EdgeTypes,  \* sequence of [name, slug, alias, traversable, source, target, exposed, create, delete, agent]
  Invented,   \* names the model may call although no tool has them
  Pieces      \* what names are made of

None == "none"
Text == Seq(Pieces)
TypeNames == {NodeTypes[i].name : i \in DOMAIN NodeTypes}

\* The schema, as the registry has it: an edge type joins types that exist.
ASSUME SchemaAssumption ==
  /\ {"_", "s", "by", "to", "from", "via", "create", "get", "update", "delete", "query", "find", "count", "list",
      "search", "connect", "disconnect"} \subseteq Pieces
  /\ NodeTypes \in Seq([name : Pieces \ {None}, slug : Text, plural : Text, prefix : Text, exposed : BOOLEAN,
                        create : BOOLEAN, update : BOOLEAN, delete : BOOLEAN, filters : BOOLEAN, primary : Text,
                        keys : SUBSET Text, attrs : SUBSET Text, orphans : BOOLEAN, shown : BOOLEAN, hidden : BOOLEAN])
  /\ \A i \in DOMAIN NodeTypes : IsFiniteSet(NodeTypes[i].keys)
  /\ EdgeTypes \in Seq([name : Pieces \ {None}, slug : Text, alias : Text, traversable : BOOLEAN, source : Seq(TypeNames),
                        target : Seq(TypeNames), exposed : BOOLEAN, create : BOOLEAN, delete : BOOLEAN, agent : BOOLEAN])

----------------------------------------------------------------------------
(* Names *)

When(cond, seq) == IF cond THEN seq ELSE <<>>
Letters(s) == FlattenSeq([i \in DOMAIN s |-> When(s[i] # "_", <<s[i]>>)])
WithS(s) == Append(s, "s")
Stripped(s) == LET kept == {i \in DOMAIN s : s[i] # "s"}
               IN IF kept = {} THEN <<>> ELSE SubSeq(s, 1, Max(kept))
Under(s) == <<"_">> \o s
PluralSlug(nt) == IF nt.plural = <<>> THEN WithS(nt.slug) ELSE nt.plural

\* Every place where "_word_" stands with something on both sides of it.
Places(s, word) == {i \in 2..(Len(s) - 3) : SubSeq(s, i, i + 2) = <<"_", word, "_">>}
Before(s, i) == SubSeq(s, 1, i - 1)
After(s, i) == SubSeq(s, i + 3, Len(s))
Starts(s, word) == Len(s) > 1 /\ s[1] = word /\ s[2] = "_"
Rest(s) == SubSeq(s, 3, Len(s))

NamedNode(name) == NodeTypes[CHOOSE i \in DOMAIN NodeTypes : NodeTypes[i].name = name]
SlugOf(name) == NamedNode(name).slug

----------------------------------------------------------------------------
(* The tools of a node type and of an edge type *)

Tool(name, category, op, type) == [name |-> name, category |-> category, op |-> op, type |-> type]

CrudTools(nt) ==
  LET T(op) == Tool(nt.prefix \o <<op>> \o Under(nt.slug), "crud", op, nt.name)
  IN When(nt.create, <<T("create")>>) \o <<T("get")>> \o
     When(nt.update, <<T("update")>>) \o When(nt.delete, <<T("delete")>>)

QueryTools(nt) == <<Tool(nt.prefix \o <<"query">> \o Under(PluralSlug(nt)), "query", "query", nt.name)>>

\* _get_relationship_aliases: [alias, target], one per end an edge type may have.
Aliases(nt) ==
  LET Of(et) ==
        LET To(types) == [i \in DOMAIN types |-> [alias |-> et.alias, target |-> types[i]]]
        IN When(et.traversable /\ Contains(et.source, nt.name), To(et.target)) \o
           When(et.traversable /\ Contains(et.target, nt.name), To(et.source))
  IN FlattenSeq([i \in DOMAIN EdgeTypes |-> Of(EdgeTypes[i])])

\* One tool per alias, named after the first type at the other end.
FindTools(nt) ==
  LET all == Aliases(nt)
      firsts == {i \in DOMAIN all : \A j \in 1..(i - 1) : all[j].alias # all[i].alias}
      T(i) == Tool(nt.prefix \o <<"find">> \o Under(PluralSlug(nt)) \o <<"_", "by">> \o
                   Under(SlugOf(all[i].target)), "query", "find", nt.name)
  IN When(nt.filters, FlattenSeq([i \in DOMAIN all |-> When(i \in firsts, <<T(i)>>)]))

LookupTools(nt) ==
  LET fields == ({nt.primary} \union nt.keys) \intersect nt.attrs
      T(f) == Tool(nt.prefix \o <<"get">> \o Under(nt.slug) \o <<"_", "by">> \o Under(f),
                   "lookup", "lookup", nt.name)
  IN SetToSeq({T(f) : f \in fields})

CountTools(nt) == <<Tool(nt.prefix \o <<"count">> \o Under(PluralSlug(nt)), "aggregate", "count", nt.name)>>

NodeTools(nt) ==
  When(nt.exposed, CrudTools(nt) \o QueryTools(nt) \o FindTools(nt) \o LookupTools(nt) \o CountTools(nt))

PairsOf(et) == FlattenSeq([i \in DOMAIN et.source |->
                 [j \in DOMAIN et.target |-> <<et.source[i], et.target[j]>>]])

EdgeTools(et) ==
  LET Of(pair) ==
        LET from == SlugOf(pair[1])
            to == SlugOf(pair[2])
        IN When(et.create, <<Tool(<<"connect">> \o Under(from) \o <<"_", "to">> \o Under(to),
                                  "relationship", "connect", et.name)>>) \o
           When(et.delete, <<Tool(<<"disconnect">> \o Under(from) \o <<"_", "from">> \o Under(to),
                                  "relationship", "disconnect", et.name)>>) \o
           <<Tool(<<"get">> \o Under(from) \o Under(to) \o <<"_", "via">> \o Under(et.slug),
                  "traversal", "get_related", et.name)>>
      pairs == PairsOf(et)
  IN When(et.exposed, FlattenSeq([i \in DOMAIN pairs |-> Of(pairs[i])]))

AllTools ==
  FlattenSeq([i \in DOMAIN NodeTypes |-> NodeTools(NodeTypes[i])]) \o
  FlattenSeq([i \in DOMAIN EdgeTypes |-> EdgeTools(EdgeTypes[i])])

----------------------------------------------------------------------------
(* Rules, boundaries, capabilities *)

Rule(tool, required, destructive, confirm, agent) ==
  [tool |-> tool, required |-> required, destructive |-> destructive, confirm |-> confirm, agent |-> agent]

NodeRules(nt) ==
  LET Write(op, danger) == Rule(<<op>> \o Under(nt.slug), <<"write", "node", nt.name>>,
                                danger, danger, nt.shown /\ ~nt.hidden)
      Read(name) == Rule(name, <<"read", "node", nt.name>>, FALSE, FALSE, nt.shown)
  IN When(nt.exposed,
       When(nt.create, <<Write("create", FALSE)>>) \o
       <<Read(<<"get">> \o Under(nt.slug)), Read(<<"list">> \o Under(PluralSlug(nt))),
         Read(<<"search">> \o Under(PluralSlug(nt)))>> \o
       When(nt.update, <<Write("update", FALSE)>>) \o
       When(nt.delete, <<Write("delete", TRUE)>>))

EdgeRules(et) ==
  LET Of(pair) ==
        LET Write(op, link, danger) ==
              Rule(<<op>> \o Under(SlugOf(pair[1])) \o <<"_", link>> \o Under(SlugOf(pair[2])),
                   <<"write", "edge", et.name>>, danger, FALSE, et.agent)
        IN When(et.create, <<Write("connect", "to", FALSE)>>) \o
           When(et.delete, <<Write("disconnect", "from", TRUE)>>)
      pairs == PairsOf(et)
  IN When(et.exposed, FlattenSeq([i \in DOMAIN pairs |-> Of(pairs[i])]))

AllRules ==
  FlattenSeq([i \in DOMAIN NodeTypes |-> NodeRules(NodeTypes[i])]) \o
  FlattenSeq([i \in DOMAIN EdgeTypes |-> EdgeRules(EdgeTypes[i])])

\* generate: the rule of each tool, the last one of its name; a tool with none
\* may be called by anybody.
ToolNames == {AllTools[i].name : i \in DOMAIN AllTools}
RulesFor(name) == {i \in DOMAIN AllRules : AllRules[i].tool = name}
RuleFor(name) ==
  IF RulesFor(name) = {} THEN Rule(name, <<>>, FALSE, FALSE, TRUE) ELSE AllRules[Max(RulesFor(name))]
Auths == {RuleFor(name) : name \in ToolNames}
AuthOf(name) == CHOOSE auth \in Auths : auth.tool = name

\* agent_boundaries: the tools said to need a confirmation.
ConfirmationRequired ==
  {<<"delete">> \o Under(NodeTypes[i].slug) : i \in {j \in DOMAIN NodeTypes : NodeTypes[j].delete}}

\* The capabilities that name the tools behind them: [safety, tools].
Capabilities(nt) ==
  LET Cap(safety, tools) == [safety |-> safety, tools |-> tools]
      On(op) == {<<op>> \o Under(nt.slug)}
      Listing == {<<"list">> \o Under(PluralSlug(nt)), <<"search">> \o Under(PluralSlug(nt))}
      Links == {l \in Range(EdgeTypes) \X {NodeTypes[i].name : i \in DOMAIN NodeTypes} :
                  Contains(l[1].source, nt.name) /\ Contains(l[1].target, l[2])}
      Link(et, to) ==
        {Cap("write", {<<"connect">> \o Under(nt.slug) \o <<"_", "to">> \o Under(SlugOf(to))}),
         Cap("read", {<<"get">> \o Under(nt.slug) \o Under(SlugOf(to)) \o <<"_", "via">> \o Under(et.slug)})}
  IN IF ~nt.shown THEN {}
     ELSE {Cap("read", Listing)} \union
          (IF nt.create THEN {Cap("write", On("create"))} ELSE {}) \union
          (IF nt.update THEN {Cap("write", On("update"))} ELSE {}) \union
          (IF nt.delete THEN {Cap("destructive", On("delete"))} ELSE {}) \union
          (IF nt.orphans THEN {Cap("read", {})} ELSE {}) \union
          UNION {Link(l[1], l[2]) : l \in Links}
AllCapabilities == UNION {Capabilities(NodeTypes[i]) : i \in DOMAIN NodeTypes}

----------------------------------------------------------------------------
(* What a name means to the executor *)

\* The name of the first of some types, given by their places.
FirstType(places) == IF places = {} THEN None ELSE NodeTypes[Min(places)].name

ByLetters(s) == FirstType({i \in DOMAIN NodeTypes : Letters(NodeTypes[i].slug) = Letters(s)})

FromSlug(slug) ==
  LET exact == FirstType({i \in DOMAIN NodeTypes : NodeTypes[i].slug = slug})
  IN IF exact # None THEN exact ELSE ByLetters(slug)

\* Slip: no plural name of its own, every plural is the slug and an s.
FromPlural_Regular(plural) ==
  LET exact == FirstType({i \in DOMAIN NodeTypes : plural \in {WithS(NodeTypes[i].slug), NodeTypes[i].slug}})
  IN IF exact # None THEN exact ELSE FromSlug(Stripped(plural))
FromPlural(plural) ==
  LET exact == FirstType({i \in DOMAIN NodeTypes : plural \in {PluralSlug(NodeTypes[i]), NodeTypes[i].slug}})
  IN IF exact # None THEN exact ELSE FromSlug(Stripped(plural))

EdgeBetween(from, to) ==
  LET places == {i \in DOMAIN EdgeTypes :
                   \E pair \in Range(PairsOf(EdgeTypes[i])) : SlugOf(pair[1]) = from /\ SlugOf(pair[2]) = to}
  IN IF places = {} THEN None ELSE EdgeTypes[Min(places)].name

\* The expressions are greedy: the last "_by_", "_to_" or "_from_" splits.
Split(s, word) == LET at == Places(s, word) IN IF at = {} THEN <<>> ELSE <<Before(s, Max(at)), After(s, Max(at))>>
PartBefore(s, word) == IF Split(s, word) = <<>> THEN <<>> ELSE Split(s, word)[1]
EdgeAcross(s, word) ==
  IF Split(s, word) = <<>> THEN None ELSE EdgeBetween(Split(s, word)[1], Split(s, word)[2])

Act(op, on) == [op |-> op, on |-> on]
Refused == Act("error", None)

\* Slip: get_ is recognised before get_..._by_....
Acts_GetFirst(name) ==
  LET s == Rest(name)
      act == CASE Starts(name, "query") -> Act("query", FromPlural(s))
               [] Starts(name, "find") -> Act("find", FromPlural(PartBefore(s, "by")))
               [] Starts(name, "count") -> Act("count", FromPlural(s))
               [] Starts(name, "get") -> Act("get", FromPlural(s))
               [] OTHER -> Act(name[1], FromPlural(s))
  IN IF act.on = None THEN Refused ELSE act
\* execute_tool: the operation a name asks for, and the type it is done on.
Acts(name) ==
  LET s == Rest(name)
      byKey == Starts(name, "get") /\ Places(name, "by") # {}
      act == CASE Starts(name, "query") -> Act("query", FromPlural(s))
               [] Starts(name, "find") -> Act("find", FromPlural(PartBefore(s, "by")))
               [] Starts(name, "count") -> Act("count", FromPlural(s))
               [] byKey -> Act("lookup", FromSlug(PartBefore(s, "by")))
               [] Starts(name, "get") /\ ~byKey -> Act("get", FromPlural(s))
               [] Starts(name, "list") ->
                    LET type == FromPlural(s)
                    IN Act("query", IF type = None THEN None ELSE FromPlural(WithS(SlugOf(type))))
               [] \E op \in {"create", "update", "delete"} : Starts(name, op) -> Act(name[1], FromPlural(s))
               [] Starts(name, "connect") -> Act("connect", EdgeAcross(s, "to"))
               [] Starts(name, "disconnect") -> Act("disconnect", EdgeAcross(s, "from"))
               [] OTHER -> Refused
  IN IF act.on = None THEN Refused ELSE act

----------------------------------------------------------------------------
(* What a name means to the look-up of its permission *)

LowerPlural(nt) == IF nt.plural = <<>> THEN WithS(Letters(nt.slug)) ELSE nt.plural
ByPlural(s) ==
  LET exact == FirstType({i \in DOMAIN NodeTypes : LowerPlural(NodeTypes[i]) = s})
  IN IF exact # None THEN exact ELSE ByLetters(Stripped(s))

\* A slug is not that of another type, nor its plural, with the underscores or
\* without them, and the prefix of a type is none of the three that write.
ASSUME NamesAssumption ==
  \A i \in DOMAIN NodeTypes :
    /\ NodeTypes[i].prefix # <<>> => NodeTypes[i].prefix[1] \notin {"create", "update", "delete"}
    /\ \A j \in DOMAIN NodeTypes \ {i} :
         /\ NodeTypes[i].slug \notin {NodeTypes[j].slug, PluralSlug(NodeTypes[j]), LowerPlural(NodeTypes[j])}
         /\ Letters(NodeTypes[j].slug) \notin {Letters(NodeTypes[i].slug), Letters(Stripped(NodeTypes[i].slug))}

\* The words that join names in the name of a tool are in no slug and no plural, and
\* "by" in no attribute looked up by; types differ in their names and their plurals.
JoiningWords == {"by", "to", "from", "via"}
ASSUME WordsAssumption ==
  \A i \in DOMAIN NodeTypes :
    LET nt == NodeTypes[i]
    IN /\ nt.slug # <<>> /\ JoiningWords \intersect (Range(nt.slug) \union Range(nt.plural)) = {}
       /\ \A f \in ({nt.primary} \union nt.keys) \intersect nt.attrs : f # <<>> /\ "by" \notin Range(f)
       /\ \A j \in DOMAIN NodeTypes \ {i} : nt.name # NodeTypes[j].name /\ PluralSlug(nt) # PluralSlug(NodeTypes[j])

KnownPrefixes == {"query", "find", "count", "create", "get", "list", "update", "delete", "search"}
TypeOfTool(name) ==
  LET s == Rest(name)
      entity == IF name[1] = "find" /\ Places(s, "by") # {} THEN Before(s, Min(Places(s, "by"))) ELSE s
      plural == ByPlural(entity)
  IN IF ~\E p \in KnownPrefixes : Starts(name, p) THEN None
     ELSE IF plural # None THEN plural ELSE ByLetters(entity)

\* Slip: what is deleted is looked up as something read.
Required_Reads(name) ==
  LET type == TypeOfTool(name)
      action == IF name[1] \in {"create", "update", "connect", "disconnect"} THEN "write" ELSE "read"
  IN IF type = None THEN <<>> ELSE <<action, "node", type>>
\* _check_tool_permission: what the caller must be allowed, <<>> for nothing.
Required(name) ==
  LET type == TypeOfTool(name)
      action == IF name[1] \in {"create", "update", "delete", "connect", "disconnect"} THEN "write" ELSE "read"
  IN IF type = None THEN <<>> ELSE <<action, "node", type>>

\* What each of the two makes of a name.
Meanings == {[tool |-> name, required |-> Required(name), act |-> Acts(name)] : name \in ToolNames \union Invented}
MeaningOf(name) == CHOOSE m \in Meanings : m.tool = name
================================================================================
