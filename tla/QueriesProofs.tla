------------------------------ MODULE QueriesProofs ------------------------------
(*****************************************************************************)
(* Proofs about Queries, for every schema, any commands, graphs and saved    *)
(* queries and reports to begin with, and any number of writes of others.    *)
(*****************************************************************************)
EXTENDS Queries, TLAPS, SequenceTheorems, FiniteSetTheorems, WellFoundedInduction

-----------------------------------------------------------------------------
(* Places in a sequence *)

\* Counting some places up to each of them numbers them in their order.
LEMMA PlacesAreNumbered ==
  ASSUME NEW n \in Nat, NEW T, T \subseteq 1..n
  PROVE  /\ IsFiniteSet(T) /\ Cardinality(T) \in Nat
         /\ \A i \in T : UpTo(T, i) \in 1..Cardinality(T)
         /\ \A i, j \in T : i < j => UpTo(T, i) < UpTo(T, j)
         /\ \A k \in 1..Cardinality(T) : \E i \in T : UpTo(T, i) = k
<1> DEFINE Below(i) == {j \in T : j <= i}
<1>1. IsFiniteSet(T) /\ Cardinality(T) \in Nat
  BY FS_Interval, FS_Subset, FS_CardinalityType, 1 \in Int, n \in Int
<1>2. \A i \in T : IsFiniteSet(Below(i)) /\ Cardinality(Below(i)) \in 1..Cardinality(T)
  <2> TAKE i \in T
  <2>1. Below(i) \in SUBSET T /\ i \in Below(i)
    OBVIOUS
  <2> HIDE DEF Below
  <2>2. IsFiniteSet(Below(i)) /\ Cardinality(Below(i)) <= Cardinality(T)
    BY <1>1, <2>1, FS_Subset
  <2>3. Cardinality(Below(i)) \in Nat /\ Cardinality(Below(i)) # 0
    BY <2>1, <2>2, FS_CardinalityType, FS_EmptySet
  <2> QED  BY <1>1, <2>2, <2>3
<1>3. \A i, j \in T : i < j => Cardinality(Below(i)) < Cardinality(Below(j))
  <2> SUFFICES ASSUME NEW i \in T, NEW j \in T, i < j
               PROVE  Cardinality(Below(i)) < Cardinality(Below(j))
    OBVIOUS
  <2>1. Below(i) \in SUBSET Below(j) /\ j \in Below(j) /\ j \notin Below(i)
    <3>1. i \in Int /\ j \in Int /\ \A x \in T : x \in Int
      OBVIOUS
    <3>2. \A x \in T : x <= i => x <= j
      BY <3>1
    <3>3. j <= j /\ ~(j <= i)
      BY <3>1
    <3> QED  BY <3>2, <3>3
  <2>2. Below(i) # Below(j)
    BY <2>1
  <2> HIDE DEF Below
  <2>3. Cardinality(Below(i)) <= Cardinality(Below(j)) /\ Cardinality(Below(i)) # Cardinality(Below(j))
    BY <1>2, <2>1, <2>2, FS_Subset
  <2> QED  BY <1>2, <2>3
<1>4. \A k \in 1..Cardinality(T) : \E i \in T : Cardinality(Below(i)) = k
  <2> HIDE DEF Below
  <2> DEFINE count == [i \in T |-> Cardinality(Below(i))]
  <2>1. count \in Injection(T, 1..Cardinality(T))
    <3>1. count \in [T -> 1..Cardinality(T)]
      BY <1>2
    <3>2. \A i, j \in T : i # j => i < j \/ j < i
      OBVIOUS
    <3>3. \A i, j \in T : count[i] = count[j] => i = j
      BY <1>2, <1>3, <3>2
    <3> QED  BY <3>1, <3>3 DEF Injection, IsInjective
  <2>2. IsFiniteSet(1..Cardinality(T)) /\ Cardinality(1..Cardinality(T)) = Cardinality(T)
    BY <1>1, FS_Interval
  <2>3. count \in Surjection(T, 1..Cardinality(T))
    BY <2>1, <2>2, FS_Injection
  <2> QED  BY <2>3 DEF Surjection
<1> QED  BY <1>1, <1>2, <1>3, <1>4 DEF UpTo

\* Chosen has the elements at those places, each at its number.
LEMMA ChosenFacts ==
  ASSUME NEW M, NEW s \in Seq(M), NEW T, T \subseteq DOMAIN s
  PROVE  /\ Chosen(s, T) \in Seq(M)
         /\ \A i \in T : UpTo(T, i) \in DOMAIN Chosen(s, T) /\ Chosen(s, T)[UpTo(T, i)] = s[i]
         /\ \A i, j \in T : i < j => UpTo(T, i) < UpTo(T, j)
         /\ \A k \in DOMAIN Chosen(s, T) : \E i \in T : k = UpTo(T, i)
<1> DEFINE n == Cardinality(T)
           pick(k) == CHOOSE i \in T : UpTo(T, i) = k
<1>1. Len(s) \in Nat /\ DOMAIN s = 1..Len(s) /\ T \subseteq 1..Len(s)
  OBVIOUS
<1>2. /\ n \in Nat
      /\ \A i \in T : UpTo(T, i) \in 1..n
      /\ \A i, j \in T : i < j => UpTo(T, i) < UpTo(T, j)
      /\ \A k \in 1..n : \E i \in T : UpTo(T, i) = k
  BY <1>1, PlacesAreNumbered
<1>3. \A i, j \in T : UpTo(T, i) = UpTo(T, j) => i = j
  BY <1>1, <1>2
<1>4. \A i \in T : pick(UpTo(T, i)) = i
  BY <1>3
<1>5. \A k \in 1..n : pick(k) \in T
  BY <1>2
<1>6. Chosen(s, T) = [k \in 1..n |-> s[pick(k)]]
  BY DEF Chosen
<1>7. Chosen(s, T) \in [1..n -> M]
  BY <1>1, <1>5, <1>6
<1>8. Chosen(s, T) \in Seq(M) /\ DOMAIN Chosen(s, T) = 1..n
  BY <1>2, <1>6, <1>7, SeqDef
<1>9. \A i \in T : Chosen(s, T)[UpTo(T, i)] = s[i]
  BY <1>2, <1>4, <1>6
<1> QED  BY <1>2, <1>8, <1>9

\* Without the conditions on other paths, the direct ones are all there.
LEMMA DirectFacts ==
  ASSUME NEW M, NEW conds \in Seq(M)
  PROVE  /\ \A x \in Range(Direct(conds)) : x \in Range(conds)
         /\ conds = <<>> => Direct(conds) = <<>>
<1> DEFINE T == {i \in DOMAIN conds : IsDirect(conds[i])}
<1>1. T \subseteq DOMAIN conds /\ Direct(conds) = Chosen(conds, T)
  BY DEF Direct
<1>2. \A k \in DOMAIN Chosen(conds, T) : \E i \in T : Chosen(conds, T)[k] = conds[i]
  <2> HIDE DEF T
  <2>1. /\ \A i \in T : Chosen(conds, T)[UpTo(T, i)] = conds[i]
        /\ \A k \in DOMAIN Chosen(conds, T) : \E i \in T : k = UpTo(T, i)
    BY <1>1, ChosenFacts
  <2> QED  BY <2>1
<1>3. Chosen(conds, T) \in Seq(M)
  BY <1>1, ChosenFacts
<1>4. CASE conds = <<>>
  <2>1. DOMAIN Chosen(conds, T) = {}
    BY <1>2, <1>4
  <2> QED  BY <1>1, <1>3, <2>1, <1>4 DEF Range
<1> HIDE DEF T
<1>5. \A x \in Range(Chosen(conds, T)) : x \in Range(conds)
  BY <1>1, <1>2 DEF Range
<1> QED  BY <1>1, <1>4, <1>5

-----------------------------------------------------------------------------
(* What is advertised is accepted *)

AsRelationship(e, op) == (e.exists /\ op \in Existence) \/ (e.counts /\ op \in Counting)
Listed(type, x) == \E p \in AllowedPaths(type) \union ToolPaths(type) : p.path = x.path /\ x.op \in p.ops

\* The operators of attributes are not those of relationships.
LEMMA OperatorsApart ==
  /\ \A t \in DOMAIN OperatorsByType : OperatorsByType[t] \intersect (Existence \union Counting) = {}
  /\ Existence \intersect Counting = {}
BY DEF OperatorsByType, Existence, Counting, Equality, Membership, Nulls, Ordering, Texts

\* validate finds every path that is listed and leads somewhere, and no path to
\* another end that does not.
LEMMA ListedResolves ==
  ASSUME NEW type \in Types, NEW x, Listed(type, x), Leads(type, x.path)
  PROVE  Resolve(type, x).ok
<1>1. \A e \in Outgoing(type) : EdgeFor(type, e.alias) = e /\ Traversable(e)
  BY SchemaAssumption DEF Traversable, Outgoing
<1>2. PICK p \in AllowedPaths(type) \union ToolPaths(type) : p.path = x.path /\ x.op \in p.ops
  BY DEF Listed
<1>3. ASSUME NEW a \in Filterable(type), x.path = <<a>>, x.op \in OperatorsByType[Attributes[type][a].type]
      PROVE  Resolve(type, x).ok
  <2>1. a \in DOMAIN Attributes[type] /\ Attributes[type][a].filterable /\ Legal(Attributes[type][a], x.op)
    BY <1>3 DEF Filterable, Legal
  <2>2. x.op \notin Existence \union Counting
    BY <1>3, <2>1, OperatorsApart, SchemaAssumption
  <2>3. Resolve(type, x) = ResolveAttribute(type, x)
    BY <1>3, <2>2 DEF Resolve, ResolveWith
  <2> QED  BY <1>3, <2>1, <2>3 DEF ResolveAttribute, Resolved
<1>4. ASSUME NEW e \in Outgoing(type), x.path = <<e.alias>>, AsRelationship(e, x.op)
      PROVE  Resolve(type, x).ok
  <2>1. Resolve(type, x) = ResolveRelationship(type, x, e)
    BY <1>1, <1>4 DEF Resolve, ResolveWith, AsRelationship
  <2> QED  BY <1>1, <1>4, <2>1, OperatorsApart DEF ResolveRelationship, Resolved, AsRelationship
<1>5. ASSUME NEW alias, NEW t, NEW a \in Filterable(t), x.path = <<alias, t, a>>,
             x.op \in OperatorsByType[Attributes[t][a].type]
      PROVE  Resolve(type, x).ok
  <2> DEFINE e == EdgeFor(type, alias)
  <2>1. Len(x.path) = 3 /\ x.path[1] = alias /\ x.path[2] = t /\ x.path[3] = a
    BY <1>5
  <2>2. Traversable(e) /\ t \in Range(OtherEnds(type, e))
    BY <2>1 DEF Leads, OtherEnds, Direction
  <2>3. a \in DOMAIN Attributes[t] /\ Attributes[t][a].filterable /\ Legal(Attributes[t][a], x.op)
    BY <1>5 DEF Filterable, Legal
  <2> HIDE DEF e
  <2>4. Resolve(type, x) = ResolveThreePart(type, x, e, t, a)
    BY <2>1 DEF Resolve, ResolveWith, e
  <2> QED  BY <2>2, <2>3, <2>4 DEF ResolveThreePart, FarAttribute, Resolved
<1>6. ASSUME NEW e \in Outgoing(type), NEW a \in DOMAIN e.attrs, x.path = <<e.alias, a>>,
             x.op \in OperatorsByType[e.attrs[a].type]
      PROVE  Resolve(type, x).ok
  <2>1. Resolve(type, x) = ResolveTwoPart(type, x, e, a)
    BY <1>1, <1>6 DEF Resolve, ResolveWith
  <2>2. Legal(e.attrs[a], x.op)
    BY <1>6 DEF Legal
  <2>3. Traversable(e) /\ a \in DOMAIN e.attrs
    BY <1>1
  <2>4. ResolveTwoPart(type, x, e, a)
          = Resolved(Legal(e.attrs[a], x.op), x.path, "edge", e.name, Direction(type, e), "none", a)
    BY <2>3 DEF ResolveTwoPart
  <2> QED  BY <2>1, <2>2, <2>4 DEF Resolved
<1>7. CASE p \in AttributePaths(type)
  BY <1>2, <1>3, <1>7 DEF AttributePaths
<1>8. CASE p \in ExistencePaths(type) \/ p \in CountPaths(type)
  <2> PICK e \in Outgoing(type) : x.path = <<e.alias>> /\ AsRelationship(e, x.op)
    BY <1>2, <1>8 DEF ExistencePaths, CountPaths, AsRelationship
  <2> QED  BY <1>4
<1>9. ASSUME NEW e \in Outgoing(type), NEW t \in Range(e.target), p \in FarPaths(e, t)
      PROVE  Resolve(type, x).ok
  BY <1>2, <1>5, <1>9 DEF FarPaths
<1>10. ASSUME NEW e \in Outgoing(type), p \in EdgePaths(e)
       PROVE  Resolve(type, x).ok
  BY <1>2, <1>6, <1>10 DEF EdgePaths
<1>11. CASE p \in ToolPaths(type)
  <2>1. CASE \E a \in Described(type) : p = [path |-> <<a>>, ops |-> OperatorsByType[Attributes[type][a].type]]
    BY <1>2, <1>3, <2>1 DEF Described
  <2>2. ASSUME NEW e, NEW t, NEW a \in Described(t),
               p = [path |-> <<e.alias, t, a>>, ops |-> OperatorsByType[Attributes[t][a].type]]
        PROVE  Resolve(type, x).ok
    BY <1>2, <1>5, <2>2 DEF Described
  <2> QED  BY <1>11, <2>1, <2>2 DEF ToolPaths
<1> QED  BY <1>2, <1>7, <1>8, <1>9, <1>10, <1>11 DEF AllowedPaths

LEMMA AstrayFails ==
  ASSUME NEW type \in Types, NEW x, ~Leads(type, x.path)
  PROVE  ~Resolve(type, x).ok /\ ~IsDirect(x)
<1> DEFINE e == EdgeFor(type, x.path[1])
<1>1. Len(x.path) = 3 /\ ~(Traversable(e) /\ x.path[2] \in Range(OtherEnds(type, e)))
  BY DEF Leads, OtherEnds, Direction
<1> HIDE DEF e
<1>2. Resolve(type, x) = ResolveThreePart(type, x, e, x.path[2], x.path[3])
  BY <1>1 DEF Resolve, ResolveWith, e
<1> QED  BY <1>1, <1>2 DEF ResolveThreePart, Refused, Resolved, IsDirect

\* A command that is made of what is advertised is valid as it was asked.
LEMMA AdvertisedValid ==
  ASSUME NEW k, Advertised(k), k.limit \in Nat, k.kind \in {"post", "query", "count"},
         \A x \in Range(k.conds) : Leads(k.entity, x.path),
         k.kind = "count" => DefaultLimit <= MaxPage[k.entity]
  PROVE  Valid(Parsed(k)) /\ Parsed(k).conds = k.conds
<1> DEFINE q == IF k.kind = "count" THEN Parsed(k) ELSE Asked(k)
<1>1. /\ q.entity = k.entity /\ q.conds = k.conds
      /\ q.fields = Parsed(k).fields
      /\ q.sort = k.sort \/ q.sort = <<>>
      /\ q.limit = IF k.kind = "count" THEN DefaultLimit ELSE Lesser(k.limit, MaxPage[k.entity])
  <2>1. CASE k.kind = "count"
    BY <2>1 DEF Parsed, Ast
  <2>2. CASE k.kind = "post"
    BY <2>2 DEF Parsed, Asked, Ast
  <2>3. CASE k.kind = "query"
    BY <2>3 DEF Parsed, QueryTool, Fallback, Asked, Ast
  <2> QED  BY <2>1, <2>2, <2>3
<1> HIDE DEF q
<1>2. q.limit <= MaxPage[q.entity]
  BY <1>1, SchemaAssumption DEF Lesser, Advertised
<1>3. \A c \in Range(q.conds) : Resolve(q.entity, c).ok
  BY <1>1, ListedResolves DEF Advertised, Listed
<1>4. \A s \in Range(q.sort) : s.field \in SortableFields(q.entity)
  BY <1>1 DEF Advertised, Range
<1>5. Valid(q)
  BY <1>1, <1>2, <1>3, <1>4 DEF Valid, Advertised, SortableFields
<1>6. CASE k.kind = "count"
  BY <1>1, <1>5, <1>6 DEF q
<1>7. CASE k.kind = "post"
  BY <1>1, <1>5, <1>7 DEF q, Parsed
<1>8. CASE k.kind = "query"
  BY <1>1, <1>5, <1>8 DEF q, Parsed, QueryTool
<1> QED  BY <1>6, <1>7, <1>8

-----------------------------------------------------------------------------
(* Where clients are *)

\* What was checked before the first await still stands when it is relied on.
Checked(c) ==
  /\ pc[c] \in {"load", "run"} => cmd[c].kind = "run_query"
  /\ pc[c] = "cypher" => cmd[c].kind = "cypher" /\ (cmd[c].text.keyword => IsAdmin(cmd[c]))
  /\ pc[c] = "write" /\ cmd[c].kind \in {"save_query", "delete_query"} =>
       May(cmd[c], <<"execute", "query", "saved">>)
  /\ c \in DOMAIN reports => pc[c] = "done" /\ cmd[c].kind = "save_report"
\* A query stays the one that was asked, but for the page.
AsParsed(c) ==
  cmd[c].kind \in QueryKinds /\ pc[c] # "idle" =>
    /\ ast[c] = [Parsed(cmd[c]) EXCEPT !.offset = ast[c].offset]
    /\ answer[c] = "invalid" <=> ~Valid(Parsed(cmd[c]))
QueriesInv ==
  /\ TypeOK
  /\ cmd \in Scenarios /\ ast = [c \in Clients |-> ast[c]]
  /\ \A c \in Clients : cmd[c] = NoCommand => pc[c] = "idle"
  /\ \A c \in Clients : Checked(c) /\ AsParsed(c)

\* A stage and no answer, or an answer: one client moves, in the right order.
LEMMA MovesType ==
  ASSUME TypeOK, NEW c \in Clients, writes' = writes,
         \/ \E stage \in {"data", "count", "cypher", "write", "load", "run"} :
              Go(c, stage) /\ pc[c] # "done"
         \/ \E a \in {"ok", "invalid", "failed", "403", "404"} : Answer(c, a)
  PROVE  TypeOK'
BY DEF TypeOK, Go, Answer

LEMMA StepType == TypeOK /\ [Next]_vars => TypeOK'
<1> SUFFICES ASSUME TypeOK, [Next]_vars PROVE TypeOK'
  OBVIOUS
<1>1. CASE UNCHANGED vars
  BY <1>1 DEF vars, clientVars, TypeOK
<1>2. CASE Write
  BY <1>2, QueriesAssumption DEF Write, TypeOK, clientVars
<1>3. ASSUME NEW c \in Clients, Ask(c) PROVE TypeOK'
  BY <1>3, MovesType, Zenon DEF Ask
<1>4. ASSUME NEW c \in Clients, Data(c) PROVE TypeOK'
  BY <1>4, MovesType DEF Data
<1>5. ASSUME NEW c \in Clients, Count(c) PROVE TypeOK'
  BY <1>5, MovesType DEF Count
<1>6. ASSUME NEW c \in Clients, NextPage(c) PROVE TypeOK'
  BY <1>6 DEF NextPage, TypeOK
<1>7. ASSUME NEW c \in Clients, Cypher(c) PROVE TypeOK'
  BY <1>7, MovesType DEF Cypher
<1>8. ASSUME NEW c \in Clients, Load(c) PROVE TypeOK'
  BY <1>8, MovesType DEF Load
<1>9. ASSUME NEW c \in Clients, Run(c) PROVE TypeOK'
  BY <1>9, MovesType DEF Run
<1>10. ASSUME NEW c \in Clients, Save(c) PROVE TypeOK'
  <2>1. \E a \in {"ok", "404"} : Answer(c, a)
    BY <1>10 DEF Save, SaveQuery, DeleteQuery, SaveReport, UpdateReport, DeleteReport
  <2> QED  BY <1>10, <2>1, MovesType DEF Save
<1>11. ASSUME NEW c \in Clients, Raise(c) PROVE TypeOK'
  BY <1>11, MovesType DEF Raise
<1> QED  BY <1>1, <1>2, <1>3, <1>4, <1>5, <1>6, <1>7, <1>8, <1>9, <1>10, <1>11 DEF Next, Step

\* Each step moves one client at most, and leaves the queries of the others.
Stays(c) ==
  pc'[c] = pc[c] /\ answer'[c] = answer[c] /\ ast'[c] = ast[c] /\ (c \in DOMAIN reports' => c \in DOMAIN reports)
Turns(c) == Ask(c) \/ Data(c) \/ Count(c) \/ NextPage(c) \/ Cypher(c) \/ Load(c) \/ Run(c) \/ Save(c) \/ Raise(c)
LEMMA OthersStay ==
  ASSUME QueriesInv, NEW c \in Clients, Turns(c)
  PROVE  /\ cmd' = cmd /\ ast' = [q \in Clients |-> ast'[q]]
         /\ \A q \in Clients : q # c => Stays(q)
<1>1. ast = [q \in Clients |-> ast[q]] /\ pc \in [Clients -> {"idle", "data", "count", "cypher", "write", "load", "run", "done"}]
      /\ answer \in [Clients -> {"none", "ok", "invalid", "failed", "403", "404"}]
  BY DEF QueriesInv, TypeOK
<1>2. CASE Ask(c)
  <2>1. (\E stage \in {"data", "cypher", "write", "load"} : Go(c, stage)) \/ \E a \in {"invalid", "403", "404"} : Answer(c, a)
    BY <1>2, Zenon DEF Ask
  <2> QED  BY <1>1, <1>2, <2>1 DEF Ask, Go, Answer, Stays
<1>3. CASE Data(c)
  BY <1>1, <1>3 DEF Data, Go, Answer, Stays
<1>4. CASE Count(c)
  BY <1>1, <1>4 DEF Count, Answer, Stays
<1>5. CASE NextPage(c)
  BY <1>1, <1>5 DEF NextPage, Stays
<1>6. CASE Cypher(c)
  BY <1>1, <1>6 DEF Cypher, Answer, Stays
<1>7. CASE Load(c)
  BY <1>1, <1>7 DEF Load, Go, Answer, Stays
<1>8. CASE Run(c)
  BY <1>1, <1>8 DEF Run, Answer, Stays
<1>9. CASE Save(c)
  BY <1>1, <1>9 DEF Save, SaveQuery, DeleteQuery, SaveReport, UpdateReport, DeleteReport, Put, Without, Answer, Stays
<1>10. CASE Raise(c)
  BY <1>1, <1>10 DEF Raise, Answer, Stays
<1> QED  BY <1>2, <1>3, <1>4, <1>5, <1>6, <1>7, <1>8, <1>9, <1>10 DEF Turns

LEMMA StaysSound ==
  ASSUME QueriesInv, cmd' = cmd, NEW c \in Clients, Stays(c)
  PROVE  (Checked(c) /\ AsParsed(c))' /\ (cmd[c] = NoCommand => pc'[c] = "idle")
<1>1. Checked(c) /\ AsParsed(c) /\ (cmd[c] = NoCommand => pc[c] = "idle")
  BY DEF QueriesInv
<1>2. Checked(c)'
  BY <1>1 DEF Checked, Stays
<1>3. AsParsed(c)'
  BY <1>1 DEF AsParsed, Stays
<1> QED  BY <1>1, <1>2, <1>3 DEF Stays

\* The check of Ask, kind by kind.
LEMMA AskChecks ==
  ASSUME QueriesInv, NEW c \in Clients, Ask(c)
  PROVE  Checked(c)' /\ AsParsed(c)' /\ cmd[c] # NoCommand
<1> DEFINE k == cmd[c]
<1>1. /\ pc[c] = "idle" /\ cmd' = cmd /\ reports' = reports /\ c \notin DOMAIN reports /\ k # NoCommand
      /\ pc \in [Clients -> {"idle", "data", "count", "cypher", "write", "load", "run", "done"}]
      /\ answer \in [Clients -> {"none", "ok", "invalid", "failed", "403", "404"}] /\ answer[c] = "none"
      /\ ast = [q \in Clients |-> ast[q]]
  BY DEF Ask, QueriesInv, Checked, TypeOK
<1>2. ast'[c] = Parsed(k)
  BY <1>1 DEF Ask
<1>3. CASE k.kind \in QueryKinds
  <2>1. IF Valid(Parsed(k)) THEN Go(c, "data") ELSE Answer(c, "invalid")
    BY <1>3 DEF Ask, QueryKinds, ReportKinds
  <2>2. pc'[c] \in {"data", "done"} /\ (answer'[c] = "invalid" <=> ~Valid(Parsed(k)))
    BY <1>1, <2>1 DEF Go, Answer
  <2>3. Parsed(k) = [Parsed(k) EXCEPT !.offset = Parsed(k).offset]
    <3>1. CASE k.kind \in {"post", "query", "list"}
      BY <3>1 DEF Parsed, QueryTool, Fallback, Asked, Ast
    <3>2. CASE k.kind = "find"
      BY <3>2 DEF Parsed, FindTool, Ast
    <3>3. CASE k.kind = "count"
      BY <3>3 DEF Parsed, Ast
    <3>4. CASE k.kind = "lookup"
      BY <3>4 DEF Parsed, Ast
    <3> QED  BY <1>3, <3>1, <3>2, <3>3, <3>4 DEF QueryKinds
  <2> HIDE DEF k
  <2>4. AsParsed(c)'
    BY <1>1, <1>2, <2>2, <2>3 DEF AsParsed, k
  <2> QED  BY <1>1, <1>3, <2>2, <2>4 DEF Checked, QueryKinds, k
<1>4. CASE k.kind \notin QueryKinds
  <2>1. AsParsed(c)'
    BY <1>1, <1>4 DEF AsParsed
  <2>2. CASE k.kind \in ReportKinds \union {"structured"}
    <3>1. Go(c, "data") \/ \E a \in {"invalid", "403", "404"} : Answer(c, a)
      BY <1>4, <2>2, Zenon DEF Ask, ReportKinds, QueryKinds
    <3> QED  BY <1>1, <2>1, <2>2, <3>1 DEF Go, Answer, Checked, ReportKinds
  <2>3. CASE k.kind = "cypher"
    <3>1. IF ~May(k, <<"execute", "cypher">>) \/ (k.text.keyword /\ ~IsAdmin(k))
          THEN Answer(c, "403") ELSE Go(c, "cypher")
      BY <2>3 DEF Ask, QueryKinds, ReportKinds
    <3> QED  BY <1>1, <2>1, <2>3, <3>1 DEF Go, Answer, Checked
  <2>4. CASE k.kind \in {"save_query", "delete_query"}
    <3>1. IF May(k, <<"execute", "query", "saved">>) THEN Go(c, "write") ELSE Answer(c, "403")
      BY <2>4 DEF Ask, QueryKinds, ReportKinds
    <3> QED  BY <1>1, <2>1, <2>4, <3>1 DEF Go, Answer, Checked
  <2>5. CASE k.kind = "run_query"
    <3>1. IF May(k, <<"read", "query", "saved">>) THEN Go(c, "load") ELSE Answer(c, "403")
      BY <2>5 DEF Ask, QueryKinds, ReportKinds
    <3> QED  BY <1>1, <2>1, <2>5, <3>1 DEF Go, Answer, Checked
  <2>6. CASE k.kind \notin QueryKinds \union ReportKinds \union
               {"structured", "cypher", "save_query", "delete_query", "run_query"}
    <3>1. Go(c, "write") /\ k # NoCommand
      BY <2>6 DEF Ask
    <3> QED  BY <1>1, <2>1, <2>6, <3>1 DEF Go, Checked
  <2> QED  BY <1>4, <2>2, <2>3, <2>4, <2>5, <2>6 DEF Ask
<1> QED  BY <1>3, <1>4 DEF Ask

\* A client past its first step.
LEMMA TurnChecks ==
  ASSUME QueriesInv, NEW c \in Clients, Turns(c)
  PROVE  Checked(c)' /\ AsParsed(c)' /\ cmd[c] # NoCommand
<1>1. /\ pc \in [Clients -> {"idle", "data", "count", "cypher", "write", "load", "run", "done"}]
      /\ answer \in [Clients -> {"none", "ok", "invalid", "failed", "403", "404"}]
      /\ ast = [q \in Clients |-> ast[q]] /\ Checked(c) /\ AsParsed(c)
      /\ answer[c] = "none" <=> pc[c] # "done"
      /\ cmd[c] = NoCommand => pc[c] = "idle"
  BY DEF QueriesInv, TypeOK
<1>2. CASE Ask(c)
  BY <1>2, AskChecks
<1>3. ASSUME Data(c) \/ Count(c) \/ Cypher(c) \/ Run(c) \/ Raise(c) PROVE Checked(c)' /\ AsParsed(c)' /\ cmd[c] # NoCommand
  <2>1. /\ cmd' = cmd /\ reports' = reports /\ ast' = ast /\ pc[c] \notin {"idle", "done"}
        /\ Go(c, "count") \/ \E a \in {"ok", "failed"} : Answer(c, a)
    BY <1>3 DEF Data, Count, Cypher, Run, Raise
  <2>2. pc'[c] \in {"count", "done"} /\ answer'[c] # "invalid" /\ c \notin DOMAIN reports
    BY <1>1, <2>1 DEF Go, Answer, Checked
  <2>3. Checked(c)'
    BY <1>1, <2>1, <2>2 DEF Checked
  <2>4. AsParsed(c)'
    BY <1>1, <2>1, <2>2 DEF AsParsed
  <2> QED  BY <1>1, <2>1, <2>3, <2>4
<1>4. CASE NextPage(c)
  <2>1. /\ cmd' = cmd /\ reports' = reports /\ pc[c] = "done" /\ pc'[c] = "data" /\ answer'[c] = "none"
        /\ cmd[c].kind = "post" /\ answer[c] = "ok"
    BY <1>1, <1>4 DEF NextPage
  <2>2. ast'[c] = [ast[c] EXCEPT !.offset = ast[c].offset + ast[c].limit]
    BY <1>1, <1>4 DEF NextPage
  <2>3. Checked(c)'
    BY <1>1, <2>1 DEF Checked
  <2>4. ast[c] = [Asked(cmd[c]) EXCEPT !.offset = ast[c].offset]
    BY <1>1, <2>1 DEF AsParsed, QueryKinds, Parsed
  <2>5. ast'[c] = [Asked(cmd[c]) EXCEPT !.offset = ast'[c].offset]
    BY <2>2, <2>4 DEF Asked, Ast
  <2>6. Valid(Parsed(cmd[c])) /\ Parsed(cmd[c]) = Asked(cmd[c])
    BY <1>1, <2>1 DEF AsParsed, QueryKinds, Parsed
  <2>7. AsParsed(c)'
    BY <2>1, <2>5, <2>6 DEF AsParsed
  <2> QED  BY <1>1, <2>1, <2>3, <2>7
<1>5. CASE Load(c)
  <2>1. cmd' = cmd /\ reports' = reports /\ pc[c] = "load" /\ pc'[c] \in {"run", "done"}
    BY <1>1, <1>5 DEF Load, Go, Answer
  <2>2. cmd[c].kind = "run_query" /\ c \notin DOMAIN reports
    BY <1>1, <2>1 DEF Checked
  <2> QED  BY <1>1, <2>1, <2>2 DEF Checked, AsParsed, QueryKinds
<1>6. CASE Save(c)
  <2>1. /\ cmd' = cmd /\ ast' = ast /\ pc[c] = "write" /\ pc'[c] = "done" /\ answer'[c] \in {"ok", "404"}
    BY <1>1, <1>6 DEF Save, SaveQuery, DeleteQuery, SaveReport, UpdateReport, DeleteReport, Answer
  <2>2. c \in DOMAIN reports' => cmd[c].kind = "save_report"
    <3>1. c \notin DOMAIN reports
      BY <1>1, <2>1 DEF Checked
    <3> QED  BY <1>6, <3>1 DEF Save, SaveQuery, DeleteQuery, SaveReport, UpdateReport, DeleteReport, Without
  <2>3. Checked(c)'
    BY <2>1, <2>2 DEF Checked
  <2>4. AsParsed(c)'
    BY <1>1, <2>1 DEF AsParsed
  <2> QED  BY <1>1, <2>1, <2>3, <2>4
<1> QED  BY <1>2, <1>3, <1>4, <1>5, <1>6 DEF Turns

LEMMA InvInit == Init => QueriesInv
BY QueriesAssumption DEF Init, QueriesInv, TypeOK, Checked, AsParsed

LEMMA InvStep == QueriesInv /\ [Next]_vars => QueriesInv'
<1> SUFFICES ASSUME QueriesInv, [Next]_vars PROVE QueriesInv'
  OBVIOUS
<1>1. TypeOK'
  BY StepType DEF QueriesInv
<1>2. ASSUME cmd' = cmd, ast' = ast, pc' = pc, answer' = answer, reports' = reports PROVE QueriesInv'
  BY <1>1, <1>2 DEF QueriesInv, Checked, AsParsed
<1>3. CASE UNCHANGED vars \/ Write
  BY <1>2, <1>3 DEF vars, clientVars, Write
<1>4. ASSUME NEW c \in Clients, Turns(c) PROVE QueriesInv'
  <2>1. cmd' = cmd /\ ast' = [q \in Clients |-> ast'[q]] /\ \A q \in Clients : q # c => Stays(q)
    BY <1>4, OthersStay
  <2>2. Checked(c)' /\ AsParsed(c)' /\ cmd[c] # NoCommand
    BY <1>4, TurnChecks
  <2>3. \A q \in Clients : q # c => Checked(q)' /\ AsParsed(q)' /\ (cmd[q] = NoCommand => pc'[q] = "idle")
    BY <2>1, StaysSound
  <2> QED  BY <1>1, <2>1, <2>2, <2>3 DEF QueriesInv
<1> QED  BY <1>3, <1>4 DEF Next, Step, Turns

LEMMA AlwaysInv == Spec => []QueriesInv
BY InvInit, InvStep, PTL DEF Spec

-----------------------------------------------------------------------------
(* What follows *)

\* Both parts of a sequence made of two are in it.
LEMMA JoinedHas ==
  ASSUME NEW M, NEW s \in Seq(M), NEW t \in Seq(M)
  PROVE  Range(s) \union Range(t) \subseteq Range(s \o t)
<1>1. /\ Len(s) \in Nat /\ DOMAIN s = 1..Len(s) /\ Len(t) \in Nat /\ DOMAIN t = 1..Len(t)
      /\ DOMAIN (s \o t) = 1..(Len(s) + Len(t))
      /\ \A i \in 1..(Len(s) + Len(t)) : (s \o t)[i] = IF i <= Len(s) THEN s[i] ELSE t[i - Len(s)]
  BY ConcatProperties, LenProperties
<1>2. \A i \in 1..Len(s) : i \in 1..(Len(s) + Len(t)) /\ (s \o t)[i] = s[i]
  BY <1>1
<1>3. \A i \in 1..Len(t) : Len(s) + i \in 1..(Len(s) + Len(t)) /\ (s \o t)[Len(s) + i] = t[i]
  BY <1>1
<1>4. ASSUME NEW i \in DOMAIN s  PROVE s[i] \in Range(s \o t)
  BY <1>1, <1>2, <1>4 DEF Range
<1>5. ASSUME NEW i \in DOMAIN t  PROVE t[i] \in Range(s \o t)
  BY <1>1, <1>3, <1>5 DEF Range
<1>6. Range(s) = {s[i] : i \in DOMAIN s} /\ Range(t) = {t[i] : i \in DOMAIN t}
  BY DEF Range
<1> QED  BY <1>4, <1>5, <1>6

\* One part, or two, in front of a last one.
LEMMA TwoParts ==
  ASSUME NEW b, NEW a
  PROVE  <<b>> \o <<a>> = <<b, a>>
<1> DEFINE S == {b, a}
<1>1. b \in S /\ a \in S
  OBVIOUS
<1> HIDE DEF S
<1>2. <<b>> \in Seq(S) /\ <<a>> \in Seq(S) /\ <<b, a>> \in Seq(S) /\ Len(<<b>>) = 1 /\ Len(<<a>>) = 1
  BY <1>1
<1>3. <<b>> \o <<a>> \in Seq(S) /\ Len(<<b>> \o <<a>>) = 2
      /\ \A i \in 1..2 : (<<b>> \o <<a>>)[i] = IF i <= 1 THEN <<b>>[i] ELSE <<a>>[i - 1]
  BY <1>2, ConcatProperties
<1>4. \A i \in 1..2 : (<<b>> \o <<a>>)[i] = <<b, a>>[i]
  BY <1>3
<1> QED  BY <1>2, <1>3, <1>4, SeqEqual

LEMMA ThreeParts ==
  ASSUME NEW b, NEW t, NEW a
  PROVE  <<b, t>> \o <<a>> = <<b, t, a>>
<1> DEFINE S == {b, t, a}
<1>1. b \in S /\ t \in S /\ a \in S
  OBVIOUS
<1> HIDE DEF S
<1>2. <<b, t>> \in Seq(S) /\ <<a>> \in Seq(S) /\ <<b, t, a>> \in Seq(S) /\ Len(<<b, t>>) = 2 /\ Len(<<a>>) = 1
  BY <1>1
<1>3. <<b, t>> \o <<a>> \in Seq(S) /\ Len(<<b, t>> \o <<a>>) = 3
      /\ \A i \in 1..3 : (<<b, t>> \o <<a>>)[i] = IF i <= 2 THEN <<b, t>>[i] ELSE <<a>>[i - 2]
  BY <1>2, ConcatProperties
<1>4. \A i \in 1..3 : (<<b, t>> \o <<a>>)[i] = <<b, t, a>>[i]
  BY <1>3
<1> QED  BY <1>2, <1>3, <1>4, SeqEqual

\* A filter of the other end that is found valid with the prefix is a condition there.
LEMMA PrefixedReaches ==
  ASSUME NEW k, NEW x, DOMAIN x = {"path", "op", "value"}, x.path \in Seq(Range(x.path)), x.path # <<>>,
         Resolve(k.entity, Prefixed(k, x)).ok
  PROVE  AtOtherEnd(k, x, Prefixed(k, x))
<1> DEFINE e == EdgeFor(k.entity, k.by)
           y == Prefixed(k, x)
           a == x.path[1]
<1>1. CASE ~IsDirect(x)
  <2>1. Len(x.path) \in Nat /\ Len(x.path) # 0 /\ Len(x.path) # 1
    BY <1>1, EmptySeq, LenProperties DEF IsDirect
  <2>2. y = x
    BY <2>1 DEF Prefixed
  <2> QED  BY <1>1, <2>2 DEF AtOtherEnd
<1>2. CASE IsDirect(x)
  <2>1. x.path = <<a>>
    BY <1>2 DEF IsDirect
  <2>2. CASE e = NoType
    <3>1. y.path = <<k.by, a>>
      <4>1. y = [x EXCEPT !.path = <<k.by>> \o @]
        BY <1>2, <2>2 DEF Prefixed, IsDirect
      <4> HIDE DEF a, y
      <4> QED  BY <2>1, <4>1, TwoParts
    <3>2. Resolve(k.entity, y) = ResolveTwoPart(k.entity, y, e, a)
      <4> HIDE DEF y, a
      <4> QED  BY <3>1 DEF Resolve, ResolveWith, e
    <3>3. ~Traversable(e)
      BY <2>2 DEF Traversable
    <3> QED  BY <3>2, <3>3 DEF ResolveTwoPart, Refused, Resolved
  <2>3. CASE e # NoType
    <3> DEFINE t == Head(OtherEnds(k.entity, e))
    <3>1. y.path = <<k.by, t, a>> /\ y.op = x.op /\ y.value = x.value
      <4>1. y = [x EXCEPT !.path = <<k.by, t>> \o @]
        BY <1>2, <2>3 DEF Prefixed, IsDirect
      <4>2. <<k.by, t>> \o <<a>> = <<k.by, t, a>>
        BY ThreeParts
      <4> HIDE DEF t, a, y
      <4> QED  BY <2>1, <4>1, <4>2
    <3> HIDE DEF y, a, t, e
    <3>2. Resolve(k.entity, y) = ResolveThreePart(k.entity, y, e, t, a)
      BY <3>1 DEF Resolve, ResolveWith, e
    <3>3. Resolve(k.entity, y) = FarAttribute(k.entity, y, e, t, a)
      BY <3>2 DEF ResolveThreePart, Refused, Resolved, y
    <3> QED  BY <1>2, <3>1, <3>3 DEF FarAttribute, Resolved, AtOtherEnd, e, a, y
  <2> QED  BY <2>2, <2>3
<1> QED  BY <1>1, <1>2

LEMMA ConditionsStay == QueriesInv => ConditionsKept
<1> SUFFICES ASSUME QueriesInv PROVE DirectFiltersKept /\ FindFiltersReach /\ AdvertisedWork
  BY DEF ConditionsKept
<1>1. ASSUME NEW c \in Clients, cmd[c].kind \in {"query", "list", "count", "post", "find"}, pc[c] # "idle"
      PROVE  /\ ast[c].conds = Parsed(cmd[c]).conds
             /\ answer[c] = "invalid" <=> ~Valid(Parsed(cmd[c]))
             /\ cmd[c].limit \in Nat /\ cmd[c].conds \in Seq(Range(cmd[c].conds))
             /\ cmd[c].far \in Seq(Range(cmd[c].far))
             /\ \A x \in Range(cmd[c].far) :
                  DOMAIN x = {"path", "op", "value"} /\ x.path \in Seq(Range(x.path)) /\ x.path # <<>>
  <2>1. AsParsed(c) /\ cmd[c] # NoCommand /\ cmd \in Scenarios
    BY <1>1 DEF QueriesInv
  <2>2. ast[c] = [Parsed(cmd[c]) EXCEPT !.offset = ast[c].offset]
    BY <1>1, <2>1 DEF AsParsed, QueryKinds
  <2>3. [Parsed(cmd[c]) EXCEPT !.offset = ast[c].offset].conds = Parsed(cmd[c]).conds
    <3>1. CASE cmd[c].kind = "count"
      BY <3>1 DEF Parsed, Ast
    <3>2. CASE cmd[c].kind = "find"
      BY <3>2 DEF Parsed, FindTool, Ast
    <3>3. CASE cmd[c].kind \in {"query", "list", "post"}
      BY <3>3 DEF Parsed, QueryTool, Fallback, Asked, Ast
    <3> QED  BY <1>1, <3>1, <3>2, <3>3
  <2>4. ast[c].conds = Parsed(cmd[c]).conds
    BY <2>2, <2>3
  <2>5. /\ cmd[c].limit \in Nat
        /\ \A list \in {cmd[c].conds, cmd[c].far} :
             /\ list \in Seq(Range(list))
             /\ \A x \in Range(list) : DOMAIN x = {"path", "op", "value"} /\ x.path \in Seq(Range(x.path)) \ {<<>>}
    BY <2>1, CommandAssumption
  <2>6. answer[c] = "invalid" <=> ~Valid(Parsed(cmd[c]))
    BY <1>1, <2>1 DEF AsParsed, QueryKinds
  <2> QED  BY <2>4, <2>5, <2>6
<1>2. DirectFiltersKept
  <2> SUFFICES ASSUME NEW c \in Clients, Answered(c, {"query", "list", "count"})
               PROVE  /\ cmd[c].conds # <<>> => ast[c].conds # <<>>
                      /\ \A x \in Range(Direct(cmd[c].conds)) : x \in Range(ast[c].conds)
    BY DEF DirectFiltersKept
  <2>1. ast[c].conds = Parsed(cmd[c]).conds /\ cmd[c].conds \in Seq(Range(cmd[c].conds))
    BY <1>1 DEF Answered
  <2>2. \/ ast[c].conds = cmd[c].conds
        \/ ast[c].conds = Direct(cmd[c].conds) /\ Direct(cmd[c].conds) # <<>>
    <3>1. CASE cmd[c].kind = "count"
      BY <2>1, <3>1 DEF Parsed, Ast
    <3>2. CASE cmd[c].kind \in {"query", "list"}
      BY <2>1, <3>2 DEF Parsed, QueryTool, Fallback, Asked, Ast
    <3> QED  BY <3>1, <3>2 DEF Answered
  <2>3. \A x \in Range(Direct(cmd[c].conds)) : x \in Range(cmd[c].conds)
    BY <2>1, DirectFacts
  <2> QED  BY <2>2, <2>3
<1>3. FindFiltersReach
  <2> SUFFICES ASSUME NEW c \in Clients, Answered(c, {"find"})
               PROVE  IF cmd[c].farKey = cmd[c].by
                      THEN /\ \A x \in Range(cmd[c].far) : \E y \in Range(ast[c].conds) : AtOtherEnd(cmd[c], x, y)
                           /\ \A x \in Range(cmd[c].conds) : x \in Range(ast[c].conds)
                      ELSE ast[c].conds = cmd[c].conds
    BY DEF FindFiltersReach
  <2> DEFINE k == cmd[c]
  <2>1. /\ k.kind = "find" /\ ast[c].conds = Parsed(k).conds /\ Valid(Parsed(k))
        /\ k.conds \in Seq(Range(k.conds)) /\ k.far \in Seq(Range(k.far))
        /\ \A x \in Range(k.far) : DOMAIN x = {"path", "op", "value"} /\ x.path \in Seq(Range(x.path)) /\ x.path # <<>>
    BY <1>1 DEF Answered
  <2>2. Parsed(k) = FindTool(k)
    BY <2>1 DEF Parsed
  <2> HIDE DEF k
  <2>3. CASE k.farKey = k.by
    <3>1. /\ ast[c].conds = [i \in DOMAIN k.far |-> Prefixed(k, k.far[i])] \o k.conds
          /\ FindTool(k).entity = k.entity
      BY <2>1, <2>2, <2>3 DEF FindTool, Ast
    <3>2. /\ \A i \in DOMAIN k.far : Prefixed(k, k.far[i]) \in Range(ast[c].conds)
          /\ \A x \in Range(k.conds) : x \in Range(ast[c].conds)
      <4> DEFINE far == [i \in DOMAIN k.far |-> Prefixed(k, k.far[i])]
                 S == {far[i] : i \in DOMAIN far} \union Range(k.conds)
      <4>1. Len(k.far) \in Nat /\ DOMAIN far = 1..Len(k.far)
        BY <2>1, LenProperties
      <4>2. far \in [1..Len(k.far) -> S]
        BY <4>1
      <4>3. far \in Seq(S)
        BY <4>1, <4>2, SeqDef
      <4>4. k.conds \in Seq(S)
        <5>1. Len(k.conds) \in Nat /\ DOMAIN k.conds = 1..Len(k.conds) /\ k.conds \in [1..Len(k.conds) -> Range(k.conds)]
          BY <2>1, LenProperties, SeqDef
        <5>2. Range(k.conds) \subseteq S
          OBVIOUS
        <5> HIDE DEF S
        <5>3. k.conds \in [1..Len(k.conds) -> S]
          BY <5>1, <5>2
        <5> QED  BY <5>1, <5>3, SeqDef
      <4>5. Range(far) \union Range(k.conds) \subseteq Range(ast[c].conds)
        <5> HIDE DEF S, far
        <5>1. ast[c].conds = far \o k.conds
          BY <3>1 DEF far
        <5> QED  BY <4>3, <4>4, <5>1, JoinedHas
      <4>6. \A i \in DOMAIN k.far : far[i] = Prefixed(k, k.far[i]) /\ far[i] \in Range(far)
        BY DEF Range
      <4> HIDE DEF far
      <4> QED  BY <4>5, <4>6
    <3>3. \A y \in Range(ast[c].conds) : Resolve(k.entity, y).ok
      BY <2>1, <2>2, <3>1 DEF Valid
    <3>4. ASSUME NEW i \in DOMAIN k.far  PROVE AtOtherEnd(k, k.far[i], Prefixed(k, k.far[i]))
      <4>1. k.far[i] \in Range(k.far)
        BY DEF Range
      <4>2. DOMAIN k.far[i] = {"path", "op", "value"} /\ k.far[i].path \in Seq(Range(k.far[i].path)) /\ k.far[i].path # <<>>
        BY <2>1, <4>1
      <4>3. Resolve(k.entity, Prefixed(k, k.far[i])).ok
        BY <3>2, <3>3
      <4> QED  BY <4>2, <4>3, PrefixedReaches
    <3> QED  BY <2>3, <3>2, <3>4 DEF k, Range
  <2>4. CASE k.farKey # k.by
    BY <2>1, <2>2, <2>4 DEF FindTool, Ast, k
  <2> QED  BY <2>3, <2>4 DEF k
<1>4. AdvertisedWork
  <2> SUFFICES ASSUME NEW c \in Clients, pc[c] # "idle", cmd[c].kind \in {"post", "query", "count"}, Advertised(cmd[c])
               PROVE  LET k == cmd[c]
                          lead == \A x \in Range(k.conds) : Leads(k.entity, x.path)
                      IN /\ lead /\ (k.kind = "count" => DefaultLimit <= MaxPage[k.entity]) =>
                              answer[c] # "invalid" /\ ast[c].conds = k.conds
                         /\ ~lead =>
                              \/ answer[c] = "invalid"
                              \/ k.kind = "query" /\ ast[c].conds = Direct(k.conds) /\ ast[c].conds # <<>>
    BY DEF AdvertisedWork
  <2> DEFINE k == cmd[c]
             lead == \A x \in Range(k.conds) : Leads(k.entity, x.path)
  <2>1. /\ ast[c].conds = Parsed(k).conds /\ k.limit \in Nat
        /\ answer[c] = "invalid" <=> ~Valid(Parsed(k))
    BY <1>1
  <2>2. ASSUME lead, k.kind = "count" => DefaultLimit <= MaxPage[k.entity]
        PROVE  answer[c] # "invalid" /\ ast[c].conds = k.conds
    <3>1. Valid(Parsed(k)) /\ Parsed(k).conds = k.conds
      BY <2>1, <2>2, AdvertisedValid
    <3> QED  BY <2>1, <3>1
  <2>3. ASSUME ~lead, answer[c] # "invalid"
        PROVE  k.kind = "query" /\ ast[c].conds = Direct(k.conds) /\ ast[c].conds # <<>>
    <3>1. PICK x \in Range(k.conds) : ~Resolve(k.entity, x).ok
      BY <2>3, AstrayFails DEF Advertised
    <3>2. Valid(Parsed(k)) /\ k.kind \in {"post", "query", "count"}
      BY <2>1, <2>3
    <3> HIDE DEF k
    <3>3. \A q : Valid(q) /\ q.entity = k.entity => q.conds # k.conds
      BY <3>1 DEF Valid
    <3>4. k.kind # "count"
      <4>1. k.kind = "count" => Parsed(k).entity = k.entity /\ Parsed(k).conds = k.conds
        BY DEF Parsed, Ast
      <4> QED  BY <3>2, <3>3, <4>1
    <3>5. k.kind # "post"
      BY <3>2, <3>3 DEF Parsed, Asked, Ast
    <3>6. Parsed(k) = Fallback(k) /\ k.kind = "query"
      <4>1. k.kind = "query" /\ Parsed(k) = QueryTool(k)
        BY <3>2, <3>4, <3>5 DEF Parsed
      <4>2. ~Valid(Asked(k))
        BY <3>3 DEF Asked, Ast
      <4> QED  BY <4>1, <4>2 DEF QueryTool
    <3>7. Direct(k.conds) # <<>> /\ Parsed(k).conds = Direct(k.conds)
      <4>1. Fallback(k) # Asked(k)
        BY <3>2, <3>3, <3>6 DEF Asked, Ast
      <4> QED  BY <3>6, <4>1 DEF Fallback, Asked, Ast
    <3> QED  BY <2>1, <3>6, <3>7 DEF k
  <2> QED  BY <2>2, <2>3
<1> QED  BY <1>2, <1>3, <1>4

\* Whatever the schema and the questions: a tool that was given filters never asks
\* without one and keeps those on the objects themselves (tool_executor.py:182-202);
\* the filters that a find tool is given of the other end reach the query exactly
\* when they come under the name the tool ends with; and of the paths that
\* get_allowed_filter_paths and the query tools advertise, validate accepts those
\* that lead from the type under their alias and refuses the others, which a query
\* tool leaves out if it has conditions on the objects themselves.
THEOREM ConditionsAreKept == Spec => []ConditionsKept
BY AlwaysInv, ConditionsStay, PTL

LEMMA StepEntitled == QueriesInv /\ [Next]_vars => [EntitledChange]_vars
<1> SUFFICES ASSUME QueriesInv, Next PROVE EntitledChange
  OBVIOUS
<1>1. CASE Write
  BY <1>1 DEF Write, EntitledChange, QueriesInv, TypeOK
<1>2. ASSUME NEW c \in Clients, Turns(c) PROVE EntitledChange
  <2>1. Checked(c) /\ pc \in [Clients -> {"idle", "data", "count", "cypher", "write", "load", "run", "done"}]
    BY DEF QueriesInv, TypeOK
  <2>2. CASE UNCHANGED <<graph, queries, reports>>
    BY <2>2 DEF EntitledChange
  <2>3. CASE Cypher(c)
    <3>1. queries' = queries /\ reports' = reports /\ pc[c] = "cypher" /\ Moves(c)
          /\ (graph' # graph => cmd[c].text.keyword)
      BY <2>1, <2>3 DEF Cypher, Answer, Moves
    <3>2. graph' # graph => IsAdmin(cmd[c])
      BY <2>1, <3>1 DEF Checked
    <3> QED  BY <3>1, <3>2 DEF EntitledChange
  <2>4. CASE Save(c)
    <3>1. graph' = graph /\ pc[c] = "write" /\ Moves(c)
      BY <2>1, <2>4 DEF Save, SaveQuery, DeleteQuery, SaveReport, UpdateReport, DeleteReport, Answer, Moves
    <3>2. queries' # queries => May(cmd[c], <<"execute", "query", "saved">>)
      BY <2>1, <2>4, <3>1 DEF Save, SaveQuery, DeleteQuery, SaveReport, UpdateReport, DeleteReport, Checked
    <3>3. ASSUME NEW i \in DOMAIN reports, i \notin DOMAIN reports' \/ reports'[i] # reports[i]
          PROVE  cmd[c].user = reports[i].owner
      <4>1. c \notin DOMAIN reports
        BY <2>1, <3>1 DEF Checked
      <4> QED  BY <2>4, <3>3, <4>1 DEF Save, SaveQuery, DeleteQuery, SaveReport, UpdateReport, DeleteReport, Put, Without, Owned
    <3> QED  BY <3>1, <3>2, <3>3 DEF EntitledChange
  <2> QED  BY <1>2, <2>2, <2>3, <2>4 DEF Turns, Ask, Data, Count, NextPage, Load, Run, Raise
<1> QED  BY <1>1, <1>2 DEF Next, Step, Turns

\* Whatever clients ask at the same time, the graph is changed by others or by
\* the Cypher of an administrator, never by a saved query; a saved report by its
\* owner only; a saved query by a user who may execute saved queries
\* (query_service.py:77, reports.py:323-353).
THEOREM ChangesAreEntitled == Spec => EntitledChanges
<1>1. QueriesInv /\ [Next]_vars => [EntitledChange]_vars
  BY StepEntitled
<1> QED  BY <1>1, AlwaysInv, PTL DEF Spec, EntitledChanges
-----------------------------------------------------------------------------
(* Sets of numbers *)

\* A set of natural numbers has a least element: of the intervals that end in
\* its members, one has no other as a proper subset.
LEMMA Least ==
  ASSUME NEW T, T \subseteq Nat, T # {}
  PROVE  \E x \in T : \A y \in T : x <= y
<1> DEFINE Ends == {0..k : k \in T}
<1>1. Ends \subseteq FiniteSubsetsOf(Nat) /\ Ends # {}
  <2>1. \A k \in T : IsFiniteSet(0..k) /\ 0..k \subseteq Nat
    BY FS_Interval
  <2> QED  BY <2>1 DEF FiniteSubsetsOf
<1> HIDE DEF Ends
<1>2. PICK X \in Ends : \A Y \in Ends : ~(<<Y, X>> \in StrictSubsetOrdering(Nat))
  BY <1>1, WFMin, FS_StrictSubsetOrderingWellFounded
<1>3. PICK x \in T : X = 0..x
  BY DEF Ends
<1>4. ASSUME NEW y \in T, y < x  PROVE FALSE
  <2>1. 0..y \in Ends /\ 0..y \subseteq 0..x /\ 0..y # 0..x
    BY <1>4 DEF Ends
  <2> QED  BY <1>1, <1>2, <1>3, <2>1 DEF StrictSubsetOrdering, FiniteSubsetsOf
<1> QED  BY <1>4

\* A set that has zero, and with a number below n the next one, has all up to n.
LEMMA UpToAll ==
  ASSUME NEW n \in Nat, NEW K, 0 \in K, \A k \in 0..(n - 1) : k \in K => k + 1 \in K
  PROVE  \A k \in 0..n : k \in K
<1> DEFINE Out == {k \in 0..n : k \notin K}
<1>1. CASE Out = {}
  BY <1>1
<1>2. CASE Out # {}
  <2>1. Out \subseteq Nat
    OBVIOUS
  <2>2. PICK x \in Out : \A y \in Out : x <= y
    BY <1>2, <2>1, Least
  <2>3. x \in 1..n /\ x - 1 \notin Out
    BY <2>2
  <2>4. x - 1 \in 0..(n - 1) /\ x - 1 \in K
    BY <2>3
  <2> QED  BY <2>2, <2>4
<1> QED  BY <1>1, <1>2

\* A set of places has a first and a last one, which Min and Max find.
LEMMA MinAndMaxAreThere ==
  ASSUME NEW n \in Nat, NEW T, T \subseteq 1..n, T # {}
  PROVE  Min(T) \in T /\ Max(T) \in T
<1> DEFINE Back == {n - i : i \in T}
<1>1. \A i \in T : i \in 1..n /\ n - i \in Nat
  OBVIOUS
<1>2. Back \subseteq Nat /\ Back # {}
  BY <1>1
<1>8. T \subseteq Nat
  OBVIOUS
<1>3. PICK x \in Back : \A y \in Back : x <= y
  <2> HIDE DEF Back
  <2> QED  BY <1>2, Least
<1>4. PICK i \in T : x = n - i
  BY <1>3
<1>5. ASSUME NEW j \in T  PROVE i >= j
  <2>1. n - j \in Back
    OBVIOUS
  <2>2. n - i <= n - j
    BY <1>3, <1>4, <2>1
  <2> QED  BY <1>1, <2>2
<1>6. Max(T) \in T
  BY <1>5 DEF Max
<1>7. Min(T) \in T
  BY <1>8, Least DEF Min
<1> QED  BY <1>6, <1>7

-----------------------------------------------------------------------------
(* What conditions are resolved to *)

LEMMA EdgeForIsThere ==
  ASSUME NEW type, NEW alias, EdgeFor(type, alias) # NoType
  PROVE  EdgeFor(type, alias) \in Range(EdgeTypes)
<1> DEFINE hits == {i \in DOMAIN EdgeTypes :
                      \/ alias = EdgeTypes[i].alias /\ type \in Range(EdgeTypes[i].source)
                      \/ alias = EdgeTypes[i].inverse /\ type \in Range(EdgeTypes[i].target)}
<1>1. Len(EdgeTypes) \in Nat /\ DOMAIN EdgeTypes = 1..Len(EdgeTypes)
  BY SchemaAssumption
<1>2. hits \subseteq DOMAIN EdgeTypes /\ EdgeFor(type, alias) = IF hits = {} THEN NoType ELSE EdgeTypes[Max(hits)]
  BY DEF EdgeFor
<1> HIDE DEF hits
<1>3. Max(hits) \in hits
  BY <1>1, <1>2, MinAndMaxAreThere
<1> QED  BY <1>2, <1>3 DEF Range

Kinds == {"attr", "exists", "count", "edge", "far"}
\* A condition that is resolved has a kind, and of its other end the type: "none"
\* for an edge, the name of a type for what is beyond it.
LEMMA KindsOfResolved ==
  ASSUME NEW type, NEW c, Resolve(type, c).ok
  PROVE  LET rp == Resolve(type, c)
         IN /\ rp.kind \in Kinds
            /\ rp.kind = "edge" => rp.target = "none"
            /\ rp.kind = "far" => rp.target # "none"
<1> DEFINE e == EdgeFor(type, c.path[1])
           rp == Resolve(type, c)
<1>1. rp = ResolveWith(type, c, e)
  BY DEF Resolve
<1>2. ASSUME Traversable(e)  PROVE OtherEnds(type, e) \in Seq(Range(OtherEnds(type, e))) /\ "none" \notin Range(OtherEnds(type, e))
  <2>1. e \in Range(EdgeTypes)
    BY <1>2, EdgeForIsThere DEF Traversable
  <2>2. OtherEnds(type, e) \in {e.source, e.target}
    BY DEF OtherEnds
  <2> QED  BY <2>1, <2>2, SchemaAssumption
<1> HIDE DEF e, rp
<1>3. CASE Len(c.path) = 1 /\ c.op \in Existence \union Counting
  <2>1. rp = ResolveRelationship(type, c, e)
    BY <1>1, <1>3 DEF ResolveWith
  <2> QED  BY <2>1 DEF ResolveRelationship, Resolved, Refused, Kinds, rp
<1>4. CASE Len(c.path) = 1 /\ c.op \notin Existence \union Counting
  <2>1. rp = ResolveAttribute(type, c)
    BY <1>1, <1>4 DEF ResolveWith
  <2> QED  BY <2>1 DEF ResolveAttribute, Resolved, Refused, Kinds, rp
<1>5. CASE Len(c.path) = 2
  <2> DEFINE a == c.path[2]
             ends == OtherEnds(type, e)
             having == {i \in DOMAIN ends : a \in DOMAIN Attributes[ends[i]]}
  <2>1. rp = ResolveTwoPart(type, c, e, a)
    BY <1>1, <1>5 DEF ResolveWith
  <2>2. CASE ~Traversable(e)
    BY <2>1, <2>2 DEF ResolveTwoPart, Resolved, Refused, rp
  <2>3. CASE Traversable(e) /\ a \in DOMAIN e.attrs
    BY <2>1, <2>3 DEF ResolveTwoPart, Resolved, Kinds, rp
  <2>4. CASE Traversable(e) /\ a \notin DOMAIN e.attrs /\ \E t \in Range(ends) : a \in DOMAIN Attributes[t]
    <3>1. rp = FarAttribute(type, c, e, ends[FirstWith(ends, a)], a)
      BY <2>1, <2>4 DEF ResolveTwoPart
    <3>2. Len(ends) \in Nat /\ DOMAIN ends = 1..Len(ends)
      BY <1>2, <2>4
    <3>3. having # {} /\ having \subseteq DOMAIN ends
      BY <2>4 DEF Range
    <3>4. FirstWith(ends, a) \in DOMAIN ends
      <4>1. FirstWith(ends, a) = Min(having)
        BY DEF FirstWith
      <4> HIDE DEF having
      <4> QED  BY <3>2, <3>3, <4>1, MinAndMaxAreThere
    <3>5. ends[FirstWith(ends, a)] # "none"
      BY <1>2, <2>4, <3>4 DEF Range
    <3> QED  BY <3>1, <3>5 DEF FarAttribute, Resolved, Kinds, rp
  <2>5. CASE Traversable(e) /\ a \notin DOMAIN e.attrs /\ ~\E t \in Range(ends) : a \in DOMAIN Attributes[t]
    BY <2>1, <2>5 DEF ResolveTwoPart, Resolved, Refused, rp
  <2> QED  BY <2>2, <2>3, <2>4, <2>5
<1>6. CASE Len(c.path) = 3
  <2>1. rp = ResolveThreePart(type, c, e, c.path[2], c.path[3])
    BY <1>1, <1>6 DEF ResolveWith
  <2>2. CASE Traversable(e) /\ c.path[2] \in Range(OtherEnds(type, e))
    <3>1. c.path[2] # "none"
      BY <1>2, <2>2
    <3> QED  BY <2>1, <3>1 DEF ResolveThreePart, FarAttribute, Resolved, Refused, Kinds, rp
  <2>3. CASE ~(Traversable(e) /\ c.path[2] \in Range(OtherEnds(type, e)))
    BY <2>1, <2>3 DEF ResolveThreePart, Resolved, Refused, rp
  <2> QED  BY <2>2, <2>3
<1>7. CASE Len(c.path) \notin {1, 2, 3}
  BY <1>1, <1>7 DEF ResolveWith, Refused, Resolved, rp
<1> QED  BY <1>3, <1>4, <1>5, <1>6, <1>7 DEF rp

\* Two conditions on one path that are of one kind are resolved to the same.
LEMMA OnePathOneMeaning ==
  ASSUME NEW type, NEW c, NEW d, c.path = d.path, Resolve(type, c).ok, Resolve(type, d).ok,
         Resolve(type, c).kind = Resolve(type, d).kind
  PROVE  Resolve(type, c) = Resolve(type, d)
<1> DEFINE e == EdgeFor(type, c.path[1])
<1>1. Resolve(type, c) = ResolveWith(type, c, e) /\ Resolve(type, d) = ResolveWith(type, d, e)
  BY DEF Resolve
<1> HIDE DEF e
<1>2. CASE Len(c.path) = 1
  <2>1. \A x \in {c, d} : /\ x.op \in Existence \union Counting => Resolve(type, x) = ResolveRelationship(type, x, e)
                          /\ x.op \notin Existence \union Counting => Resolve(type, x) = ResolveAttribute(type, x)
    BY <1>1, <1>2 DEF ResolveWith
  <2>2. \A x \in {c, d} : x.op \in Existence \union Counting =>
          Resolve(type, x) = Resolved(TRUE, x.path, IF x.op \in Existence THEN "exists" ELSE "count",
                                      e.name, Direction(type, e), Head(OtherEnds(type, e)), "none")
    BY <2>1 DEF ResolveRelationship, Refused, Resolved
  <2>3. \A x \in {c, d} : x.op \notin Existence \union Counting =>
          Resolve(type, x) = Resolved(TRUE, x.path, "attr", "none", "none", "none", x.path[1])
    <3> SUFFICES ASSUME NEW x \in {c, d}, x.op \notin Existence \union Counting
                 PROVE  Resolve(type, x) = Resolved(TRUE, x.path, "attr", "none", "none", "none", x.path[1])
      OBVIOUS
    <3> DEFINE legal == Legal(Attributes[type][x.path[1]], x.op)
    <3>1. Resolve(type, x) = ResolveAttribute(type, x) /\ Resolve(type, x).ok
      BY <2>1
    <3>2. Resolve(type, x) = Resolved(legal, x.path, "attr", "none", "none", "none", x.path[1])
      BY <3>1 DEF ResolveAttribute, Refused, Resolved
    <3>3. legal \in BOOLEAN
      BY DEF Legal
    <3> HIDE DEF legal
    <3>4. legal = TRUE
      BY <3>1, <3>2, <3>3 DEF Resolved
    <3> QED  BY <3>2, <3>4
  <2>4. (c.op \in Existence \union Counting <=> d.op \in Existence \union Counting)
        /\ (c.op \in Existence \union Counting => (c.op \in Existence <=> d.op \in Existence))
    <3>1. \A x \in {c, d} : Resolve(type, x).kind = IF x.op \in Existence \union Counting
                                                   THEN IF x.op \in Existence THEN "exists" ELSE "count"
                                                   ELSE "attr"
      BY <2>2, <2>3 DEF Resolved
    <3> QED  BY <3>1
  <2>5. CASE c.op \in Existence \union Counting
    <3> DEFINE as(x, kind) == Resolved(TRUE, x.path, kind, e.name, Direction(type, e), Head(OtherEnds(type, e)), "none")
    <3>1. /\ Resolve(type, c) = as(c, IF c.op \in Existence THEN "exists" ELSE "count")
          /\ Resolve(type, d) = as(d, IF d.op \in Existence THEN "exists" ELSE "count")
      BY <2>2, <2>4, <2>5
    <3>2. \A kind : as(c, kind) = as(d, kind)
      OBVIOUS
    <3> HIDE DEF as
    <3>3. CASE c.op \in Existence
      <4>1. d.op \in Existence
        BY <2>4, <2>5, <3>3
      <4>2. Resolve(type, c) = as(c, "exists") /\ Resolve(type, d) = as(d, "exists")
        BY <3>1, <3>3, <4>1
      <4> QED  BY <3>2, <4>2
    <3>4. CASE c.op \notin Existence
      <4>1. d.op \notin Existence
        BY <2>4, <2>5, <3>4
      <4>2. Resolve(type, c) = as(c, "count") /\ Resolve(type, d) = as(d, "count")
        BY <3>1, <3>4, <4>1
      <4> QED  BY <3>2, <4>2
    <3> QED  BY <3>3, <3>4
  <2>6. CASE c.op \notin Existence \union Counting
    BY <2>3, <2>4, <2>6
  <2> QED  BY <2>5, <2>6
<1>3. CASE Len(c.path) = 2
  <2> DEFINE a == c.path[2]
  <2>1. \A x \in {c, d} : Resolve(type, x) = ResolveTwoPart(type, x, e, a)
    BY <1>1, <1>3 DEF ResolveWith
  <2> HIDE DEF a
  <2>2. \A x \in {c, d} : Traversable(e) /\ Resolve(type, x) =
          IF a \in DOMAIN e.attrs THEN Resolved(TRUE, x.path, "edge", e.name, Direction(type, e), "none", a)
          ELSE Resolved(TRUE, x.path, "far", e.name, Direction(type, e),
                        OtherEnds(type, e)[FirstWith(OtherEnds(type, e), a)], a)
    <3> SUFFICES ASSUME NEW x \in {c, d}
                 PROVE  Traversable(e) /\ Resolve(type, x) =
          IF a \in DOMAIN e.attrs THEN Resolved(TRUE, x.path, "edge", e.name, Direction(type, e), "none", a)
          ELSE Resolved(TRUE, x.path, "far", e.name, Direction(type, e),
                        OtherEnds(type, e)[FirstWith(OtherEnds(type, e), a)], a)
      OBVIOUS
    <3> DEFINE end == OtherEnds(type, e)[FirstWith(OtherEnds(type, e), a)]
               near == Legal(e.attrs[a], x.op)
               beyond == Legal(Attributes[end][a], x.op)
    <3>1. Resolve(type, x) = ResolveTwoPart(type, x, e, a) /\ Resolve(type, x).ok
      BY <2>1
    <3>2. near \in BOOLEAN /\ beyond \in BOOLEAN
      BY DEF Legal
    <3>3. Traversable(e)
      <4>1. CASE ~Traversable(e)
        BY <3>1, <4>1 DEF ResolveTwoPart, Refused, Resolved
      <4> QED  BY <4>1
    <3>4. CASE a \in DOMAIN e.attrs
      <4>1. Resolve(type, x) = Resolved(near, x.path, "edge", e.name, Direction(type, e), "none", a)
        BY <3>1, <3>3, <3>4 DEF ResolveTwoPart
      <4> HIDE DEF near
      <4>2. near = TRUE
        BY <3>1, <3>2, <4>1 DEF Resolved
      <4> QED  BY <3>3, <3>4, <4>1, <4>2
    <3>5. CASE a \notin DOMAIN e.attrs
      <4>0. ResolveTwoPart(type, x, e, a) = IF \E t \in Range(OtherEnds(type, e)) : a \in DOMAIN Attributes[t]
                                             THEN FarAttribute(type, x, e, end, a) ELSE Refused(x.path)
        BY <3>3, <3>5 DEF ResolveTwoPart
      <4>3. ~Refused(x.path).ok
        BY DEF Refused, Resolved
      <4>4. Resolve(type, x) = FarAttribute(type, x, e, end, a)
        BY <3>1, <4>0, <4>3
      <4>1. Resolve(type, x) = Resolved(beyond, x.path, "far", e.name, Direction(type, e), end, a)
        BY <4>4 DEF FarAttribute
      <4> HIDE DEF beyond, end
      <4>2. beyond = TRUE
        BY <3>1, <3>2, <4>1 DEF Resolved
      <4> QED  BY <3>3, <3>5, <4>1, <4>2 DEF end
    <3> QED  BY <3>4, <3>5
  <2> DEFINE near(x) == Resolved(TRUE, x.path, "edge", e.name, Direction(type, e), "none", a)
             beyond(x) == Resolved(TRUE, x.path, "far", e.name, Direction(type, e),
                                   OtherEnds(type, e)[FirstWith(OtherEnds(type, e), a)], a)
  <2>3. near(c) = near(d) /\ beyond(c) = beyond(d)
    OBVIOUS
  <2>4. \A x \in {c, d} : Resolve(type, x) = IF a \in DOMAIN e.attrs THEN near(x) ELSE beyond(x)
    BY <2>2
  <2> HIDE DEF near, beyond
  <2> QED  BY <2>3, <2>4
<1>4. CASE Len(c.path) = 3
  <2> DEFINE t == c.path[2]
             a == c.path[3]
  <2>1. \A x \in {c, d} : Resolve(type, x) = ResolveThreePart(type, x, e, t, a) /\ Resolve(type, x).ok
    BY <1>1, <1>4 DEF ResolveWith
  <2> HIDE DEF t, a
  <2>2. \A x \in {c, d} : Resolve(type, x) = Resolved(TRUE, x.path, "far", e.name, Direction(type, e), t, a)
    <3>2. \A x \in {c, d} : Legal(Attributes[t][a], x.op) \in BOOLEAN
      BY DEF Legal
    <3> QED  BY <2>1, <3>2 DEF ResolveThreePart, FarAttribute, Refused, Resolved
  <2> QED  BY <2>2
<1>5. CASE Len(c.path) \notin {1, 2, 3}
  BY <1>1, <1>5 DEF ResolveWith, Refused, Resolved
<1> QED  BY <1>2, <1>3, <1>4, <1>5

\* Conditions that are all resolved, those on one path to one kind.
Sound(type, conds) ==
  /\ conds \in Seq(Range(conds))
  /\ \A c \in Range(conds) : Resolve(type, c).ok
  /\ OneKindPerPath(type, conds)

\* They are compiled as they are resolved, although the last condition on a path
\* decides.
LEMMA PathsAsResolved ==
  ASSUME NEW type, NEW conds, Sound(type, conds), NEW k \in DOMAIN conds
  PROVE  PathFor(type, conds, conds[k].path) = Resolve(type, conds[k])
<1> DEFINE same == {i \in DOMAIN conds : conds[i].path = conds[k].path}
<1>1. Len(conds) \in Nat /\ DOMAIN conds = 1..Len(conds)
  BY DEF Sound
<1>2. k \in same /\ same \subseteq DOMAIN conds /\ PathFor(type, conds, conds[k].path) = Resolve(type, conds[Max(same)])
  BY DEF PathFor
<1>3. Max(same) \in same
  <2> HIDE DEF same
  <2> QED  BY <1>1, <1>2, MinAndMaxAreThere
<1>4. conds[k] \in Range(conds) /\ conds[Max(same)] \in Range(conds) /\ conds[Max(same)].path = conds[k].path
  BY <1>3 DEF Range
<1> HIDE DEF same
<1> QED  BY <1>2, <1>4, OnePathOneMeaning DEF Sound, OneKindPerPath

-----------------------------------------------------------------------------
(* What conditions are compiled to *)

\* The compiler goes from condition to condition.
LEMMA CompileSteps ==
  ASSUME NEW type, NEW conds, Len(conds) \in Nat
  PROVE  \E f : /\ f[0] = EmptyState
                /\ \A i \in 1..Len(conds) :
                     f[i] = CompileCondition(f[i - 1], conds[i], PathFor(type, conds, conds[i].path))
                /\ CompileFilters(type, conds) = f[Len(conds)]
<1> DEFINE n == Len(conds)
           Then(st, i) == CompileCondition(st, conds[i], PathFor(type, conds, conds[i].path))
           Body(f, k) == [i \in 0..k |-> IF i = 0 THEN EmptyState ELSE Then(f[i - 1], i)]
           K == {k \in 0..n : \E f : f = Body(f, k)}
<1> HIDE DEF Then
<1>1. 0 \in K
  <2> DEFINE e == [i \in 0..0 |-> EmptyState]
  <2>1. e = Body(e, 0)
    OBVIOUS
  <2> HIDE DEF e
  <2>2. 0 \in 0..n
    OBVIOUS
  <2> QED  BY <2>1, <2>2
<1>2. ASSUME NEW k \in 0..(n - 1), k \in K  PROVE k + 1 \in K
  <2>1. PICK f : f = Body(f, k)
    BY <1>2
  <2> DEFINE g == [i \in 0..(k + 1) |-> IF i <= k THEN f[i] ELSE Then(f[k], k + 1)]
  <2>2. ASSUME NEW i \in 0..(k + 1)  PROVE g[i] = IF i = 0 THEN EmptyState ELSE Then(g[i - 1], i)
    <3>1. CASE i <= k
      <4>0. \A j \in 0..k : f[j] = IF j = 0 THEN EmptyState ELSE Then(f[j - 1], j)
        BY <2>1
      <4>1. g[i] = f[i] /\ i \in 0..k /\ f[i] = IF i = 0 THEN EmptyState ELSE Then(f[i - 1], i)
        BY <3>1, <4>0
      <4>2. i # 0 => i - 1 \in 0..(k + 1) /\ i - 1 <= k
        BY <3>1
      <4>3. i # 0 => g[i - 1] = f[i - 1]
        BY <4>2
      <4> HIDE DEF g
      <4> QED  BY <4>1, <4>3
    <3>2. CASE i = k + 1
      BY <3>2
    <3> QED  BY <3>1, <3>2
  <2>3. g = [i \in 0..(k + 1) |-> g[i]]
    OBVIOUS
  <2> HIDE DEF g
  <2>4. g = Body(g, k + 1)
    BY <2>2, <2>3
  <2>5. k + 1 \in 0..n
    OBVIOUS
  <2> QED  BY <2>4, <2>5
<1> HIDE DEF K
<1>3. n \in K
  <2> HIDE DEF n
  <2>1. n \in Nat
    BY DEF n
  <2>2. \A k \in 0..n : k \in K
    BY <1>1, <1>2, <2>1, UpToAll
  <2> QED  BY <2>1, <2>2
<1>4. \E f : f = Body(f, n)
  BY <1>3 DEF K
<1> DEFINE h == CHOOSE f : f = Body(f, n)
<1>5. h = Body(h, n)
  BY <1>4
<1>6. CompileFilters(type, conds) = h[n]
  BY DEF CompileFilters, Then
<1>7. \A i \in 0..n : h[i] = IF i = 0 THEN EmptyState ELSE Then(h[i - 1], i)
  BY <1>5
<1> HIDE DEF h
<1>8. h[0] = EmptyState /\ \A i \in 1..n : h[i] = Then(h[i - 1], i)
  BY <1>7
<1> QED  BY <1>6, <1>8 DEF Then

\* What is resolved, and what is written down for it.
OnHop(rp) == rp.kind \in {"edge", "far"}
KeyFor(rp) == <<rp.edge, rp.dir>>
PredFor(hop, c, rp) ==
  CASE rp.kind = "attr" -> Pred("node", 0, rp.attr, c.op, c.value)
    [] rp.kind = "exists" -> [Pred("exists", 0, "none", IF c.op = "exists" THEN "exists" ELSE "not_exists", Null)
                              EXCEPT !.edge = rp.edge, !.dir = rp.dir]
    [] rp.kind = "count" -> [Pred("count", 0, "none", CountOp(c.op), c.value) EXCEPT !.edge = rp.edge, !.dir = rp.dir]
    [] OTHER -> Pred(rp.kind, hop, rp.attr, c.op, c.value)

\* The clauses that conditions may have.
ClausesFor(type, conds) == {Clause(Resolve(type, c).edge, Resolve(type, c).dir, Resolve(type, c).target, FALSE) :
                              c \in Range(conds)}
ClauseKey(cl) == <<cl.edge, cl.dir>>
HopKeys(type, conds, i) == {KeyFor(Resolve(type, conds[k])) : k \in {j \in 1..i : OnHop(Resolve(type, conds[j]))}}

\* A state of the compiler after i conditions: clauses and variables fit each
\* other, and the predicates are those of the conditions.
IsState(st) ==
  st.bound \in BOOLEAN /\ st = [clauses |-> st.clauses, preds |-> st.preds, vars |-> st.vars, bound |-> st.bound]
VarsFit(st) ==
  /\ \A key \in DOMAIN st.vars : st.vars[key] \in 1..Len(st.clauses) /\ key = ClauseKey(st.clauses[st.vars[key]])
  /\ \A j \in 1..Len(st.clauses) : /\ ClauseKey(st.clauses[j]) \in DOMAIN st.vars
                                   /\ st.vars[ClauseKey(st.clauses[j])] = j
PredsFit(type, conds, i, st) ==
  /\ DOMAIN st.preds = 1..i /\ st.preds \in Seq(Range(st.preds))
  /\ \A k \in 1..i : LET rp == Resolve(type, conds[k])
                     IN st.preds[k] = PredFor(IF OnHop(rp) THEN st.vars[KeyFor(rp)] ELSE 0, conds[k], rp)
LabelsFit(type, conds, i, st) ==
  /\ \A k \in 1..i : LET rp == Resolve(type, conds[k])
                     IN rp.kind = "far" => st.clauses[st.vars[KeyFor(rp)]].label = rp.target
  /\ \A j \in 1..Len(st.clauses) : LET cl == st.clauses[j] IN
       cl.label = "none" \/ \E k \in 1..i : LET rp == Resolve(type, conds[k])
                                            IN rp.kind = "far" /\ KeyFor(rp) = ClauseKey(cl) /\ rp.target = cl.label
Compiled(type, conds, i, st) ==
  /\ IsState(st)
  /\ st.clauses \in Seq(ClausesFor(type, conds))
  /\ DOMAIN st.vars = HopKeys(type, conds, i)
  /\ VarsFit(st)
  /\ PredsFit(type, conds, i, st)
  /\ st.bound => LabelsFit(type, conds, i, st)

\* The variable of a relationship is introduced once, with a clause.
Introduced(C, st, rp) ==
  LET h == Hop(st, rp)
      n == Len(st.clauses)
  IN /\ IsState(h) /\ h.preds = st.preds /\ h.bound = st.bound
     /\ h.clauses \in Seq(C) /\ VarsFit(h)
     /\ DOMAIN h.vars = DOMAIN st.vars \union {KeyFor(rp)}
     /\ \A key \in DOMAIN st.vars : h.vars[key] = st.vars[key]
     /\ \A j \in 1..n : h.clauses[j] = st.clauses[j]
     /\ IF Known(st, rp) THEN h = st
        ELSE /\ Len(h.clauses) = n + 1 /\ h.vars[KeyFor(rp)] = n + 1
             /\ h.clauses[n + 1] = Clause(rp.edge, rp.dir, rp.target, FALSE)
LEMMA HopFits ==
  ASSUME NEW C, NEW st, NEW rp, IsState(st), st.clauses \in Seq(C), VarsFit(st),
         Clause(rp.edge, rp.dir, rp.target, FALSE) \in C
  PROVE  Introduced(C, st, rp)
<1> DEFINE h == Hop(st, rp)
           n == Len(st.clauses)
           cl == Clause(rp.edge, rp.dir, rp.target, FALSE)
           key0 == KeyFor(rp)
<1>1. n \in Nat /\ DOMAIN st.clauses = 1..n /\ cl \in C
  <2> HIDE DEF cl
  <2>1. cl \in C
    BY DEF cl
  <2> QED  BY <2>1, LenProperties
<1>2. Known(st, rp) <=> key0 \in DOMAIN st.vars
  BY DEF Known, KeyFor
<1>3. CASE Known(st, rp)
  <2>1. h = st
    BY <1>3 DEF Hop
  <2>2. DOMAIN st.vars = DOMAIN st.vars \union {key0}
    BY <1>2, <1>3
  <2> HIDE DEF h, key0, n
  <2> QED  BY <1>3, <2>1, <2>2 DEF h, key0, n, Introduced
<1>4. CASE ~Known(st, rp)
  <2> DEFINE vs == [k \in DOMAIN st.vars \union {key0} |-> IF k = key0 THEN n + 1 ELSE st.vars[k]]
             cls == Append(st.clauses, cl)
  <2>1. h = [clauses |-> cls, preds |-> st.preds, vars |-> vs, bound |-> st.bound]
    BY <1>4 DEF Hop, IsState, KeyFor
  <2>2. /\ cls \in Seq(C) /\ Len(cls) = n + 1 /\ cls[n + 1] = cl
        /\ \A j \in 1..n : cls[j] = st.clauses[j]
    <3> HIDE DEF cl
    <3> QED  BY <1>1, AppendProperties
  <2>3. /\ DOMAIN vs = DOMAIN st.vars \union {key0} /\ vs[key0] = n + 1
        /\ \A k \in DOMAIN st.vars : vs[k] = st.vars[k]
    BY <1>2, <1>4
  <2>4. ClauseKey(cl) = key0
    BY DEF ClauseKey, Clause, KeyFor
  <2> HIDE DEF vs, cls, cl, h, key0
  <2>5. h.clauses = cls /\ h.vars = vs /\ h.preds = st.preds /\ h.bound = st.bound
    BY <2>1
  <2>6. IsState(h)
    BY <2>1, <2>5 DEF IsState
  <2>7. ASSUME NEW k \in DOMAIN vs  PROVE vs[k] \in 1..(n + 1) /\ k = ClauseKey(cls[vs[k]])
    <3>1. CASE k = key0
      <4>1. n + 1 \in 1..(n + 1)
        BY <1>1
      <4> QED  BY <2>2, <2>3, <2>4, <3>1, <4>1
    <3>2. CASE k \in DOMAIN st.vars
      <4>1. st.vars[k] \in 1..n /\ k = ClauseKey(st.clauses[st.vars[k]])
        BY <3>2 DEF VarsFit
      <4>2. st.vars[k] \in 1..(n + 1)
        BY <1>1, <4>1
      <4> HIDE DEF n
      <4> QED  BY <2>2, <2>3, <3>2, <4>1, <4>2
    <3> QED  BY <2>3, <3>1, <3>2
  <2>8. ASSUME NEW j \in 1..(n + 1)  PROVE ClauseKey(cls[j]) \in DOMAIN vs /\ vs[ClauseKey(cls[j])] = j
    <3>1. CASE j = n + 1
      BY <2>2, <2>3, <2>4, <3>1
    <3>2. CASE j \in 1..n
      <4>1. ClauseKey(st.clauses[j]) \in DOMAIN st.vars /\ st.vars[ClauseKey(st.clauses[j])] = j
        BY <3>2 DEF VarsFit
      <4> HIDE DEF n
      <4> QED  BY <2>2, <2>3, <3>2, <4>1
    <3> QED  BY <1>1, <3>1, <3>2
  <2>9. VarsFit(h)
    BY <2>2, <2>5, <2>7, <2>8 DEF VarsFit
  <2> HIDE DEF n
  <2>10. Clause(rp.edge, rp.dir, rp.target, FALSE) = cl /\ Hop(st, rp) = h /\ KeyFor(rp) = key0 /\ Len(st.clauses) = n
    BY DEF cl, h, key0, n
  <2> QED  BY <1>4, <2>2, <2>3, <2>5, <2>6, <2>9, <2>10 DEF Introduced
<1> QED  BY <1>3, <1>4

\* What one condition adds.
LEMMA ConditionAdds ==
  ASSUME NEW st, NEW c, NEW rp, IsState(st), rp.kind \in Kinds, IsState(Hop(st, rp)), Hop(st, rp).preds = st.preds,
         Hop(st, rp).bound = st.bound
  PROVE  LET st1 == IF OnHop(rp) THEN Hop(st, rp) ELSE st
             st2 == CompileCondition(st, c, rp)
         IN /\ IsState(st2) /\ st2.clauses = st1.clauses /\ st2.vars = st1.vars
            /\ st2.preds = Append(st.preds, PredFor(IF OnHop(rp) THEN st1.vars[KeyFor(rp)] ELSE 0, c, rp))
            /\ st2.bound => st.bound /\ (rp.kind = "far" => ~Known(st, rp))
<1> DEFINE st1 == IF OnHop(rp) THEN Hop(st, rp) ELSE st
           st2 == CompileCondition(st, c, rp)
<1>1. ASSUME NEW x, IsState(x), NEW p  PROVE IsState(WithPred(x, p)) /\ WithPred(x, p) = [x EXCEPT !.preds = Append(x.preds, p)]
                                             /\ WithPred(x, p).clauses = x.clauses /\ WithPred(x, p).vars = x.vars
                                             /\ WithPred(x, p).bound = x.bound /\ WithPred(x, p).preds = Append(x.preds, p)
  <2> DEFINE y == [clauses |-> x.clauses, preds |-> Append(x.preds, p), vars |-> x.vars, bound |-> x.bound]
  <2>1. WithPred(x, p) = y /\ WithPred(x, p) = [x EXCEPT !.preds = Append(x.preds, p)] /\ x.bound \in BOOLEAN
    BY <1>1 DEF WithPred, IsState
  <2>2. y.clauses = x.clauses /\ y.preds = Append(x.preds, p) /\ y.vars = x.vars /\ y.bound = x.bound
    OBVIOUS
  <2>3. y = [clauses |-> y.clauses, preds |-> y.preds, vars |-> y.vars, bound |-> y.bound]
    OBVIOUS
  <2> HIDE DEF y
  <2>4. IsState(y)
    BY <2>1, <2>2, <2>3 DEF IsState
  <2> QED  BY <2>1, <2>2, <2>4
<1>2. CASE rp.kind = "attr"
  <2>1. st1 = st /\ st2 = WithPred(st, PredFor(0, c, rp)) /\ ~OnHop(rp)
    BY <1>2 DEF CompileCondition, PredFor, OnHop
  <2> QED  BY <1>1, <1>2, <2>1
<1>3. CASE rp.kind = "exists"
  <2>1. st1 = st /\ st2 = WithPred(st, PredFor(0, c, rp)) /\ ~OnHop(rp)
    BY <1>3 DEF CompileCondition, PredFor, OnHop
  <2> QED  BY <1>1, <1>3, <2>1
<1>4. CASE rp.kind = "count"
  <2>1. st1 = st /\ st2 = WithPred(st, PredFor(0, c, rp)) /\ ~OnHop(rp)
    BY <1>4 DEF CompileCondition, PredFor, OnHop
  <2> QED  BY <1>1, <1>4, <2>1
<1>5. CASE rp.kind = "edge"
  <2>1. st1 = Hop(st, rp) /\ OnHop(rp)
    BY <1>5 DEF OnHop
  <2>2. st2 = WithPred(st1, PredFor(st1.vars[KeyFor(rp)], c, rp))
    BY <1>5, <2>1 DEF CompileCondition, CompileHop, HopOf, PredFor, KeyFor
  <2> HIDE DEF st1
  <2> QED  BY <1>1, <1>5, <2>1, <2>2 DEF st1
<1>6. CASE rp.kind = "far"
  <2> DEFINE b == st1.bound /\ ~Known(st, rp)
             x == [st1 EXCEPT !.bound = b]
  <2>1. st1 = Hop(st, rp) /\ OnHop(rp)
    BY <1>6 DEF OnHop
  <2>2. x = [clauses |-> st1.clauses, preds |-> st1.preds, vars |-> st1.vars, bound |-> b]
    BY <2>1 DEF IsState
  <2>3. b \in BOOLEAN
    OBVIOUS
  <2>4. st2 = WithPred(x, Pred(rp.kind, HopOf(x, rp), rp.attr, c.op, c.value))
    BY <1>6, <2>1 DEF CompileCondition, CompileHop
  <2> HIDE DEF st1, b
  <2>5. x.clauses = st1.clauses /\ x.vars = st1.vars /\ x.preds = st1.preds /\ x.bound = b
    BY <2>2
  <2> HIDE DEF x
  <2>6. IsState(x)
    BY <2>2, <2>3, <2>5 DEF IsState
  <2>7. Pred(rp.kind, HopOf(x, rp), rp.attr, c.op, c.value) = PredFor(st1.vars[KeyFor(rp)], c, rp)
    BY <1>6, <2>5 DEF HopOf, PredFor, KeyFor
  <2>8. st2.bound = b
    BY <1>1, <2>4, <2>5, <2>6
  <2>9. b => st.bound /\ ~Known(st, rp)
    BY <2>1 DEF b
  <2> QED  BY <1>1, <1>6, <2>1, <2>4, <2>5, <2>6, <2>7, <2>8, <2>9 DEF st1
<1> QED  BY <1>2, <1>3, <1>4, <1>5, <1>6 DEF Kinds

\* One condition more.
LEMMA ConditionFits ==
  ASSUME NEW type, NEW conds, Sound(type, conds), NEW i \in 1..Len(conds), NEW st, Compiled(type, conds, i - 1, st)
  PROVE  Compiled(type, conds, i, CompileCondition(st, conds[i], Resolve(type, conds[i])))
<1> DEFINE C == ClausesFor(type, conds)
           c == conds[i]
           rp == Resolve(type, c)
           R(k) == Resolve(type, conds[k])
           h == Hop(st, rp)
           st1 == IF OnHop(rp) THEN h ELSE st
           st2 == CompileCondition(st, c, rp)
           n == Len(st.clauses)
           p == PredFor(IF OnHop(rp) THEN st1.vars[KeyFor(rp)] ELSE 0, c, rp)
<1>1. /\ Len(conds) \in Nat /\ DOMAIN conds = 1..Len(conds) /\ i \in Nat /\ i - 1 \in Nat
      /\ 1..i = 1..(i - 1) \union {i} /\ i \notin 1..(i - 1) /\ (i - 1) + 1 = i
  BY DEF Sound
<1>2. rp.ok /\ rp.kind \in Kinds /\ (rp.kind = "edge" => rp.target = "none") /\ (rp.kind = "far" => rp.target # "none")
  <2>1. c \in Range(conds)
    BY <1>1 DEF Range
  <2> QED  BY <2>1, KindsOfResolved DEF Sound
<1>3. /\ IsState(st) /\ st.clauses \in Seq(C) /\ DOMAIN st.vars = HopKeys(type, conds, i - 1)
      /\ VarsFit(st) /\ PredsFit(type, conds, i - 1, st) /\ (st.bound => LabelsFit(type, conds, i - 1, st))
  BY DEF Compiled
<1>4. Clause(rp.edge, rp.dir, rp.target, FALSE) \in C
  <2>1. c \in Range(conds)
    BY <1>1 DEF Range
  <2> QED  BY <2>1 DEF ClausesFor
<1>5. R(i) = rp /\ \A k : R(k) = Resolve(type, conds[k])
  OBVIOUS
<1> HIDE DEF C, h, R, st2
<1>6. /\ IsState(h) /\ h.preds = st.preds /\ h.bound = st.bound
      /\ h.clauses \in Seq(C) /\ VarsFit(h)
      /\ DOMAIN h.vars = DOMAIN st.vars \union {KeyFor(rp)}
      /\ \A key \in DOMAIN st.vars : h.vars[key] = st.vars[key]
      /\ \A j \in 1..n : h.clauses[j] = st.clauses[j]
      /\ IF Known(st, rp) THEN h = st
         ELSE /\ Len(h.clauses) = n + 1 /\ h.vars[KeyFor(rp)] = n + 1
              /\ h.clauses[n + 1] = Clause(rp.edge, rp.dir, rp.target, FALSE)
  <2> HIDE DEF c, rp, n, st1
  <2>1. IsState(st) /\ st.clauses \in Seq(C) /\ VarsFit(st)
    BY <1>3
  <2>2. Introduced(C, st, rp)
    BY <1>4, <2>1, HopFits
  <2> QED  BY <2>2 DEF Introduced, h, n
<1>7. /\ IsState(st2) /\ st2.clauses = st1.clauses /\ st2.vars = st1.vars
      /\ st2.preds = Append(st.preds, p)
      /\ st2.bound => st.bound /\ (rp.kind = "far" => ~Known(st, rp))
  BY <1>2, <1>3, <1>6, ConditionAdds DEF h, st2
<1>8. /\ st1.clauses \in Seq(C) /\ VarsFit(st1)
      /\ DOMAIN st1.vars = DOMAIN st.vars \union (IF OnHop(rp) THEN {KeyFor(rp)} ELSE {})
      /\ \A key \in DOMAIN st.vars : st1.vars[key] = st.vars[key]
      /\ \A j \in 1..n : st1.clauses[j] = st.clauses[j]
  BY <1>3, <1>6
<1>9. /\ n \in Nat /\ Len(st1.clauses) \in Nat
      /\ \A j \in 1..Len(st1.clauses) : \/ j \in 1..n
                                        \/ OnHop(rp) /\ ~Known(st, rp) /\ j = n + 1
                                           /\ st1.clauses[j] = Clause(rp.edge, rp.dir, rp.target, FALSE)
  <2>1. n \in Nat /\ Len(st1.clauses) \in Nat
    BY <1>3, <1>8, LenProperties
  <2>2. CASE OnHop(rp) /\ ~Known(st, rp)
    <3>1. Len(st1.clauses) = n + 1 /\ st1.clauses[n + 1] = Clause(rp.edge, rp.dir, rp.target, FALSE)
      BY <1>6, <2>2
    <3> HIDE DEF st1, n, c, rp
    <3>2. \A j \in 1..(n + 1) : j \in 1..n \/ j = n + 1
      BY <2>1
    <3> QED  BY <2>1, <2>2, <3>1, <3>2
  <2>3. CASE ~(OnHop(rp) /\ ~Known(st, rp))
    <3>1. st1 = st
      BY <1>6, <2>3
    <3> QED  BY <2>1, <3>1
  <2> QED  BY <2>2, <2>3
<1>10. \A k \in 1..(i - 1) : OnHop(R(k)) => KeyFor(R(k)) \in DOMAIN st.vars
  BY <1>3, <1>5 DEF HopKeys
<1> HIDE DEF st1, n, p
<1>11. DOMAIN st2.vars = HopKeys(type, conds, i)
  <2>1. HopKeys(type, conds, i) = HopKeys(type, conds, i - 1) \union (IF OnHop(rp) THEN {KeyFor(rp)} ELSE {})
    <3>1. \A m \in {i - 1, i} : \A key : key \in HopKeys(type, conds, m) <=> \E k \in 1..m : OnHop(R(k)) /\ key = KeyFor(R(k))
      BY <1>5 DEF HopKeys
    <3>2. \A key : key \in HopKeys(type, conds, i) <=> key \in HopKeys(type, conds, i - 1) \/ (OnHop(rp) /\ key = KeyFor(rp))
      BY <1>1, <1>5, <3>1
    <3> QED  BY <3>2
  <2> QED  BY <1>3, <1>7, <1>8, <2>1
<1>12. VarsFit(st2)
  BY <1>7, <1>8 DEF VarsFit
<1>13. PredsFit(type, conds, i, st2)
  <2>1. /\ DOMAIN st.preds = 1..(i - 1) /\ st.preds \in Seq(Range(st.preds))
        /\ \A k \in 1..(i - 1) : st.preds[k] = PredFor(IF OnHop(R(k)) THEN st.vars[KeyFor(R(k))] ELSE 0, conds[k], R(k))
    BY <1>3, <1>5 DEF PredsFit
  <2>2. Len(st.preds) = i - 1
    BY <1>1, <2>1, LenProperties
  <2> DEFINE S == Range(st.preds) \union {p}
  <2>3. st.preds \in Seq(S)
    <3>1. Range(st.preds) \subseteq S
      OBVIOUS
    <3> HIDE DEF S
    <3> QED  BY <2>1, <3>1, SeqMonotonic
  <2>4. /\ st2.preds \in Seq(S) /\ Len(st2.preds) = i /\ st2.preds[i] = p
        /\ \A k \in 1..(i - 1) : st2.preds[k] = st.preds[k]
    <3>1. p \in S
      OBVIOUS
    <3> HIDE DEF S
    <3> QED  BY <1>1, <1>7, <2>2, <2>3, <3>1, AppendProperties
  <2>5. st2.preds \in Seq(Range(st2.preds)) /\ DOMAIN st2.preds = 1..i
    <3> HIDE DEF S
    <3> QED  BY <2>4, SeqOfRange, LenProperties
  <2>6. ASSUME NEW k \in 1..i
        PROVE  st2.preds[k] = PredFor(IF OnHop(R(k)) THEN st2.vars[KeyFor(R(k))] ELSE 0, conds[k], R(k))
    <3>1. CASE k = i
      BY <1>5, <1>7, <2>4, <3>1 DEF p
    <3>2. CASE k \in 1..(i - 1)
      <4>1. OnHop(R(k)) => st2.vars[KeyFor(R(k))] = st.vars[KeyFor(R(k))]
        BY <1>7, <1>8, <1>10, <3>2
      <4> QED  BY <2>1, <2>4, <3>2, <4>1
    <3> QED  BY <1>1, <3>1, <3>2
  <2> QED  BY <1>5, <2>5, <2>6 DEF PredsFit
<1>14. ASSUME st2.bound  PROVE LabelsFit(type, conds, i, st2)
  <2>1. st.bound /\ (rp.kind = "far" => ~Known(st, rp)) /\ LabelsFit(type, conds, i - 1, st)
    BY <1>3, <1>7, <1>14
  <2>2. /\ \A k \in 1..(i - 1) : R(k).kind = "far" => st.clauses[st.vars[KeyFor(R(k))]].label = R(k).target
        /\ \A j \in 1..n : \/ st.clauses[j].label = "none"
                           \/ \E k \in 1..(i - 1) : /\ R(k).kind = "far" /\ KeyFor(R(k)) = ClauseKey(st.clauses[j])
                                                    /\ R(k).target = st.clauses[j].label
    BY <1>5, <2>1 DEF LabelsFit, n
  <2>3. ASSUME NEW k \in 1..i, R(k).kind = "far"  PROVE st2.clauses[st2.vars[KeyFor(R(k))]].label = R(k).target
    <3>1. CASE k = i
      <4>1. OnHop(rp) /\ ~Known(st, rp)
        BY <1>5, <2>1, <2>3, <3>1 DEF OnHop
      <4>2. st1.vars[KeyFor(rp)] = n + 1 /\ st1.clauses[n + 1] = Clause(rp.edge, rp.dir, rp.target, FALSE)
        BY <1>6, <4>1 DEF st1
      <4> QED  BY <1>5, <1>7, <3>1, <4>2 DEF Clause
    <3>2. CASE k \in 1..(i - 1)
      <4>1. OnHop(R(k))
        BY <2>3 DEF OnHop
      <4>2. KeyFor(R(k)) \in DOMAIN st.vars /\ st2.vars[KeyFor(R(k))] = st.vars[KeyFor(R(k))]
        BY <1>7, <1>8, <1>10, <3>2, <4>1
      <4>3. st.vars[KeyFor(R(k))] \in 1..n
        BY <1>3, <4>2 DEF VarsFit, n
      <4> QED  BY <1>7, <1>8, <2>2, <2>3, <3>2, <4>2, <4>3
    <3> QED  BY <1>1, <3>1, <3>2
  <2>4. ASSUME NEW j \in 1..Len(st2.clauses)
        PROVE  \/ st2.clauses[j].label = "none"
               \/ \E k \in 1..i : /\ R(k).kind = "far" /\ KeyFor(R(k)) = ClauseKey(st2.clauses[j])
                                  /\ R(k).target = st2.clauses[j].label
    <3>1. CASE j \in 1..n
      <4>1. st2.clauses[j] = st.clauses[j]
        BY <1>7, <1>8, <3>1
      <4> QED  BY <1>1, <2>2, <3>1, <4>1
    <3>2. CASE OnHop(rp) /\ st1.clauses[j] = Clause(rp.edge, rp.dir, rp.target, FALSE)
      <4>1. st2.clauses[j].label = rp.target /\ ClauseKey(st2.clauses[j]) = KeyFor(rp)
        BY <1>7, <3>2 DEF Clause, ClauseKey, KeyFor
      <4>2. rp.kind \in {"edge", "far"} /\ i \in 1..i
        BY <1>1, <3>2 DEF OnHop
      <4> QED  BY <1>2, <1>5, <4>1, <4>2
    <3> QED  BY <1>7, <1>9, <3>1, <3>2
  <2> QED  BY <1>5, <2>3, <2>4 DEF LabelsFit
<1>15. st2.clauses \in Seq(C)
  BY <1>7, <1>8
<1> QED  BY <1>7, <1>11, <1>12, <1>13, <1>14, <1>15 DEF Compiled, C, st2

LEMMA EmptyFits ==
  ASSUME NEW type, NEW conds
  PROVE  Compiled(type, conds, 0, EmptyState)
<1>1. /\ EmptyState.clauses = <<>> /\ EmptyState.preds = <<>> /\ EmptyState.vars = <<>> /\ EmptyState.bound = TRUE
      /\ IsState(EmptyState)
  BY DEF EmptyState, IsState
<1>2. HopKeys(type, conds, 0) = {}
  BY DEF HopKeys
<1>3. <<>> \in Seq(ClausesFor(type, conds)) /\ <<>> \in Seq(Range(<<>>)) /\ DOMAIN <<>> = {} /\ Len(<<>>) = 0 /\ 1..0 = {}
  OBVIOUS
<1> HIDE DEF EmptyState
<1> QED  BY <1>1, <1>2, <1>3 DEF Compiled, VarsFit, PredsFit, LabelsFit

\* The state that all conditions are compiled to.
LEMMA AllCompiled ==
  ASSUME NEW type, NEW conds, Sound(type, conds)
  PROVE  Compiled(type, conds, Len(conds), CompileFilters(type, conds))
<1> DEFINE n == Len(conds)
<1>1. n \in Nat /\ DOMAIN conds = 1..n
  BY DEF Sound
<1>2. PICK f : /\ f[0] = EmptyState
               /\ \A i \in 1..n : f[i] = CompileCondition(f[i - 1], conds[i], PathFor(type, conds, conds[i].path))
               /\ CompileFilters(type, conds) = f[n]
  BY <1>1, CompileSteps
<1> DEFINE K == {k \in 0..n : Compiled(type, conds, k, f[k])}
<1>3. 0 \in K
  BY <1>1, <1>2, EmptyFits
<1>4. ASSUME NEW k \in 0..(n - 1), k \in K  PROVE k + 1 \in K
  <2>1. k + 1 \in 1..n /\ (k + 1) - 1 = k /\ k + 1 \in 0..n
    BY <1>1
  <2>2. f[k + 1] = CompileCondition(f[k], conds[k + 1], Resolve(type, conds[k + 1]))
    BY <1>1, <1>2, <2>1, PathsAsResolved
  <2>3. Compiled(type, conds, k, f[k])
    BY <1>4
  <2>4. Compiled(type, conds, k + 1, f[k + 1])
    <3>1. \A i \in 1..n : \A st : Compiled(type, conds, i - 1, st) =>
            Compiled(type, conds, i, CompileCondition(st, conds[i], Resolve(type, conds[i])))
      BY ConditionFits
    <3> QED  BY <2>1, <2>2, <2>3, <3>1
  <2> QED  BY <2>1, <2>4
<1> HIDE DEF K, n
<1>5. n \in K
  <2>1. \A k \in 0..n : k \in K
    BY <1>1, <1>3, <1>4, UpToAll
  <2> QED  BY <1>1, <2>1
<1> QED  BY <1>2, <1>5 DEF K, n

-----------------------------------------------------------------------------
(* What clauses are matched with *)

\* A function on the numbers up to n is a sequence of that length.
LEMMA SequenceOfLength ==
  ASSUME NEW S, NEW n \in Nat, NEW s
  PROVE  s \in [1..n -> S] <=> s \in Seq(S) /\ Len(s) = n
<1>1. ASSUME s \in [1..n -> S]  PROVE s \in Seq(S) /\ Len(s) = n
  <2>1. s \in Seq(S)
    BY <1>1, SeqDef
  <2>2. Len(s) \in Nat /\ 1..Len(s) = 1..n
    BY <1>1, <2>1, LenProperties
  <2>3. Len(s) = n
    <3>1. Len(s) > n => Len(s) \in 1..n
      BY <2>2
    <3>2. n > Len(s) => n \in 1..Len(s)
      BY <2>2
    <3> QED  BY <2>2, <3>1, <3>2
  <2> QED  BY <2>1, <2>3
<1>2. ASSUME s \in Seq(S) /\ Len(s) = n  PROVE s \in [1..n -> S]
  BY <1>2, LenProperties
<1> QED  BY <1>1, <1>2

\* The edges along which clauses, none of them optional, are matched from a node.
Walks(g, n, clauses, i) == {h \in [1..i -> g.edges] : \A j \in 1..i : h[j] \in Matched(g, n, clauses[j])}

LEMMA WalkGrows ==
  ASSUME NEW g, NEW n, NEW clauses, NEW i \in Nat, i > 0, NEW h
  PROVE  h \in Walks(g, n, clauses, i)
           <=> \E h0 \in Walks(g, n, clauses, i - 1) : \E e \in Matched(g, n, clauses[i]) : h = Append(h0, e)
<1> DEFINE E == g.edges
<1>1. i - 1 \in Nat /\ (i - 1) + 1 = i /\ i \in 1..i /\ 1..i = 1..(i - 1) \union {i}
  OBVIOUS
<1>2. ASSUME NEW h0 \in Walks(g, n, clauses, i - 1), NEW e \in Matched(g, n, clauses[i]), h = Append(h0, e)
      PROVE  h \in Walks(g, n, clauses, i)
  <2>1. h0 \in [1..(i - 1) -> E] /\ \A j \in 1..(i - 1) : h0[j] \in Matched(g, n, clauses[j])
    BY DEF Walks
  <2>2. e \in E
    BY DEF Matched, HopsFrom
  <2> HIDE DEF E
  <2>3. h0 \in Seq(E) /\ Len(h0) = i - 1
    BY <1>1, <2>1, SequenceOfLength
  <2>4. /\ h \in Seq(E) /\ Len(h) = i /\ h[i] = e
        /\ \A j \in 1..(i - 1) : h[j] = h0[j]
    BY <1>1, <1>2, <2>2, <2>3, AppendProperties
  <2>5. h \in [1..i -> E]
    BY <2>4, SequenceOfLength
  <2>6. \A j \in 1..i : h[j] \in Matched(g, n, clauses[j])
    BY <1>1, <2>1, <2>4
  <2> QED  BY <2>5, <2>6 DEF Walks, E
<1>3. ASSUME h \in Walks(g, n, clauses, i)
      PROVE  \E h0 \in Walks(g, n, clauses, i - 1) : \E e \in Matched(g, n, clauses[i]) : h = Append(h0, e)
  <2> DEFINE h0 == [j \in 1..(i - 1) |-> h[j]]
             e == h[i]
  <2>1. h \in [1..i -> E] /\ \A j \in 1..i : h[j] \in Matched(g, n, clauses[j])
    BY <1>3 DEF Walks
  <2>2. h0 \in [1..(i - 1) -> E] /\ \A j \in 1..(i - 1) : h0[j] = h[j]
    BY <1>1, <2>1
  <2>3. e \in Matched(g, n, clauses[i]) /\ e \in E
    BY <1>1, <2>1
  <2> HIDE DEF h0, E
  <2>4. h \in Seq(E) /\ Len(h) = i /\ h0 \in Seq(E) /\ Len(h0) = i - 1
    BY <1>1, <2>1, <2>2, SequenceOfLength
  <2>5. /\ Append(h0, e) \in Seq(E) /\ Len(Append(h0, e)) = i /\ Append(h0, e)[i] = h[i]
        /\ \A j \in 1..(i - 1) : Append(h0, e)[j] = h[j]
    BY <1>1, <2>2, <2>3, <2>4, AppendProperties
  <2>6. h = Append(h0, e)
    BY <1>1, <2>4, <2>5, SeqEqual
  <2>7. h0 \in Walks(g, n, clauses, i - 1)
    BY <1>1, <2>1, <2>2 DEF Walks, E
  <2> QED  BY <2>3, <2>6, <2>7
<1> QED  BY <1>2, <1>3

\* Neo4j goes from clause to clause.
LEMMA BindingSteps ==
  ASSUME NEW g, NEW type, NEW st, Len(st.clauses) \in Nat
  PROVE  \E f : /\ f[0] = {[node |-> n, hops |-> <<>>] : n \in NodesOf(g, type)}
                /\ \A i \in 1..Len(st.clauses) : f[i] = UNION {Extended(g, st, b, i, st.clauses[i]) : b \in f[i - 1]}
                /\ Bindings(g, type, st) = {b \in f[Len(st.clauses)] : EndsOptional(st.clauses) \/ Where(g, st, b)}
<1> DEFINE n == Len(st.clauses)
           start == {[node |-> x, hops |-> <<>>] : x \in NodesOf(g, type)}
           Then(bs, i) == UNION {Extended(g, st, b, i, st.clauses[i]) : b \in bs}
           Body(f, k) == [i \in 0..k |-> IF i = 0 THEN start ELSE Then(f[i - 1], i)]
           K == {k \in 0..n : \E f : f = Body(f, k)}
<1> HIDE DEF Then, start
<1>1. 0 \in K
  <2> DEFINE e == [i \in 0..0 |-> start]
  <2>1. e = Body(e, 0)
    OBVIOUS
  <2> HIDE DEF e
  <2>2. 0 \in 0..n
    OBVIOUS
  <2> QED  BY <2>1, <2>2
<1>2. ASSUME NEW k \in 0..(n - 1), k \in K  PROVE k + 1 \in K
  <2>1. PICK f : f = Body(f, k)
    BY <1>2
  <2> DEFINE r == [i \in 0..(k + 1) |-> IF i <= k THEN f[i] ELSE Then(f[k], k + 1)]
  <2>2. ASSUME NEW i \in 0..(k + 1)  PROVE r[i] = IF i = 0 THEN start ELSE Then(r[i - 1], i)
    <3>1. CASE i <= k
      <4>0. \A j \in 0..k : f[j] = IF j = 0 THEN start ELSE Then(f[j - 1], j)
        BY <2>1
      <4>1. r[i] = f[i] /\ i \in 0..k /\ f[i] = IF i = 0 THEN start ELSE Then(f[i - 1], i)
        BY <3>1, <4>0
      <4>2. i # 0 => i - 1 \in 0..(k + 1) /\ i - 1 <= k
        BY <3>1
      <4>3. i # 0 => r[i - 1] = f[i - 1]
        BY <4>2
      <4> HIDE DEF r
      <4> QED  BY <4>1, <4>3
    <3>2. CASE i = k + 1
      BY <3>2
    <3> QED  BY <3>1, <3>2
  <2>3. r = [i \in 0..(k + 1) |-> r[i]]
    OBVIOUS
  <2> HIDE DEF r
  <2>4. r = Body(r, k + 1)
    BY <2>2, <2>3
  <2>5. k + 1 \in 0..n
    OBVIOUS
  <2> QED  BY <2>4, <2>5
<1> HIDE DEF K
<1>3. n \in K
  <2> HIDE DEF n
  <2>1. n \in Nat
    BY DEF n
  <2>2. \A k \in 0..n : k \in K
    BY <1>1, <1>2, <2>1, UpToAll
  <2> QED  BY <2>1, <2>2
<1>4. \E f : f = Body(f, n)
  BY <1>3 DEF K
<1> DEFINE h == CHOOSE f : f = Body(f, n)
<1>5. h = Body(h, n)
  BY <1>4
<1>6. Bindings(g, type, st) = {b \in h[n] : EndsOptional(st.clauses) \/ Where(g, st, b)}
  BY DEF Bindings, Then, start
<1>7. \A i \in 0..n : h[i] = IF i = 0 THEN start ELSE Then(h[i - 1], i)
  BY <1>5
<1> HIDE DEF h
<1>8. h[0] = start /\ \A i \in 1..n : h[i] = Then(h[i - 1], i)
  BY <1>7
<1> QED  BY <1>6, <1>8 DEF Then, start

\* The bindings of clauses that are not optional: a node, a walk, and the WHERE.
IsAlong(g, type, clauses, i, b) ==
  \E n \in NodesOf(g, type) : \E h \in Walks(g, n, clauses, i) : b = [node |-> n, hops |-> h]

LEMMA BindingsAre ==
  ASSUME NEW g, NEW type, NEW st, Len(st.clauses) \in Nat, \A j \in 1..Len(st.clauses) : ~st.clauses[j].optional, NEW b
  PROVE  b \in Bindings(g, type, st) <=> IsAlong(g, type, st.clauses, Len(st.clauses), b) /\ Where(g, st, b)
<1> DEFINE m == Len(st.clauses)
           cls == st.clauses
<1>1. PICK f : /\ f[0] = {[node |-> n, hops |-> <<>>] : n \in NodesOf(g, type)}
               /\ \A i \in 1..m : f[i] = UNION {Extended(g, st, x, i, cls[i]) : x \in f[i - 1]}
               /\ Bindings(g, type, st) = {x \in f[m] : EndsOptional(cls) \/ Where(g, st, x)}
  BY BindingSteps
<1>2. ~EndsOptional(cls)
  <2>1. EndsOptional(cls) => m # 0 /\ cls[m].optional
    BY DEF EndsOptional, Last
  <2>2. m # 0 => m \in 1..m
    OBVIOUS
  <2> QED  BY <2>1, <2>2
<1>3. \A i \in 1..m : \A x : Extended(g, st, x, i, cls[i]) = {[x EXCEPT !.hops = Append(x.hops, e)] : e \in Matched(g, x.node, cls[i])}
  BY DEF Extended
<1> HIDE DEF m, cls
<1> DEFINE K == {k \in 0..m : \A x : x \in f[k] <=> IsAlong(g, type, cls, k, x)}
<1>4. m \in Nat
  BY DEF m
<1>5. 0 \in K
  <2>1. \A n : \A h : h \in Walks(g, n, cls, 0) <=> h = <<>>
    <3>1. \A h : h \in [1..0 -> g.edges] <=> h = <<>>
      <4> SUFFICES ASSUME NEW h  PROVE h \in [1..0 -> g.edges] <=> h = <<>>
        OBVIOUS
      <4>1. h \in [1..0 -> g.edges] <=> h \in Seq(g.edges) /\ Len(h) = 0
        BY 0 \in Nat, SequenceOfLength
      <4>2. h \in Seq(g.edges) => (Len(h) = 0 <=> h = <<>>)
        BY EmptySeq
      <4>3. <<>> \in Seq(g.edges)
        BY EmptySeq
      <4> QED  BY <4>1, <4>2, <4>3
    <3> QED  BY <3>1 DEF Walks
  <2>2. \A x : x \in f[0] <=> \E n \in NodesOf(g, type) : x = [node |-> n, hops |-> <<>>]
    BY <1>1
  <2>3. \A x : x \in f[0] <=> IsAlong(g, type, cls, 0, x)
    BY <2>1, <2>2 DEF IsAlong
  <2> QED  BY <1>4, <2>3
<1>6. ASSUME NEW k \in 0..(m - 1), k \in K  PROVE k + 1 \in K
  <2>1. k + 1 \in 1..m /\ k + 1 \in Nat /\ k + 1 > 0 /\ (k + 1) - 1 = k /\ k + 1 \in 0..m
    BY <1>4
  <2>2. \A x : x \in f[k] <=> IsAlong(g, type, cls, k, x)
    BY <1>6
  <2>3. \A x : x \in f[k + 1] <=> \E y \in f[k] : x \in Extended(g, st, y, k + 1, cls[k + 1])
    <3>1. f[k + 1] = UNION {Extended(g, st, y, k + 1, cls[k + 1]) : y \in f[k]}
      BY <1>1, <2>1
    <3> QED  BY <3>1
  <2>6. ASSUME NEW y, NEW n, NEW h, y = [node |-> n, hops |-> h]
        PROVE  \A x : x \in Extended(g, st, y, k + 1, cls[k + 1])
                       <=> \E e \in Matched(g, n, cls[k + 1]) : x = [node |-> n, hops |-> Append(h, e)]
    <3>1. Extended(g, st, y, k + 1, cls[k + 1]) = {[y EXCEPT !.hops = Append(y.hops, e)] : e \in Matched(g, y.node, cls[k + 1])}
      BY <1>3, <2>1
    <3>2. y.node = n /\ y.hops = h /\ \A z : [y EXCEPT !.hops = z] = [node |-> n, hops |-> z]
      BY <2>6
    <3>3. ASSUME NEW e  PROVE [y EXCEPT !.hops = Append(y.hops, e)] = [node |-> n, hops |-> Append(h, e)]
      <4> DEFINE With(z) == [y EXCEPT !.hops = z]
      <4>1. With(Append(h, e)) = [node |-> n, hops |-> Append(h, e)]
        BY <3>2
      <4>2. y.hops = h
        BY <3>2
      <4> HIDE DEF With
      <4>3. With(Append(y.hops, e)) = [node |-> n, hops |-> Append(h, e)]
        BY <4>1, <4>2
      <4> QED  BY <4>3 DEF With
    <3> DEFINE Old(e) == [y EXCEPT !.hops = Append(y.hops, e)]
               New(e) == [node |-> n, hops |-> Append(h, e)]
    <3>4. Extended(g, st, y, k + 1, cls[k + 1]) = {Old(e) : e \in Matched(g, n, cls[k + 1])}
      <4>1. y.node = n
        BY <3>2
      <4> QED  BY <3>1, <4>1, Zenon
    <3>5. \A e : Old(e) = New(e)
      BY <3>3, Zenon
    <3> HIDE DEF Old, New
    <3>6. \A x : x \in Extended(g, st, y, k + 1, cls[k + 1]) <=> \E e \in Matched(g, n, cls[k + 1]) : x = New(e)
      BY <3>4, <3>5
    <3> QED  BY <3>6 DEF New
  <2>4. ASSUME NEW x, x \in f[k + 1]  PROVE IsAlong(g, type, cls, k + 1, x)
    <3>1. PICK y \in f[k] : x \in Extended(g, st, y, k + 1, cls[k + 1])
      BY <2>3, <2>4
    <3>2. PICK n \in NodesOf(g, type) : \E h \in Walks(g, n, cls, k) : y = [node |-> n, hops |-> h]
      BY <2>2 DEF IsAlong
    <3>3. PICK h \in Walks(g, n, cls, k) : y = [node |-> n, hops |-> h]
      BY <3>2
    <3>4. PICK e \in Matched(g, n, cls[k + 1]) : x = [node |-> n, hops |-> Append(h, e)]
      BY <2>6, <3>1, <3>3
    <3>5. Append(h, e) \in Walks(g, n, cls, k + 1)
      BY <2>1, <3>4, WalkGrows
    <3> QED  BY <3>4, <3>5 DEF IsAlong
  <2>5. ASSUME NEW x, IsAlong(g, type, cls, k + 1, x)  PROVE x \in f[k + 1]
    <3>1. PICK n \in NodesOf(g, type) : \E h \in Walks(g, n, cls, k + 1) : x = [node |-> n, hops |-> h]
      BY <2>5 DEF IsAlong
    <3>2. PICK h \in Walks(g, n, cls, k + 1) : x = [node |-> n, hops |-> h]
      BY <3>1
    <3>3. PICK h0 \in Walks(g, n, cls, k), e \in Matched(g, n, cls[k + 1]) : h = Append(h0, e)
      BY <2>1, WalkGrows
    <3> DEFINE y == [node |-> n, hops |-> h0]
    <3>4. y \in f[k]
      BY <2>2 DEF IsAlong
    <3>5. x \in Extended(g, st, y, k + 1, cls[k + 1])
      BY <2>6, <3>2, <3>3
    <3> HIDE DEF y
    <3> QED  BY <2>3, <3>4, <3>5
  <2> QED  BY <2>1, <2>4, <2>5
<1> HIDE DEF K
<1>7. m \in K
  <2>1. \A k \in 0..m : k \in K
    BY <1>4, <1>5, <1>6, UpToAll
  <2> QED  BY <1>4, <2>1
<1>8. b \in f[m] <=> IsAlong(g, type, cls, m, b)
  BY <1>7 DEF K
<1> QED  BY <1>1, <1>2, <1>8 DEF m, cls

-----------------------------------------------------------------------------
(* What is found is what is meant *)

LEMMA RelationshipsAreHops ==
  ASSUME NEW type, NEW conds, conds \in Seq(Range(conds))
  PROVE  Relationships(type, conds) = HopKeys(type, conds, Len(conds))
<1>1. DOMAIN conds = 1..Len(conds)
  OBVIOUS
<1>2. ASSUME NEW r, r \in Relationships(type, conds)  PROVE r \in HopKeys(type, conds, Len(conds))
  <2>1. PICK c \in Range(conds) : OnHop(Resolve(type, c)) /\ r = KeyFor(Resolve(type, c))
    BY <1>2 DEF Relationships, OnHop, KeyFor
  <2>2. PICK k \in DOMAIN conds : conds[k] = c
    BY DEF Range
  <2> QED  BY <1>1, <2>1, <2>2 DEF HopKeys
<1>3. ASSUME NEW r, r \in HopKeys(type, conds, Len(conds))  PROVE r \in Relationships(type, conds)
  <2>1. PICK k \in 1..Len(conds) : OnHop(Resolve(type, conds[k])) /\ r = KeyFor(Resolve(type, conds[k]))
    BY <1>3 DEF HopKeys
  <2>2. conds[k] \in Range(conds)
    BY <1>1 DEF Range
  <2> QED  BY <2>1, <2>2 DEF Relationships, OnHop, KeyFor
<1> QED  BY <1>2, <1>3

\* A predicate says of a binding what its condition says of the node and the edge.
LEMMA TrueIsFulfilled ==
  ASSUME NEW g, NEW st, NEW b, NEW c, NEW rp, NEW hop, NEW e, rp.kind \in Kinds,
         OnHop(rp) => b.hops[hop] = e /\ st.clauses[hop].dir = rp.dir,
         rp.kind = "far" => g.nodes[FarEnd(e, rp.dir)].type = rp.target
  PROVE  True(g, st, b, PredFor(hop, c, rp)) <=> Fulfils(g, b.node, rp, c, e)
<1> DEFINE p == PredFor(hop, c, rp)
<1>1. CASE rp.kind = "attr"
  <2>1. p.on = "node" /\ p.attr = rp.attr /\ p.op = c.op /\ p.value = c.value
    BY <1>1 DEF PredFor, Pred
  <2> HIDE DEF p
  <2>2. True(g, st, b, p) <=> Holds(c.op, Prop(g.nodes[b.node].props, rp.attr), c.value)
    BY <2>1 DEF True
  <2> QED  BY <1>1, <2>2 DEF Fulfils, p
<1>2. CASE rp.kind = "exists"
  <2>1. p.on = "exists" /\ p.edge = rp.edge /\ p.dir = rp.dir /\ (p.op = "exists" <=> c.op = "exists")
    BY <1>2 DEF PredFor, Pred
  <2> HIDE DEF p
  <2>2. True(g, st, b, p) <=> ((HopsFrom(g, b.node, rp.edge, rp.dir) # {}) <=> (c.op = "exists"))
    BY <2>1 DEF True
  <2>3. Fulfils(g, b.node, rp, c, e) <=> ((HopsFrom(g, b.node, rp.edge, rp.dir) # {}) <=> (c.op = "exists"))
    BY <1>2 DEF Fulfils
  <2> QED  BY <2>2, <2>3 DEF p
<1>3. CASE rp.kind = "count"
  <2>1. p.on = "count" /\ p.edge = rp.edge /\ p.dir = rp.dir /\ p.op = CountOp(c.op) /\ p.value = c.value
    BY <1>3 DEF PredFor, Pred
  <2> HIDE DEF p
  <2>2. True(g, st, b, p) <=> Holds(CountOp(c.op), Cardinality(HopsFrom(g, b.node, rp.edge, rp.dir)), c.value)
    BY <2>1 DEF True
  <2> QED  BY <1>3, <2>2 DEF Fulfils, p
<1>4. CASE rp.kind = "edge"
  <2>1. p.on = "edge" /\ p.hop = hop /\ p.attr = rp.attr /\ p.op = c.op /\ p.value = c.value
    BY <1>4 DEF PredFor, Pred
  <2>0. b.hops[hop] = e
    BY <1>4 DEF OnHop
  <2> HIDE DEF p
  <2>2. True(g, st, b, p) <=> Holds(c.op, Prop(e.props, rp.attr), c.value)
    BY <2>0, <2>1 DEF True
  <2> QED  BY <1>4, <2>2 DEF Fulfils, p
<1>5. CASE rp.kind = "far"
  <2>1. p.on = "far" /\ p.hop = hop /\ p.attr = rp.attr /\ p.op = c.op /\ p.value = c.value
    BY <1>5 DEF PredFor, Pred
  <2>0. b.hops[hop] = e /\ st.clauses[hop].dir = rp.dir /\ g.nodes[FarEnd(e, rp.dir)].type = rp.target
    BY <1>5 DEF OnHop
  <2> HIDE DEF p
  <2>2. True(g, st, b, p) <=> Holds(c.op, Prop(g.nodes[FarEnd(e, rp.dir)].props, rp.attr), c.value)
    BY <2>0, <2>1 DEF True
  <2> QED  BY <1>5, <2>0, <2>2 DEF Fulfils, p
<1> QED  BY <1>1, <1>2, <1>3, <1>4, <1>5 DEF Kinds

\* The edge on which a condition is judged, of a walk along the clauses of st.
OfWalk(st, h, rp) == IF OnHop(rp) THEN h[st.vars[KeyFor(rp)]] ELSE NoHop
AllFulfilled(g, n, type, conds, st, h) ==
  \A c \in Range(conds) : Fulfils(g, n, Resolve(type, c), c, OfWalk(st, h, Resolve(type, c)))

\* The WHERE, also of a statement that goes on with further clauses.
LEMMA WhereIsFulfilled ==
  ASSUME NEW g, NEW type, NEW conds, Sound(type, conds), NEW st0, st0 = CompileFilters(type, conds), st0.bound,
         NEW st, st.preds = st0.preds, \A j \in 1..Len(st0.clauses) : st.clauses[j] = st0.clauses[j],
         NEW b, \A j \in 1..Len(st0.clauses) : b.hops[j] \in Matched(g, b.node, st0.clauses[j])
  PROVE  Where(g, st, b) <=> AllFulfilled(g, b.node, type, conds, st0, b.hops)
<1> DEFINE m == Len(conds)
<1>1. m \in Nat /\ DOMAIN conds = 1..m /\ \A c \in Range(conds) : Resolve(type, c).ok
  BY DEF Sound
<1>2. Compiled(type, conds, m, st0)
  BY AllCompiled
<1>3. DOMAIN st.preds = 1..m
  BY <1>2 DEF Compiled, PredsFit
<1>4. ASSUME NEW k \in 1..m
      PROVE  LET rp == Resolve(type, conds[k])
             IN True(g, st, b, st.preds[k]) <=> Fulfils(g, b.node, rp, conds[k], OfWalk(st0, b.hops, rp))
  <2> DEFINE rp == Resolve(type, conds[k])
             hop == IF OnHop(rp) THEN st0.vars[KeyFor(rp)] ELSE 0
             e == OfWalk(st0, b.hops, rp)
  <2>1. conds[k] \in Range(conds)
    BY <1>1 DEF Range
  <2>2. rp.kind \in Kinds /\ (rp.kind = "far" => rp.target # "none")
    BY <1>1, <2>1, KindsOfResolved
  <2>3. st.preds[k] = PredFor(hop, conds[k], rp)
    BY <1>2 DEF Compiled, PredsFit
  <2>4. ASSUME OnHop(rp)
        PROVE  hop \in 1..Len(st0.clauses) /\ ClauseKey(st0.clauses[hop]) = KeyFor(rp) /\ e = b.hops[hop]
    <3>1. KeyFor(rp) \in DOMAIN st0.vars
      BY <1>2, <2>4 DEF Compiled, HopKeys
    <3>2. st0.vars[KeyFor(rp)] \in 1..Len(st0.clauses) /\ KeyFor(rp) = ClauseKey(st0.clauses[st0.vars[KeyFor(rp)]])
      BY <1>2, <3>1 DEF Compiled, VarsFit
    <3> QED  BY <2>4, <3>2 DEF OfWalk
  <2>5. OnHop(rp) => b.hops[hop] = e /\ st.clauses[hop].dir = rp.dir
    BY <2>4 DEF ClauseKey, KeyFor
  <2>6. ASSUME rp.kind = "far"  PROVE g.nodes[FarEnd(e, rp.dir)].type = rp.target
    <3>1. OnHop(rp)
      BY <2>6 DEF OnHop
    <3>2. st0.clauses[hop].label = rp.target
      BY <1>2, <2>6, <3>1 DEF Compiled, LabelsFit
    <3>3. e \in Matched(g, b.node, st0.clauses[hop]) /\ st0.clauses[hop].dir = rp.dir
      BY <2>4, <3>1 DEF ClauseKey, KeyFor
    <3> QED  BY <2>2, <2>6, <3>2, <3>3 DEF Matched
  <2> HIDE DEF rp, hop, e
  <2>7. True(g, st, b, PredFor(hop, conds[k], rp)) <=> Fulfils(g, b.node, rp, conds[k], e)
    BY <2>2, <2>5, <2>6, TrueIsFulfilled
  <2> QED  BY <2>3, <2>7 DEF rp, e
<1>5. Where(g, st, b) <=> \A k \in 1..m : True(g, st, b, st.preds[k])
  BY <1>3 DEF Where
<1>6. AllFulfilled(g, b.node, type, conds, st0, b.hops)
        <=> \A k \in 1..m : Fulfils(g, b.node, Resolve(type, conds[k]), conds[k], OfWalk(st0, b.hops, Resolve(type, conds[k])))
  BY <1>1 DEF AllFulfilled, Range
<1> QED  BY <1>4, <1>5, <1>6

LEMMA MeantBy ==
  ASSUME NEW g, NEW type, NEW conds, NEW n
  PROVE  n \in Meant(g, type, conds)
           <=> /\ n \in NodesOf(g, type)
               /\ \E f \in [Relationships(type, conds) -> g.edges] :
                    /\ \A r \in Relationships(type, conds) : f[r] \in HopsFrom(g, n, r[1], r[2])
                    /\ \A c \in Range(conds) :
                         Fulfils(g, n, Resolve(type, c), c,
                                 IF OnHop(Resolve(type, c)) THEN f[KeyFor(Resolve(type, c))] ELSE NoHop)
<1> DEFINE R == Relationships(type, conds)
           picks == {f \in [R -> g.edges] : \A r \in DOMAIN f : f[r] \in HopsFrom(g, n, r[1], r[2])}
           Suits(f) == \A c \in Range(conds) :
                         Fulfils(g, n, Resolve(type, c), c,
                                 IF OnHop(Resolve(type, c)) THEN f[KeyFor(Resolve(type, c))] ELSE NoHop)
<1>1. n \in Meant(g, type, conds) <=> n \in NodesOf(g, type) /\ \E f \in picks : Suits(f)
  BY DEF Meant, OnHop, KeyFor
<1> HIDE DEF R, Suits
<1>2. \A f : f \in picks <=> f \in [R -> g.edges] /\ \A r \in R : f[r] \in HopsFrom(g, n, r[1], r[2])
  OBVIOUS
<1> QED  BY <1>1, <1>2 DEF R, Suits

\* A node from which a walk fulfils all the conditions is meant.
LEMMA WalkIsMeant ==
  ASSUME NEW g, NEW type, NEW conds, Sound(type, conds), NEW st, st = CompileFilters(type, conds), st.bound,
         NEW n \in NodesOf(g, type), NEW h, \A j \in 1..Len(st.clauses) : h[j] \in Matched(g, n, st.clauses[j]),
         AllFulfilled(g, n, type, conds, st, h)
  PROVE  n \in Meant(g, type, conds)
<1> DEFINE R == Relationships(type, conds)
           f == [r \in R |-> h[st.vars[r]]]
<1>1. Compiled(type, conds, Len(conds), st)
  BY AllCompiled
<1>2. R = DOMAIN st.vars
  BY <1>1, RelationshipsAreHops DEF Compiled, Sound
<1>3. ASSUME NEW r \in R  PROVE f[r] \in g.edges /\ f[r] \in HopsFrom(g, n, r[1], r[2])
  <2>1. st.vars[r] \in 1..Len(st.clauses) /\ r = ClauseKey(st.clauses[st.vars[r]])
    BY <1>1, <1>2 DEF Compiled, VarsFit
  <2>2. r[1] = st.clauses[st.vars[r]].edge /\ r[2] = st.clauses[st.vars[r]].dir
    BY <2>1 DEF ClauseKey
  <2>3. f[r] \in Matched(g, n, st.clauses[st.vars[r]])
    BY <2>1
  <2> QED  BY <2>2, <2>3 DEF Matched, HopsFrom
<1>4. \A c \in Range(conds) : OnHop(Resolve(type, c)) => KeyFor(Resolve(type, c)) \in R
  BY DEF Relationships, OnHop, KeyFor
<1>5. \A c \in Range(conds) :
        Fulfils(g, n, Resolve(type, c), c, IF OnHop(Resolve(type, c)) THEN f[KeyFor(Resolve(type, c))] ELSE NoHop)
  <2> TAKE c \in Range(conds)
  <2>1. (IF OnHop(Resolve(type, c)) THEN f[KeyFor(Resolve(type, c))] ELSE NoHop) = OfWalk(st, h, Resolve(type, c))
    BY <1>4 DEF OfWalk
  <2> QED  BY <2>1 DEF AllFulfilled
<1>6. f \in [R -> g.edges]
  BY <1>3
<1> HIDE DEF f, R
<1> QED  BY <1>3, <1>5, <1>6, MeantBy DEF R

\* From a node that is meant a walk fulfils all the conditions.
LEMMA MeantHasWalk ==
  ASSUME NEW g, NEW type, NEW conds, Sound(type, conds), NEW st, st = CompileFilters(type, conds), st.bound,
         NEW n \in Meant(g, type, conds)
  PROVE  \E h \in Walks(g, n, st.clauses, Len(st.clauses)) : AllFulfilled(g, n, type, conds, st, h)
<1> DEFINE R == Relationships(type, conds)
           L == Len(st.clauses)
<1>1. Compiled(type, conds, Len(conds), st)
  BY AllCompiled
<1>2. R = DOMAIN st.vars
  BY <1>1, RelationshipsAreHops DEF Compiled, Sound
<1>3. PICK f \in [R -> g.edges] :
        /\ \A r \in R : f[r] \in HopsFrom(g, n, r[1], r[2])
        /\ \A c \in Range(conds) :
             Fulfils(g, n, Resolve(type, c), c, IF OnHop(Resolve(type, c)) THEN f[KeyFor(Resolve(type, c))] ELSE NoHop)
  BY MeantBy
<1> DEFINE h == [j \in 1..L |-> f[ClauseKey(st.clauses[j])]]
<1>4. \A j \in 1..L : ClauseKey(st.clauses[j]) \in R /\ st.vars[ClauseKey(st.clauses[j])] = j
  BY <1>1, <1>2 DEF Compiled, VarsFit
<1>5. h \in [1..L -> g.edges]
  BY <1>3, <1>4
<1>6. ASSUME NEW c \in Range(conds), OnHop(Resolve(type, c))
      PROVE  OfWalk(st, h, Resolve(type, c)) = f[KeyFor(Resolve(type, c))]
  <2> DEFINE key == KeyFor(Resolve(type, c))
  <2>1. key \in R
    BY <1>6 DEF Relationships, OnHop, KeyFor
  <2>2. st.vars[key] \in 1..L /\ key = ClauseKey(st.clauses[st.vars[key]])
    BY <1>1, <1>2, <2>1 DEF Compiled, VarsFit
  <2> HIDE DEF key, L, R
  <2>3. h[st.vars[key]] = f[key]
    BY <2>2
  <2> QED  BY <1>6, <2>3 DEF OfWalk, key
<1>7. AllFulfilled(g, n, type, conds, st, h)
  <2> HIDE DEF h
  <2> SUFFICES ASSUME NEW c \in Range(conds)
               PROVE  Fulfils(g, n, Resolve(type, c), c, OfWalk(st, h, Resolve(type, c)))
    BY DEF AllFulfilled
  <2>1. OfWalk(st, h, Resolve(type, c)) = IF OnHop(Resolve(type, c)) THEN f[KeyFor(Resolve(type, c))] ELSE NoHop
    BY <1>6 DEF OfWalk
  <2> QED  BY <1>3, <2>1
<1>8. ASSUME NEW j \in 1..L  PROVE h[j] \in Matched(g, n, st.clauses[j])
  <2> DEFINE cl == st.clauses[j]
             e == h[j]
  <2>1. e = f[ClauseKey(cl)] /\ ClauseKey(cl) \in R
    BY <1>4
  <2>2. e \in HopsFrom(g, n, cl.edge, cl.dir)
    BY <1>3, <2>1 DEF ClauseKey
  <2>3. CASE cl.label = "none"
    BY <2>2, <2>3 DEF Matched
  <2>4. CASE cl.label # "none"
    <3>1. PICK k \in 1..Len(conds) : LET rp == Resolve(type, conds[k])
                                     IN rp.kind = "far" /\ KeyFor(rp) = ClauseKey(cl) /\ rp.target = cl.label
      BY <1>1, <2>4 DEF Compiled, LabelsFit
    <3>2. conds[k] \in Range(conds)
      BY DEF Sound, Range
    <3>3. OfWalk(st, h, Resolve(type, conds[k])) = e
      BY <1>6, <2>1, <3>1, <3>2 DEF OnHop
    <3>4. Fulfils(g, n, Resolve(type, conds[k]), conds[k], e)
      BY <1>7, <3>2, <3>3 DEF AllFulfilled
    <3>5. g.nodes[FarEnd(e, Resolve(type, conds[k]).dir)].type = Resolve(type, conds[k]).target
      BY <3>1, <3>4 DEF Fulfils
    <3>6. Resolve(type, conds[k]).dir = cl.dir
      BY <3>1 DEF KeyFor, ClauseKey
    <3> QED  BY <2>2, <3>1, <3>5, <3>6 DEF Matched
  <2> QED  BY <2>3, <2>4
<1>9. h \in Walks(g, n, st.clauses, L)
  BY <1>5, <1>8 DEF Walks
<1> QED  BY <1>7, <1>9

\* The nodes that the statement of a query finds are those its conditions mean.
LEMMA FoundIsMeant ==
  ASSUME NEW g, NEW type, NEW conds, Sound(type, conds), CompileFilters(type, conds).bound
  PROVE  {b.node : b \in Bindings(g, type, CompileFilters(type, conds))} = Meant(g, type, conds)
<1> DEFINE st == CompileFilters(type, conds)
           L == Len(st.clauses)
<1>1. Compiled(type, conds, Len(conds), st)
  BY AllCompiled
<1>2. L \in Nat /\ \A j \in 1..L : st.clauses[j] \in ClausesFor(type, conds)
  BY <1>1 DEF Compiled
<1>3. \A j \in 1..L : ~st.clauses[j].optional
  BY <1>2 DEF ClausesFor, Clause
<1> HIDE DEF st
<1>4. \A b : b \in Bindings(g, type, st) <=> IsAlong(g, type, st.clauses, L, b) /\ Where(g, st, b)
  BY <1>2, <1>3, BindingsAre
<1>5. ASSUME NEW n \in NodesOf(g, type), NEW h \in Walks(g, n, st.clauses, L)
      PROVE  Where(g, st, [node |-> n, hops |-> h]) <=> AllFulfilled(g, n, type, conds, st, h)
  <2> DEFINE b == [node |-> n, hops |-> h]
  <2>1. b.node = n /\ b.hops = h
    OBVIOUS
  <2>2. \A j \in 1..L : b.hops[j] \in Matched(g, b.node, st.clauses[j])
    BY DEF Walks
  <2> HIDE DEF b
  <2>3. Where(g, st, b) <=> AllFulfilled(g, b.node, type, conds, st, b.hops)
    BY <2>2, WhereIsFulfilled DEF st
  <2> QED  BY <2>1, <2>3 DEF b
<1>6. ASSUME NEW b \in Bindings(g, type, st)  PROVE b.node \in Meant(g, type, conds)
  <2>1. PICK n \in NodesOf(g, type) : \E h \in Walks(g, n, st.clauses, L) : b = [node |-> n, hops |-> h]
    BY <1>4 DEF IsAlong
  <2>2. PICK h \in Walks(g, n, st.clauses, L) : b = [node |-> n, hops |-> h]
    BY <2>1
  <2>3. AllFulfilled(g, n, type, conds, st, h)
    BY <1>4, <1>5, <2>2
  <2>4. \A j \in 1..L : h[j] \in Matched(g, n, st.clauses[j])
    BY DEF Walks
  <2>5. n \in Meant(g, type, conds)
    BY <2>3, <2>4, WalkIsMeant DEF st
  <2> QED  BY <2>2, <2>5
<1>7. ASSUME NEW n \in Meant(g, type, conds)  PROVE \E b \in Bindings(g, type, st) : b.node = n
  <2>1. n \in NodesOf(g, type)
    BY DEF Meant
  <2>2. PICK h \in Walks(g, n, st.clauses, L) : AllFulfilled(g, n, type, conds, st, h)
    BY MeantHasWalk DEF st
  <2> DEFINE b == [node |-> n, hops |-> h]
  <2>3. IsAlong(g, type, st.clauses, L, b)
    BY <2>1 DEF IsAlong
  <2>4. Where(g, st, b)
    BY <1>5, <2>1, <2>2
  <2>5. b.node = n
    OBVIOUS
  <2> HIDE DEF b
  <2> QED  BY <1>4, <2>3, <2>4, <2>5
<1> QED  BY <1>6, <1>7 DEF st

-----------------------------------------------------------------------------
(* What is read *)

\* A sequence is one of its own elements.
LEMMA SequenceOfItsOwn ==
  ASSUME NEW M, NEW s \in Seq(M)
  PROVE  s \in Seq(Range(s))
<1>1. Len(s) \in Nat /\ s = [i \in 1..Len(s) |-> s[i]] /\ DOMAIN s = 1..Len(s)
  OBVIOUS
<1>2. s \in [1..Len(s) -> Range(s)]
  BY <1>1 DEF Range
<1> QED  BY <1>1, <1>2, SequenceOfLength

\* What a query that is parsed has; the page is set later.
Fits(k, p) ==
  /\ p.entity = k.entity /\ p.conds \in Seq(Range(p.conds))
  /\ p = [entity |-> p.entity, conds |-> p.conds, sort |-> p.sort, limit |-> p.limit, offset |-> p.offset, fields |-> p.fields]
  /\ k.kind = "post" => p.sort = k.sort /\ p.offset = k.offset /\ p.limit = Lesser(k.limit, MaxPage[k.entity])

LEMMA DirectIsSequence ==
  ASSUME NEW conds, conds \in Seq(Range(conds))
  PROVE  Direct(conds) \in Seq(Range(Direct(conds)))
<1> DEFINE T == {i \in DOMAIN conds : IsDirect(conds[i])}
<1>1. Direct(conds) \in Seq(Range(conds))
  <2>1. T \subseteq DOMAIN conds
    OBVIOUS
  <2> HIDE DEF T
  <2>2. Chosen(conds, T) \in Seq(Range(conds))
    BY <2>1, ChosenFacts
  <2> QED  BY <2>2 DEF Direct, T
<1> QED  BY <1>1, SequenceOfItsOwn

LEMMA FoundTheOtherWay ==
  ASSUME NEW k, k.conds \in Seq(Range(k.conds)), k.far \in Seq(Range(k.far))
  PROVE  FindTool(k).conds \in Seq(Range(FindTool(k).conds))
<1> DEFINE far == IF k.farKey = k.by THEN [i \in DOMAIN k.far |-> Prefixed(k, k.far[i])] ELSE <<>>
           P == Range(far)
           M == P \union Range(k.conds)
<1>1. far \in Seq(P)
  <2>1. CASE k.farKey = k.by
    <3> DEFINE n == Len(k.far)
    <3>1. n \in Nat /\ DOMAIN k.far = 1..n
      OBVIOUS
    <3>2. far = [i \in 1..n |-> Prefixed(k, k.far[i])]
      BY <2>1, <3>1
    <3>3. DOMAIN far = 1..n /\ far = [i \in 1..n |-> far[i]]
      BY <3>2
    <3> HIDE DEF far, n
    <3>4. far \in [1..n -> P]
      BY <3>3 DEF Range
    <3> QED  BY <3>1, <3>4, SequenceOfLength
  <2>2. CASE k.farKey # k.by
    BY <2>2, EmptySeq
  <2> QED  BY <2>1, <2>2
<1>2. FindTool(k).conds = far \o k.conds
  BY DEF FindTool, Ast
<1> HIDE DEF far, P
<1>3. far \in Seq(M) /\ k.conds \in Seq(M)
  <2>1. \A s \in Seq(P) : s \in Seq(M)
    BY SeqDef
  <2>2. \A s \in Seq(Range(k.conds)) : s \in Seq(M)
    BY SeqDef
  <2> QED  BY <1>1, <2>1, <2>2
<1>4. far \o k.conds \in Seq(M)
  BY <1>3, ConcatProperties
<1> QED  BY <1>2, <1>4, SequenceOfItsOwn

LEMMA ParsedFits ==
  ASSUME NEW k, k.kind \in QueryKinds, k.conds \in Seq(Range(k.conds)), k.far \in Seq(Range(k.far))
  PROVE  Fits(k, Parsed(k))
<1>1. Fits(k, Asked(k))
  BY DEF Fits, Asked, Ast
<1>2. CASE k.kind = "post"
  BY <1>1, <1>2 DEF Parsed
<1>3. CASE k.kind \in {"query", "list"}
  <2>1. Parsed(k) \in {Asked(k), [Asked(k) EXCEPT !.conds = Direct(@)]}
    BY <1>3 DEF Parsed, QueryTool, Fallback
  <2>2. Direct(k.conds) \in Seq(Range(Direct(k.conds)))
    BY DirectIsSequence
  <2>3. Fits(k, [Asked(k) EXCEPT !.conds = Direct(@)])
    BY <1>3, <2>2 DEF Fits, Asked, Ast
  <2> QED  BY <1>1, <2>1, <2>3
<1>4. CASE k.kind = "find"
  <2>1. Parsed(k) = FindTool(k)
    BY <1>4 DEF Parsed
  <2>2. FindTool(k).conds \in Seq(Range(FindTool(k).conds))
    BY FoundTheOtherWay
  <2> QED  BY <1>4, <2>1, <2>2 DEF Fits, FindTool, Ast
<1>5. CASE k.kind \in {"count", "lookup"}
  BY <1>5 DEF Fits, Parsed, Ast
<1> QED  BY <1>2, <1>3, <1>4, <1>5 DEF QueryKinds

Asks(c) == cmd[c].kind \in QueryKinds \union ReportKinds
HasRead(c) == pc[c] = "count" \/ (pc[c] = "done" /\ answer[c] = "ok")
\* A question that is asked was found valid; a report stays as it was asked.
IsAsked(c) ==
  Asks(c) /\ pc[c] # "idle" =>
    /\ pc[c] \in {"data", "count", "done"}
    /\ pc[c] = "data" \/ HasRead(c) =>
         /\ cmd[c].kind \in QueryKinds => Valid(Parsed(cmd[c]))
         /\ cmd[c].kind \in ReportKinds => ReportValid(cmd[c].report) /\ ast[c] = Parsed(cmd[c])
\* Rows and total are answers to it, of the graphs they were read from.
IsRead(c) == Asks(c) /\ HasRead(c) => CanRun(cmd[c], ast[c]) /\ rows[c] \in Answers(at[c].rows, cmd[c], ast[c])
IsCounted(c) ==
  Asks(c) /\ pc[c] = "done" /\ answer[c] = "ok" /\ Counts(cmd[c]) => total[c] = Total(at[c].total, cmd[c], ast[c])
HistoryType ==
  /\ rows = [c \in Clients |-> rows[c]] /\ total = [c \in Clients |-> total[c]] /\ pages = [c \in Clients |-> pages[c]]
  /\ at = [c \in Clients |-> [rows |-> at[c].rows, total |-> at[c].total]]
ReadInv == HistoryType /\ \A c \in Clients : IsAsked(c) /\ IsRead(c) /\ IsCounted(c)

LEMMA ReadInit == Init => ReadInv
BY DEF Init, ReadInv, HistoryType, IsAsked, IsRead, IsCounted, HasRead

Kept(c) == rows'[c] = rows[c] /\ total'[c] = total[c] /\ pages'[c] = pages[c] /\ at'[c] = at[c]
LEMMA OthersKept ==
  ASSUME HistoryType, NEW c \in Clients, Turns(c)
  PROVE  HistoryType' /\ \A q \in Clients : q # c => Kept(q)
<1>0. /\ rows = [q \in Clients |-> rows[q]] /\ total = [q \in Clients |-> total[q]] /\ pages = [q \in Clients |-> pages[q]]
      /\ at = [q \in Clients |-> [rows |-> at[q].rows, total |-> at[q].total]]
  BY DEF HistoryType
<1>1. CASE UNCHANGED <<rows, total, pages, at>>
  BY <1>1 DEF HistoryType, Kept
<1>2. CASE Data(c) /\ ~UNCHANGED <<rows, total, pages, at>>
  <2>0. CanRun(cmd[c], ast[c])
    BY <1>2 DEF Data
  <2>1. \E page : rows' = [rows EXCEPT ![c] = page] /\ pages' = [pages EXCEPT ![c] = @ \o page]
    BY <1>2, <2>0, Zenon DEF Data
  <2>2. PICK page : rows' = [rows EXCEPT ![c] = page] /\ pages' = [pages EXCEPT ![c] = @ \o page]
    BY <2>1
  <2>3. at' = [at EXCEPT ![c].rows = graph] /\ total' = total
    BY <1>2, <2>0 DEF Data
  <2>4. /\ at' = [q \in Clients |-> [rows |-> at'[q].rows, total |-> at'[q].total]]
        /\ \A q \in Clients : q # c => at'[q] = at[q]
    <3>1. /\ at' = [q \in Clients |-> at'[q]] /\ at'[c] = [at[c] EXCEPT !.rows = graph]
          /\ \A q \in Clients : q # c => at'[q] = at[q]
      BY <1>0, <2>3
    <3>2. \A q \in Clients : at[q] = [rows |-> at[q].rows, total |-> at[q].total]
      BY <1>0
    <3>3. at'[c] = [rows |-> graph, total |-> at[c].total]
      BY <3>1, <3>2
    <3>4. \A q \in Clients : at'[q] = [rows |-> at'[q].rows, total |-> at'[q].total]
      BY <3>1, <3>2, <3>3
    <3> QED  BY <3>1, <3>4
  <2>5. /\ pages' = [q \in Clients |-> pages'[q]] /\ rows' = [q \in Clients |-> rows'[q]]
        /\ \A q \in Clients : q # c => pages'[q] = pages[q] /\ rows'[q] = rows[q]
    BY <1>0, <2>2
  <2>6. total' = [q \in Clients |-> total'[q]] /\ \A q \in Clients : total'[q] = total[q]
    BY <1>0, <2>3
  <2> QED  BY <2>4, <2>5, <2>6 DEF HistoryType, Kept
<1>3. CASE Count(c)
  <2>1. total' = [total EXCEPT ![c] = Total(graph, cmd[c], ast[c])] /\ rows' = rows /\ pages' = pages
    BY <1>3 DEF Count
  <2>2. at' = [at EXCEPT ![c].total = graph]
    BY <1>3 DEF Count
  <2>3. /\ at' = [q \in Clients |-> [rows |-> at'[q].rows, total |-> at'[q].total]]
        /\ \A q \in Clients : q # c => at'[q] = at[q]
    BY <1>0, <2>2
  <2>4. total' = [q \in Clients |-> total'[q]] /\ \A q \in Clients : q # c => total'[q] = total[q]
    BY <1>0, <2>1
  <2> QED  BY <1>0, <2>1, <2>3, <2>4 DEF HistoryType, Kept
<1> QED  BY <1>1, <1>2, <1>3 DEF Turns, Ask, NextPage, Cypher, Load, Run, Save, Raise

LEMMA KeptSound ==
  ASSUME ReadInv, cmd' = cmd, NEW c \in Clients, Stays(c), Kept(c)
  PROVE  (IsAsked(c) /\ IsRead(c) /\ IsCounted(c))'
<1>1. IsAsked(c) /\ IsRead(c) /\ IsCounted(c)
  BY DEF ReadInv
<1>2. IsAsked(c)'
  BY <1>1 DEF IsAsked, Asks, HasRead, Stays
<1>3. IsRead(c)'
  BY <1>1 DEF IsRead, Asks, HasRead, Stays, Kept
<1>4. IsCounted(c)'
  BY <1>1 DEF IsCounted, Asks, Stays, Kept
<1> QED  BY <1>2, <1>3, <1>4

LEMMA TurnReads ==
  ASSUME QueriesInv, ReadInv, NEW c \in Clients, Turns(c)
  PROVE  (IsAsked(c) /\ IsRead(c) /\ IsCounted(c))'
<1> USE DEF HasRead
<1>1. /\ pc \in [Clients -> {"idle", "data", "count", "cypher", "write", "load", "run", "done"}]
      /\ answer \in [Clients -> {"none", "ok", "invalid", "failed", "403", "404"}]
      /\ ast = [q \in Clients |-> ast[q]] /\ HistoryType /\ cmd' = cmd
      /\ IsAsked(c) /\ IsRead(c) /\ IsCounted(c)
      /\ answer[c] = "none" <=> pc[c] # "done"
  BY OthersStay DEF QueriesInv, TypeOK, ReadInv
<1>2. CASE ~Asks(c)
  BY <1>1, <1>2 DEF IsAsked, IsRead, IsCounted, Asks
<1>3. CASE Asks(c) /\ Ask(c)
  <2>1. /\ ast'[c] = Parsed(cmd[c]) /\ pc[c] = "idle" /\ answer[c] = "none"
    BY <1>1, <1>3 DEF Ask
  <2>2. /\ cmd[c].kind \in QueryKinds => IF Valid(Parsed(cmd[c])) THEN Go(c, "data") ELSE Answer(c, "invalid")
        /\ cmd[c].kind \in ReportKinds => IF Admitted(cmd[c]) THEN Go(c, "data") ELSE Answer(c, "invalid")
    BY <1>3 DEF Ask, QueryKinds, ReportKinds
  <2>3. CASE cmd[c].kind \in QueryKinds
    <3>1. (Valid(Parsed(cmd[c])) /\ Go(c, "data")) \/ Answer(c, "invalid")
      BY <2>2, <2>3
    <3>3. Go(c, "data") => pc'[c] = "data" /\ answer'[c] = "none"
      BY <1>1, <2>1 DEF Go
    <3>4. Answer(c, "invalid") => pc'[c] = "done" /\ answer'[c] = "invalid"
      BY <1>1 DEF Answer
    <3>2. (pc'[c] = "data" /\ answer'[c] = "none" /\ Valid(Parsed(cmd[c]))) \/ (pc'[c] = "done" /\ answer'[c] = "invalid")
      BY <3>1, <3>3, <3>4
    <3> QED  BY <1>1, <2>1, <2>3, <3>2 DEF IsAsked, IsRead, IsCounted, Asks, QueryKinds, ReportKinds
  <2>4. CASE cmd[c].kind \in ReportKinds
    <3>1. (ReportValid(cmd[c].report) /\ Go(c, "data")) \/ Answer(c, "invalid")
      BY <2>2, <2>4 DEF Admitted
    <3>3. Go(c, "data") => pc'[c] = "data" /\ answer'[c] = "none"
      BY <1>1, <2>1 DEF Go
    <3>4. Answer(c, "invalid") => pc'[c] = "done" /\ answer'[c] = "invalid"
      BY <1>1 DEF Answer
    <3>2. (pc'[c] = "data" /\ answer'[c] = "none" /\ ReportValid(cmd[c].report)) \/ (pc'[c] = "done" /\ answer'[c] = "invalid")
      BY <3>1, <3>3, <3>4
    <3> QED  BY <1>1, <2>1, <2>4, <3>2 DEF IsAsked, IsRead, IsCounted, Asks, QueryKinds, ReportKinds
  <2> QED  BY <1>3, <2>3, <2>4 DEF Asks
<1>4. CASE Asks(c) /\ Data(c)
  <2>1. pc[c] = "data" /\ answer[c] = "none" /\ ast' = ast /\ cmd' = cmd
    BY <1>1, <1>4 DEF Data
  <2>2. CASE CanRun(cmd[c], ast[c])
    <3>1. PICK page \in Answers(graph, cmd[c], ast[c]) : rows' = [rows EXCEPT ![c] = page]
      BY <1>4, <2>2 DEF Data
    <3>2. rows'[c] = page /\ at'[c].rows = graph
      BY <1>1, <1>4, <2>2, <3>1 DEF Data, HistoryType
    <3>3. IF Counts(cmd[c]) THEN Go(c, "count") ELSE Answer(c, "ok")
      BY <1>4, <2>2 DEF Data
    <3>8. Go(c, "count") => pc'[c] = "count" /\ answer'[c] = "none"
      BY <1>1, <2>1 DEF Go
    <3>9. Answer(c, "ok") => pc'[c] = "done" /\ answer'[c] = "ok"
      BY <1>1 DEF Answer
    <3>4. (pc'[c] = "count" /\ answer'[c] = "none") \/ (pc'[c] = "done" /\ answer'[c] = "ok" /\ ~Counts(cmd[c]))
      BY <3>3, <3>8, <3>9
    <3>5. IsAsked(c)'
      BY <1>1, <1>4, <2>1, <3>4 DEF IsAsked, Asks
    <3>6. IsRead(c)'
      BY <2>1, <2>2, <3>1, <3>2 DEF IsRead
    <3>7. IsCounted(c)'
      BY <2>1, <3>4 DEF IsCounted
    <3> QED  BY <3>5, <3>6, <3>7
  <2>3. CASE ~CanRun(cmd[c], ast[c])
    <3>1. pc'[c] = "done" /\ answer'[c] = "failed"
      BY <1>1, <1>4, <2>3 DEF Data, Answer
    <3> QED  BY <1>1, <1>4, <2>1, <3>1 DEF IsAsked, IsRead, IsCounted, Asks
  <2> QED  BY <2>2, <2>3
<1>5. CASE Asks(c) /\ Count(c)
  <2>1. /\ pc[c] = "count" /\ ast' = ast /\ cmd' = cmd /\ rows' = rows
        /\ pc'[c] = "done" /\ answer'[c] = "ok"
        /\ total'[c] = Total(graph, cmd[c], ast[c]) /\ at'[c].total = graph /\ at'[c].rows = at[c].rows
    BY <1>1, <1>5 DEF Count, Answer, HistoryType
  <2>2. IsAsked(c)'
    BY <1>1, <1>5, <2>1 DEF IsAsked, Asks
  <2>3. IsRead(c)'
    BY <1>1, <2>1 DEF IsRead, Asks
  <2>4. IsCounted(c)'
    BY <2>1 DEF IsCounted
  <2> QED  BY <2>2, <2>3, <2>4
<1>6. CASE Asks(c) /\ NextPage(c)
  <2>1. /\ pc[c] = "done" /\ answer[c] = "ok" /\ cmd' = cmd /\ cmd[c].kind = "post"
        /\ pc'[c] = "data" /\ answer'[c] = "none"
    BY <1>1, <1>6 DEF NextPage
  <2> QED  BY <1>1, <1>6, <2>1 DEF IsAsked, IsRead, IsCounted, Asks, QueryKinds, ReportKinds
<1>7. CASE Asks(c) /\ Raise(c)
  <2>1. pc[c] # "idle" /\ pc'[c] = "done" /\ answer'[c] = "failed" /\ cmd' = cmd
    BY <1>1, <1>7 DEF Raise, Answer
  <2> QED  BY <1>1, <1>7, <2>1 DEF IsAsked, IsRead, IsCounted, Asks
<1>8. CASE Asks(c) /\ (Cypher(c) \/ Load(c) \/ Run(c) \/ Save(c))
  BY <1>1, <1>8 DEF Cypher, Load, Run, Save, IsAsked
<1> QED  BY <1>2, <1>3, <1>4, <1>5, <1>6, <1>7, <1>8 DEF Turns

LEMMA ReadStep == QueriesInv /\ ReadInv /\ [Next]_vars => ReadInv'
<1> SUFFICES ASSUME QueriesInv, ReadInv, [Next]_vars PROVE ReadInv'
  OBVIOUS
<1>1. CASE UNCHANGED vars \/ Write
  <2>1. UNCHANGED clientVars
    BY <1>1 DEF vars, Write
  <2> QED  BY <2>1 DEF clientVars, ReadInv, HistoryType, IsAsked, IsRead, IsCounted, Asks, HasRead
<1>2. ASSUME NEW c \in Clients, Turns(c) PROVE ReadInv'
  <2>1. HistoryType' /\ \A q \in Clients : q # c => Kept(q)
    BY <1>2, OthersKept DEF ReadInv
  <2>2. cmd' = cmd /\ \A q \in Clients : q # c => Stays(q)
    BY <1>2, OthersStay
  <2>3. \A q \in Clients : q # c => (IsAsked(q) /\ IsRead(q) /\ IsCounted(q))'
    BY <2>1, <2>2, KeptSound
  <2>4. (IsAsked(c) /\ IsRead(c) /\ IsCounted(c))'
    BY <1>2, TurnReads
  <2> QED  BY <2>1, <2>3, <2>4 DEF ReadInv
<1> QED  BY <1>1, <1>2 DEF Next, Step, Turns

\* The query of a client that was answered has sound conditions when each path
\* has one meaning.
LEMMA AskedIsSound ==
  ASSUME QueriesInv, ReadInv, NEW c \in Clients, cmd[c].kind \in QueryKinds, pc[c] = "data" \/ HasRead(c),
         OneKindPerPath(ast[c].entity, ast[c].conds)
  PROVE  Sound(ast[c].entity, ast[c].conds)
<1>1. pc[c] # "idle" /\ Asks(c)
  BY DEF HasRead, Asks
<1>2. cmd[c] # NoCommand /\ cmd \in Scenarios /\ AsParsed(c) /\ IsAsked(c)
  BY <1>1 DEF QueriesInv, ReadInv
<1>3. cmd[c].conds \in Seq(Range(cmd[c].conds)) /\ cmd[c].far \in Seq(Range(cmd[c].far))
  BY <1>2, CommandAssumption
<1>4. Fits(cmd[c], Parsed(cmd[c])) /\ Valid(Parsed(cmd[c]))
  BY <1>1, <1>2, <1>3, ParsedFits DEF IsAsked
<1>5. ast[c] = [Parsed(cmd[c]) EXCEPT !.offset = ast[c].offset]
  BY <1>1, <1>2 DEF AsParsed
<1>6. ast[c].entity = Parsed(cmd[c]).entity /\ ast[c].conds = Parsed(cmd[c]).conds
  BY <1>4, <1>5 DEF Fits
<1>7. \A x \in Range(ast[c].conds) : Resolve(ast[c].entity, x).ok
  BY <1>4, <1>6 DEF Valid
<1> QED  BY <1>4, <1>6, <1>7 DEF Fits, Sound

LEMMA AnswersAreMeant == QueriesInv /\ ReadInv => AnswersMatch
<1> SUFFICES ASSUME QueriesInv, ReadInv, NEW c \in Clients, Answered(c, QueryKinds),
                    OneKindPerPath(ast[c].entity, ast[c].conds)
             PROVE  IF cmd[c].kind = "count"
                    THEN CountsMeant(cmd[c].group, rows[c][1], at[c].rows, Meant(at[c].rows, ast[c].entity, ast[c].conds))
                    ELSE /\ RowsMeant(rows[c], ast[c], at[c].rows, Meant(at[c].rows, ast[c].entity, ast[c].conds))
                         /\ Counts(cmd[c]) => total[c] = Cardinality(Meant(at[c].total, ast[c].entity, ast[c].conds))
  BY DEF AnswersMatch
<1> DEFINE q == ast[c]
           g == at[c].rows
           meant == Meant(g, q.entity, q.conds)
<1>1. cmd[c].kind \in QueryKinds /\ pc[c] = "done" /\ answer[c] = "ok" /\ HasRead(c) /\ Asks(c)
  BY DEF Answered, HasRead, Asks
<1>2. Sound(q.entity, q.conds)
  BY <1>1, AskedIsSound
<1>3. CanRun(cmd[c], q) /\ rows[c] \in Answers(g, cmd[c], q)
  BY <1>1 DEF ReadInv, IsRead
<1>4. CompileFilters(q.entity, q.conds).bound
  <2>1. CASE cmd[c].kind = "count"
    BY <1>3, <2>1 DEF CanRun, QueryKinds, ReportKinds
  <2>2. CASE cmd[c].kind # "count"
    <3>1. CanRun(cmd[c], q) = Runs(q)
      BY <1>1, <2>2 DEF CanRun, QueryKinds, ReportKinds
    <3> QED  BY <1>3, <3>1 DEF Runs
  <2> QED  BY <2>1, <2>2
<1>5. \A h : {b.node : b \in Found(h, q)} = Meant(h, q.entity, q.conds)
  BY <1>2, <1>4, FoundIsMeant DEF Found
<1>6. CASE cmd[c].kind = "count"
  <2> DEFINE size == rows[c][1]
             theSize == IF cmd[c].group = NoGroup THEN CountAnswer(g, q) ELSE GroupAnswer(g, q, cmd[c].group)
  <2>1. Answers(g, cmd[c], q) = {<<theSize>>}
    BY <1>6 DEF Answers, QueryKinds, ReportKinds
  <2>2. size = theSize
    <3> HIDE DEF theSize, q, g
    <3>1. rows[c] = <<theSize>>
      BY <1>3, <2>1
    <3> QED  BY <3>1
  <2>6. {b.node : b \in Found(g, q)} = meant
    BY <1>5
  <2> HIDE DEF size, q, g, meant
  <2>3. ASSUME cmd[c].group = NoGroup  PROVE CountsMeant(cmd[c].group, size, g, meant)
    <3>1. size = Cardinality(meant)
      BY <2>2, <2>3, <2>6 DEF CountAnswer
    <3> QED  BY <2>3, <3>1 DEF CountsMeant
  <2>4. ASSUME cmd[c].group # NoGroup  PROVE CountsMeant(cmd[c].group, size, g, meant)
    <3>1. size = GroupSizes(g, meant, cmd[c].group)
      BY <2>2, <2>4, <2>6 DEF GroupAnswer
    <3> DEFINE attr == cmd[c].group
               vs == {Field(g, n, attr) : n \in meant}
    <3>2. size = [v \in vs |-> Cardinality({n \in meant : Field(g, n, attr) = v})]
      BY <3>1 DEF GroupSizes
    <3>3. ASSUME NEW n \in meant
          PROVE  size[Field(g, n, attr)] = Cardinality({m \in meant : Field(g, m, attr) = Field(g, n, attr)})
      <4> DEFINE Size(v) == Cardinality({m \in meant : Field(g, m, attr) = v})
      <4>1. size = [v \in vs |-> Size(v)] /\ Field(g, n, attr) \in vs
        BY <3>2
      <4> HIDE DEF Size, vs
      <4>2. size[Field(g, n, attr)] = Size(Field(g, n, attr))
        BY <4>1
      <4> QED  BY <4>2 DEF Size
    <3> QED  BY <2>4, <3>3 DEF CountsMeant
  <2>5. CountsMeant(cmd[c].group, size, g, meant)
    BY <2>3, <2>4
  <2> QED  BY <1>6, <2>5 DEF size, g, q, meant
<1>7. CASE cmd[c].kind # "count"
  <2>1. rows[c] \in DataAnswers(g, q)
    <3>1. Answers(g, cmd[c], q) = DataAnswers(g, q)
      BY <1>1, <1>7 DEF Answers, QueryKinds, ReportKinds
    <3> QED  BY <1>3, <3>1
  <2>2. {Project(g, b.node, q.fields) : b \in Found(g, q)} = {Project(g, n, q.fields) : n \in meant}
    <3> HIDE DEF q, g, meant
    <3> DEFINE P(n) == Project(g, n, q.fields)
    <3> HIDE DEF P
    <3>1. {b.node : b \in Found(g, q)} = meant
      BY <1>5 DEF meant
    <3>2. {P(b.node) : b \in Found(g, q)} = {P(n) : n \in meant}
      BY <3>1
    <3> QED  BY <3>2 DEF P
  <2>3. RowsMeant(rows[c], q, g, meant)
    BY <2>1, <2>2 DEF RowsMeant, DataAnswers
  <2>4. ASSUME Counts(cmd[c])  PROVE total[c] = Cardinality(Meant(at[c].total, q.entity, q.conds))
    <3>1. total[c] = Total(at[c].total, cmd[c], q)
      BY <1>1, <2>4 DEF ReadInv, IsCounted
    <3>2. Total(at[c].total, cmd[c], q) = CountAnswer(at[c].total, q)
      BY <1>1 DEF Total, QueryKinds, ReportKinds
    <3> QED  BY <1>5, <3>1, <3>2 DEF CountAnswer
  <2> QED  BY <1>7, <2>3, <2>4
<1> QED  BY <1>6, <1>7

-----------------------------------------------------------------------------
(* Columns after filters *)

LEMMA ColumnSteps ==
  ASSUME NEW r, Len(r.cols) \in Nat
  PROVE  \E f : /\ f[0] = [st |-> CompileFilters(r.entity, r.conds), keys |-> <<>>, cols |-> <<>>]
                /\ \A i \in 1..Len(r.cols) : f[i] = ResolveColumn(f[i - 1], r.entity, r.mode, r.cols[i])
                /\ ResolveColumns(r) = f[Len(r.cols)]
<1> DEFINE n == Len(r.cols)
           start == [st |-> CompileFilters(r.entity, r.conds), keys |-> <<>>, cols |-> <<>>]
           Then(acc, i) == ResolveColumn(acc, r.entity, r.mode, r.cols[i])
           Body(f, k) == [i \in 0..k |-> IF i = 0 THEN start ELSE Then(f[i - 1], i)]
           K == {k \in 0..n : \E f : f = Body(f, k)}
<1> HIDE DEF Then, start
<1>1. 0 \in K
  <2> DEFINE e == [i \in 0..0 |-> start]
  <2>1. e = Body(e, 0)
    OBVIOUS
  <2> HIDE DEF e
  <2>2. 0 \in 0..n
    OBVIOUS
  <2> QED  BY <2>1, <2>2
<1>2. ASSUME NEW k \in 0..(n - 1), k \in K  PROVE k + 1 \in K
  <2>1. PICK f : f = Body(f, k)
    BY <1>2
  <2> DEFINE h == [i \in 0..(k + 1) |-> IF i <= k THEN f[i] ELSE Then(f[k], k + 1)]
  <2>2. ASSUME NEW i \in 0..(k + 1)  PROVE h[i] = IF i = 0 THEN start ELSE Then(h[i - 1], i)
    <3>1. CASE i <= k
      <4>0. \A j \in 0..k : f[j] = IF j = 0 THEN start ELSE Then(f[j - 1], j)
        BY <2>1
      <4>1. h[i] = f[i] /\ i \in 0..k /\ f[i] = IF i = 0 THEN start ELSE Then(f[i - 1], i)
        BY <3>1, <4>0
      <4>2. i # 0 => i - 1 \in 0..(k + 1) /\ i - 1 <= k
        BY <3>1
      <4>3. i # 0 => h[i - 1] = f[i - 1]
        BY <4>2
      <4> HIDE DEF h
      <4> QED  BY <4>1, <4>3
    <3>2. CASE i = k + 1
      BY <3>2
    <3> QED  BY <3>1, <3>2
  <2>3. h = [i \in 0..(k + 1) |-> h[i]]
    OBVIOUS
  <2> HIDE DEF h
  <2>4. h = Body(h, k + 1)
    BY <2>2, <2>3
  <2>5. k + 1 \in 0..n
    OBVIOUS
  <2> QED  BY <2>4, <2>5
<1> HIDE DEF K
<1>3. n \in K
  <2> HIDE DEF n
  <2>1. n \in Nat
    BY DEF n
  <2>2. \A k \in 0..n : k \in K
    BY <1>1, <1>2, <2>1, UpToAll
  <2> QED  BY <2>1, <2>2
<1>4. \E f : f = Body(f, n)
  BY <1>3 DEF K
<1> DEFINE h == CHOOSE f : f = Body(f, n)
<1>5. h = Body(h, n)
  BY <1>4
<1>6. ResolveColumns(r) = h[n]
  BY DEF ResolveColumns, Then, start
<1>7. \A i \in 0..n : h[i] = IF i = 0 THEN start ELSE Then(h[i - 1], i)
  BY <1>5
<1> HIDE DEF h
<1>8. h[0] = start /\ \A i \in 1..n : h[i] = Then(h[i - 1], i)
  BY <1>7
<1> QED  BY <1>6, <1>8 DEF Then, start

\* The columns acc of a report after the clauses and predicates of its filters F,
\* and bare the same columns without any: only the places of clauses differ.
IsColumns(acc) == acc = [st |-> acc.st, keys |-> acc.keys, cols |-> acc.cols] /\ IsState(acc.st)
ClausesBeside(F, acc, bare) ==
  /\ acc.st.clauses \in Seq(Range(acc.st.clauses)) /\ bare.st.clauses \in Seq(Range(bare.st.clauses))
  /\ Len(acc.st.clauses) = Len(F.clauses) + Len(bare.st.clauses)
  /\ \A j \in 1..Len(F.clauses) : acc.st.clauses[j] = F.clauses[j]
  /\ \A j \in 1..Len(bare.st.clauses) : /\ acc.st.clauses[Len(F.clauses) + j] = bare.st.clauses[j]
                                        /\ ~bare.st.clauses[j].optional
KeysBeside(F, acc, bare) ==
  /\ DOMAIN acc.keys = DOMAIN bare.keys
  /\ \A key \in DOMAIN bare.keys : /\ bare.keys[key] \in 1..Len(bare.st.clauses)
                                   /\ acc.keys[key] = Len(F.clauses) + bare.keys[key]
ColumnBeside(F, bare, c, d) ==
  /\ c.col = d.col /\ c.header = d.header
  /\ Hops(d.col) => d.hop \in 1..Len(bare.st.clauses) /\ c.hop = Len(F.clauses) + d.hop
ColsBeside(F, acc, bare) ==
  /\ acc.cols \in Seq(Range(acc.cols)) /\ bare.cols \in Seq(Range(bare.cols))
  /\ Len(acc.cols) = Len(bare.cols)
  /\ \A k \in 1..Len(bare.cols) : ColumnBeside(F, bare, acc.cols[k], bare.cols[k])
Beside(F, acc, bare) ==
  /\ IsColumns(acc) /\ IsColumns(bare)
  /\ acc.st.preds = F.preds /\ bare.st.preds = <<>> /\ acc.st.bound = F.bound
  /\ ClausesBeside(F, acc, bare) /\ KeysBeside(F, acc, bare) /\ ColsBeside(F, acc, bare)

LEMMA LongerByOne ==
  ASSUME NEW s, s \in Seq(Range(s)), NEW x
  PROVE  LET t == Append(s, x)
         IN /\ t \in Seq(Range(t)) /\ Len(t) = Len(s) + 1 /\ t[Len(s) + 1] = x
            /\ \A i \in 1..Len(s) : t[i] = s[i]
<1> DEFINE M == Range(s) \union {x}
           t == Append(s, x)
<1>1. s \in Seq(M) /\ x \in M
  <2>1. \A q \in Seq(Range(s)) : q \in Seq(M)
    BY SeqDef
  <2> QED  BY <2>1
<1> HIDE DEF M
<1>2. t \in Seq(M) /\ Len(t) = Len(s) + 1 /\ t[Len(s) + 1] = x /\ \A i \in 1..Len(s) : t[i] = s[i]
  BY <1>1, AppendProperties
<1> HIDE DEF t
<1>3. t \in Seq(Range(t))
  BY <1>2, SequenceOfItsOwn
<1> QED  BY <1>2, <1>3 DEF t

WithKey(keys, key, i) == [k \in DOMAIN keys \union {key} |-> IF k = key THEN i ELSE keys[k]]
LEMMA ClauseBeside ==
  ASSUME NEW F, Len(F.clauses) \in Nat, NEW acc, NEW bare, Beside(F, acc, bare), NEW key, NEW clause, ~clause.optional
  PROVE  /\ Beside(F, WithClause(acc, key, clause), WithClause(bare, key, clause))
         /\ key \in DOMAIN WithClause(acc, key, clause).keys
<1> DEFINE big == WithClause(acc, key, clause)
           small == WithClause(bare, key, clause)
           m == Len(F.clauses)
           n == Len(bare.st.clauses)
<1>0. IsColumns(acc) /\ IsColumns(bare) /\ ClausesBeside(F, acc, bare) /\ KeysBeside(F, acc, bare) /\ ColsBeside(F, acc, bare)
  BY DEF Beside
<1>1. ASSUME NEW a, IsColumns(a)
      PROVE  LET w == WithClause(a, key, clause)
             IN /\ IsColumns(w) /\ w.st.preds = a.st.preds /\ w.st.bound = a.st.bound /\ w.cols = a.cols
                /\ w.st.clauses = Append(a.st.clauses, clause)
                /\ w.keys = WithKey(a.keys, key, Len(a.st.clauses) + 1)
  <2> DEFINE s == [clauses |-> Append(a.st.clauses, clause), preds |-> a.st.preds, vars |-> a.st.vars, bound |-> a.st.bound]
             w == [st |-> s, keys |-> WithKey(a.keys, key, Len(a.st.clauses) + 1), cols |-> a.cols]
  <2>1. a = [st |-> a.st, keys |-> a.keys, cols |-> a.cols] /\ a.st.bound \in BOOLEAN
        /\ a.st = [clauses |-> a.st.clauses, preds |-> a.st.preds, vars |-> a.st.vars, bound |-> a.st.bound]
    BY <1>1 DEF IsColumns, IsState
  <2>2. [a.st EXCEPT !.clauses = Append(a.st.clauses, clause)] = s
    <3> DEFINE longer == Append(a.st.clauses, clause)
    <3> HIDE DEF longer
    <3>1. [a.st EXCEPT !.clauses = longer]
            = [clauses |-> longer, preds |-> a.st.preds, vars |-> a.st.vars, bound |-> a.st.bound]
      BY <2>1
    <3> QED  BY <3>1 DEF longer
  <2>3. WithClause(a, key, clause) = w
    <3> DEFINE t == [a.st EXCEPT !.clauses = Append(a.st.clauses, clause)]
               ks == WithKey(a.keys, key, Len(a.st.clauses) + 1)
    <3>1. WithClause(a, key, clause) = [st |-> t, keys |-> ks, cols |-> a.cols]
      BY DEF WithClause, WithKey
    <3> QED  BY <2>2, <3>1
  <2>4. IsColumns(w)
    BY <2>1 DEF IsColumns, IsState
  <2> QED  BY <2>3, <2>4
<1>2. /\ IsColumns(big) /\ big.st.preds = acc.st.preds /\ big.st.bound = acc.st.bound /\ big.cols = acc.cols
      /\ big.st.clauses = Append(acc.st.clauses, clause)
      /\ big.keys = WithKey(acc.keys, key, Len(acc.st.clauses) + 1)
  BY <1>0, <1>1
<1>3. /\ IsColumns(small) /\ small.st.preds = bare.st.preds /\ small.st.bound = bare.st.bound /\ small.cols = bare.cols
      /\ small.st.clauses = Append(bare.st.clauses, clause)
      /\ small.keys = WithKey(bare.keys, key, n + 1)
  BY <1>0, <1>1
<1> HIDE DEF big, small
<1>4. m \in Nat /\ n \in Nat /\ Len(acc.st.clauses) = m + n /\ m + n \in Nat
  <2>1. bare.st.clauses \in Seq(Range(bare.st.clauses)) /\ Len(acc.st.clauses) = m + n
    BY <1>0 DEF ClausesBeside
  <2>2. n \in Nat
    BY <2>1, LenProperties
  <2> HIDE DEF n
  <2> QED  BY <2>1, <2>2
<1>5. /\ big.st.clauses \in Seq(Range(big.st.clauses)) /\ Len(big.st.clauses) = (m + n) + 1
      /\ big.st.clauses[(m + n) + 1] = clause /\ \A j \in 1..(m + n) : big.st.clauses[j] = acc.st.clauses[j]
  <2> DEFINE s == acc.st.clauses
  <2>1. s \in Seq(Range(s)) /\ Len(s) = m + n /\ big.st.clauses = Append(s, clause)
    BY <1>0, <1>2, <1>4 DEF ClausesBeside
  <2> HIDE DEF s, m, n
  <2>2. /\ Append(s, clause) \in Seq(Range(Append(s, clause))) /\ Len(Append(s, clause)) = Len(s) + 1
        /\ Append(s, clause)[Len(s) + 1] = clause /\ \A i \in 1..Len(s) : Append(s, clause)[i] = s[i]
    BY <2>1, LongerByOne
  <2>3. /\ Append(s, clause) \in Seq(Range(Append(s, clause))) /\ Len(Append(s, clause)) = (m + n) + 1
        /\ Append(s, clause)[(m + n) + 1] = clause /\ \A i \in 1..(m + n) : Append(s, clause)[i] = s[i]
    BY <2>1, <2>2
  <2> QED  BY <2>1, <2>3 DEF s
<1>6. /\ small.st.clauses \in Seq(Range(small.st.clauses)) /\ Len(small.st.clauses) = n + 1
      /\ small.st.clauses[n + 1] = clause /\ \A j \in 1..n : small.st.clauses[j] = bare.st.clauses[j]
  <2>1. bare.st.clauses \in Seq(Range(bare.st.clauses))
    BY <1>0 DEF ClausesBeside
  <2> QED  BY <1>3, <2>1, LongerByOne
<1>12. m = Len(F.clauses) /\ n = Len(bare.st.clauses)
  OBVIOUS
<1> HIDE DEF m, n
<1>7. ClausesBeside(F, big, small)
  <2>1. \A j \in 1..m : big.st.clauses[j] = F.clauses[j]
    <3> TAKE j \in 1..m
    <3>1. j \in 1..(m + n)
      BY <1>4
    <3> QED  BY <1>0, <1>5, <1>12, <3>1 DEF ClausesBeside
  <2>2. ASSUME NEW j \in 1..(n + 1)  PROVE big.st.clauses[m + j] = small.st.clauses[j] /\ ~small.st.clauses[j].optional
    <3>1. CASE j = n + 1
      <4>1. m + j = (m + n) + 1
        BY <1>4, <3>1
      <4>2. big.st.clauses[m + j] = clause /\ small.st.clauses[j] = clause
        BY <1>5, <1>6, <3>1, <4>1
      <4> QED  BY <4>2
    <3>2. CASE j # n + 1
      <4>1. j \in 1..n /\ m + j \in 1..(m + n)
        BY <1>4, <3>2
      <4>2. big.st.clauses[m + j] = acc.st.clauses[m + j] /\ small.st.clauses[j] = bare.st.clauses[j]
        BY <1>5, <1>6, <4>1
      <4>3. acc.st.clauses[m + j] = bare.st.clauses[j] /\ ~bare.st.clauses[j].optional
        BY <1>0, <1>12, <4>1 DEF ClausesBeside
      <4> QED  BY <4>2, <4>3
    <3> QED  BY <3>1, <3>2
  <2>3. Len(big.st.clauses) = m + Len(small.st.clauses)
    BY <1>4, <1>5, <1>6
  <2> QED  BY <1>5, <1>6, <1>12, <2>1, <2>2, <2>3 DEF ClausesBeside
<1>8. KeysBeside(F, big, small)
  <2>1. DOMAIN big.keys = DOMAIN acc.keys \union {key} /\ DOMAIN small.keys = DOMAIN bare.keys \union {key}
        /\ DOMAIN acc.keys = DOMAIN bare.keys
    BY <1>0, <1>2, <1>3 DEF WithKey, KeysBeside
  <2>2. ASSUME NEW x \in DOMAIN small.keys
        PROVE  small.keys[x] \in 1..(n + 1) /\ big.keys[x] = m + small.keys[x]
    <3>1. CASE x = key
      <4>1. small.keys[x] = n + 1 /\ big.keys[x] = (m + n) + 1
        BY <1>2, <1>3, <1>4, <3>1 DEF WithKey
      <4> QED  BY <1>4, <4>1
    <3>2. CASE x # key
      <4>1. x \in DOMAIN bare.keys /\ x \in DOMAIN acc.keys
        BY <2>1, <3>2
      <4>2. small.keys[x] = bare.keys[x] /\ big.keys[x] = acc.keys[x]
        BY <1>2, <1>3, <3>2, <4>1 DEF WithKey
      <4>3. bare.keys[x] \in 1..n /\ acc.keys[x] = m + bare.keys[x]
        BY <1>0, <1>12, <4>1 DEF KeysBeside
      <4> QED  BY <1>4, <4>2, <4>3
    <3> QED  BY <3>1, <3>2
  <2> QED  BY <1>6, <1>12, <2>1, <2>2 DEF KeysBeside
<1>9. ColsBeside(F, big, small)
  <2>1. ASSUME NEW k \in 1..Len(bare.cols)  PROVE ColumnBeside(F, small, acc.cols[k], bare.cols[k])
    <3>1. ColumnBeside(F, bare, acc.cols[k], bare.cols[k])
      BY <1>0 DEF ColsBeside
    <3> QED  BY <1>4, <1>6, <1>12, <3>1 DEF ColumnBeside
  <2> QED  BY <1>0, <1>2, <1>3, <2>1 DEF ColsBeside
<1>10. key \in DOMAIN big.keys
  BY <1>2 DEF WithKey
<1>11. big.st.preds = F.preds /\ small.st.preds = <<>> /\ big.st.bound = F.bound
  BY <1>2, <1>3 DEF Beside
<1> QED  BY <1>2, <1>3, <1>7, <1>8, <1>9, <1>10, <1>11 DEF Beside, big, small

ColumnOf(acc, root, mode, col) ==
  [col |-> col, hop |-> IF Hops(col) THEN acc.keys[MatchKey(root, col)] ELSE 0, header |-> Header(root, col),
   expands |-> Hops(col) /\ mode = "expanded" /\ OneToMany(root, ColumnEdge(root, col))]
LEMMA ShownBeside ==
  ASSUME NEW F, Len(F.clauses) \in Nat, NEW acc, NEW bare, Beside(F, acc, bare), NEW root, NEW mode, NEW col,
         Hops(col) => MatchKey(root, col) \in DOMAIN acc.keys
  PROVE  Beside(F, Shown(acc, root, mode, col), Shown(bare, root, mode, col))
<1> DEFINE big == Shown(acc, root, mode, col)
           small == Shown(bare, root, mode, col)
           c == ColumnOf(acc, root, mode, col)
           d == ColumnOf(bare, root, mode, col)
           n == Len(bare.cols)
<1>0. IsColumns(acc) /\ IsColumns(bare) /\ ClausesBeside(F, acc, bare) /\ KeysBeside(F, acc, bare) /\ ColsBeside(F, acc, bare)
  BY DEF Beside
<1>1. ASSUME NEW a, IsColumns(a)
      PROVE  LET w == Shown(a, root, mode, col)
             IN IsColumns(w) /\ w.st = a.st /\ w.keys = a.keys /\ w.cols = Append(a.cols, ColumnOf(a, root, mode, col))
  <2> DEFINE longer == Append(a.cols, ColumnOf(a, root, mode, col))
  <2>1. Shown(a, root, mode, col) = [a EXCEPT !.cols = longer]
    BY DEF Shown, ColumnOf
  <2> HIDE DEF longer
  <2>2. a = [st |-> a.st, keys |-> a.keys, cols |-> a.cols] /\ IsState(a.st)
    BY <1>1 DEF IsColumns
  <2>3. Shown(a, root, mode, col) = [st |-> a.st, keys |-> a.keys, cols |-> longer]
    BY <2>1, <2>2
  <2>4. IsColumns([st |-> a.st, keys |-> a.keys, cols |-> longer])
    BY <2>2 DEF IsColumns
  <2> QED  BY <2>3, <2>4 DEF longer
<1>2. IsColumns(big) /\ big.st = acc.st /\ big.keys = acc.keys /\ big.cols = Append(acc.cols, c)
  BY <1>0, <1>1
<1>3. IsColumns(small) /\ small.st = bare.st /\ small.keys = bare.keys /\ small.cols = Append(bare.cols, d)
  BY <1>0, <1>1
<1>4. ColumnBeside(F, bare, c, d)
  <2>1. c.col = col /\ d.col = col /\ c.header = Header(root, col) /\ d.header = Header(root, col)
    BY DEF ColumnOf
  <2>2. Hops(col) => c.hop = acc.keys[MatchKey(root, col)] /\ d.hop = bare.keys[MatchKey(root, col)]
    BY DEF ColumnOf
  <2> HIDE DEF c, d
  <2>3. Hops(col) => d.hop \in 1..Len(bare.st.clauses) /\ c.hop = Len(F.clauses) + d.hop
    BY <1>0, <2>2 DEF KeysBeside
  <2> QED  BY <2>1, <2>3 DEF ColumnBeside
<1> HIDE DEF big, small, c, d
<1>5. n \in Nat /\ Len(acc.cols) = n
  <2>1. bare.cols \in Seq(Range(bare.cols)) /\ Len(acc.cols) = n
    BY <1>0 DEF ColsBeside
  <2> QED  BY <2>1, LenProperties
<1>6. /\ big.cols \in Seq(Range(big.cols)) /\ Len(big.cols) = n + 1 /\ big.cols[n + 1] = c
      /\ \A k \in 1..n : big.cols[k] = acc.cols[k]
  <2> DEFINE s == acc.cols
  <2>1. s \in Seq(Range(s)) /\ Len(s) = n /\ big.cols = Append(s, c)
    BY <1>0, <1>2, <1>5 DEF ColsBeside
  <2> HIDE DEF s, n
  <2> QED  BY <2>1, LongerByOne DEF s
<1>7. /\ small.cols \in Seq(Range(small.cols)) /\ Len(small.cols) = n + 1 /\ small.cols[n + 1] = d
      /\ \A k \in 1..n : small.cols[k] = bare.cols[k]
  <2> DEFINE s == bare.cols
  <2>1. s \in Seq(Range(s)) /\ Len(s) = n /\ small.cols = Append(s, d)
    BY <1>0, <1>3, <1>5 DEF ColsBeside
  <2> HIDE DEF s, n
  <2> QED  BY <2>1, LongerByOne DEF s
<1>8. ColsBeside(F, big, small)
  <2>1. n = Len(bare.cols)
    OBVIOUS
  <2> HIDE DEF n
  <2>2. ASSUME NEW k \in 1..(n + 1)  PROVE ColumnBeside(F, small, big.cols[k], small.cols[k])
    <3>1. CASE k = n + 1
      BY <1>3, <1>4, <1>6, <1>7, <3>1 DEF ColumnBeside
    <3>2. CASE k # n + 1
      <4>1. k \in 1..n
        BY <1>5, <3>2
      <4>2. ColumnBeside(F, bare, acc.cols[k], bare.cols[k])
        BY <1>0, <2>1, <4>1 DEF ColsBeside
      <4>3. big.cols[k] = acc.cols[k] /\ small.cols[k] = bare.cols[k]
        BY <1>6, <1>7, <4>1
      <4> QED  BY <1>3, <4>2, <4>3 DEF ColumnBeside
    <3> QED  BY <3>1, <3>2
  <2> QED  BY <1>6, <1>7, <2>2 DEF ColsBeside
<1>9. ClausesBeside(F, big, small) /\ KeysBeside(F, big, small)
  <2>1. ClausesBeside(F, big, small)
    BY <1>0, <1>2, <1>3 DEF ClausesBeside
  <2>2. KeysBeside(F, big, small)
    BY <1>0, <1>2, <1>3 DEF KeysBeside
  <2> QED  BY <2>1, <2>2
<1> QED  BY <1>2, <1>3, <1>8, <1>9 DEF Beside, big, small

\* A column that is expanded, or of an edge, or of the object itself.
NeverOptional(mode, col) == mode = "expanded" \/ IsEdge(col) \/ ~Hops(col)
LEMMA ColumnStaysBeside ==
  ASSUME NEW F, Len(F.clauses) \in Nat, NEW acc, NEW bare, Beside(F, acc, bare), NEW root, NEW mode, NEW col,
         NeverOptional(mode, col)
  PROVE  Beside(F, ResolveColumn(acc, root, mode, col), ResolveColumn(bare, root, mode, col))
<1> DEFINE key == MatchKey(root, col)
           clause == ColumnClause(root, mode, col)
<1>0. DOMAIN acc.keys = DOMAIN bare.keys
  BY DEF Beside, KeysBeside
<1>1. CASE ~Resolvable(root, col)
  <2>1. \A a : ResolveColumn(a, root, mode, col) = a
    BY <1>1 DEF ResolveColumn
  <2> QED  BY <2>1
<1>2. CASE Resolvable(root, col) /\ Hops(col) /\ key \notin DOMAIN acc.keys
  <2>1. \A a : key \notin DOMAIN a.keys =>
          ResolveColumn(a, root, mode, col) = Shown(WithClause(a, key, clause), root, mode, col)
    BY <1>2 DEF ResolveColumn
  <2>2. ~clause.optional
    BY <1>2 DEF ColumnClause, Clause, NeverOptional
  <2> HIDE DEF clause, key
  <2> DEFINE big == WithClause(acc, key, clause)
             small == WithClause(bare, key, clause)
  <2>3. Beside(F, big, small) /\ key \in DOMAIN big.keys
    BY <2>2, ClauseBeside
  <2> HIDE DEF big, small
  <2>4. Beside(F, Shown(big, root, mode, col), Shown(small, root, mode, col))
    BY <2>3, ShownBeside DEF key
  <2> QED  BY <1>0, <1>2, <2>1, <2>4 DEF big, small
<1>3. CASE Resolvable(root, col) /\ (Hops(col) => key \in DOMAIN acc.keys)
  <2>1. \A a : DOMAIN a.keys = DOMAIN acc.keys => ResolveColumn(a, root, mode, col) = Shown(a, root, mode, col)
    BY <1>3 DEF ResolveColumn
  <2>2. Beside(F, Shown(acc, root, mode, col), Shown(bare, root, mode, col))
    BY <1>3, ShownBeside
  <2> QED  BY <1>0, <2>1, <2>2
<1> QED  BY <1>1, <1>2, <1>3

Bare(r) == [r EXCEPT !.conds = <<>>]
\* The columns of a report, after its filters and without them.
LEMMA ColumnsBeside ==
  ASSUME NEW r, Sound(r.entity, r.conds), r.cols \in Seq(Range(r.cols)), {"entity", "conds", "cols", "mode"} \subseteq DOMAIN r,
         \A col \in Range(r.cols) : NeverOptional(r.mode, col)
  PROVE  Beside(CompileFilters(r.entity, r.conds), ResolveColumns(r), ResolveColumns(Bare(r)))
<1> DEFINE F == CompileFilters(r.entity, r.conds)
           n == Len(r.cols)
           start == [st |-> F, keys |-> <<>>, cols |-> <<>>]
           start0 == [st |-> EmptyState, keys |-> <<>>, cols |-> <<>>]
<1>1. n \in Nat /\ DOMAIN r.cols = 1..n
  BY LenProperties
<1>2. Bare(r).entity = r.entity /\ Bare(r).conds = <<>> /\ Bare(r).cols = r.cols /\ Bare(r).mode = r.mode
  BY DEF Bare
<1>3. CompileFilters(r.entity, <<>>) = EmptyState
  <2>1. Len(<<>>) = 0
    BY EmptySeq
  <2>2. PICK f : f[0] = EmptyState /\ CompileFilters(r.entity, <<>>) = f[Len(<<>>)]
    BY <2>1, CompileSteps
  <2> QED  BY <2>1, <2>2
<1>4. Compiled(r.entity, r.conds, Len(r.conds), F)
  BY AllCompiled
<1>5. Len(F.clauses) \in Nat /\ IsState(F) /\ F.clauses \in Seq(Range(F.clauses))
  <2>1. IsState(F) /\ F.clauses \in Seq(ClausesFor(r.entity, r.conds))
    BY <1>4 DEF Compiled
  <2> HIDE DEF F
  <2>2. F.clauses \in Seq(Range(F.clauses))
    BY <2>1, SequenceOfItsOwn
  <2> QED  BY <2>1, <2>2, LenProperties
<1> HIDE DEF F
<1>6. Beside(F, start, start0)
  <2>1. EmptyState.clauses = <<>> /\ EmptyState.preds = <<>> /\ IsState(EmptyState)
    BY DEF EmptyState, IsState
  <2>2. IsColumns(start) /\ IsColumns(start0)
    BY <1>5, <2>1 DEF IsColumns
  <2>3. start.st = F /\ start.keys = <<>> /\ start.cols = <<>> /\ start0.st = EmptyState /\ start0.keys = <<>> /\ start0.cols = <<>>
    OBVIOUS
  <2> HIDE DEF start, start0
  <2>4. <<>> \in Seq(Range(<<>>)) /\ Len(<<>>) = 0 /\ DOMAIN <<>> = {}
    BY EmptySeq
  <2>5. ClausesBeside(F, start, start0)
    <3> DEFINE m == Len(F.clauses)
    <3>1. start.st.clauses = F.clauses /\ start0.st.clauses = <<>> /\ m \in Nat
      BY <1>5, <2>1, <2>3
    <3> HIDE DEF m
    <3>2. m = m + 0 /\ \A j \in 1..0 : FALSE
      BY <3>1
    <3> QED  BY <1>5, <2>4, <3>1, <3>2 DEF ClausesBeside, m
  <2>6. KeysBeside(F, start, start0)
    BY <2>3, <2>4 DEF KeysBeside
  <2>7. ColsBeside(F, start, start0)
    BY <2>3, <2>4 DEF ColsBeside
  <2> QED  BY <2>1, <2>2, <2>3, <2>5, <2>6, <2>7 DEF Beside
<1>7. PICK f : /\ f[0] = start
               /\ \A i \in 1..n : f[i] = ResolveColumn(f[i - 1], r.entity, r.mode, r.cols[i])
               /\ ResolveColumns(r) = f[n]
  BY <1>1, ColumnSteps DEF F
<1>8. PICK f0 : /\ f0[0] = start0
                /\ \A i \in 1..n : f0[i] = ResolveColumn(f0[i - 1], r.entity, r.mode, r.cols[i])
                /\ ResolveColumns(Bare(r)) = f0[n]
  <2> DEFINE q == Bare(r)
  <2>0. q.entity = r.entity /\ q.conds = <<>> /\ q.cols = r.cols /\ q.mode = r.mode
    BY <1>2
  <2> HIDE DEF q
  <2>1. Len(q.cols) \in Nat
    BY <1>1, <2>0
  <2>2. \E f0 : /\ f0[0] = [st |-> CompileFilters(q.entity, q.conds), keys |-> <<>>, cols |-> <<>>]
                /\ \A i \in 1..Len(q.cols) : f0[i] = ResolveColumn(f0[i - 1], q.entity, q.mode, q.cols[i])
                /\ ResolveColumns(q) = f0[Len(q.cols)]
    BY <2>1, ColumnSteps
  <2> QED  BY <1>3, <2>0, <2>2 DEF q
<1> HIDE DEF start, start0
<1> DEFINE K == {k \in 0..n : Beside(F, f[k], f0[k])}
<1>9. 0 \in K
  BY <1>1, <1>6, <1>7, <1>8
<1>10. ASSUME NEW k \in 0..(n - 1), k \in K  PROVE k + 1 \in K
  <2>1. k + 1 \in 1..n /\ (k + 1) - 1 = k /\ k + 1 \in 0..n
    BY <1>1
  <2>2. NeverOptional(r.mode, r.cols[k + 1])
    BY <1>1, <2>1 DEF Range
  <2>3. f[k + 1] = ResolveColumn(f[k], r.entity, r.mode, r.cols[k + 1])
        /\ f0[k + 1] = ResolveColumn(f0[k], r.entity, r.mode, r.cols[k + 1])
    BY <1>7, <1>8, <2>1
  <2>4. Beside(F, f[k], f0[k])
    BY <1>10
  <2>5. Beside(F, f[k + 1], f0[k + 1])
    BY <1>5, <2>2, <2>3, <2>4, ColumnStaysBeside
  <2> QED  BY <2>1, <2>5
<1> HIDE DEF K
<1>11. n \in K
  <2>1. \A k \in 0..n : k \in K
    BY <1>1, <1>9, <1>10, UpToAll
  <2> QED  BY <1>1, <2>1
<1>12. Beside(F, f[n], f0[n])
  BY <1>11 DEF K
<1> QED  BY <1>7, <1>8, <1>12 DEF F

\* What columns show depends on the edges of their own clauses.
LEMMA CellsBeside ==
  ASSUME NEW F, NEW cr, NEW cr0, Beside(F, cr, cr0), NEW g, NEW r, NEW b, NEW x, b.node = x.node,
         \A j \in 1..Len(cr0.st.clauses) : b.hops[Len(F.clauses) + j] = x.hops[j], NEW k \in 1..Len(cr0.cols)
  PROVE  Cell(g, r, cr, b, k) = Cell(g, r, cr0, x, k)
<1> DEFINE c == cr.cols[k]
           d == cr0.cols[k]
           col == d.col
           e == ColumnEdge(r.entity, col)
<1>1. c.col = col /\ (Hops(col) => d.hop \in 1..Len(cr0.st.clauses) /\ c.hop = Len(F.clauses) + d.hop)
  BY DEF Beside, ColsBeside, ColumnBeside
<1>2. Hops(col) => b.hops[c.hop] = x.hops[d.hop] /\ cr.st.clauses[c.hop].dir = cr0.st.clauses[d.hop].dir
  BY <1>1 DEF Beside, ClausesBeside
<1>3. CASE IsRoot(col)
  <2>1. Cell(g, r, cr, b, k) = Field(g, b.node, col.path[1])
    BY <1>1, <1>3 DEF Cell, IsCount, IsRoot, Hops
  <2>2. Cell(g, r, cr0, x, k) = Field(g, x.node, col.path[1])
    BY <1>3 DEF Cell, IsCount, IsRoot, Hops
  <2> QED  BY <2>1, <2>2
<1>4. CASE IsCount(col)
  <2>1. Cell(g, r, cr, b, k) = Cardinality(HopsFrom(g, b.node, e.name, ReportDirection(r.entity, e)))
    BY <1>1, <1>4 DEF Cell, IsCount, IsRoot, Hops
  <2>2. Cell(g, r, cr0, x, k) = Cardinality(HopsFrom(g, x.node, e.name, ReportDirection(r.entity, e)))
    BY <1>4 DEF Cell, IsCount, IsRoot, Hops
  <2> QED  BY <2>1, <2>2
<1>5. CASE ~IsRoot(col) /\ ~IsCount(col)
  <2>0. Hops(col)
    BY <1>5 DEF Hops
  <2> DEFINE Of(h, dir) == IF h = NoHop THEN Null
                           ELSE IF IsEdge(col) THEN Prop(h.props, col.path[3])
                           ELSE Prop(g.nodes[FarEnd(h, dir)].props, Last(col.path))
  <2>1. Cell(g, r, cr, b, k) = Of(b.hops[c.hop], cr.st.clauses[c.hop].dir)
    <3>1. CASE b.hops[c.hop] = NoHop
      BY <1>1, <1>5, <2>0, <3>1 DEF Cell
    <3>2. CASE b.hops[c.hop] # NoHop
      BY <1>1, <1>5, <2>0, <3>2 DEF Cell
    <3> QED  BY <3>1, <3>2
  <2>2. Cell(g, r, cr0, x, k) = Of(x.hops[d.hop], cr0.st.clauses[d.hop].dir)
    <3>1. CASE x.hops[d.hop] = NoHop
      BY <1>5, <2>0, <3>1 DEF Cell
    <3>2. CASE x.hops[d.hop] # NoHop
      BY <1>5, <2>0, <3>2 DEF Cell
    <3> QED  BY <3>1, <3>2
  <2> HIDE DEF Of
  <2> QED  BY <1>2, <2>0, <2>1, <2>2
<1> QED  BY <1>3, <1>4, <1>5

LEMMA RowsBeside ==
  ASSUME NEW F, NEW cr, NEW cr0, Beside(F, cr, cr0), NEW g, NEW r, NEW b, NEW x,
         \A k \in 1..Len(cr0.cols) : Cell(g, r, cr, b, k) = Cell(g, r, cr0, x, k)
  PROVE  Row(g, r, cr, b) = Row(g, r, cr0, x)
<1>1. DOMAIN cr.cols = 1..Len(cr0.cols) /\ DOMAIN cr0.cols = 1..Len(cr0.cols)
  <2>1. cr.cols \in Seq(Range(cr.cols)) /\ cr0.cols \in Seq(Range(cr0.cols)) /\ Len(cr.cols) = Len(cr0.cols)
    BY DEF Beside, ColsBeside
  <2> QED  BY <2>1, LenProperties
<1>2. \A k \in 1..Len(cr0.cols) : cr.cols[k].header = cr0.cols[k].header
  BY DEF Beside, ColsBeside, ColumnBeside
<1> DEFINE line == HeaderLine(cr0)
<1>3. HeaderLine(cr) = line /\ DOMAIN line = 1..Len(cr0.cols)
  BY <1>1, <1>2 DEF HeaderLine
<1> HIDE DEF line
<1>4. \A h \in Range(line) : ColumnUnder(line, h) \in 1..Len(cr0.cols)
  BY <1>3 DEF Range, ColumnUnder
<1>5. Row(g, r, cr, b) = [h \in Range(line) |-> Cell(g, r, cr, b, ColumnUnder(line, h))]
  BY <1>3 DEF Row, Headers
<1>6. Row(g, r, cr0, x) = [h \in Range(line) |-> Cell(g, r, cr0, x, ColumnUnder(line, h))]
  BY DEF Row, Headers, line
<1>7. \A h \in Range(line) : Cell(g, r, cr, b, ColumnUnder(line, h)) = Cell(g, r, cr0, x, ColumnUnder(line, h))
  BY <1>4
<1> QED  BY <1>5, <1>6, <1>7

IsReport(r) ==
  /\ r.cols \in Seq(Range(r.cols)) /\ {"entity", "conds", "cols", "mode"} \subseteq DOMAIN r
  /\ \A col \in Range(r.cols) : NeverOptional(r.mode, col)
\* The clauses of a report with such columns are not optional.
LEMMA ReportClauses ==
  ASSUME NEW r, IsReport(r), Sound(r.entity, r.conds)
  PROVE  LET cls == ResolveColumns(r).st.clauses
         IN Len(cls) \in Nat /\ \A j \in 1..Len(cls) : ~cls[j].optional
<1> DEFINE F == CompileFilters(r.entity, r.conds)
           cr == ResolveColumns(r)
           cr0 == ResolveColumns(Bare(r))
           cls == cr.st.clauses
           cls0 == cr0.st.clauses
           m == Len(F.clauses)
           n == Len(cls0)
<1>1. Beside(F, cr, cr0)
  BY ColumnsBeside DEF IsReport
<1>2. Compiled(r.entity, r.conds, Len(r.conds), F)
  BY AllCompiled
<1> HIDE DEF F, cr, cr0
<1>3. /\ cls0 \in Seq(Range(cls0)) /\ Len(cls) = m + n
      /\ \A j \in 1..m : cls[j] = F.clauses[j]
      /\ \A j \in 1..n : cls[m + j] = cls0[j] /\ ~cls0[j].optional
  BY <1>1 DEF Beside, ClausesBeside
<1>4. m \in Nat /\ n \in Nat
  <2>1. F.clauses \in Seq(ClausesFor(r.entity, r.conds))
    BY <1>2 DEF Compiled
  <2> QED  BY <1>3, <2>1, LenProperties
<1>5. \A j \in 1..m : ~F.clauses[j].optional
  <2>1. F.clauses \in Seq(ClausesFor(r.entity, r.conds))
    BY <1>2 DEF Compiled
  <2>2. \A j \in 1..m : F.clauses[j] \in ClausesFor(r.entity, r.conds)
    BY <2>1, ElementOfSeq
  <2>3. \A cl \in ClausesFor(r.entity, r.conds) : ~cl.optional
    BY DEF ClausesFor, Clause
  <2> QED  BY <2>2, <2>3
<1> HIDE DEF m, n, cls, cls0
<1>6. \A j \in 1..(m + n) : ~cls[j].optional
  <2> TAKE j \in 1..(m + n)
  <2>1. CASE j <= m
    <3>1. j \in 1..m
      BY <1>4, <2>1
    <3> QED  BY <1>3, <1>5, <3>1
  <2>2. CASE j > m
    <3>1. j - m \in 1..n /\ m + (j - m) = j
      BY <1>4, <2>2
    <3>2. cls[m + (j - m)] = cls0[j - m] /\ ~cls0[j - m].optional
      BY <1>3, <3>1
    <3> QED  BY <3>1, <3>2
  <2> QED  BY <1>4, <2>1, <2>2
<1>7. Len(cls) \in Nat
  BY <1>3, <1>4
<1> QED  BY <1>3, <1>6, <1>7 DEF cls, cr

\* Each row of a filtered report is one of the report without filters, of a node
\* that the filters mean.
LEMMA RowIsMeant ==
  ASSUME NEW g, NEW r, IsReport(r), Sound(r.entity, r.conds), ResolveColumns(r).st.bound,
         NEW b \in Bindings(g, r.entity, ResolveColumns(r).st)
  PROVE  \E x \in Bindings(g, r.entity, ResolveColumns(Bare(r)).st) :
           /\ x.node \in Meant(g, r.entity, r.conds)
           /\ Row(g, r, ResolveColumns(r), b) = Row(g, r, ResolveColumns(Bare(r)), x)
<1> DEFINE F == CompileFilters(r.entity, r.conds)
           cr == ResolveColumns(r)
           cr0 == ResolveColumns(Bare(r))
           cls == cr.st.clauses
           cls0 == cr0.st.clauses
           m == Len(F.clauses)
           n == Len(cls0)
<1>1. Beside(F, cr, cr0)
  BY ColumnsBeside DEF IsReport
<1>2. Compiled(r.entity, r.conds, Len(r.conds), F)
  BY AllCompiled
<1> HIDE DEF F, cr, cr0
<1>3. /\ cls0 \in Seq(Range(cls0)) /\ Len(cls) = m + n
      /\ \A j \in 1..m : cls[j] = F.clauses[j]
      /\ \A j \in 1..n : cls[m + j] = cls0[j] /\ ~cls0[j].optional
  BY <1>1 DEF Beside, ClausesBeside
<1>4. m \in Nat /\ n \in Nat
  <2>1. F.clauses \in Seq(ClausesFor(r.entity, r.conds))
    BY <1>2 DEF Compiled
  <2> QED  BY <1>3, <2>1, LenProperties
<1>6. cr.st.preds = F.preds /\ cr0.st.preds = <<>> /\ cr.st.bound = F.bound
  BY <1>1 DEF Beside
<1> HIDE DEF m, n, cls, cls0
<1>7. \A j \in 1..(m + n) : ~cls[j].optional
  BY <1>3, ReportClauses DEF cls, cr
<1>8. IsAlong(g, r.entity, cls, m + n, b) /\ Where(g, cr.st, b)
  <2>1. Len(cr.st.clauses) \in Nat /\ \A j \in 1..Len(cr.st.clauses) : ~cr.st.clauses[j].optional
    BY <1>3, <1>4, <1>7 DEF cls
  <2>2. b \in Bindings(g, r.entity, cr.st) <=> IsAlong(g, r.entity, cr.st.clauses, Len(cr.st.clauses), b) /\ Where(g, cr.st, b)
    BY <2>1, BindingsAre
  <2> QED  BY <1>3, <2>2 DEF cr, cls
<1>9. PICK o \in NodesOf(g, r.entity) : \E h \in Walks(g, o, cls, m + n) : b = [node |-> o, hops |-> h]
  BY <1>8 DEF IsAlong
<1>10. PICK h \in Walks(g, o, cls, m + n) : b = [node |-> o, hops |-> h]
  BY <1>9
<1>11. /\ h \in [1..(m + n) -> g.edges] /\ \A j \in 1..(m + n) : h[j] \in Matched(g, o, cls[j])
       /\ b.node = o /\ b.hops = h
  BY <1>10 DEF Walks
<1>12. \A j \in 1..m : j \in 1..(m + n) /\ h[j] \in Matched(g, o, F.clauses[j])
  <2> TAKE j \in 1..m
  <2>1. j \in 1..(m + n)
    BY <1>4
  <2> QED  BY <1>3, <1>11, <2>1
<1>13. o \in Meant(g, r.entity, r.conds)
  <2>1. F.bound
    BY <1>6 DEF cr
  <2>2. /\ F = CompileFilters(r.entity, r.conds)
        /\ \A j \in 1..Len(F.clauses) : cr.st.clauses[j] = F.clauses[j]
        /\ \A j \in 1..Len(F.clauses) : b.hops[j] \in Matched(g, b.node, F.clauses[j])
    BY <1>3, <1>11, <1>12 DEF F, m, cls
  <2>3. Where(g, cr.st, b) <=> AllFulfilled(g, b.node, r.entity, r.conds, F, b.hops)
    BY <1>6, <2>1, <2>2, WhereIsFulfilled
  <2>4. AllFulfilled(g, o, r.entity, r.conds, F, h) /\ \A j \in 1..Len(F.clauses) : h[j] \in Matched(g, o, F.clauses[j])
    BY <1>8, <1>11, <1>12, <2>3 DEF m
  <2> QED  BY <2>1, <2>2, <2>4, WalkIsMeant
<1> DEFINE h0 == [j \in 1..n |-> h[m + j]]
           x == [node |-> o, hops |-> h0]
<1>14. \A j \in 1..n : m + j \in 1..(m + n)
  BY <1>4
<1>15. h0 \in Walks(g, o, cls0, n)
  <2>1. h0 \in [1..n -> g.edges]
    BY <1>11, <1>14
  <2>2. \A j \in 1..n : h0[j] \in Matched(g, o, cls0[j])
    BY <1>3, <1>11, <1>14
  <2> HIDE DEF h0
  <2> QED  BY <2>1, <2>2 DEF Walks
<1>16. x.node = o /\ \A j \in 1..n : b.hops[m + j] = x.hops[j]
  BY <1>11
<1> HIDE DEF h0
<1>17. IsAlong(g, r.entity, cls0, n, x)
  BY <1>15 DEF IsAlong
<1> HIDE DEF x
<1>18. x \in Bindings(g, r.entity, cr0.st)
  <2>1. Where(g, cr0.st, x)
    <3>1. DOMAIN <<>> = {}
      OBVIOUS
    <3> QED  BY <1>6, <3>1 DEF Where
  <2>2. Len(cr0.st.clauses) = n /\ Len(cr0.st.clauses) \in Nat /\ \A j \in 1..Len(cr0.st.clauses) : ~cr0.st.clauses[j].optional
    BY <1>3, <1>4 DEF n, cls0
  <2>3. x \in Bindings(g, r.entity, cr0.st) <=> IsAlong(g, r.entity, cr0.st.clauses, Len(cr0.st.clauses), x) /\ Where(g, cr0.st, x)
    BY <2>2, BindingsAre
  <2> QED  BY <1>17, <2>1, <2>2, <2>3 DEF cls0
<1>19. Row(g, r, cr, b) = Row(g, r, cr0, x)
  <2>1. \A j \in 1..Len(cr0.st.clauses) : b.hops[Len(F.clauses) + j] = x.hops[j]
    BY <1>16 DEF n, m, cls0
  <2>2. \A k \in 1..Len(cr0.cols) : Cell(g, r, cr, b, k) = Cell(g, r, cr0, x, k)
    <3>1. b.node = x.node
      BY <1>11, <1>16
    <3> TAKE k \in 1..Len(cr0.cols)
    <3> QED  BY <1>1, <2>1, <3>1, CellsBeside
  <2> QED  BY <1>1, <2>2, RowsBeside
<1> QED  BY <1>13, <1>16, <1>18, <1>19 DEF cr, cr0

-----------------------------------------------------------------------------
(* Orders and pages *)

LEMMA FiniteRange ==
  ASSUME NEW f, IsFiniteSet(DOMAIN f), f = [x \in DOMAIN f |-> f[x]]
  PROVE  IsFiniteSet(Range(f)) /\ Cardinality(Range(f)) <= Cardinality(DOMAIN f)
<1>1. f \in Surjection(DOMAIN f, Range(f))
  <2>1. f \in [DOMAIN f -> Range(f)]
    BY DEF Range
  <2>2. \A y \in Range(f) : \E x \in DOMAIN f : f[x] = y
    BY DEF Range
  <2> QED  BY <2>1, <2>2 DEF Surjection
<1> QED  BY <1>1, FS_Surjection

\* Every element that has a key comes once, in the order of the keys.
LEMMA OrdersAre ==
  ASSUME NEW key, NEW desc, IsFiniteSet(DOMAIN key), NEW s \in Orders(key, desc)
  PROVE  /\ s \in Seq(DOMAIN key) /\ Len(s) = Cardinality(DOMAIN key) /\ Range(s) = DOMAIN key
         /\ \A i, j \in 1..Len(s) : i # j => s[i] # s[j]
         /\ \A i, j \in 1..Len(s) : i < j => InOrder(key[s[i]], key[s[j]], desc)
<1> DEFINE S == DOMAIN key
           n == Cardinality(S)
<1>1. n \in Nat
  BY FS_CardinalityType
<1>2. s \in [1..n -> S] /\ \A i, j \in 1..n : i # j => s[i] # s[j]
  BY DEF Orders, SetToSeqs
<1>3. \A i, j \in 1..n : i < j => InOrder(key[s[i]], key[s[j]], desc)
  BY <1>2 DEF Orders
<1>4. s \in Seq(S) /\ Len(s) = n
  <2> HIDE DEF S, n
  <2> QED  BY <1>1, <1>2, SequenceOfLength
<1>5. Range(s) = S
  <2> HIDE DEF S
  <2>1. IsFiniteSet(1..n) /\ Cardinality(1..n) = n
    BY <1>1, FS_Interval
  <2>2. s \in Injection(1..n, S)
    BY <1>2 DEF Injection, IsInjective
  <2>3. s \in Surjection(1..n, S)
    BY <2>1, <2>2, FS_Injection DEF S
  <2> QED  BY <1>2, <2>3 DEF Surjection, Range
<1> QED  BY <1>2, <1>3, <1>4, <1>5

\* A page is a part of what is ordered.
Upto(s, n) == IF n < Len(s) THEN n ELSE Len(s)
LEMMA PageIsPart ==
  ASSUME NEW M, NEW s \in Seq(M), NEW offset \in Nat, NEW limit \in Nat
  PROVE  LET page == Page(s, offset, limit) last == Upto(s, offset + limit)
         IN /\ page \in Seq(M)
            /\ Len(page) = IF offset < last THEN last - offset ELSE 0
            /\ \A i \in 1..Len(page) : offset + i \in 1..Len(s) /\ page[i] = s[offset + i]
<1> DEFINE last == Upto(s, offset + limit)
           page == Page(s, offset, limit)
<1>1. Len(s) \in Nat /\ DOMAIN s = 1..Len(s) /\ last \in Nat /\ last <= Len(s)
  BY LenProperties DEF Upto
<1>2. page = SubSeq(s, offset + 1, last)
  BY DEF Page, Upto
<1> HIDE DEF last, page
<1>3. \A i \in (offset + 1)..last : s[i] \in M
  <2> TAKE i \in (offset + 1)..last
  <2>1. i \in 1..Len(s)
    BY <1>1
  <2> QED  BY <2>1, ElementOfSeq
<1>4. /\ page \in Seq(M) /\ Len(page) = IF offset + 1 <= last THEN last - (offset + 1) + 1 ELSE 0
      /\ \A i \in 1..(last - (offset + 1) + 1) : page[i] = s[(offset + 1) + i - 1]
  <2>1. offset + 1 \in Int /\ last \in Int
    BY <1>1
  <2> QED  BY <1>2, <1>3, <2>1, SubSeqProperties
<1>5. Len(page) = IF offset < last THEN last - offset ELSE 0
  BY <1>1, <1>4
<1>6. \A i \in 1..Len(page) : offset + i \in 1..Len(s) /\ page[i] = s[offset + i]
  <2> TAKE i \in 1..Len(page)
  <2>1. i \in 1..(last - (offset + 1) + 1) /\ (offset + 1) + i - 1 = offset + i /\ offset + i \in 1..Len(s)
    BY <1>1, <1>5
  <2> QED  BY <1>4, <2>1
<1> QED  BY <1>4, <1>5, <1>6 DEF last, page

LEMMA PageWithin ==
  ASSUME NEW M, NEW s \in Seq(M), NEW offset \in Nat, NEW limit \in Nat
  PROVE  Range(Page(s, offset, limit)) \subseteq M
<1> DEFINE page == Page(s, offset, limit)
<1>1. page \in Seq(M)
  BY PageIsPart
<1> HIDE DEF page
<1>2. \A i \in DOMAIN page : page[i] \in M
  BY <1>1, ElementOfSeq, LenProperties
<1> QED  BY <1>2 DEF Range, page

-----------------------------------------------------------------------------
(* Graphs are finite *)

Fine(g) == /\ DOMAIN g = {"nodes", "edges"} /\ IsFiniteSet(g.edges)
           /\ IsFiniteSet(DOMAIN g.nodes) /\ DOMAIN g.nodes \subseteq Nat

LEMMA ChangedFine ==
  ASSUME NEW g, Fine(g), NEW h \in Changed(g)
  PROVE  Fine(h)
<1>1. ASSUME NEW e \in g.edges, h = [g EXCEPT !.edges = @ \ {e}]  PROVE Fine(h)
  <2>1. DOMAIN h = {"nodes", "edges"} /\ h.nodes = g.nodes /\ h.edges = g.edges \ {e}
    BY <1>1 DEF Fine
  <2>2. IsFiniteSet(g.edges \ {e})
    <3>1. g.edges \ {e} \in SUBSET g.edges
      OBVIOUS
    <3> QED  BY <3>1, FS_Subset DEF Fine
  <2> QED  BY <2>1, <2>2 DEF Fine
<1>2. ASSUME NEW n \in DOMAIN g.nodes,
             h = [nodes |-> [m \in DOMAIN g.nodes \ {n} |-> g.nodes[m]], edges |-> {e \in g.edges : n \notin {e.from, e.to}}]
      PROVE  Fine(h)
  <2>1. DOMAIN h = {"nodes", "edges"} /\ DOMAIN h.nodes = DOMAIN g.nodes \ {n} /\ h.edges \in SUBSET g.edges
    BY <1>2
  <2>2. DOMAIN h.nodes \in SUBSET DOMAIN g.nodes
    BY <2>1
  <2> QED  BY <2>1, <2>2, FS_Subset DEF Fine
<1>3. ASSUME NEW w \in NodesPut,
             h = [nodes |-> [m \in DOMAIN g.nodes \union {w.id} |-> IF m = w.id THEN w.node ELSE g.nodes[m]],
                  edges |-> g.edges]
      PROVE  Fine(h)
  <2>1. DOMAIN h = {"nodes", "edges"} /\ DOMAIN h.nodes = DOMAIN g.nodes \union {w.id} /\ h.edges = g.edges
    BY <1>3
  <2>2. IsFiniteSet(DOMAIN g.nodes \union {w.id})
    BY FS_AddElement DEF Fine
  <2>3. w.id \in Nat
    BY GraphAssumption
  <2> QED  BY <2>1, <2>2, <2>3 DEF Fine
<1>4. ASSUME NEW e \in EdgesPut, h = [g EXCEPT !.edges = @ \union {e}]  PROVE Fine(h)
  <2>1. DOMAIN h = {"nodes", "edges"} /\ h.nodes = g.nodes /\ h.edges = g.edges \union {e}
    BY <1>4 DEF Fine
  <2>2. IsFiniteSet(g.edges \union {e})
    BY FS_AddElement DEF Fine
  <2> QED  BY <2>1, <2>2 DEF Fine
<1> QED  BY <1>1, <1>2, <1>3, <1>4 DEF Changed

GraphInv == Fine(graph) /\ \A c \in Clients : Fine(at[c].rows)

LEMMA GraphInit == Init => GraphInv
<1> SUFFICES ASSUME Init PROVE GraphInv
  OBVIOUS
<1>1. graph \in Graphs /\ at = [c \in Clients |-> [rows |-> graph, total |-> graph]]
  BY DEF Init
<1>2. Fine(graph)
  BY <1>1, GraphAssumption DEF Fine
<1> QED  BY <1>1, <1>2 DEF GraphInv

LEMMA GraphStep == ReadInv /\ GraphInv /\ [Next]_vars => GraphInv'
<1> SUFFICES ASSUME ReadInv, GraphInv, [Next]_vars PROVE GraphInv'
  OBVIOUS
<1>1. Fine(graph) /\ \A c \in Clients : Fine(at[c].rows)
  BY DEF GraphInv
<1>2. graph' = graph \/ graph' \in Changed(graph)
  BY DEF vars, Next, Step, Write, Ask, Data, Count, NextPage, Cypher, Load, Run, Save, Raise
<1>3. Fine(graph')
  BY <1>1, <1>2, ChangedFine
<1>4. ASSUME NEW c \in Clients  PROVE at'[c].rows \in {at[c].rows, graph}
  <2>1. CASE UNCHANGED at
    BY <2>1
  <2>2. ASSUME NEW d \in Clients, Data(d), ~UNCHANGED at  PROVE at'[c].rows \in {at[c].rows, graph}
    <3>1. at' = [at EXCEPT ![d].rows = graph]
      BY <2>2 DEF Data
    <3> QED  BY <3>1 DEF ReadInv, HistoryType
  <2>3. ASSUME NEW d \in Clients, Count(d)  PROVE at'[c].rows \in {at[c].rows, graph}
    <3>1. at' = [at EXCEPT ![d].total = graph]
      BY <2>3 DEF Count
    <3> QED  BY <3>1 DEF ReadInv, HistoryType
  <2> QED  BY <2>1, <2>2, <2>3 DEF vars, clientVars, Next, Step, Write, Ask, NextPage, Cypher, Load, Run, Save, Raise
<1>5. \A c \in Clients : Fine(at'[c].rows)
  BY <1>1, <1>4
<1> QED  BY <1>3, <1>5 DEF GraphInv

\* So are the bindings of clauses that are not optional.
LEMMA FiniteBindings ==
  ASSUME NEW g, Fine(g), NEW type, NEW st, Len(st.clauses) \in Nat, \A j \in 1..Len(st.clauses) : ~st.clauses[j].optional
  PROVE  IsFiniteSet(Bindings(g, type, st))
<1> DEFINE m == Len(st.clauses)
           cls == st.clauses
<1>1. PICK f : /\ f[0] = {[node |-> n, hops |-> <<>>] : n \in NodesOf(g, type)}
               /\ \A i \in 1..m : f[i] = UNION {Extended(g, st, x, i, cls[i]) : x \in f[i - 1]}
               /\ Bindings(g, type, st) = {x \in f[m] : EndsOptional(cls) \/ Where(g, st, x)}
  BY BindingSteps
<1>2. \A i \in 1..m : \A x : Extended(g, st, x, i, cls[i]) = {[x EXCEPT !.hops = Append(x.hops, e)] : e \in Matched(g, x.node, cls[i])}
  BY DEF Extended
<1>3. ASSUME NEW i \in 1..m, NEW x  PROVE IsFiniteSet(Extended(g, st, x, i, cls[i]))
  <2> DEFINE E == Matched(g, x.node, cls[i])
             Longer(e) == [x EXCEPT !.hops = Append(x.hops, e)]
             ext == [e \in E |-> Longer(e)]
  <2>1. E \in SUBSET g.edges
    BY DEF Matched, HopsFrom
  <2>2. IsFiniteSet(E)
    BY <2>1, FS_Subset DEF Fine
  <2>3. Extended(g, st, x, i, cls[i]) = {Longer(e) : e \in E}
    BY <1>2
  <2> HIDE DEF Longer
  <2>4. Range(ext) = {Longer(e) : e \in E} /\ DOMAIN ext = E /\ ext = [e \in DOMAIN ext |-> ext[e]]
    BY DEF Range
  <2> HIDE DEF ext, E
  <2> QED  BY <2>2, <2>3, <2>4, FiniteRange
<1> HIDE DEF m, cls
<1> DEFINE K == {k \in 0..m : IsFiniteSet(f[k])}
<1>4. m \in Nat
  BY DEF m
<1>5. 0 \in K
  <2> DEFINE N == NodesOf(g, type)
             start == [n \in N |-> [node |-> n, hops |-> <<>>]]
  <2>1. N \in SUBSET DOMAIN g.nodes
    BY DEF NodesOf
  <2>2. IsFiniteSet(N)
    BY <2>1, FS_Subset DEF Fine
  <2>3. f[0] = Range(start) /\ DOMAIN start = N /\ start = [n \in DOMAIN start |-> start[n]]
    BY <1>1 DEF Range
  <2> HIDE DEF start, N
  <2>4. IsFiniteSet(f[0])
    BY <2>2, <2>3, FiniteRange
  <2> QED  BY <1>4, <2>4
<1>6. ASSUME NEW k \in 0..(m - 1), k \in K  PROVE k + 1 \in K
  <2>1. k + 1 \in 1..m /\ (k + 1) - 1 = k /\ k + 1 \in 0..m /\ IsFiniteSet(f[k])
    BY <1>4, <1>6
  <2> DEFINE more == [x \in f[k] |-> Extended(g, st, x, k + 1, cls[k + 1])]
  <2>2. f[k + 1] = UNION Range(more)
    <3>1. f[k + 1] = UNION {Extended(g, st, x, k + 1, cls[k + 1]) : x \in f[k]}
      BY <1>1, <2>1
    <3> QED  BY <3>1 DEF Range
  <2>3. DOMAIN more = f[k] /\ more = [x \in DOMAIN more |-> more[x]]
    OBVIOUS
  <2>4. \A T \in Range(more) : IsFiniteSet(T)
    BY <1>3, <2>1 DEF Range
  <2> HIDE DEF more
  <2>5. IsFiniteSet(Range(more))
    BY <2>1, <2>3, FiniteRange
  <2>6. IsFiniteSet(f[k + 1])
    BY <2>2, <2>4, <2>5, FS_UNION
  <2> QED  BY <2>1, <2>6
<1> HIDE DEF K
<1>7. m \in K
  <2>1. \A k \in 0..m : k \in K
    BY <1>4, <1>5, <1>6, UpToAll
  <2> QED  BY <1>4, <2>1
<1>8. IsFiniteSet(f[m]) /\ Bindings(g, type, st) \in SUBSET f[m]
  BY <1>1, <1>7 DEF K
<1> QED  BY <1>8, FS_Subset

-----------------------------------------------------------------------------
(* The rows of reports *)

\* The rows that a report answers are rows of bindings.
LEMMA RowsOfBindings ==
  ASSUME NEW g, NEW r, NEW cr, NEW bs, IsFiniteSet(bs), r.offset \in Nat, RowLimit(r) \in Nat,
         NEW page \in RowAnswers(g, r, cr, bs)
  PROVE  Range(page) \subseteq {Row(g, r, cr, b) : b \in bs}
<1> DEFINE Of(b) == Row(g, r, cr, b)
           M == {Of(b) : b \in bs}
<1>1. CASE Expands(cr)
  <2> DEFINE key == [b \in bs |-> Of(b)[OrderHeader(r, cr)]]
  <2>1. PICK s \in Orders(key, Descending(r)) : page = PageOf(r, [i \in DOMAIN s |-> Of(s[i])])
    BY <1>1 DEF RowAnswers
  <2>2. DOMAIN key = bs
    OBVIOUS
  <2> HIDE DEF key, Of
  <2>3. s \in Seq(bs)
    BY <2>2, OrdersAre
  <2> DEFINE n == Len(s)
             t == [i \in DOMAIN s |-> Of(s[i])]
  <2>4. n \in Nat /\ DOMAIN s = 1..n /\ \A i \in 1..n : s[i] \in bs
    BY <2>3, LenProperties, ElementOfSeq
  <2>5. t \in [1..n -> M]
    BY <2>4
  <2> HIDE DEF t, n, M
  <2>6. t \in Seq(M)
    BY <2>4, <2>5, SequenceOfLength
  <2>7. Range(Page(t, r.offset, RowLimit(r))) \subseteq M
    BY <2>6, PageWithin
  <2> QED  BY <2>1, <2>7 DEF PageOf, t, M, Of
<1>2. CASE ~Expands(cr)
  <2> DEFINE key == KeyOf(M, OrderHeader(r, cr))
             image == [b \in bs |-> Of(b)]
  <2>1. PICK s \in Orders(key, Descending(r)) : page = PageOf(r, s)
    BY <1>2 DEF RowAnswers
  <2>2. DOMAIN key = M
    BY DEF KeyOf
  <2>3. M = Range(image) /\ DOMAIN image = bs /\ image = [b \in DOMAIN image |-> image[b]]
    BY DEF Range
  <2> HIDE DEF key, image, M
  <2>4. IsFiniteSet(M)
    BY <2>3, FiniteRange
  <2>5. s \in Seq(M)
    BY <2>2, <2>4, OrdersAre
  <2>6. Range(Page(s, r.offset, RowLimit(r))) \subseteq M
    BY <2>5, PageWithin
  <2> QED  BY <2>1, <2>6 DEF PageOf, M
<1> QED  BY <1>1, <1>2

\* What is known of a report that was read.
LEMMA ReportRead ==
  ASSUME QueriesInv, ReadInv, NEW c \in Clients, cmd[c].kind \in ReportKinds, HasRead(c)
  PROVE  LET r == ast[c]
         IN /\ {"entity", "conds", "cols", "mode"} \subseteq DOMAIN r
            /\ r.conds \in Seq(Range(r.conds)) /\ r.cols \in Seq(Range(r.cols))
            /\ r.offset \in Nat /\ RowLimit(r) \in Nat
            /\ ReportValid(r) /\ ReportRuns(r) /\ rows[c] \in ReportAnswers(at[c].rows, r)
<1> DEFINE q == cmd[c].report
           r == ast[c]
<1>1. Asks(c) /\ pc[c] # "idle"
  BY DEF Asks, HasRead
<1>2. cmd[c] # NoCommand /\ cmd \in Scenarios
  BY <1>1 DEF QueriesInv
<1>3. /\ {"entity", "conds", "cols", "mode", "limit", "offset", "maxRows"} \subseteq DOMAIN q
      /\ q.limit \in Nat /\ q.offset \in Nat /\ q.maxRows \in Nat
      /\ q.conds \in Seq(Range(q.conds)) /\ q.cols \in Seq(Range(q.cols))
  BY <1>2, CommandAssumption
<1>4. ReportValid(q) /\ r = Parsed(cmd[c])
  BY <1>1 DEF ReadInv, IsAsked
<1>5. r = q \/ r = Export(q)
  BY <1>4 DEF Parsed, ReportKinds, QueryKinds
<1>6. CanRun(cmd[c], r) /\ rows[c] \in Answers(at[c].rows, cmd[c], r)
  BY <1>1 DEF ReadInv, IsRead
<1>7. ReportRuns(r) /\ rows[c] \in ReportAnswers(at[c].rows, r)
  BY <1>6 DEF CanRun, Answers, QueryKinds, ReportKinds
<1> HIDE DEF q, r
<1>8. /\ DOMAIN r = DOMAIN q /\ r.entity = q.entity /\ r.conds = q.conds /\ r.cols = q.cols /\ r.mode = q.mode
      /\ r.limit \in Nat /\ r.offset \in Nat /\ r.maxRows \in Nat
  <2>1. CASE r = q
    BY <1>3, <2>1
  <2>2. CASE r = Export(q)
    <3>1. /\ DOMAIN r = DOMAIN q /\ r.limit = q.maxRows /\ r.offset = 0
          /\ \A f \in DOMAIN q \ {"limit", "offset"} : r[f] = q[f]
      BY <1>3, <2>2 DEF Export
    <3>2. r.entity = q.entity /\ r.conds = q.conds /\ r.cols = q.cols /\ r.mode = q.mode /\ r.maxRows = q.maxRows
      BY <1>3, <3>1
    <3> QED  BY <1>3, <3>1, <3>2
  <2> QED  BY <1>5, <2>1, <2>2
<1>9. RowLimit(r) \in Nat
  BY <1>8 DEF RowLimit
<1>10. ReportValid(r)
  BY <1>4, <1>8 DEF ReportValid
<1> QED  BY <1>3, <1>7, <1>8, <1>9, <1>10 DEF r

LEMMA ReportsAreFiltered == QueriesInv /\ ReadInv /\ GraphInv => ReportsFiltered
<1> SUFFICES ASSUME QueriesInv, ReadInv, GraphInv, NEW c \in Clients, Answered(c, ReportKinds), ast[c].mode # "aggregate",
                    OneKindPerPath(ast[c].entity, ast[c].conds),
                    ast[c].mode = "expanded" \/ \A col \in Range(ast[c].cols) : IsEdge(col) \/ ~Hops(col)
             PROVE  RowsFiltered(c)
  BY DEF ReportsFiltered
<1> DEFINE r == ast[c]
           g == at[c].rows
           cr == ResolveColumns(r)
           bs == Bindings(g, r.entity, cr.st)
<1>1. /\ {"entity", "conds", "cols", "mode"} \subseteq DOMAIN r
      /\ r.conds \in Seq(Range(r.conds)) /\ r.cols \in Seq(Range(r.cols))
      /\ r.offset \in Nat /\ RowLimit(r) \in Nat
      /\ ReportValid(r) /\ ReportRuns(r) /\ rows[c] \in ReportAnswers(g, r)
  <2>1. cmd[c].kind \in ReportKinds /\ HasRead(c)
    BY DEF Answered, HasRead
  <2> QED  BY <2>1, ReportRead
<1>2. Fine(g)
  BY DEF GraphInv
<1>3. IsReport(r)
  BY <1>1 DEF IsReport, NeverOptional
<1>4. Sound(r.entity, r.conds)
  <2>1. CASE r.conds = <<>>
    <3>1. Range(r.conds) = {}
      BY <2>1 DEF Range
    <3> QED  BY <1>1, <3>1 DEF Sound
  <2>2. CASE r.conds # <<>>
    <3>1. \A x \in Range(r.conds) : Resolve(r.entity, x).ok
      BY <1>1, <2>2 DEF ReportValid, Valid
    <3> QED  BY <1>1, <3>1 DEF Sound
  <2> QED  BY <2>1, <2>2
<1>5. cr.st.bound
  BY <1>1 DEF ReportRuns, RunsCompiled
<1>6. rows[c] \in RowAnswers(g, r, cr, bs)
  BY <1>1 DEF ReportAnswers, CompiledAnswers
<1>7. IsFiniteSet(bs)
  BY <1>2, <1>3, <1>4, ReportClauses, FiniteBindings
<1>8. Range(rows[c]) \subseteq {Row(g, r, cr, b) : b \in bs}
  BY <1>1, <1>6, <1>7, RowsOfBindings
<1> DEFINE meant == Meant(g, r.entity, r.conds)
           cr0 == ResolveColumns(Bare(r))
           bare == Bindings(g, r.entity, cr0.st)
<1>9. \A b \in bs : \E x \in bare : x.node \in meant /\ Row(g, r, cr, b) = Row(g, r, cr0, x)
  BY <1>3, <1>4, <1>5, RowIsMeant
<1>10. RowsFiltered(c) <=> Range(rows[c]) \subseteq {Row(g, r, cr0, b) : b \in {x \in bare : x.node \in meant}}
  BY DEF RowsFiltered, RowsFrom, Bare
<1> HIDE DEF r, g, cr, cr0, bs, bare, meant
<1> QED  BY <1>8, <1>9, <1>10

\* Whatever the schema, the commands and the writes of others: the rows of an
\* answered query are a page of the nodes that its conditions mean, in the order
\* asked for and each once, as the graph was when they were read, its total is the
\* number of such nodes when that was read (compiler.py:78, validator.py:84), and
\* the rows of a report without optional columns come from nodes that fulfil its
\* filters (report_compiler.py:75).
THEOREM RowsAreTrue == Spec => []RowsTrue
<1> DEFINE Inv == QueriesInv /\ ReadInv /\ GraphInv
<1>1. Init => Inv
  BY InvInit, ReadInit, GraphInit
<1>2. Inv /\ [Next]_vars => Inv'
  BY InvStep, ReadStep, GraphStep
<1>3. Inv => RowsTrue
  BY AnswersAreMeant, ReportsAreFiltered DEF RowsTrue
<1> QED  BY <1>1, <1>2, <1>3, PTL DEF Spec

-----------------------------------------------------------------------------
(* Page after page *)

\* The rows of the nodes that a query means, and their orders by id.
Entries(g, q) == {Project(g, n, q.fields) : n \in Meant(g, q.entity, q.conds)}
ById(g, q) == Orders(KeyOf(Entries(g, q), "id"), FALSE)

LEMMA EntriesFinite ==
  ASSUME NEW g, Fine(g), NEW q
  PROVE  IsFiniteSet(Entries(g, q)) /\ Meant(g, q.entity, q.conds) \subseteq Nat
<1> DEFINE meant == Meant(g, q.entity, q.conds)
           entry == [n \in meant |-> Project(g, n, q.fields)]
<1>1. meant \in SUBSET DOMAIN g.nodes
  BY DEF Meant, NodesOf
<1>2. IsFiniteSet(meant) /\ meant \subseteq Nat
  BY <1>1, FS_Subset DEF Fine
<1>3. Entries(g, q) = Range(entry) /\ DOMAIN entry = meant /\ entry = [n \in DOMAIN entry |-> entry[n]]
  BY DEF Entries, Range
<1> HIDE DEF entry, meant
<1>4. IsFiniteSet(Entries(g, q))
  BY <1>2, <1>3, FiniteRange
<1> QED  BY <1>2, <1>4 DEF meant

\* They come once each, in the order of their ids.
LEMMA ByIdIs ==
  ASSUME NEW g, Fine(g), NEW q, NEW s \in ById(g, q)
  PROVE  /\ s \in Seq(Entries(g, q)) /\ Range(s) = Entries(g, q) /\ Len(s) = Cardinality(Entries(g, q))
         /\ "id" \in Range(q.fields) =>
              /\ {row.id : row \in Range(s)} = Meant(g, q.entity, q.conds)
              /\ \A i \in 1..Len(s) : s[i].id \in Nat
              /\ \A i, j \in 1..Len(s) : i < j => s[i].id < s[j].id
<1> DEFINE E == Entries(g, q)
           meant == Meant(g, q.entity, q.conds)
           key == KeyOf(E, "id")
<1>1. IsFiniteSet(E) /\ meant \subseteq Nat
  BY EntriesFinite
<1>2. DOMAIN key = E /\ \A e \in E : key[e] = e.id
  BY DEF KeyOf
<1>3. s \in Orders(key, FALSE)
  BY DEF ById
<1>4. /\ s \in Seq(E) /\ Range(s) = E /\ Len(s) = Cardinality(E)
      /\ \A i, j \in 1..Len(s) : i # j => s[i] # s[j]
      /\ \A i, j \in 1..Len(s) : i < j => InOrder(key[s[i]], key[s[j]], FALSE)
  <2> HIDE DEF key, E
  <2>1. IsFiniteSet(DOMAIN key)
    BY <1>1, <1>2
  <2>2. /\ s \in Seq(DOMAIN key) /\ Len(s) = Cardinality(DOMAIN key) /\ Range(s) = DOMAIN key
        /\ \A i, j \in 1..Len(s) : i # j => s[i] # s[j]
        /\ \A i, j \in 1..Len(s) : i < j => InOrder(key[s[i]], key[s[j]], FALSE)
    BY <1>3, <2>1, OrdersAre, Zenon
  <2>3. DOMAIN key = E
    BY <1>2
  <2> QED  BY <2>2, <2>3, Zenon
<1>5. ASSUME "id" \in Range(q.fields)
      PROVE  /\ {row.id : row \in Range(s)} = meant
             /\ \A i \in 1..Len(s) : s[i].id \in Nat
             /\ \A i, j \in 1..Len(s) : i < j => s[i].id < s[j].id
  <2> DEFINE P(n) == Project(g, n, q.fields)
  <2>1. \A n : P(n).id = n
    BY <1>5 DEF Project, Field
  <2>2. E = {P(n) : n \in meant}
    BY DEF Entries
  <2> HIDE DEF P, E, meant, key
  <2>3. {row.id : row \in E} = meant
    BY <2>1, <2>2
  <2>4. \A e \in E : e.id \in Nat
    BY <1>1, <2>1, <2>2
  <2>5. \A d, e \in E : d.id = e.id => d = e
    BY <2>1, <2>2
  <2>6. \A i \in 1..Len(s) : s[i] \in E
    BY <1>4, ElementOfSeq
  <2>7. ASSUME NEW i \in 1..Len(s), NEW j \in 1..Len(s), i < j  PROVE s[i].id < s[j].id
    <3>1. s[i] \in E /\ s[j] \in E /\ s[i] # s[j]
      <4>1. i # j
        BY <1>4, <2>7, LenProperties
      <4> QED  BY <1>4, <2>6, <4>1
    <3>2. InOrder(s[i].id, s[j].id, FALSE)
      BY <1>2, <1>4, <2>7, <3>1
    <3>3. s[i].id # s[j].id /\ s[i].id \in Nat /\ s[j].id \in Nat
      BY <2>4, <2>5, <3>1
    <3> QED  BY <3>2, <3>3, GraphAssumption DEF InOrder, Before
  <2> QED  BY <1>4, <2>3, <2>4, <2>6, <2>7
<1> QED  BY <1>4, <1>5

\* Of what has ids there is one order.
LEMMA OneOrder ==
  ASSUME NEW g, Fine(g), NEW q, "id" \in Range(q.fields), NEW s \in ById(g, q), NEW t \in ById(g, q)
  PROVE  s = t
<1> DEFINE E == Entries(g, q)
           n == Len(s)
           Differ == {i \in 1..n : s[i] # t[i]}
<1>1. /\ s \in Seq(E) /\ t \in Seq(E) /\ Range(s) = E /\ Range(t) = E /\ Len(t) = Len(s)
      /\ \A i \in 1..Len(s) : s[i].id \in Nat /\ t[i].id \in Nat
      /\ \A i, j \in 1..Len(s) : i < j => s[i].id < s[j].id /\ t[i].id < t[j].id
  BY ByIdIs
<1> HIDE DEF E
<1>2. n \in Nat /\ DOMAIN s = 1..n /\ DOMAIN t = 1..n
  BY <1>1, LenProperties
<1>3. Differ = {}
  <2> SUFFICES ASSUME Differ # {} PROVE FALSE
    OBVIOUS
  <2>1. PICK i \in Differ : \A j \in Differ : i <= j
    <3>1. Differ \subseteq Nat
      BY <1>2
    <3> HIDE DEF Differ
    <3> QED  BY <3>1, Least
  <2>2. i \in 1..n /\ s[i] # t[i] /\ \A j \in 1..n : j < i => s[j] = t[j]
    BY <1>2, <2>1
  <2>3. PICK j \in 1..n : s[i] = t[j]
    BY <1>1, <1>2, <2>2 DEF Range
  <2>4. PICK k \in 1..n : t[i] = s[k]
    <3>1. t[i] \in Range(t)
      BY <1>2, <2>2 DEF Range
    <3>2. t[i] \in Range(s)
      BY <1>1, <3>1
    <3> HIDE DEF n, Differ
    <3> QED  BY <1>2, <3>2 DEF Range
  <2> HIDE DEF n, Differ
  <2>5. \A x, y \in 1..n : x < y => s[x].id < s[y].id /\ t[x].id < t[y].id
    BY <1>1 DEF n
  <2>6. \A x \in 1..n : s[x].id \in Nat /\ t[x].id \in Nat
    BY <1>1 DEF n
  <2>7. i < j
    <3>1. j # i
      BY <2>2, <2>3
    <3>2. j < i => t[j] = s[j] /\ s[j].id < s[i].id
      BY <2>2, <2>5
    <3> QED  BY <1>2, <2>2, <2>3, <2>6, <3>1, <3>2
  <2>8. i < k
    <3>1. k # i
      BY <2>2, <2>4
    <3>2. k < i => s[k] = t[k] /\ t[k].id < t[i].id
      BY <2>2, <2>5
    <3> QED  BY <1>2, <2>2, <2>4, <2>6, <3>1, <3>2
  <2>9. t[i].id < t[j].id /\ s[i].id < s[k].id
    BY <2>2, <2>5, <2>7, <2>8
  <2> QED  BY <2>2, <2>3, <2>4, <2>6, <2>9
<1>4. \A i \in 1..Len(s) : s[i] = t[i]
  BY <1>3
<1> HIDE DEF n, Differ
<1> QED  BY <1>1, <1>4, SeqEqual

\* What was read before a page, and the page.
LEMMA PagesJoin ==
  ASSUME NEW M, NEW s \in Seq(M), NEW offset \in Nat, NEW limit \in Nat, offset <= Len(s)
  PROVE  SubSeq(s, 1, offset) \o Page(s, offset, limit) = SubSeq(s, 1, Upto(s, offset + limit))
<1> DEFINE last == Upto(s, offset + limit)
           page == Page(s, offset, limit)
           before == SubSeq(s, 1, offset)
           all == SubSeq(s, 1, last)
<1>1. Len(s) \in Nat /\ last \in Nat /\ offset <= last /\ last <= Len(s)
  BY LenProperties DEF Upto
<1>2. /\ page \in Seq(M) /\ Len(page) = IF offset < last THEN last - offset ELSE 0
      /\ \A i \in 1..Len(page) : page[i] = s[offset + i]
  BY PageIsPart
<1> HIDE DEF last, page, before, all
<1>3. \A i \in 1..Len(s) : s[i] \in M
  BY ElementOfSeq
<1>4. ASSUME NEW m \in Nat, m <= Len(s)
      PROVE  /\ SubSeq(s, 1, m) \in Seq(M) /\ Len(SubSeq(s, 1, m)) = m
             /\ \A i \in 1..m : SubSeq(s, 1, m)[i] = s[i]
  <2>1. 1 \in Int /\ m \in Int /\ \A i \in 1..m : s[i] \in M
    BY <1>1, <1>3, <1>4
  <2>2. /\ SubSeq(s, 1, m) \in Seq(M)
        /\ Len(SubSeq(s, 1, m)) = IF 1 <= m THEN m - 1 + 1 ELSE 0
        /\ \A i \in 1..(m - 1 + 1) : SubSeq(s, 1, m)[i] = s[1 + i - 1]
    BY <2>1, SubSeqProperties
  <2>3. m - 1 + 1 = m /\ \A i \in 1..m : 1 + i - 1 = i
    BY <2>1
  <2> QED  BY <1>4, <2>2, <2>3
<1>5. before \in Seq(M) /\ Len(before) = offset /\ \A i \in 1..offset : before[i] = s[i]
  BY <1>4 DEF before
<1>6. all \in Seq(M) /\ Len(all) = last /\ \A i \in 1..last : all[i] = s[i]
  BY <1>1, <1>4 DEF all
<1>7. Len(page) = last - offset
  BY <1>1, <1>2
<1> DEFINE joined == before \o page
<1>8. /\ joined \in Seq(M) /\ Len(joined) = offset + Len(page)
      /\ \A i \in 1..(offset + Len(page)) : joined[i] = IF i <= offset THEN before[i] ELSE page[i - offset]
  <2>1. /\ joined \in Seq(M) /\ Len(joined) = Len(before) + Len(page)
        /\ \A i \in 1..(Len(before) + Len(page)) : joined[i] = IF i <= Len(before) THEN before[i] ELSE page[i - Len(before)]
    BY <1>2, <1>5, ConcatProperties
  <2> HIDE DEF joined
  <2> QED  BY <1>5, <2>1
<1> HIDE DEF joined
<1>9. Len(joined) = last
  BY <1>1, <1>7, <1>8
<1>10. \A i \in 1..last : joined[i] = all[i]
  <2> TAKE i \in 1..last
  <2>1. CASE i <= offset
    <3>1. i \in 1..offset /\ i \in 1..(offset + Len(page))
      BY <1>1, <1>7, <2>1
    <3> QED  BY <1>5, <1>6, <1>8, <2>1, <3>1
  <2>2. CASE ~(i <= offset)
    <3>1. i \in 1..(offset + Len(page)) /\ i - offset \in 1..Len(page) /\ offset + (i - offset) = i
      BY <1>1, <1>7, <2>2
    <3> QED  BY <1>2, <1>6, <1>8, <2>2, <3>1
  <2> QED  BY <2>1, <2>2
<1>11. joined = all
  BY <1>6, <1>8, <1>9, <1>10, SeqEqual
<1> QED  BY <1>11 DEF joined, all, before, page, last

\* A client that reads all the pages, while the graph stays as it is.
Paging(c) ==
  /\ cmd[c].kind = "post" /\ cmd[c].sort = <<>> /\ cmd[c].offset = 0 /\ still[c]
  /\ OneKindPerPath(Parsed(cmd[c]).entity, Parsed(cmd[c]).conds)
\* It has read what is before its page, in every order by id; and has then read
\* its page of one.
IsBefore(c) ==
  LET q == ast[c]
  IN q.offset \in Nat /\ \A s \in ById(graph, q) : q.offset <= Len(s) /\ pages[c] = SubSeq(s, 1, q.offset)
IsPageOf(c, s) ==
  LET q == ast[c]
  IN /\ q.offset <= Len(s) /\ rows[c] = Page(s, q.offset, q.limit)
     /\ pages[c] = SubSeq(s, 1, Upto(s, q.offset + q.limit))
IsPage(c) == ast[c].offset \in Nat /\ \E s \in ById(graph, ast[c]) : IsPageOf(c, s)
IsPaged(c) ==
  Paging(c) => /\ pc[c] = "idle" => pages[c] = <<>>
               /\ pc[c] = "data" => IsBefore(c)
               /\ HasRead(c) => IsPage(c)
PagesInv == still = [c \in Clients |-> still[c]] /\ \A c \in Clients : IsPaged(c)

LEMMA PagesInit == Init => PagesInv
<1> SUFFICES ASSUME Init PROVE PagesInv
  OBVIOUS
<1>1. /\ still = [c \in Clients |-> TRUE] /\ \A c \in Clients : pc[c] = "idle" /\ pages[c] = <<>>
  BY DEF Init
<1> QED  BY <1>1 DEF PagesInv, IsPaged, HasRead

\* What a query by id is made of, whatever its page.
LEMMA PagingQuery ==
  ASSUME QueriesInv, ReadInv, NEW c \in Clients, Paging(c), pc[c] = "data" \/ HasRead(c)
  PROVE  LET q == ast[c] p == Parsed(cmd[c])
         IN /\ q = [p EXCEPT !.offset = q.offset]
            /\ q.entity = p.entity /\ q.conds = p.conds /\ q.fields = p.fields /\ q.limit = p.limit
            /\ q = [entity |-> q.entity, conds |-> q.conds, sort |-> <<>>, limit |-> q.limit, offset |-> q.offset, fields |-> q.fields]
            /\ q.sort = <<>> /\ q.limit \in Nat /\ Sound(q.entity, q.conds)
<1> DEFINE q == ast[c]
           p == Parsed(cmd[c])
           k == cmd[c]
<1>1. Asks(c) /\ pc[c] # "idle" /\ k.kind \in QueryKinds
  BY DEF Paging, HasRead, Asks, QueryKinds
<1>2. k # NoCommand /\ cmd \in Scenarios /\ AsParsed(c) /\ IsAsked(c)
  BY <1>1 DEF QueriesInv, ReadInv
<1>3. k.conds \in Seq(Range(k.conds)) /\ k.far \in Seq(Range(k.far)) /\ k.limit \in Nat
  BY <1>2, CommandAssumption
<1>4. Fits(k, p) /\ Valid(p)
  BY <1>1, <1>2, <1>3, ParsedFits DEF IsAsked
<1>5. q = [p EXCEPT !.offset = q.offset]
  BY <1>1, <1>2 DEF AsParsed
<1>6. /\ p = [entity |-> p.entity, conds |-> p.conds, sort |-> <<>>, limit |-> p.limit, offset |-> p.offset, fields |-> p.fields]
      /\ p.entity = k.entity /\ p.limit = Lesser(k.limit, MaxPage[k.entity])
  BY <1>4 DEF Fits, Paging
<1>7. p.limit \in Nat
  <2>1. k.entity \in Types
    BY <1>4, <1>6 DEF Valid
  <2>2. MaxPage[k.entity] \in Nat
    BY <2>1, SchemaAssumption
  <2> QED  BY <1>3, <1>6, <2>2 DEF Lesser
<1> HIDE DEF p, q, k
<1>8. /\ q.entity = p.entity /\ q.conds = p.conds /\ q.fields = p.fields /\ q.limit = p.limit
      /\ q = [entity |-> q.entity, conds |-> q.conds, sort |-> <<>>, limit |-> q.limit, offset |-> q.offset, fields |-> q.fields]
  BY <1>5, <1>6
<1>9. Sound(q.entity, q.conds)
  <2>1. OneKindPerPath(q.entity, q.conds)
    BY <1>8 DEF Paging, p
  <2> QED  BY <1>1, <2>1, AskedIsSound DEF q, k
<1>10. q.sort = <<>>
  BY <1>8
<1> QED  BY <1>5, <1>7, <1>8, <1>9, <1>10 DEF p, q

\* The pages it may be answered are those of the orders by id.
LEMMA PagingAnswers ==
  ASSUME QueriesInv, ReadInv, NEW c \in Clients, Paging(c), pc[c] = "data" \/ HasRead(c), CanRun(cmd[c], ast[c])
  PROVE  /\ "id" \in Range(ast[c].fields)
         /\ \A g : \A page \in Answers(g, cmd[c], ast[c]) :
              \E s \in ById(g, ast[c]) : page = Page(s, ast[c].offset, ast[c].limit)
<1> DEFINE q == ast[c]
<1>1. q.sort = <<>> /\ Sound(q.entity, q.conds)
  BY PagingQuery
<1>2. Runs(q)
  BY DEF CanRun, Paging, QueryKinds, ReportKinds
<1>3. SortKey(q) = [field |-> "id", desc |-> FALSE]
  BY <1>1 DEF SortKey
<1>4. "id" \in Range(q.fields) /\ CompileFilters(q.entity, q.conds).bound
  BY <1>2, <1>3 DEF Runs
<1>5. ASSUME NEW g, NEW page \in Answers(g, cmd[c], q)
      PROVE  \E s \in ById(g, q) : page = Page(s, q.offset, q.limit)
  <2>1. page \in DataAnswers(g, q)
    BY <1>5 DEF Answers, Paging, QueryKinds, ReportKinds
  <2>2. {Project(g, b.node, q.fields) : b \in Found(g, q)} = Entries(g, q)
    <3> HIDE DEF q
    <3> DEFINE P(n) == Project(g, n, q.fields)
    <3> HIDE DEF P
    <3>1. {b.node : b \in Found(g, q)} = Meant(g, q.entity, q.conds)
      BY <1>1, <1>4, FoundIsMeant DEF Found
    <3>2. {P(b.node) : b \in Found(g, q)} = {P(n) : n \in Meant(g, q.entity, q.conds)}
      BY <3>1
    <3> QED  BY <3>2 DEF P, Entries
  <2>3. page \in PagesOf(KeyOf(Entries(g, q), "id"), FALSE, q)
    <3> HIDE DEF q
    <3>1. DataAnswers(g, q) = PagesOf(KeyOf(Entries(g, q), SortKey(q).field), SortKey(q).desc, q)
      BY <2>2 DEF DataAnswers
    <3>2. SortKey(q).field = "id" /\ SortKey(q).desc = FALSE
      BY <1>3
    <3> QED  BY <2>1, <3>1, <3>2, Zenon
  <2> QED  BY <2>3 DEF PagesOf, ById
<1> QED  BY <1>4, <1>5

\* What stays, while the graph does, stays read.
LEMMA PagedStays ==
  ASSUME QueriesInv, PagesInv, NEW c \in Clients, cmd' = cmd, Stays(c), Kept(c),
         still'[c] => still[c] /\ (pc[c] = "idle" \/ graph' = graph)
  PROVE  IsPaged(c)'
<1>1. IsPaged(c)
  BY DEF PagesInv
<1>2. Paging(c)' => Paging(c) /\ (pc[c] = "idle" \/ graph' = graph)
  BY DEF Paging
<1>3. CASE pc[c] = "idle"
  BY <1>1, <1>2, <1>3 DEF IsPaged, HasRead, Stays, Kept
<1>4. CASE pc[c] # "idle" /\ Paging(c)'
  <2>1. graph' = graph /\ Paging(c)
    BY <1>2, <1>4
  <2>2. IsBefore(c)' <=> IsBefore(c)
    BY <2>1 DEF IsBefore, Stays, Kept
  <2>3. IsPage(c)' <=> IsPage(c)
    BY <2>1 DEF IsPage, IsPageOf, Stays, Kept
  <2> QED  BY <1>1, <1>4, <2>1, <2>2, <2>3 DEF IsPaged, HasRead, Stays
<1>5. CASE ~Paging(c)'
  BY <1>5 DEF IsPaged
<1> QED  BY <1>3, <1>4, <1>5

\* The next page begins where all the orders agree that the last one ended.
LEMMA NextBefore ==
  ASSUME QueriesInv, ReadInv, GraphInv, NEW c \in Clients, Paging(c), HasRead(c), IsPage(c),
         Len(rows[c]) = ast[c].limit
  PROVE  LET q == ast[c]
         IN \A s \in ById(graph, q) : q.offset + q.limit <= Len(s) /\ pages[c] = SubSeq(s, 1, q.offset + q.limit)
<1> DEFINE q == ast[c]
           end == q.offset + q.limit
<1>1. q.limit \in Nat /\ q.offset \in Nat
  BY PagingQuery DEF IsPage
<1>2. "id" \in Range(q.fields)
  <2>1. CanRun(cmd[c], q)
    BY DEF ReadInv, IsRead, Asks, Paging, QueryKinds
  <2> QED  BY <2>1, PagingAnswers
<1>3. PICK s \in ById(graph, q) : IsPageOf(c, s)
  BY DEF IsPage
<1>4. Fine(graph)
  BY DEF GraphInv
<1>5. \A t \in ById(graph, q) : t = s
  BY <1>2, <1>4, OneOrder
<1>6. s \in Seq(Entries(graph, q))
  BY <1>4, ByIdIs
<1>7. /\ q.offset <= Len(s) /\ rows[c] = Page(s, q.offset, q.limit)
      /\ pages[c] = SubSeq(s, 1, Upto(s, end))
  BY <1>3 DEF IsPageOf
<1> HIDE DEF q
<1>8. Len(s) \in Nat /\ q.limit = IF q.offset < Upto(s, end) THEN Upto(s, end) - q.offset ELSE 0
  <2>1. Len(rows[c]) = q.limit
    BY DEF q
  <2> QED  BY <1>1, <1>6, <1>7, <2>1, PageIsPart, LenProperties
<1>9. end <= Len(s) /\ Upto(s, end) = end
  BY <1>1, <1>7, <1>8 DEF Upto
<1> QED  BY <1>5, <1>7, <1>9 DEF q

LEMMA TurnPages ==
  ASSUME QueriesInv, ReadInv, GraphInv, PagesInv, NEW c \in Clients, Turns(c),
         still'[c] => still[c] /\ (pc[c] = "idle" \/ graph' = graph)
  PROVE  IsPaged(c)'
<1>1. /\ pc \in [Clients -> {"idle", "data", "count", "cypher", "write", "load", "run", "done"}]
      /\ answer \in [Clients -> {"none", "ok", "invalid", "failed", "403", "404"}]
      /\ ast = [q \in Clients |-> ast[q]] /\ HistoryType /\ cmd' = cmd
      /\ IsAsked(c) /\ IsPaged(c) /\ (answer[c] = "none" <=> pc[c] # "done")
  BY OthersStay DEF QueriesInv, TypeOK, ReadInv, PagesInv
<1> SUFFICES ASSUME Paging(c)'
             PROVE  /\ pc'[c] = "idle" => pages'[c] = <<>>
                    /\ pc'[c] = "data" => IsBefore(c)'
                    /\ HasRead(c)' => IsPage(c)'
  BY DEF IsPaged
<1>2. Paging(c) /\ (pc[c] = "idle" \/ graph' = graph) /\ cmd[c].kind = "post" /\ Asks(c)
  BY <1>1 DEF Paging, Asks, QueryKinds
<1>3. Fine(graph)
  BY DEF GraphInv
<1>4. CASE Ask(c)
  <2>1. /\ ast'[c] = Parsed(cmd[c]) /\ pc[c] = "idle" /\ answer[c] = "none" /\ pages' = pages /\ graph' = graph
    BY <1>1, <1>4 DEF Ask
  <2>2. IF Valid(Parsed(cmd[c])) THEN Go(c, "data") ELSE Answer(c, "invalid")
    BY <1>2, <1>4 DEF Ask, QueryKinds, ReportKinds
  <2>3. Go(c, "data") \/ Answer(c, "invalid")
    BY <2>2
  <2>4. Go(c, "data") => pc'[c] = "data" /\ answer'[c] = "none"
    BY <1>1, <2>1 DEF Go
  <2>5. Answer(c, "invalid") => pc'[c] = "done" /\ answer'[c] = "invalid"
    BY <1>1 DEF Answer
  <2>6. pc'[c] # "idle" /\ ~HasRead(c)'
    BY <2>3, <2>4, <2>5 DEF HasRead
  <2>7. IsBefore(c)'
    <3> DEFINE p == Parsed(cmd[c])
    <3>1. p.offset = 0
      BY <1>2 DEF Parsed, Asked, Ast, Paging
    <3>2. pages[c] = <<>>
      BY <1>1, <1>2, <2>1 DEF IsPaged
    <3> HIDE DEF p
    <3>3. \A s \in ById(graph, p) : 0 <= Len(s) /\ <<>> = SubSeq(s, 1, 0)
      <4> TAKE s \in ById(graph, p)
      <4>1. s \in Seq(Entries(graph, p))
        BY <1>3, ByIdIs
      <4> QED  BY <4>1, LenProperties, SubSeqEmpty
    <3>4. ast'[c] = p /\ pages'[c] = <<>> /\ graph' = graph
      BY <2>1, <3>2 DEF p
    <3> QED  BY <3>1, <3>3, <3>4 DEF IsBefore
  <2> QED  BY <2>6, <2>7
<1>5. CASE Data(c)
  <2>1. pc[c] = "data" /\ answer[c] = "none" /\ ast' = ast /\ graph' = graph /\ IsBefore(c)
    BY <1>1, <1>2, <1>5 DEF Data, IsPaged
  <2>2. CASE CanRun(cmd[c], ast[c])
    <3>1. PICK page \in Answers(graph, cmd[c], ast[c]) : rows' = [rows EXCEPT ![c] = page] /\ pages' = [pages EXCEPT ![c] = @ \o page]
      BY <1>5, <2>2, Zenon DEF Data
    <3>2. rows'[c] = page /\ pages'[c] = pages[c] \o page
      BY <1>1, <3>1 DEF HistoryType
    <3>3. IF Counts(cmd[c]) THEN Go(c, "count") ELSE Answer(c, "ok")
      BY <1>5, <2>2 DEF Data
    <3>4. Go(c, "count") => pc'[c] = "count"
      BY <1>1 DEF Go
    <3>5. Answer(c, "ok") => pc'[c] = "done"
      BY <1>1 DEF Answer
    <3>6. pc'[c] \notin {"idle", "data"}
      BY <3>3, <3>4, <3>5
    <3>7. PICK s \in ById(graph, ast[c]) : page = Page(s, ast[c].offset, ast[c].limit)
      BY <1>2, <2>1, <2>2, PagingAnswers
    <3>8. ast[c].limit \in Nat /\ ast[c].offset \in Nat /\ ast[c].offset <= Len(s) /\ pages[c] = SubSeq(s, 1, ast[c].offset)
      BY <1>2, <2>1, PagingQuery DEF IsBefore
    <3>9. pages'[c] = SubSeq(s, 1, Upto(s, ast[c].offset + ast[c].limit))
      <4>1. s \in Seq(Entries(graph, ast[c]))
        BY <1>3, ByIdIs
      <4> DEFINE o == ast[c].offset
                 l == ast[c].limit
      <4>2. o \in Nat /\ l \in Nat /\ o <= Len(s)
        BY <3>8
      <4>3. pages'[c] = SubSeq(s, 1, o) \o Page(s, o, l)
        BY <3>2, <3>7, <3>8
      <4> HIDE DEF o, l
      <4>4. SubSeq(s, 1, o) \o Page(s, o, l) = SubSeq(s, 1, Upto(s, o + l))
        BY <4>1, <4>2, PagesJoin
      <4> QED  BY <4>3, <4>4 DEF o, l
    <3>10. IsPage(c)'
      BY <2>1, <3>2, <3>7, <3>8, <3>9 DEF IsPage, IsPageOf
    <3> QED  BY <3>6, <3>10
  <2>3. CASE ~CanRun(cmd[c], ast[c])
    <3>1. pc'[c] = "done" /\ answer'[c] = "failed"
      BY <1>1, <1>5, <2>3 DEF Data, Answer
    <3> QED  BY <3>1 DEF HasRead
  <2> QED  BY <2>2, <2>3
<1>6. CASE Count(c)
  <2>1. pc[c] = "count" /\ ast' = ast /\ graph' = graph /\ rows' = rows /\ pages' = pages /\ pc'[c] = "done"
    BY <1>1, <1>6 DEF Count, Answer
  <2>2. IsPage(c)
    BY <1>1, <1>2, <2>1 DEF IsPaged, HasRead
  <2>3. IsPage(c)'
    BY <2>1, <2>2 DEF IsPage, IsPageOf
  <2> QED  BY <2>1, <2>3
<1>7. CASE NextPage(c)
  <2>1. /\ pc[c] = "done" /\ answer[c] = "ok" /\ Len(rows[c]) = ast[c].limit /\ graph' = graph /\ pages' = pages
        /\ pc'[c] = "data" /\ ast' = [ast EXCEPT ![c].offset = @ + ast[c].limit]
    BY <1>1, <1>7 DEF NextPage
  <2>2. HasRead(c) /\ IsPage(c)
    BY <1>1, <1>2, <2>1 DEF IsPaged, HasRead
  <2> DEFINE q == ast[c]
             end == q.offset + q.limit
             next == ast'[c]
  <2>3. \A s \in ById(graph, q) : end <= Len(s) /\ pages[c] = SubSeq(s, 1, end)
    BY <1>2, <2>1, <2>2, NextBefore
  <2>4. next = [q EXCEPT !.offset = end]
    BY <1>1, <2>1
  <2>5. q = [entity |-> q.entity, conds |-> q.conds, sort |-> <<>>, limit |-> q.limit, offset |-> q.offset, fields |-> q.fields]
    BY <1>2, <2>2, PagingQuery
  <2>6. end \in Nat
    <3>1. q.limit \in Nat
      BY <1>2, <2>2, PagingQuery
    <3>2. q.offset \in Nat
      BY <2>2 DEF IsPage
    <3> QED  BY <3>1, <3>2
  <2> HIDE DEF next, q, end
  <2>7. next.offset = end /\ next.entity = q.entity /\ next.conds = q.conds /\ next.fields = q.fields
    BY <2>4, <2>5
  <2>8. ById(graph, next) = ById(graph, q)
    BY <2>7 DEF ById, Entries
  <2>9. IsBefore(c)'
    BY <2>1, <2>3, <2>6, <2>7, <2>8 DEF IsBefore, next
  <2> QED  BY <2>1, <2>9 DEF HasRead
<1>8. CASE Raise(c)
  <2>1. pc'[c] = "done" /\ answer'[c] = "failed"
    BY <1>1, <1>8 DEF Raise, Answer
  <2> QED  BY <2>1 DEF HasRead
<1>9. CASE Cypher(c) \/ Load(c) \/ Run(c) \/ Save(c)
  BY <1>1, <1>2, <1>9 DEF Cypher, Load, Run, Save, IsAsked
<1> QED  BY <1>4, <1>5, <1>6, <1>7, <1>8, <1>9 DEF Turns

LEMMA PagesStep == QueriesInv /\ ReadInv /\ GraphInv /\ PagesInv /\ [Next]_vars => PagesInv'
<1> SUFFICES ASSUME QueriesInv, ReadInv, GraphInv, PagesInv, [Next]_vars PROVE PagesInv'
  OBVIOUS
<1>1. CASE UNCHANGED vars
  BY <1>1 DEF vars, clientVars, PagesInv, IsPaged, Paging, HasRead, IsBefore, IsPage, IsPageOf
<1>2. CASE Next
  <2>1. /\ still' = [c \in Clients |-> still'[c]]
        /\ \A c \in Clients : still'[c] => still[c] /\ (pc[c] = "idle" \/ graph' = graph)
    BY <1>2 DEF Next
  <2>2. CASE Write
    <3>1. cmd' = cmd /\ \A c \in Clients : Stays(c) /\ Kept(c)
      BY <2>2 DEF Write, clientVars, Stays, Kept
    <3>2. \A c \in Clients : IsPaged(c)'
      BY <2>1, <3>1, PagedStays
    <3> QED  BY <2>1, <3>2 DEF PagesInv
  <2>3. ASSUME NEW c \in Clients, Turns(c)  PROVE PagesInv'
    <3>1. cmd' = cmd /\ \A q \in Clients : q # c => Stays(q) /\ Kept(q)
      BY <2>3, OthersStay, OthersKept DEF ReadInv
    <3>2. \A q \in Clients : q # c => IsPaged(q)'
      BY <2>1, <3>1, PagedStays
    <3>3. IsPaged(c)'
      BY <2>1, <2>3, TurnPages
    <3> QED  BY <2>1, <3>2, <3>3 DEF PagesInv
  <2> QED  BY <1>2, <2>2, <2>3 DEF Next, Step, Turns
<1> QED  BY <1>1, <1>2

LEMMA PagesAreAll == QueriesInv /\ ReadInv /\ GraphInv /\ PagesInv => PagesComplete
<1> SUFFICES ASSUME QueriesInv, ReadInv, GraphInv, PagesInv, NEW c \in Clients, Answered(c, {"post"}), still[c],
                    cmd[c].sort = <<>>, cmd[c].offset = 0, Len(rows[c]) < ast[c].limit,
                    OneKindPerPath(ast[c].entity, ast[c].conds)
             PROVE  /\ {row.id : row \in Range(pages[c])} = Meant(graph, ast[c].entity, ast[c].conds)
                    /\ \A i, j \in DOMAIN pages[c] : i < j => pages[c][i].id < pages[c][j].id
  BY DEF PagesComplete
<1> DEFINE q == ast[c]
           end == q.offset + q.limit
<1>1. HasRead(c) /\ cmd[c].kind = "post" /\ Asks(c) /\ pc[c] # "idle"
  BY DEF Answered, HasRead, Asks, QueryKinds
<1>2. Paging(c)
  <2>1. AsParsed(c) /\ cmd[c] # NoCommand /\ cmd \in Scenarios
    BY <1>1 DEF QueriesInv
  <2>2. q = [Parsed(cmd[c]) EXCEPT !.offset = q.offset]
    BY <1>1, <2>1 DEF AsParsed, QueryKinds
  <2>3. Parsed(cmd[c]) = Asked(cmd[c])
    BY <1>1 DEF Parsed
  <2>4. q.entity = Parsed(cmd[c]).entity /\ q.conds = Parsed(cmd[c]).conds
    <3> HIDE DEF q
    <3> QED  BY <2>2, <2>3 DEF Asked, Ast
  <2> QED  BY <1>1, <2>4 DEF Paging
<1>3. IsPage(c)
  BY <1>1, <1>2 DEF PagesInv, IsPaged
<1>4. q.limit \in Nat /\ q.offset \in Nat
  BY <1>1, <1>2, <1>3, PagingQuery DEF IsPage
<1>5. "id" \in Range(q.fields)
  <2>1. CanRun(cmd[c], q)
    BY <1>1 DEF ReadInv, IsRead
  <2> QED  BY <1>1, <1>2, <2>1, PagingAnswers
<1>6. PICK s \in ById(graph, q) : IsPageOf(c, s)
  BY <1>3 DEF IsPage
<1>7. Fine(graph)
  BY DEF GraphInv
<1>8. /\ s \in Seq(Entries(graph, q))
      /\ {row.id : row \in Range(s)} = Meant(graph, q.entity, q.conds)
      /\ \A i, j \in 1..Len(s) : i < j => s[i].id < s[j].id
  BY <1>5, <1>7, ByIdIs
<1>9. /\ q.offset <= Len(s) /\ rows[c] = Page(s, q.offset, q.limit) /\ pages[c] = SubSeq(s, 1, Upto(s, end))
      /\ Len(rows[c]) < q.limit
  BY <1>6 DEF IsPageOf
<1> HIDE DEF q
<1>10. Len(s) \in Nat /\ Len(rows[c]) = IF q.offset < Upto(s, end) THEN Upto(s, end) - q.offset ELSE 0
  BY <1>4, <1>8, <1>9, PageIsPart, LenProperties
<1>11. Upto(s, end) = Len(s)
  BY <1>4, <1>9, <1>10 DEF Upto
<1>12. pages[c] = s /\ DOMAIN s = 1..Len(s)
  BY <1>8, <1>9, <1>11, SubSeqFull, LenProperties
<1> QED  BY <1>8, <1>12 DEF q

\* Whatever the schema, the graph and the sizes of pages: a client that reads page
\* after page in the default order, while the graph stays as it is, sees every
\* node that is meant exactly once (compiler.py:494).
THEOREM PagesAreComplete == Spec => []PagesComplete
<1> DEFINE Inv == QueriesInv /\ ReadInv /\ GraphInv /\ PagesInv
<1>1. Init => Inv
  BY InvInit, ReadInit, GraphInit, PagesInit
<1>2. Inv /\ [Next]_vars => Inv'
  BY InvStep, ReadStep, GraphStep, PagesStep
<1>3. Inv => PagesComplete
  BY PagesAreAll
<1> QED  BY <1>1, <1>2, <1>3, PTL DEF Spec
================================================================================
