--------------------------------- MODULE Queries ---------------------------------
(*****************************************************************************)
(* Questions to the graph: POST /query/{type} (routers/nodes.py and          *)
(* executor.py), the query tools of agents (tool_executor.py), reports       *)
(* (routers/reports.py, report_executor.py), and the queries and reports     *)
(* that users save (query_service.py).                                       *)
(*                                                                           *)
(* A question is parsed and validated at once, then its rows and their       *)
(* number are read in two transactions, between which others write.          *)
(*****************************************************************************)
EXTENDS Reports, Permissions, Selection

CONSTANTS
  Clients,
  Scenarios,    \* what the clients are about to ask: client -> command
  Graphs,       \* graphs to begin with
  Queries0,     \* saved queries to begin with: id -> [text, owner]
  Reports0,     \* saved reports to begin with: id -> [owner, visibility]
  NodesPut,     \* what others may write into a node, new or not: set of [id, node]
  EdgesPut,     \* edges that others may create
  MaxWrites     \* bound on writes of others

\* A query or a report that is saved gets a fresh id, here that of its client.
ASSUME QueriesAssumption == MaxWrites \in Nat /\ Clients \intersect DOMAIN Reports0 = {}

VARIABLES
  graph,
  queries,   \* saved queries
  reports,   \* saved reports
  writes,    \* writes of others so far
  pc,
  cmd,
  ast,       \* the query or report that was validated; the text of a saved query
  rows,      \* what was read last
  pages,     \* all the pages a client has read
  total,
  answer,
  at,        \* history: the graphs the rows and the total were read from
  still      \* history: the graph has not changed since the client asked

clientVars == <<pc, cmd, ast, rows, pages, total, answer, at>>
vars == <<graph, queries, reports, writes, clientVars, still>>

QueryKinds == {"post", "query", "list", "find", "count", "lookup"}
ReportKinds == {"report", "csv"}
NoCommand == [kind |-> "none"]
NoAst == [entity |-> "none"]
NoGroup == ""   \* a count that is not grouped

\* A command has a limit, an offset, and its conditions in lists, each with a path;
\* a report has its fields, and its columns in a list.
ASSUME CommandAssumption ==
  \A s \in Scenarios : \A c \in Clients :
    LET k == s[c] r == k.report
    IN k # NoCommand =>
         /\ {k.limit, k.offset} \subseteq Nat
         /\ \A list \in {k.conds, k.far} :
              /\ list \in Seq(Range(list))
              /\ \A x \in Range(list) : DOMAIN x = {"path", "op", "value"} /\ x.path \in Seq(Range(x.path)) \ {<<>>}
         /\ k.kind \in ReportKinds =>
              /\ {"entity", "conds", "cols", "mode", "limit", "offset", "maxRows"} \subseteq DOMAIN r
              /\ {r.limit, r.offset, r.maxRows} \subseteq Nat
              /\ \A list \in {r.conds, r.cols} : list \in Seq(Range(list))

\* A graph is finite; the ids of its nodes have an order, here that of numbers.
ASSUME GraphAssumption ==
  /\ Null \notin Nat /\ \A w \in NodesPut : w.id \in Nat
  /\ \A g \in Graphs : /\ DOMAIN g = {"nodes", "edges"} /\ IsFiniteSet(g.edges)
                        /\ IsFiniteSet(DOMAIN g.nodes) /\ DOMAIN g.nodes \subseteq Nat

Lesser(a, b) == IF a < b THEN a ELSE b

--------------------------------------------------------------------------------
(* From a command to a query.                                                *)

Ast(k, conds, limit) ==
  [entity |-> k.entity, conds |-> conds, sort |-> k.sort, limit |-> limit, offset |-> k.offset,
   fields |-> IF k.fields = <<>> THEN DefaultFields(k.entity) ELSE k.fields]
Asked(k) == Ast(k, k.conds, Lesser(k.limit, MaxPage[k.entity]))

IsDirect(c) == Len(c.path) = 1
Direct(conds) == Chosen(conds, {i \in DOMAIN conds : IsDirect(conds[i])})

\* Slip: without direct conditions it is asked without any.
Fallback_Unfiltered(k) == [Asked(k) EXCEPT !.conds = Direct(@)]
\* _execute_query_tool: when validation fails, the conditions on paths without
\* a dot are tried, if there are any.
Fallback(k) == IF Direct(k.conds) = <<>> THEN Asked(k) ELSE [Asked(k) EXCEPT !.conds = Direct(@)]
QueryTool(k) == IF Valid(Asked(k)) THEN Asked(k) ELSE Fallback(k)

\* A key of a find tool's relationship filters, prefixed by what the name of the
\* tool ends with.
Prefixed(k, c) ==
  LET e == EdgeFor(k.entity, k.by)
  IN IF Len(c.path) > 1 THEN c
     ELSE [c EXCEPT !.path = IF e = NoType THEN <<k.by>> \o @
                             ELSE <<k.by, Head(OtherEnds(k.entity, e))>> \o @]
\* _execute_find_tool reads the filters of the other end under the name the tool
\* ends with; under another name they are not looked at.
FindTool(k) ==
  LET far == IF k.farKey = k.by THEN [i \in DOMAIN k.far |-> Prefixed(k, k.far[i])] ELSE <<>>
  IN Ast(k, far \o k.conds, k.limit)

Parsed(k) ==
  CASE k.kind = "post" -> Asked(k)
    [] k.kind \in {"query", "list"} -> QueryTool(k)
    [] k.kind = "find" -> FindTool(k)
    [] k.kind = "count" -> [Ast(k, k.conds, DefaultLimit) EXCEPT !.sort = <<>>, !.offset = 0]
    [] k.kind = "lookup" -> [Ast(k, k.conds, 1) EXCEPT !.sort = <<>>, !.offset = 0]
    [] k.kind = "report" -> k.report
    [] k.kind = "csv" -> Export(k.report)
    [] OTHER -> NoAst

--------------------------------------------------------------------------------
(* What statements answer.                                                   *)

\* execute_structured: equalities on any attribute, no validation.
StructuredNodes(g, k) ==
  {n \in NodesOf(g, k.entity) : \A c \in Range(k.conds) : Holds("eq", Prop(g.nodes[n].props, c.path[1]), c.value)}
StructuredAnswers(g, k) ==
  LET key == [n \in StructuredNodes(g, k) |-> IF k.sort = <<>> THEN 0 ELSE Field(g, n, k.sort[1].field)]
      show(n) == IF k.fields = <<>> THEN [id |-> n] ELSE Project(g, n, k.fields)
  IN {Page([i \in DOMAIN s |-> show(s[i])], 0, k.limit) : s \in Orders(key, FALSE)}

CanRun(k, q) ==
  CASE k.kind = "count" -> CompileFilters(q.entity, q.conds).bound
    [] k.kind \in QueryKinds \ {"count"} -> Runs(q)
    [] k.kind \in ReportKinds -> ReportRuns(q)
    [] OTHER -> TRUE
Answers(g, k, q) ==
  CASE k.kind = "count" -> {<<IF k.group = NoGroup THEN CountAnswer(g, q) ELSE GroupAnswer(g, q, k.group)>>}
    [] k.kind \in QueryKinds \ {"count"} -> DataAnswers(g, q)
    [] k.kind \in ReportKinds -> ReportAnswers(g, q)
    [] OTHER -> StructuredAnswers(g, k)
\* Which handlers count: include_total for queries, always for reports.
Counts(k) == \/ k.kind \in {"post", "query", "list", "find"} /\ k.total
             \/ k.kind \in ReportKinds /\ k.report.mode # "aggregate"
Total(g, k, q) == IF k.kind \in ReportKinds THEN ReportTotal(g, q) ELSE CountAnswer(g, q)

--------------------------------------------------------------------------------
TypeOK ==
  /\ writes \in 0..MaxWrites
  /\ pc \in [Clients -> {"idle", "data", "count", "cypher", "write", "load", "run", "done"}]
  /\ answer \in [Clients -> {"none", "ok", "invalid", "failed", "403", "404"}]
  /\ \A c \in Clients : answer[c] = "none" <=> pc[c] # "done"

Init ==
  /\ graph \in Graphs /\ queries = Queries0 /\ reports = Reports0 /\ writes = 0
  /\ pc = [c \in Clients |-> "idle"]
  /\ cmd \in Scenarios
  /\ ast = [c \in Clients |-> NoAst]
  /\ rows = [c \in Clients |-> <<>>]
  /\ pages = [c \in Clients |-> <<>>]
  /\ total = [c \in Clients |-> 0]
  /\ answer = [c \in Clients |-> "none"]
  /\ at = [c \in Clients |-> [rows |-> graph, total |-> graph]]
  /\ still = [c \in Clients |-> TRUE]

Go(c, stage) == pc' = [pc EXCEPT ![c] = stage] /\ UNCHANGED answer
Answer(c, a) == pc' = [pc EXCEPT ![c] = "done"] /\ answer' = [answer EXCEPT ![c] = a]

\* execute_report knows its entity; export_csv does not ask.
Admitted(k) == ReportValid(k.report) /\ (k.kind = "report" => k.report.entity \in Types)
May(k, required) == Allowed(k.role, {}, required)
IsAdmin(k) == k.role \in {"admin", "superadmin"}

\* The checks before the first await: authorization and validation.
Ask(c) ==
  LET k == cmd[c] IN
  /\ pc[c] = "idle" /\ k # NoCommand
  /\ ast' = [ast EXCEPT ![c] = Parsed(k)]
  /\ CASE k.kind \in QueryKinds -> IF Valid(Parsed(k)) THEN Go(c, "data") ELSE Answer(c, "invalid")
       [] k.kind \in ReportKinds -> IF Admitted(k) THEN Go(c, "data") ELSE Answer(c, "invalid")
       [] k.kind = "structured" ->
            IF ~May(k, <<"read", "node", k.entity>>) THEN Answer(c, "403")
            ELSE IF k.entity \notin Types THEN Answer(c, "404") ELSE Go(c, "data")
       [] k.kind = "cypher" ->
            IF ~May(k, <<"execute", "cypher">>) \/ (k.text.keyword /\ ~IsAdmin(k))
            THEN Answer(c, "403") ELSE Go(c, "cypher")
       [] k.kind \in {"save_query", "delete_query"} ->
            IF May(k, <<"execute", "query", "saved">>) THEN Go(c, "write") ELSE Answer(c, "403")
       [] k.kind = "run_query" ->
            IF May(k, <<"read", "query", "saved">>) THEN Go(c, "load") ELSE Answer(c, "403")
       [] OTHER -> Go(c, "write")
  /\ UNCHANGED <<graph, queries, reports, writes, cmd, rows, pages, total, at>>

Data(c) ==
  /\ pc[c] = "data"
  /\ IF CanRun(cmd[c], ast[c])
     THEN /\ \E page \in Answers(graph, cmd[c], ast[c]) :
               /\ rows' = [rows EXCEPT ![c] = page]
               /\ pages' = [pages EXCEPT ![c] = @ \o page]
          /\ at' = [at EXCEPT ![c].rows = graph]
          /\ IF Counts(cmd[c]) THEN Go(c, "count") ELSE Answer(c, "ok")
     ELSE Answer(c, "failed") /\ UNCHANGED <<rows, pages, at>>
  /\ UNCHANGED <<graph, queries, reports, writes, cmd, ast, total>>

Count(c) ==
  /\ pc[c] = "count"
  /\ total' = [total EXCEPT ![c] = Total(graph, cmd[c], ast[c])]
  /\ at' = [at EXCEPT ![c].total = graph]
  /\ Answer(c, "ok")
  /\ UNCHANGED <<graph, queries, reports, writes, cmd, ast, rows, pages>>

\* A client asks for the next page until one is not full.
NextPage(c) ==
  /\ pc[c] = "done" /\ answer[c] = "ok" /\ cmd[c].kind = "post"
  /\ Len(rows[c]) = ast[c].limit
  /\ ast' = [ast EXCEPT ![c].offset = @ + ast[c].limit]
  /\ pc' = [pc EXCEPT ![c] = "data"] /\ answer' = [answer EXCEPT ![c] = "none"]
  /\ UNCHANGED <<graph, queries, reports, writes, cmd, rows, pages, total, at>>

\* What a statement that writes may make of a graph: an edge or a node less, with
\* the edges of the node, a node written, or an edge more between nodes.
Changed(g) ==
  {[g EXCEPT !.edges = @ \ {e}] : e \in g.edges}
    \union {[nodes |-> [m \in DOMAIN g.nodes \ {n} |-> g.nodes[m]],
             edges |-> {e \in g.edges : n \notin {e.from, e.to}}] : n \in DOMAIN g.nodes}
    \union {[nodes |-> [m \in DOMAIN g.nodes \union {w.id} |-> IF m = w.id THEN w.node ELSE g.nodes[m]],
             edges |-> g.edges] : w \in NodesPut}
    \union {[g EXCEPT !.edges = @ \union {e}] : e \in {x \in EdgesPut : {x.from, x.to} \subseteq DOMAIN g.nodes}}

\* execute_cypher: by its words a statement is run in a write or a read
\* transaction, and Neo4j refuses to write in a read transaction.
Cypher(c) ==
  /\ pc[c] = "cypher"
  /\ LET t == cmd[c].text
     IN \/ cmd[c].explain /\ Answer(c, "ok") /\ UNCHANGED graph
        \/ ~cmd[c].explain /\ t.writes /\ t.keyword /\ graph' \in Changed(graph) /\ Answer(c, "ok")
        \/ ~cmd[c].explain /\ t.writes /\ ~t.keyword /\ Answer(c, "failed") /\ UNCHANGED graph
        \/ ~cmd[c].explain /\ ~t.writes /\ Answer(c, "ok") /\ UNCHANGED graph
  /\ UNCHANGED <<queries, reports, writes, cmd, ast, rows, pages, total, at>>

\* get_saved_query, then the check of execute_saved_query.
Load(c) ==
  /\ pc[c] = "load"
  /\ IF cmd[c].id \notin DOMAIN queries THEN Answer(c, "404") /\ UNCHANGED ast
     ELSE /\ ast' = [ast EXCEPT ![c] = queries[cmd[c].id]]
          /\ IF May(cmd[c], <<"execute", "query", "saved">>) THEN Go(c, "run") ELSE Answer(c, "403")
  /\ UNCHANGED <<graph, queries, reports, writes, cmd, rows, pages, total, at>>
\* The saved text is run in a read transaction, whether or not it is still saved.
Run(c) ==
  /\ pc[c] = "run"
  /\ Answer(c, IF ast[c].text.writes THEN "failed" ELSE "ok")
  /\ UNCHANGED <<graph, queries, reports, writes, cmd, ast, rows, pages, total, at>>

Put(f, i, v) == [j \in DOMAIN f \union {i} |-> IF j = i THEN v ELSE f[j]]
Without(f, i) == [j \in DOMAIN f \ {i} |-> f[j]]
\* Slip: the report of anybody is matched.
Owned_Any(k) == k.id \in DOMAIN reports
\* Reports are matched with their owner.
Owned(k) == k.id \in DOMAIN reports /\ reports[k.id].owner = k.user

\* The saved queries and reports.  Any query may be deleted; deleting a report
\* answers success whether or not it was there.
SaveQuery(c, k) ==
  /\ k.kind = "save_query" /\ queries' = Put(queries, c, [text |-> k.text, owner |-> k.user])
  /\ Answer(c, "ok") /\ UNCHANGED reports
DeleteQuery(c, k) ==
  /\ k.kind = "delete_query" /\ queries' = Without(queries, k.id)
  /\ Answer(c, IF k.id \in DOMAIN queries THEN "ok" ELSE "404") /\ UNCHANGED reports
SaveReport(c, k) ==
  /\ k.kind = "save_report" /\ reports' = Put(reports, c, [owner |-> k.user, visibility |-> k.visibility])
  /\ Answer(c, "ok") /\ UNCHANGED queries
UpdateReport(c, k) ==
  /\ k.kind = "update_report"
  /\ IF Owned(k) THEN reports' = [reports EXCEPT ![k.id].visibility = k.visibility] /\ Answer(c, "ok")
     ELSE UNCHANGED reports /\ Answer(c, "404")
  /\ UNCHANGED queries
DeleteReport(c, k) ==
  /\ k.kind = "delete_report"
  /\ reports' = IF Owned(k) THEN Without(reports, k.id) ELSE reports
  /\ Answer(c, "ok") /\ UNCHANGED queries
Save(c) ==
  /\ pc[c] = "write"
  /\ LET k == cmd[c] IN \/ SaveQuery(c, k) \/ DeleteQuery(c, k)
                        \/ SaveReport(c, k) \/ UpdateReport(c, k) \/ DeleteReport(c, k)
  /\ UNCHANGED <<graph, writes, cmd, ast, rows, pages, total, at>>

\* A call of the database raises.
Raise(c) ==
  /\ pc[c] \notin {"idle", "done"} /\ Answer(c, "failed")
  /\ UNCHANGED <<graph, queries, reports, writes, cmd, ast, rows, pages, total, at>>

\* Others change the graph.
Write ==
  /\ writes < MaxWrites /\ writes' = writes + 1
  /\ graph' \in Changed(graph)
  /\ UNCHANGED <<queries, reports, clientVars>>

Step ==
  \/ Write
  \/ \E c \in Clients : \/ Ask(c) \/ Data(c) \/ Count(c) \/ NextPage(c) \/ Cypher(c)
                        \/ Load(c) \/ Run(c) \/ Save(c) \/ Raise(c)
Next ==
  /\ Step
  /\ still' = [c \in Clients |-> still[c] /\ (pc[c] = "idle" \/ graph' = graph)]

Spec == Init /\ [][Next]_vars

--------------------------------------------------------------------------------
(* What the answers should be, without the compiler: a node is meant by a     *)
(* query when, for each relationship it has conditions on, one edge fulfils   *)
(* them all.                                                                  *)

Relationships(type, conds) ==
  {<<Resolve(type, c).edge, Resolve(type, c).dir>> :
     c \in {x \in Range(conds) : Resolve(type, x).kind \in {"edge", "far"}}}
Fulfils(g, n, rp, c, e) ==
  CASE rp.kind = "attr" -> Holds(c.op, Prop(g.nodes[n].props, rp.attr), c.value)
    [] rp.kind = "exists" -> (HopsFrom(g, n, rp.edge, rp.dir) # {}) = (c.op = "exists")
    [] rp.kind = "count" -> Holds(CountOp(c.op), Cardinality(HopsFrom(g, n, rp.edge, rp.dir)), c.value)
    [] rp.kind = "edge" -> Holds(c.op, Prop(e.props, rp.attr), c.value)
    [] rp.kind = "far" -> /\ g.nodes[FarEnd(e, rp.dir)].type = rp.target
                          /\ Holds(c.op, Prop(g.nodes[FarEnd(e, rp.dir)].props, rp.attr), c.value)
Meant(g, type, conds) ==
  {n \in NodesOf(g, type) :
     LET picks == {f \in [Relationships(type, conds) -> g.edges] :
                     \A r \in DOMAIN f : f[r] \in HopsFrom(g, n, r[1], r[2])}
     IN \E f \in picks : \A c \in Range(conds) :
          LET rp == Resolve(type, c)
          IN Fulfils(g, n, rp, c, IF rp.kind \in {"edge", "far"} THEN f[<<rp.edge, rp.dir>>] ELSE NoHop)}

\* Existence and number of one relationship are not both asked for.
OneKindPerPath(type, conds) ==
  \A c, d \in Range(conds) : c.path = d.path => Resolve(type, c).kind = Resolve(type, d).kind
Answered(c, kinds) == pc[c] = "done" /\ answer[c] = "ok" /\ cmd[c].kind \in kinds

CountsMeant(group, size, g, meant) ==
  IF group = NoGroup THEN size = Cardinality(meant)
  ELSE \A n \in meant : size[Field(g, n, group)] = Cardinality({m \in meant : Field(g, m, group) = Field(g, n, group)})
RowsMeant(page, q, g, meant) == page \in PagesOf(KeyOf({Project(g, n, q.fields) : n \in meant}, SortKey(q).field),
                                                SortKey(q).desc, q)

\* The rows of an answered query are a page of the nodes its conditions mean, in
\* the order asked for and each once, as the graph was when they were read, and
\* the total is how many such nodes there were when it was read
\* (compiler.py:78, validator.py:84).
AnswersMatch ==
  \A c \in Clients :
    Answered(c, QueryKinds) /\ OneKindPerPath(ast[c].entity, ast[c].conds) =>
      IF cmd[c].kind = "count"
      THEN CountsMeant(cmd[c].group, rows[c][1], at[c].rows, Meant(at[c].rows, ast[c].entity, ast[c].conds))
      ELSE /\ RowsMeant(rows[c], ast[c], at[c].rows, Meant(at[c].rows, ast[c].entity, ast[c].conds))
           /\ Counts(cmd[c]) => total[c] = Cardinality(Meant(at[c].total, ast[c].entity, ast[c].conds))

\* A tool that was given filters never answers without one, and whatever it
\* leaves out, the conditions on the objects themselves hold for every row
\* (tool_executor.py:182-202: "do NOT fall back to unfiltered").
DirectFiltersKept ==
  \A c \in Clients :
    Answered(c, {"query", "list", "count"}) =>
      /\ cmd[c].conds # <<>> => ast[c].conds # <<>>
      /\ \A x \in Range(Direct(cmd[c].conds)) : x \in Range(ast[c].conds)

\* The filters of the other end that a find tool is given reach the query if they come
\* under the name that the tool ends with, each as a condition on the relationship of
\* that name; under any other they are left out, and the rest is asked alone.
AtOtherEnd(k, x, y) ==
  LET there == Resolve(k.entity, y)
  IN /\ y.op = x.op /\ y.value = x.value
     /\ IF IsDirect(x) THEN /\ there.kind = "far" /\ there.attr = x.path[1]
                            /\ there.edge = EdgeFor(k.entity, k.by).name
        ELSE y.path = x.path
FindFiltersReach ==
  \A c \in Clients :
    Answered(c, {"find"}) =>
      LET k == cmd[c]
      IN IF k.farKey = k.by
         THEN /\ \A x \in Range(k.far) : \E y \in Range(ast[c].conds) : AtOtherEnd(k, x, y)
              /\ \A x \in Range(k.conds) : x \in Range(ast[c].conds)
         ELSE ast[c].conds = k.conds

\* Whether a question is made of what the schema has and advertises to clients.
Advertised(k) ==
  /\ k.entity \in Types
  /\ \A x \in Range(k.conds) :
       \E p \in AllowedPaths(k.entity) \union ToolPaths(k.entity) : p.path = x.path /\ x.op \in p.ops
  /\ \A s \in Range(k.sort) : s.field \in SortableFields(k.entity)
  /\ \A f \in Range(Parsed(k).fields) : f = "id" \/ f \in DOMAIN Attributes[k.entity]

\* A path to another end leads along a relationship that begins at the type under
\* this alias, and, for a type at both of its ends, to a type among its sources.
\* Advertised are others too: those of relationships that only end at the type.
Leads(type, path) ==
  LET e == EdgeFor(type, path[1])
  IN Len(path) = 3 => Traversable(e) /\ path[2] \in Range(IF type \in Range(e.target) THEN e.source ELSE e.target)

\* A question made of the paths and operators that GET .../filter-paths and the query
\* tools advertise is accepted, and all of its conditions are asked, if all the paths
\* lead, unless a count finds that the type has pages shorter than the default.  If
\* one does not, the question is refused or, of a query tool, asked with the
\* conditions on the objects themselves, of which there are some.
AdvertisedWork ==
  \A c \in Clients :
    LET k == cmd[c]
        lead == \A x \in Range(k.conds) : Leads(k.entity, x.path)
    IN pc[c] # "idle" /\ k.kind \in {"post", "query", "count"} /\ Advertised(k) =>
         /\ lead /\ (k.kind = "count" => DefaultLimit <= MaxPage[k.entity]) =>
              answer[c] # "invalid" /\ ast[c].conds = k.conds
         /\ ~lead =>
              \/ answer[c] = "invalid"
              \/ k.kind = "query" /\ ast[c].conds = Direct(k.conds) /\ ast[c].conds # <<>>

\* Which conditions reach the query, on every way from a client to it.
ConditionsKept == DirectFiltersKept /\ FindFiltersReach /\ AdvertisedWork

\* A client that reads page after page in the default order, while the graph
\* stays as it is, sees every node that is meant exactly once (compiler.py:494).
PagesComplete ==
  \A c \in Clients :
    /\ Answered(c, {"post"}) /\ still[c] /\ cmd[c].sort = <<>> /\ cmd[c].offset = 0
    /\ Len(rows[c]) < ast[c].limit
    /\ OneKindPerPath(ast[c].entity, ast[c].conds)
    => /\ {row.id : row \in Range(pages[c])} = Meant(graph, ast[c].entity, ast[c].conds)
       /\ \A i, j \in DOMAIN pages[c] : i < j => pages[c][i].id < pages[c][j].id

RowsFrom(page, g, r, cr, meant) ==
  Range(page) \subseteq {Row(g, r, cr, b) : b \in {x \in Bindings(g, r.entity, cr.st) : x.node \in meant}}
\* The rows a report shows come from nodes that fulfil its filters.
RowsFiltered(c) ==
  RowsFrom(rows[c], at[c].rows, ast[c], ResolveColumns([ast[c] EXCEPT !.conds = <<>>]),
           Meant(at[c].rows, ast[c].entity, ast[c].conds))

\* Expanded reports, and those without columns of related nodes, are filtered
\* (report_compiler.py:75).
ReportsFiltered ==
  \A c \in Clients :
    /\ Answered(c, ReportKinds) /\ ast[c].mode # "aggregate"
    /\ OneKindPerPath(ast[c].entity, ast[c].conds)
    /\ ast[c].mode = "expanded" \/ \A col \in Range(ast[c].cols) : IsEdge(col) \/ ~Hops(col)
    => RowsFiltered(c)

\* Rows of queries and of reports are those that their conditions mean.
RowsTrue == AnswersMatch /\ ReportsFiltered

\* The graph is changed by others or by the Cypher of an administrator, never by
\* a saved query; a saved report by its owner only; a saved query by a user
\* who may execute saved queries (query_service.py:77, reports.py:323-353).
Moves(c) == pc'[c] # pc[c]
EntitledChange ==
  /\ graph' # graph => writes' # writes \/ \E c \in Clients : Moves(c) /\ pc[c] = "cypher" /\ IsAdmin(cmd[c])
  /\ \A i \in DOMAIN reports : i \notin DOMAIN reports' \/ reports'[i] # reports[i]
       => \E c \in Clients : Moves(c) /\ cmd[c].user = reports[i].owner
  /\ queries' # queries =>
       \E c \in Clients : Moves(c) /\ May(cmd[c], <<"execute", "query", "saved">>)
EntitledChanges == [][EntitledChange]_vars
================================================================================
