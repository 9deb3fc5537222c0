--------------------------------- MODULE Reports ---------------------------------
(* packages/query_engine/report_compiler.py and report_executor.py: the rows  *)
(* of a report [entity, conds, cols, mode, sort, limit, offset, maxRows,      *)
(* groupBy].  A column is [path, source, alias], its header a sequence.       *)
EXTENDS CypherQuery

\* _edge_direction and _edge_target prefer the outgoing side.
ReportDirection(root, e) == IF root \in Range(e.source) THEN "outgoing" ELSE "incoming"
ReportTarget(root, e) == Head(IF root \in Range(e.source) THEN e.target ELSE e.source)
\* _is_one_to_many
OneToMany(root, e) ==
  e.cardinality \in {"many_to_many", IF root \in Range(e.source) THEN "one_to_many" ELSE "many_to_one"}

IsRoot(col) == Len(col.path) = 1
IsEdge(col) == Len(col.path) = 3 /\ col.path[2] = "edge"
IsCount(col) == Len(col.path) = 2 /\ col.path[2] = "count"
ColumnEdge(root, col) == EdgeFor(root, col.path[1])
\* The type a related column names, or the first one.
ColumnTarget(root, col) ==
  IF Len(col.path) = 3 THEN col.path[2] ELSE ReportTarget(root, ColumnEdge(root, col))

Header(root, col) ==
  CASE col.alias # "" -> <<col.alias>>
    [] col.alias = "" /\ IsRoot(col) -> <<root, col.path[1]>>
    [] col.alias = "" /\ IsEdge(col) -> <<col.path[1], col.path[3]>>
    [] col.alias = "" /\ IsCount(col) -> col.path
    [] OTHER -> <<ColumnTarget(root, col), Last(col.path)>>

\* A column of which the relationship is unknown is left out.
Resolvable(root, col) == IsRoot(col) \/ ColumnEdge(root, col) # NoType

\* Which clause a column reads: columns of one relationship and type share it,
\* columns of edges have one of their own.
MatchKey(root, col) ==
  IF IsEdge(col) THEN <<"edge", col.path[1]>> ELSE <<"rel", col.path[1], ColumnTarget(root, col)>>
Hops(col) == ~IsRoot(col) /\ ~IsCount(col)

\* A related column is optional unless the report is expanded, an edge's never.
ColumnClause(root, mode, col) ==
  LET e == ColumnEdge(root, col)
  IN Clause(e.name, ReportDirection(root, e), IF IsEdge(col) THEN ReportTarget(root, e) ELSE ColumnTarget(root, col),
            ~IsEdge(col) /\ mode # "expanded")

\* _resolve_columns, one column: [st, keys, cols] grows.
WithClause(acc, key, clause) ==
  [st |-> [acc.st EXCEPT !.clauses = Append(@, clause)],
   keys |-> [k \in DOMAIN acc.keys \union {key} |-> IF k = key THEN Len(acc.st.clauses) + 1 ELSE acc.keys[k]],
   cols |-> acc.cols]
Shown(acc, root, mode, col) ==
  [acc EXCEPT !.cols = Append(@,
     [col |-> col, hop |-> IF Hops(col) THEN acc.keys[MatchKey(root, col)] ELSE 0, header |-> Header(root, col),
      expands |-> Hops(col) /\ mode = "expanded" /\ OneToMany(root, ColumnEdge(root, col))])]
ResolveColumn(acc, root, mode, col) ==
  CASE ~Resolvable(root, col) -> acc
    [] Resolvable(root, col) /\ Hops(col) /\ MatchKey(root, col) \notin DOMAIN acc.keys ->
         Shown(WithClause(acc, MatchKey(root, col), ColumnClause(root, mode, col)), root, mode, col)
    [] OTHER -> Shown(acc, root, mode, col)
ResolveColumns(r) ==
  LET after[i \in 0..Len(r.cols)] ==
        IF i = 0 THEN [st |-> CompileFilters(r.entity, r.conds), keys |-> <<>>, cols |-> <<>>]
        ELSE ResolveColumn(after[i - 1], r.entity, r.mode, r.cols[i])
  IN after[Len(r.cols)]

\* What column k of compiled report cr shows of a binding.
Cell(g, r, cr, b, k) ==
  LET c == cr.cols[k]
      e == ColumnEdge(r.entity, c.col)
  IN CASE IsRoot(c.col) -> Field(g, b.node, c.col.path[1])
       [] IsCount(c.col) -> Cardinality(HopsFrom(g, b.node, e.name, ReportDirection(r.entity, e)))
       [] Hops(c.col) /\ b.hops[c.hop] = NoHop -> Null
       [] OTHER -> IF IsEdge(c.col) THEN Prop(b.hops[c.hop].props, c.col.path[3])
                   ELSE Prop(g.nodes[FarEnd(b.hops[c.hop], cr.st.clauses[c.hop].dir)].props, Last(c.col.path))
HeaderLine(cr) == [k \in DOMAIN cr.cols |-> cr.cols[k].header]
Headers(cr) == Range(HeaderLine(cr))
ColumnUnder(line, h) == CHOOSE k \in DOMAIN line : line[k] = h
Row(g, r, cr, b) == [h \in Headers(cr) |-> Cell(g, r, cr, b, ColumnUnder(HeaderLine(cr), h))]

\* _build_order: the first column, or the one that is asked for.
OrderHeader(r, cr) ==
  LET named == {k \in DOMAIN cr.cols : r.sort # <<>> /\ cr.cols[k].col.path = r.sort[1].field}
  IN IF r.sort = <<>> THEN cr.cols[1].header
     ELSE IF named # {} THEN cr.cols[CHOOSE k \in named : TRUE].header ELSE r.sort[1].field
Descending(r) == r.sort # <<>> /\ r.sort[1].desc

Expands(cr) == \E k \in DOMAIN cr.cols : cr.cols[k].expands
\* compile: the statement is refused when two columns have one header, when there
\* is none, or when it is ordered by something that is not returned.
RunsCompiled(r, cr) ==
  /\ cr.st.bound
  /\ r.mode # "aggregate" =>
       /\ cr.cols # <<>> /\ Cardinality(Headers(cr)) = Len(cr.cols)
       /\ OrderHeader(r, cr) \in Headers(cr)
ReportRuns(r) == RunsCompiled(r, ResolveColumns(r))
\* The filters are validated as a query with the default limit.
ReportValid(r) ==
  r.conds = <<>> \/ Valid([entity |-> r.entity, conds |-> r.conds, sort |-> <<>>,
                           limit |-> DefaultLimit, offset |-> 0, fields |-> <<>>])

\* _compile_aggregate: by the paths asked for, or by the root columns.  Of the paths
\* asked for, those with a dot are passed over.
GroupsAsked(r) ==
  IF r.groupBy # <<>> THEN Range(r.groupBy)
  ELSE {c.path : c \in {x \in Range(r.cols) : x.source = "root" /\ IsRoot(x)}}
GroupBy(r) == {f \in GroupsAsked(r) : Len(f) = 1}
GroupKey(g, r, n) == [f \in GroupBy(r) |-> Field(g, n, f[1])]
GroupCounts(g, r, nodes) ==
  {[group |-> GroupKey(g, r, n), count |-> Cardinality({m \in nodes : GroupKey(g, r, m) = GroupKey(g, r, n)})] :
     n \in nodes}
\* Without groups it is one total: of bindings if no path was asked for, else of nodes.
Groups(g, r, bs) ==
  CASE GroupsAsked(r) = {} -> {[group |-> <<>>, count |-> Cardinality(bs)]}
    [] GroupsAsked(r) # {} /\ GroupBy(r) = {} -> {[group |-> <<>>, count |-> Cardinality({b.node : b \in bs})]}
    [] OTHER -> GroupCounts(g, r, {b.node : b \in bs})

RowLimit(r) == IF r.limit < r.maxRows THEN r.limit ELSE r.maxRows

\* The pages of rows a report may answer.
PageOf(r, s) == Page(s, r.offset, RowLimit(r))
AggregateAnswers(r, groups) ==
  IF GroupsAsked(r) = {} THEN {SetToSeq(groups)}
  ELSE {PageOf(r, s) : s \in Orders([x \in groups |-> x.count], TRUE)}
\* Rows are shown once, those of an expanded report once for each binding.
RowAnswers(g, r, cr, bs) ==
  IF Expands(cr)
  THEN {PageOf(r, [i \in DOMAIN s |-> Row(g, r, cr, s[i])]) :
          s \in Orders([b \in bs |-> Row(g, r, cr, b)[OrderHeader(r, cr)]], Descending(r))}
  ELSE {PageOf(r, s) : s \in Orders(KeyOf({Row(g, r, cr, b) : b \in bs}, OrderHeader(r, cr)), Descending(r))}
CompiledAnswers(g, r, cr) == RowAnswers(g, r, cr, Bindings(g, r.entity, cr.st))
ReportAnswers(g, r) ==
  IF r.mode = "aggregate" THEN AggregateAnswers(r, Groups(g, r, Found(g, r)))
  ELSE CompiledAnswers(g, r, ResolveColumns(r))
\* The count query counts bindings, also where equal rows are shown once.
ReportTotal(g, r) == Cardinality(Bindings(g, r.entity, ResolveColumns(r).st))

\* export_csv: everything up to the limit of the export, from the start.
Export(r) == [r EXCEPT !.limit = r.maxRows, !.offset = 0]

\* get_available_columns
AvailableColumns(type) ==
  LET shown(t) == {a \in DOMAIN Attributes[t] : Attributes[t][a].reportable /\ ~Attributes[t][a].sensitive}
      out == {e \in Range(EdgeTypes) : type \in Range(e.source) /\ EdgeFor(type, e.alias) = e /\ e.reports}
  IN {<<a>> : a \in shown(type)}
     \union UNION {{<<e.alias, ReportTarget(type, e), a>> : a \in shown(ReportTarget(type, e))} : e \in out}
     \union UNION {{<<e.alias, "edge", a>> : a \in DOMAIN e.attrs} : e \in out}
     \union {<<e.alias, "count">> : e \in out}
================================================================================
