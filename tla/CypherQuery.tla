------------------------------- MODULE CypherQuery -------------------------------
(* packages/query_engine/compiler.py: a query becomes a list of MATCH         *)
(* clauses and a WHERE, and what Neo4j answers to them.                       *)
(*                                                                            *)
(* A graph is [nodes, edges]: nodes maps ids to [type, props], an edge is     *)
(* [type, from, to, props].  A binding of the clauses is [node, hops], with   *)
(* the edge that each clause was matched with.                                *)
EXTENDS QuerySchema

CONSTANT Null   \* the null of Cypher

NoHop == [type |-> "null"]
Prop(props, a) == IF a \in DOMAIN props THEN props[a] ELSE Null

--------------------------------------------------------------------------------
(* The compiler.  Its state is [clauses, preds, vars, bound]: vars maps an    *)
(* edge type and a direction to the clause that introduced its variable.      *)

EmptyState == [clauses |-> <<>>, preds |-> <<>>, vars |-> <<>>, bound |-> TRUE]
Clause(edge, dir, label, optional) ==
  [edge |-> edge, dir |-> dir, label |-> label, optional |-> optional]
Pred(on, hop, attr, op, value) ==
  [on |-> on, hop |-> hop, attr |-> attr, op |-> op, value |-> value, edge |-> "none", dir |-> "none"]

Known(st, rp) == <<rp.edge, rp.dir>> \in DOMAIN st.vars
HopOf(st, rp) == st.vars[<<rp.edge, rp.dir>>]

\* Slip: every condition on a relationship has an edge of its own.
Hop_Fresh(st, rp) ==
  [st EXCEPT !.clauses = Append(@, Clause(rp.edge, rp.dir, rp.target, FALSE)),
             !.vars = [k \in DOMAIN @ \union {<<rp.edge, rp.dir>>} |->
                         IF k = <<rp.edge, rp.dir>> THEN Len(st.clauses) + 1 ELSE @[k]]]
\* next_rel_var: conditions on one relationship share its variable.
Hop(st, rp) ==
  IF Known(st, rp) THEN st
  ELSE [st EXCEPT !.clauses = Append(@, Clause(rp.edge, rp.dir, rp.target, FALSE)),
                  !.vars = [k \in DOMAIN @ \union {<<rp.edge, rp.dir>>} |->
                              IF k = <<rp.edge, rp.dir>> THEN Len(st.clauses) + 1 ELSE @[k]]]

WithPred(st, p) == [st EXCEPT !.preds = Append(@, p)]

\* An operator outside the table of count filters is taken for an equality.
CountOp(op) == CASE op = "count_gt" -> "gt" [] op = "count_gte" -> "gte"
                 [] op = "count_lt" -> "lt" [] op = "count_lte" -> "lte" [] OTHER -> "eq"

\* The path map is keyed by the path: the last condition on a path decides how
\* all of them are compiled.
PathFor(type, conds, path) ==
  Resolve(type, conds[Max({i \in DOMAIN conds : conds[i].path = path})])

\* _compile_condition, of a condition resolved to rp.  A second condition on the
\* other end of a relationship names a variable that no clause introduced.
CompileHop(st, c, rp) == WithPred(st, Pred(rp.kind, HopOf(st, rp), rp.attr, c.op, c.value))
CompileCondition(st, c, rp) ==
  CASE rp.kind = "attr" -> WithPred(st, Pred("node", 0, rp.attr, c.op, c.value))
    [] rp.kind = "exists" ->
         WithPred(st, [Pred("exists", 0, "none", IF c.op = "exists" THEN "exists" ELSE "not_exists", Null)
                       EXCEPT !.edge = rp.edge, !.dir = rp.dir])
    [] rp.kind = "count" ->
         WithPred(st, [Pred("count", 0, "none", CountOp(c.op), c.value)
                       EXCEPT !.edge = rp.edge, !.dir = rp.dir])
    [] rp.kind = "edge" -> CompileHop(Hop(st, rp), c, rp)
    [] rp.kind = "far" -> CompileHop([Hop(st, rp) EXCEPT !.bound = @ /\ ~Known(st, rp)], c, rp)

\* _compile_filter_group, of a flat AND.
CompileFilters(type, conds) ==
  LET after[i \in 0..Len(conds)] ==
        IF i = 0 THEN EmptyState
        ELSE CompileCondition(after[i - 1], conds[i], PathFor(type, conds, conds[i].path))
  IN after[Len(conds)]

--------------------------------------------------------------------------------
(* What Neo4j makes of it.                                                    *)

\* _operator_to_cypher, evaluated; a comparison with null is not true.  A
\* pattern of =~ matches the whole value.
Holds(op, v, x) ==
  CASE op = "is_null" -> v = Null
    [] op = "is_not_null" -> v # Null
    [] op \notin Nulls /\ (v = Null \/ x = Null) -> FALSE
    [] OTHER ->
       CASE op \in {"eq", "regex"} -> v = x
         [] op = "neq" -> v # x
         [] op = "in" -> v \in x
         [] op = "not_in" -> v \notin x
         [] op = "gt" -> v > x
         [] op = "gte" -> v >= x
         [] op = "lt" -> v < x
         [] op = "lte" -> v <= x
         [] op = "between" -> x[1] <= v /\ v <= x[2]
         [] op = "starts_with" -> IsPrefix(x, v)
         [] op = "ends_with" -> IsSuffix(x, v)
         [] op = "contains" -> \E i \in 0..Len(v) : IsPrefix(x, SubSeq(v, i + 1, Len(v)))
         [] op = "not_contains" -> ~\E i \in 0..Len(v) : IsPrefix(x, SubSeq(v, i + 1, Len(v)))

NodesOf(g, type) == {n \in DOMAIN g.nodes : g.nodes[n].type = type}
HopsFrom(g, n, edge, dir) ==
  {e \in g.edges : e.type = edge /\ n = (IF dir = "outgoing" THEN e.from ELSE e.to)}
FarEnd(e, dir) == IF dir = "outgoing" THEN e.to ELSE e.from

True(g, st, b, p) ==
  CASE p.on = "node" -> Holds(p.op, Prop(g.nodes[b.node].props, p.attr), p.value)
    [] p.on = "exists" -> (HopsFrom(g, b.node, p.edge, p.dir) # {}) = (p.op = "exists")
    [] p.on = "count" -> Holds(p.op, Cardinality(HopsFrom(g, b.node, p.edge, p.dir)), p.value)
    [] p.on = "edge" -> Holds(p.op, Prop(b.hops[p.hop].props, p.attr), p.value)
    [] p.on = "far" ->
         LET e == b.hops[p.hop]
         IN Holds(p.op, Prop(g.nodes[FarEnd(e, st.clauses[p.hop].dir)].props, p.attr), p.value)
Where(g, st, b) == \A i \in DOMAIN st.preds : True(g, st, b, st.preds[i])

\* The edges that clause c matches from a node.
Matched(g, n, c) ==
  {e \in HopsFrom(g, n, c.edge, c.dir) : c.label = "none" \/ g.nodes[FarEnd(e, c.dir)].type = c.label}
\* A binding extended by clause i; the WHERE belongs to the last clause, of an
\* OPTIONAL MATCH it is a condition on what is matched.
OrNull(b, longer) == IF longer = {} THEN {[b EXCEPT !.hops = Append(@, NoHop)]} ELSE longer
Extended(g, st, b, i, c) ==
  LET longer == {[b EXCEPT !.hops = Append(@, e)] : e \in Matched(g, b.node, c)}
  IN IF c.optional
     THEN OrNull(b, {x \in longer : i = Len(st.clauses) => Where(g, st, x)})
     ELSE longer

\* The bindings of a compiled query (_build_core).
EndsOptional(clauses) == clauses # <<>> /\ Last(clauses).optional
Bindings(g, type, st) ==
  LET upTo[i \in 0..Len(st.clauses)] ==
        IF i = 0 THEN {[node |-> n, hops |-> <<>>] : n \in NodesOf(g, type)}
        ELSE UNION {Extended(g, st, b, i, st.clauses[i]) : b \in upTo[i - 1]}
  IN {b \in upTo[Len(st.clauses)] : EndsOptional(st.clauses) \/ Where(g, st, b)}

Field(g, n, f) == IF f = "id" THEN n ELSE Prop(g.nodes[n].props, f)
Project(g, n, fields) == [f \in Range(fields) |-> Field(g, n, f)]

\* Nulls come last, first when descending.
Before(u, v, desc) ==
  IF desc THEN v # Null /\ (u = Null \/ u >= v) ELSE u # Null /\ (v = Null \/ u <= v)
InOrder(u, v, desc) == u = v \/ Before(u, v, desc)
\* The orders in which the elements that have a key may come: ties are broken
\* at will.
Orders(key, desc) ==
  {s \in SetToSeqs(DOMAIN key) : \A i, j \in DOMAIN s : i < j => InOrder(key[s[i]], key[s[j]], desc)}
\* Slip: SKIP is taken for the position of the first row.
Page_From(s, offset, limit) ==
  SubSeq(s, IF offset = 0 THEN 1 ELSE offset, IF offset + limit < Len(s) THEN offset + limit ELSE Len(s))
Page(s, offset, limit) ==
  SubSeq(s, offset + 1, IF offset + limit < Len(s) THEN offset + limit ELSE Len(s))

\* _build_return and _build_order: after DISTINCT only what is returned can be
\* ordered by.
SortKey(q) == IF q.sort = <<>> THEN [field |-> "id", desc |-> FALSE] ELSE q.sort[1]
Runs(q) == CompileFilters(q.entity, q.conds).bound /\ SortKey(q).field \in Range(q.fields)

\* The pages that the data query may answer, and the answer of the count query.
Found(g, q) == Bindings(g, q.entity, CompileFilters(q.entity, q.conds))
PagesOf(key, desc, q) == {Page(s, q.offset, q.limit) : s \in Orders(key, desc)}
KeyOf(rows, field) == [row \in rows |-> row[field]]
DataAnswers(g, q) ==
  PagesOf(KeyOf({Project(g, b.node, q.fields) : b \in Found(g, q)}, SortKey(q).field), SortKey(q).desc, q)
CountAnswer(g, q) == Cardinality({b.node : b \in Found(g, q)})

\* compile_aggregate: how many nodes, for each value of an attribute.
GroupSizes(g, nodes, attr) ==
  [v \in {Field(g, n, attr) : n \in nodes} |-> Cardinality({n \in nodes : Field(g, n, attr) = v})]
GroupAnswer(g, q, attr) == GroupSizes(g, {b.node : b \in Found(g, q)}, attr)
================================================================================
