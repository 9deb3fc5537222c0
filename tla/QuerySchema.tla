------------------------------- MODULE QuerySchema -------------------------------
(* packages/query_engine/validator.py: what may be asked of a schema.         *)
(*                                                                            *)
(* A path is the sequence of its parts: <<"status">> an attribute or, with    *)
(* the operators of existence and count, a relationship; <<"at", "primary">>  *)
(* an attribute of the edge or of its other end; <<"at", "Site", "city">> of  *)
(* the other end.  A condition is [path, op, value]; those of a query are     *)
(* joined by AND, the only operator the callers build.                        *)
EXTENDS Integers, Sequences, FiniteSetsExt, SequencesExt

CONSTANTS
  Attributes,   \* node type -> attribute -> [type, filterable, sortable, column, sensitive, reportable]
  ListFields,   \* node type -> its default_list_fields
  MaxPage,      \* node type -> its max_page_size
  DefaultLimit, \* the limit of a Pagination that is not given
  EdgeTypes     \* edge types in the order of registration: [name, alias, inverse,
                \* source, target, attrs, traversable, exists, counts, reports, cardinality]

Types == DOMAIN Attributes
NoType == [name |-> "none"]

Equality == {"eq", "neq"}
Membership == {"in", "not_in"}
Nulls == {"is_null", "is_not_null"}
Ordering == {"gt", "gte", "lt", "lte", "between"}
Texts == {"contains", "not_contains", "starts_with", "ends_with"}
Existence == {"exists", "not_exists"}
Counting == {"count_eq", "count_gt", "count_gte", "count_lt", "count_lte"}

OperatorsByType ==
  [string     |-> Equality \union Membership \union Nulls \union Texts \union {"regex"},
   text       |-> Equality \union {"in"} \union Nulls \union Texts,
   enum       |-> Equality \union Membership \union Nulls,
   integer    |-> Equality \union Membership \union Nulls \union Ordering,
   float      |-> Equality \union Membership \union Nulls \union Ordering,
   boolean    |-> Equality \union Nulls,
   datetime   |-> Equality \union Nulls \union Ordering,
   date       |-> Equality \union Nulls \union Ordering,
   ip_address |-> Equality \union {"contains", "starts_with", "in"} \union Nulls,
   cidr       |-> Equality \union {"contains", "starts_with"} \union Nulls,
   mac_address |-> Equality \union {"contains", "in"} \union Nulls,
   url        |-> Equality \union {"contains", "starts_with"} \union Nulls,
   email      |-> Equality \union {"contains", "starts_with"} \union Nulls,
   json       |-> Nulls,
   reference  |-> Equality \union {"in"} \union Nulls,
   list       |-> Nulls]

\* The types of AttributeType all have their operators.  Edge types come in a
\* list, as do their ends, which have names.
ASSUME SchemaAssumption ==
  /\ \A t \in Types : \A a \in DOMAIN Attributes[t] : Attributes[t][a].type \in DOMAIN OperatorsByType
  /\ MaxPage \in [Types -> Nat] /\ NoType \notin Range(EdgeTypes)
  /\ EdgeTypes \in Seq(Range(EdgeTypes))
  /\ \A e \in Range(EdgeTypes) : \A ends \in {e.source, e.target} :
       ends \in Seq(Range(ends)) /\ "none" \notin Range(ends)

\* _build_edge_index: the alias leads from a source, "inv_" and the alias from a
\* target; a later edge type takes an alias over.
EdgeFor(type, alias) ==
  LET hits == {i \in DOMAIN EdgeTypes :
                 \/ alias = EdgeTypes[i].alias /\ type \in Range(EdgeTypes[i].source)
                 \/ alias = EdgeTypes[i].inverse /\ type \in Range(EdgeTypes[i].target)}
  IN IF hits = {} THEN NoType ELSE EdgeTypes[Max(hits)]
Traversable(e) == e # NoType /\ e.traversable

\* A type that is a target is always reached backwards.
Direction(type, e) == IF type \in Range(e.target) THEN "incoming" ELSE "outgoing"
OtherEnds(type, e) == IF Direction(type, e) = "incoming" THEN e.source ELSE e.target

--------------------------------------------------------------------------------
(* Resolution of a condition: [ok, raw, kind, edge, dir, target, attr].       *)

Resolved(ok, raw, kind, edge, dir, target, attr) ==
  [ok |-> ok, raw |-> raw, kind |-> kind, edge |-> edge, dir |-> dir, target |-> target, attr |-> attr]
Refused(raw) == Resolved(FALSE, raw, "none", "none", "none", "none", "none")

\* _validate_operator
Legal(attr, op) == op \in OperatorsByType[attr.type]

ResolveAttribute(type, c) ==
  LET a == c.path[1]
  IN IF a \in DOMAIN Attributes[type] /\ Attributes[type][a].filterable
     THEN Resolved(Legal(Attributes[type][a], c.op), c.path, "attr", "none", "none", "none", a)
     ELSE Refused(c.path)

\* _resolve_relationship_filter; e is the edge type the path begins with, or
\* NoType, also below.
ResolveRelationship(type, c, e) ==
  IF Traversable(e) /\ (IF c.op \in Existence THEN e.exists ELSE e.counts)
  THEN Resolved(TRUE, c.path, IF c.op \in Existence THEN "exists" ELSE "count",
                e.name, Direction(type, e), Head(OtherEnds(type, e)), "none")
  ELSE Refused(c.path)

\* _resolve_two_part_path: an attribute of the edge, or else of the first other
\* end that has it.
FirstWith(types, a) == Min({i \in DOMAIN types : a \in DOMAIN Attributes[types[i]]})
FarAttribute(type, c, e, end, a) ==
  Resolved(Legal(Attributes[end][a], c.op), c.path, "far", e.name, Direction(type, e), end, a)
ResolveTwoPart(type, c, e, a) ==
  CASE ~Traversable(e) -> Refused(c.path)
    [] Traversable(e) /\ a \in DOMAIN e.attrs ->
         Resolved(Legal(e.attrs[a], c.op), c.path, "edge", e.name, Direction(type, e), "none", a)
    [] Traversable(e) /\ a \notin DOMAIN e.attrs ->
         IF \E t \in Range(OtherEnds(type, e)) : a \in DOMAIN Attributes[t]
         THEN FarAttribute(type, c, e, OtherEnds(type, e)[FirstWith(OtherEnds(type, e), a)], a)
         ELSE Refused(c.path)

\* _resolve_three_part_path
ResolveThreePart(type, c, e, t, a) ==
  IF /\ Traversable(e) /\ t \in Range(OtherEnds(type, e))
     /\ a \in DOMAIN Attributes[t] /\ Attributes[t][a].filterable
  THEN FarAttribute(type, c, e, t, a)
  ELSE Refused(c.path)

ResolveWith(type, c, e) ==
  CASE Len(c.path) = 1 /\ c.op \in Existence \union Counting -> ResolveRelationship(type, c, e)
    [] Len(c.path) = 1 /\ c.op \notin Existence \union Counting -> ResolveAttribute(type, c)
    [] Len(c.path) = 2 -> ResolveTwoPart(type, c, e, c.path[2])
    [] Len(c.path) = 3 -> ResolveThreePart(type, c, e, c.path[2], c.path[3])
    [] OTHER -> Refused(c.path)
Resolve(type, c) == ResolveWith(type, c, EdgeFor(type, c.path[1]))

\* validate, of a query [entity, conds, sort, limit, offset, fields].
Valid(q) ==
  /\ q.entity \in Types
  /\ q.limit <= MaxPage[q.entity]
  /\ \A s \in Range(q.sort) : s.field \in DOMAIN Attributes[q.entity]
                              /\ Attributes[q.entity][s.field].sortable
  /\ \A f \in Range(q.fields) : f = "id" \/ f \in DOMAIN Attributes[q.entity]
  /\ \A c \in Range(q.conds) : Resolve(q.entity, c).ok

--------------------------------------------------------------------------------
(* What the schema tells clients they may ask.                                *)

Filterable(type) == {a \in DOMAIN Attributes[type] : Attributes[type][a].filterable}

\* get_allowed_filter_paths: attributes, existence and number of relationships,
\* attributes of the other end, and attributes of the edge.
Outgoing(type) == {e \in Range(EdgeTypes) : type \in Range(e.source) /\ EdgeFor(type, e.alias) = e /\ e.traversable}
AttributePaths(type) ==
  {[path |-> <<a>>, ops |-> OperatorsByType[Attributes[type][a].type]] : a \in Filterable(type)}
ExistencePaths(type) == {[path |-> <<e.alias>>, ops |-> Existence] : e \in {x \in Outgoing(type) : x.exists}}
CountPaths(type) == {[path |-> <<e.alias>>, ops |-> Counting] : e \in {x \in Outgoing(type) : x.counts}}
FarPaths(e, t) ==
  {[path |-> <<e.alias, t, a>>, ops |-> OperatorsByType[Attributes[t][a].type]] : a \in Filterable(t)}
EdgePaths(e) == {[path |-> <<e.alias, a>>, ops |-> OperatorsByType[e.attrs[a].type]] : a \in DOMAIN e.attrs}
AllowedPaths(type) ==
  AttributePaths(type) \union ExistencePaths(type) \union CountPaths(type)
    \union UNION {EdgePaths(e) \union UNION {FarPaths(e, t) : t \in Range(e.target)} : e \in Outgoing(type)}

\* _build_filter_paths_description, of the generated query tools: attributes, and
\* those of the other ends of the relationships that the type is at either end of.
\* That the description names only the first of many is left out.
Described(type) == {a \in Filterable(type) : ~Attributes[type][a].sensitive}
EndsBeside(type, e) ==
  Types \intersect ((IF type \in Range(e.source) THEN Range(e.target) ELSE {})
                      \union (IF type \in Range(e.target) THEN Range(e.source) ELSE {}))
ToolPaths(type) ==
  {[path |-> <<a>>, ops |-> OperatorsByType[Attributes[type][a].type]] : a \in Described(type)}
    \union UNION {UNION {{[path |-> <<e.alias, t, a>>, ops |-> OperatorsByType[Attributes[t][a].type]] :
                           a \in Described(t)} : t \in EndsBeside(type, e)} :
                     e \in {x \in Range(EdgeTypes) : x.traversable}}

SortableFields(type) == {a \in DOMAIN Attributes[type] : Attributes[type][a].sortable}

\* get_default_fields
DefaultFields(type) ==
  LET columns == {a \in DOMAIN Attributes[type] : Attributes[type][a].column > 0}
      plain == {a \in DOMAIN Attributes[type] : ~Attributes[type][a].sensitive}
  IN <<"id">> \o (IF ListFields[type] # <<>> THEN ListFields[type]
                  ELSE IF columns # {}
                  THEN SetToSortSeq(columns, LAMBDA a, b : Attributes[type][a].column < Attributes[type][b].column)
                  ELSE SetToSeq(plain))
================================================================================
