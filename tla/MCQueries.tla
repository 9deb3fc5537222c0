-------------------------------- MODULE MCQueries --------------------------------
(* Instances of Queries for TLC: devices at sites and in racks.               *)
EXTENDS Queries, TLC

Attr(type) == [type |-> type, filterable |-> TRUE, sortable |-> FALSE, column |-> 0,
               sensitive |-> FALSE, reportable |-> TRUE]
Schema ==
  [Device |-> [status |-> [Attr("enum") EXCEPT !.column = 1],
               rank   |-> [Attr("integer") EXCEPT !.sortable = TRUE, !.column = 2],
               name   |-> Attr("string"),
               secret |-> [Attr("integer") EXCEPT !.sensitive = TRUE, !.filterable = FALSE]],
   Site   |-> [city |-> Attr("enum"), code |-> [Attr("integer") EXCEPT !.filterable = FALSE]],
   Rack   |-> [unit |-> Attr("integer"), city |-> Attr("enum")]]
Lists == [Device |-> <<>>, Site |-> <<"city">>, Rack |-> <<>>]
Pages == [Device |-> 2, Site |-> 2, Rack |-> 2]
Edges ==
  <<[name |-> "AT", alias |-> "at", inverse |-> "inv_at", source |-> <<"Device">>,
     target |-> <<"Site", "Rack">>, attrs |-> [main |-> Attr("boolean"), speed |-> Attr("integer")],
     traversable |-> TRUE, exists |-> TRUE, counts |-> TRUE, reports |-> TRUE,
     cardinality |-> "many_to_many"],
    [name |-> "OWNS", alias |-> "owns", inverse |-> "inv_owns", source |-> <<"Site">>,
     target |-> <<"Device">>, attrs |-> <<>>, traversable |-> TRUE, exists |-> TRUE, counts |-> FALSE,
     reports |-> TRUE, cardinality |-> "one_to_many"],
    [name |-> "PEER", alias |-> "peer", inverse |-> "inv_peer", source |-> <<"Device">>,
     target |-> <<"Rack", "Device">>, attrs |-> <<>>, traversable |-> TRUE, exists |-> TRUE, counts |-> TRUE,
     reports |-> TRUE, cardinality |-> "many_to_many"]>>

Node(type, props) == [type |-> type, props |-> props]
SomeNodes ==
  (1 :> Node("Device", [status |-> 1, rank |-> 1, name |-> <<"s", "w">>, secret |-> 1])) @@
  (2 :> Node("Device", [status |-> 1, rank |-> 1])) @@
  (3 :> Node("Device", [status |-> 2, name |-> <<"r", "t">>])) @@
  (4 :> Node("Site", [city |-> 7, code |-> 1])) @@ (5 :> Node("Rack", [unit |-> 3, city |-> 8]))
Link(type, from, to, props) == [type |-> type, from |-> from, to |-> to, props |-> props]
SomeEdges == {Link("AT", 1, 4, [main |-> TRUE, speed |-> 1]), Link("AT", 1, 5, [main |-> FALSE, speed |-> 2]),
              Link("AT", 2, 4, [main |-> TRUE]), Link("OWNS", 4, 3, <<>>)}
SomeGraphs == {[nodes |-> SomeNodes, edges |-> es] :
                 es \in {x \in SUBSET SomeEdges : Cardinality(x) \in {2, 4}}}

If(path, op, value) == [path |-> path, op |-> op, value |-> value]
Basic == [kind |-> "post", entity |-> "Device", conds |-> <<>>, by |-> "none", farKey |-> "none", far |-> <<>>,
          sort |-> <<>>, limit |-> 2, offset |-> 0, fields |-> <<>>, total |-> TRUE, group |-> NoGroup,
          text |-> [writes |-> FALSE, keyword |-> FALSE], explain |-> FALSE, id |-> "none", visibility |-> "personal",
          user |-> "ann", role |-> "operator", report |-> NoAst]
Of(k, conds) == [Basic EXCEPT !.kind = k, !.conds = conds]
ByRank == <<[field |-> "rank", desc |-> FALSE]>>
ByRankDown == <<[field |-> "rank", desc |-> TRUE]>>

Filters ==
  {<<If(<<"status">>, "eq", 1)>>, <<If(<<"status">>, "in", {1, 2}), If(<<"rank">>, "is_null", Null)>>,
   <<If(<<"rank">>, "between", <<0, 1>>), If(<<"name">>, "contains", <<"w">>)>>,
   <<If(<<"name">>, "not_contains", <<"w">>)>>, <<If(<<"secret">>, "eq", 1)>>, <<If(<<"status">>, "gt", 1)>>,
   <<If(<<"at">>, "exists", Null)>>, <<If(<<"inv_owns">>, "not_exists", Null), If(<<"status">>, "neq", 2)>>,
   <<If(<<"at">>, "count_gte", 1), If(<<"at", "speed">>, "gt", 1)>>, <<If(<<"inv_owns">>, "count_eq", 1)>>,
   <<If(<<"at", "main">>, "eq", TRUE), If(<<"at", "speed">>, "gt", 1)>>,
   <<If(<<"at", "Site", "city">>, "eq", 7), If(<<"at", "main">>, "eq", TRUE)>>,
   <<If(<<"at", "city">>, "eq", 7), If(<<"status">>, "eq", 1)>>,
   <<If(<<"at", "Rack", "unit">>, "eq", 3), If(<<"at", "Site", "city">>, "eq", 7)>>,
   <<If(<<"at", "Site", "code">>, "eq", 1)>>, <<If(<<"at", "Site", "code">>, "eq", 1), If(<<"status">>, "eq", 1)>>,
   <<If(<<"inv_owns", "Site", "city">>, "neq", 8)>>, <<If(<<"moon", "x">>, "eq", 1)>>,
   <<If(<<"owns", "Site", "city">>, "eq", 7)>>, <<If(<<"owns", "Site", "city">>, "eq", 7), If(<<"status">>, "eq", 1)>>,
   <<If(<<"peer", "Rack", "unit">>, "eq", 3)>>, <<If(<<"peer", "Device", "rank">>, "eq", 1)>>}

\* Others find devices new and changed, and join them to sites.
SomeNodesPut == {[id |-> 6, node |-> Node("Device", [status |-> 1, rank |-> 0])],
                 [id |-> 2, node |-> Node("Device", [status |-> 2, rank |-> 3])]}
SomeEdgesPut == {Link("AT", 3, 4, [main |-> TRUE, speed |-> 3]), Link("PEER", 1, 2, <<>>)}

Col(path, source) == [path |-> path, source |-> source, alias |-> ""]
Rep(cols, conds, mode) ==
  [entity |-> "Device", conds |-> conds, cols |-> cols, mode |-> mode, sort |-> <<>>, limit |-> 2,
   offset |-> 0, maxRows |-> 3, groupBy |-> <<>>]
RankCol == Col(<<"rank">>, "root")
CityCol == Col(<<"at", "Site", "city">>, "related")
Up == <<If(<<"status">>, "eq", 1)>>
Columns == {<<RankCol, CityCol>>, <<RankCol, Col(<<"at", "edge", "speed">>, "edge")>>,
            <<RankCol, Col(<<"at", "count">>, "aggregate"), Col(<<"moon", "x">>, "related")>>,
            <<RankCol, CityCol, Col(<<"inv_owns", "city">>, "related")>>,
            <<CityCol, Col(<<"at", "edge", "speed">>, "edge"), Col(<<"at", "Rack", "unit">>, "related")>>}
SomeReports ==
  {Rep(cols, conds, mode) : cols \in Columns, mode \in {"root", "expanded", "aggregate"},
     conds \in {Up, <<If(<<"at", "speed">>, "gt", 1)>>}}
    \union {[Rep(<<RankCol, CityCol>>, <<>>, "expanded") EXCEPT !.sort = <<[field |-> <<"rank">>, desc |-> TRUE]>>],
            [Rep(<<RankCol>>, <<If(<<"secret">>, "eq", 1)>>, "root") EXCEPT !.offset = 1],
            Rep(<<CityCol>>, <<If(<<"at", "main">>, "eq", TRUE)>>, "aggregate"),
            [Rep(<<RankCol>>, Up, "aggregate") EXCEPT !.groupBy = <<<<"rank">>, <<"at", "city">>>>],
            [Rep(<<RankCol>>, Up, "aggregate") EXCEPT !.groupBy = <<<<"at", "city">>>>],
            [Rep(<<RankCol>>, <<>>, "root") EXCEPT !.entity = "Moon"]}

Questions ==
  {Of(k, f) : k \in {"post", "query", "count"}, f \in Filters \union {<<>>}}
    \union {[Of(k, Up) EXCEPT !.sort = s, !.fields = f] : k \in {"post", "list"}, s \in {ByRank, ByRankDown},
              f \in {<<>>, <<"status">>, <<"id", "rank">>}}
    \union {[Of("count", Up) EXCEPT !.group = "rank"],
            Of("lookup", <<If(<<"rank">>, "eq", 1)>>), Of("lookup", <<If(<<"secret">>, "eq", 1)>>),
            [Of("structured", Up) EXCEPT !.sort = ByRank], [Of("structured", <<>>) EXCEPT !.fields = <<"status">>]}
    \union {[Of("find", Up) EXCEPT !.by = by, !.farKey = key, !.far = <<If(<<"city">>, "eq", 7)>>] :
              by \in {"at", "site"}, key \in {"at", "site"}}
    \union {[Of(k, <<>>) EXCEPT !.report = r] : k \in {"report", "csv"}, r \in SomeReports}

Texts3 == {[writes |-> FALSE, keyword |-> TRUE], [writes |-> TRUE, keyword |-> TRUE], [writes |-> TRUE, keyword |-> FALSE]}
Chores ==
  {[Of("cypher", <<>>) EXCEPT !.text = t, !.role = r] : t \in Texts3, r \in {"operator", "admin"}}
    \union {[Of("cypher", <<>>) EXCEPT !.explain = TRUE, !.role = "admin"],
            [Of("save_query", <<>>) EXCEPT !.role = "editor"], [Of("save_query", <<>>) EXCEPT !.role = "viewer"],
            [Of("delete_query", <<>>) EXCEPT !.id = "q1"], [Of("run_query", <<>>) EXCEPT !.id = "q1"],
            [Of("run_query", <<>>) EXCEPT !.id = "q2"],
            Of("save_report", <<>>), [Of("update_report", <<>>) EXCEPT !.id = "p1", !.visibility = "shared"],
            [Of("update_report", <<>>) EXCEPT !.id = "p1", !.user = "bob"],
            [Of("delete_report", <<>>) EXCEPT !.id = "p1"], [Of("delete_report", <<>>) EXCEPT !.id = "p1", !.user = "bob"]}

SavedQueries == ("q1" :> [text |-> [writes |-> TRUE, keyword |-> TRUE], owner |-> "bob"])
                  @@ ("q2" :> [text |-> [writes |-> FALSE, keyword |-> FALSE], owner |-> "bob"])
SavedReports == ("p1" :> [owner |-> "bob", visibility |-> "personal"])

CONSTANTS c1, c2
\* A question alone, or two chores at once.
Alone(cs) == {(c1 :> k) @@ (c2 :> NoCommand) : k \in cs}
Everything == Alone(Questions) \union {(c1 :> k) @@ (c2 :> l) : k, l \in Chores}
================================================================================
