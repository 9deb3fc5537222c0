-------------------------------- MODULE Ingestion --------------------------------
(*****************************************************************************)
(* packages/ingestion/pipeline.py (IngestionPipeline): for each device and   *)
(* each command collect, parse, map and upsert, with the bulk upsert of      *)
(* node_repository.py.  Errors stay with the device and the command they     *)
(* belong to, but for a definition that is no mapping.  Each database call   *)
(* is an await, where other runs go on.                                      *)
(*****************************************************************************)
EXTENDS Mapping, FiniteSets, TLC

CONSTANTS
  Runs,        \* executions of the pipeline
  Targets,     \* sequence of host names
  Commands,    \* sequence of [type, parser, mapping]; "": none
  Output,      \* target -> command -> [status, records]; status: down, garbled, fine
  Parsers,     \* names with a template in the database
  MappingDefs, \* name -> sequence of entries
  Spoilable,   \* names whose stored text may be no mapping, in this instance
  MaxFaults    \* bound on failing database calls

VARIABLES
  nodes,     \* sequence of [label, props, by], by being the run that created it
  edges,     \* set of [label, from, to, run], from and to being places in nodes
  faults,
  pc,
  dry,       \* whether it only shows what it would do
  malformed, \* names of the definitions that yaml.safe_load makes no mapping of
  pair,      \* the target and command it has reached, as a number from 1
  todo,      \* edge mutations still to be written
  batches,   \* node batches still to be written: [label, keys, items]
  known,     \* how many nodes there were when its statement began
  result,    \* its IngestionResult
  announced, \* the payload of its ingestion.completed event
  failed,    \* history: the pairs and labels whose statement raised
  after      \* history: the runs that had ended when it began

runVars == <<pc, pair, todo, batches, known, result, announced, failed, after>>
inputs == <<dry, malformed>>
vars == <<nodes, edges, faults, runVars, inputs>>

Pairs == 1..(Len(Targets) * Len(Commands))
TargetOf(k) == Targets[((k - 1) \div Len(Commands)) + 1]
CommandAt(k) == ((k - 1) % Len(Commands)) + 1
CommandOf(k) == Commands[CommandAt(k)]
OutputOf(k) == Output[TargetOf(k)][CommandAt(k)]

Provenance == {"_run", "_source"}
NoResult == [devices |-> 0, executed |-> 0, parsed |-> 0, generated |-> 0, applied |-> 0,
             errors |-> {}, shown |-> <<>>]

Context(k) == [hostname |-> TargetOf(k)]
\* What the mapping of each pair makes of its records; it depends on nothing that
\* changes.
MutationTable ==
  [k \in Pairs |->
     IF CommandOf(k).mapping \in DOMAIN MappingDefs
     THEN Mutations(MappingDefs[CommandOf(k).mapping], OutputOf(k).records, Context(k)) ELSE <<>>]
MutationsOf(k) == MutationTable[k]

\* An error is of a pair, and of a record and an entry if it is apply_mapping's.
Whole(k) == [pair |-> k, record |-> 0, entry |-> 0]
EntryErrors(k) ==
  {[pair |-> k, record |-> e[1], entry |-> e[2]] :
     e \in MappingErrors(MappingDefs[CommandOf(k).mapping], OutputOf(k).records, Context(k))}

--------------------------------------------------------------------------------
(* Statements.                                                               *)

\* A node property that a statement sets from an item which lacks it is removed.
SetFrom(props, attrs, item) ==
  [a \in (DOMAIN props \ attrs) \union (attrs \intersect DOMAIN item) |->
     IF a \in attrs THEN item[a] ELSE props[a]]

Matching(ns, label, key) ==
  {i \in DOMAIN ns : ns[i].label = label
      /\ \A k \in DOMAIN key : k \in DOMAIN ns[i].props /\ ns[i].props[k] = key[k]}

\* bulk_upsert: the statement is built from the keys and the first item, and fails
\* as a whole when an item has no value for a key.
Mergeable(b) == \A i \in DOMAIN b.items : b.keys \subseteq DOMAIN b.items[i]
SetAttrs(b) == DOMAIN b.items[1] \ b.keys
\* UNWIND, MERGE of each item by its keys, SET of the attributes of the first item:
\* the node of a key is left as the last item with that key sets it.  There is no
\* constraint on the keys: the nodes unseen, which other statements committed since
\* this one began, it does not find.
BulkUpsert(ns, unseen, b, r) ==
  LET keyOf(i) == Restrict(b.items[i], b.keys)
      ofKey(i) == {j \in DOMAIN b.items : keyOf(j) = keyOf(i)}
      setter(i) == b.items[Max(ofKey(i))]
      foundBy(n) == {i \in DOMAIN b.items : n \in Matching(ns, b.label, keyOf(i)) \ unseen}
      new == SelectSeq([i \in DOMAIN b.items |-> i],
               LAMBDA i : i = Min(ofKey(i)) /\ Matching(ns, b.label, keyOf(i)) \subseteq unseen)
  IN [n \in DOMAIN ns |->
        IF foundBy(n) = {} THEN ns[n]
        ELSE [ns[n] EXCEPT !.props = SetFrom(@, SetAttrs(b), b.items[Max(foundBy(n))])]]
     \o [n \in DOMAIN new |->
           [label |-> b.label, by |-> r,
            props |-> SetFrom(keyOf(new[n]), SetAttrs(b), setter(new[n]))]]

\* Slip: the two ends are swapped.
Ends_Swapped(ns, m) ==
  {<<i, j>> \in (DOMAIN ns) \X (DOMAIN ns) :
     /\ \A k \in DOMAIN m.target : k \in DOMAIN ns[i].props /\ ns[i].props[k] = m.target[k]
     /\ \A k \in DOMAIN m.source : k \in DOMAIN ns[j].props /\ ns[j].props[k] = m.source[k]}
\* MATCH of both ends of an edge, by properties, whatever the labels.
Ends(ns, m) ==
  {<<i, j>> \in (DOMAIN ns) \X (DOMAIN ns) :
     /\ \A k \in DOMAIN m.source : k \in DOMAIN ns[i].props /\ ns[i].props[k] = m.source[k]
     /\ \A k \in DOMAIN m.target : k \in DOMAIN ns[j].props /\ ns[j].props[k] = m.target[k]}
MergeEdge(es, ns, m, r) ==
  {e \in es : e.label # m.label \/ <<e.from, e.to>> \notin Ends(ns, m)}
    \union {[label |-> m.label, from |-> p[1], to |-> p[2], run |-> r] : p \in Ends(ns, m)}

--------------------------------------------------------------------------------
(* _execute_mutations: what is written, in which order.                      *)

\* Slip: the source is the one of the first device.
Stamped_First(m, r, k) == ("_run" :> r) @@ ("_source" :> Targets[1]) @@ m.attrs
Stamped(m, r, k) == ("_run" :> r) @@ ("_source" :> TargetOf(k)) @@ m.attrs

EdgesIn(ms) == SelectSeq(ms, LAMBDA m : m.kind = "edge")
NodesIn(ms) == SelectSeq(ms, LAMBDA m : m.kind = "node")

\* The node mutations by label, in the order labels appear; the keys are those of
\* the first mutation of the label.
BatchesIn(ms, r, k) ==
  LET ns == NodesIn(ms)
      first == SelectSeq([i \in DOMAIN ns |-> i],
                 LAMBDA i : \A j \in 1..(i - 1) : ns[j].label # ns[i].label)
      of(label) == SelectSeq(ns, LAMBDA m : m.label = label)
  IN [b \in DOMAIN first |->
        LET m == ns[first[b]] same == of(m.label)
        IN [label |-> m.label, keys |-> DOMAIN m.key,
            items |-> [i \in DOMAIN same |-> Stamped(same[i], r, k)]]]
BatchTable == [r \in Runs |-> [k \in Pairs |-> BatchesIn(MutationsOf(k), r, k)]]

--------------------------------------------------------------------------------
TypeOK ==
  /\ faults \in 0..MaxFaults
  /\ pc \in [Runs -> {"idle", "collect", "parse", "map", "write", "merge", "emit",
                     "done", "raised", "lost"}]
  /\ dry \in [Runs -> BOOLEAN] /\ malformed \subseteq Spoilable /\ pair \in [Runs -> Pairs]
  /\ \A r \in Runs : /\ pc[r] = "write" => todo[r] # <<>> \/ batches[r] # <<>>
                     /\ pc[r] = "merge" => todo[r] = <<>> /\ batches[r] # <<>>
                     /\ pc[r] \notin {"write", "merge"} => todo[r] = <<>> /\ batches[r] = <<>>
                     /\ known[r] <= Len(nodes)
                     /\ result[r].executed <= Cardinality(Pairs)
  /\ \A e \in edges : {e.from, e.to} \subseteq DOMAIN nodes

Init ==
  /\ nodes = <<>> /\ edges = {} /\ faults = 0
  /\ pc = [r \in Runs |-> "idle"]
  /\ dry \in [Runs -> BOOLEAN] /\ malformed \in SUBSET Spoilable
  /\ known = [r \in Runs |-> 0]
  /\ pair = [r \in Runs |-> 1]
  /\ todo = [r \in Runs |-> <<>>]
  /\ batches = [r \in Runs |-> <<>>]
  /\ result = [r \in Runs |-> NoResult]
  /\ announced = [r \in Runs |-> {}]
  /\ failed = [r \in Runs |-> {}]
  /\ after = [r \in Runs |-> {}]

Fault == faults < MaxFaults /\ faults' = faults + 1
NoFault == UNCHANGED faults

\* The next command of the device, the next device, or the end.
Onward(r, res) ==
  /\ result' = [result EXCEPT ![r] = res]
  /\ IF pair[r] + 1 \in Pairs
     THEN pair' = [pair EXCEPT ![r] = @ + 1] /\ pc' = [pc EXCEPT ![r] = "collect"]
     ELSE pc' = [pc EXCEPT ![r] = "emit"] /\ UNCHANGED pair
To(r, stage, res) ==
  pc' = [pc EXCEPT ![r] = stage] /\ result' = [result EXCEPT ![r] = res] /\ UNCHANGED pair

WithError(r, res) == [res EXCEPT !.errors = @ \union {Whole(pair[r])}]
Ended == {"done", "raised", "lost"}

Begin(r) ==
  /\ pc[r] = "idle"
  /\ pc' = [pc EXCEPT ![r] = "collect"]
  /\ after' = [after EXCEPT ![r] = {x \in Runs : pc[x] \in Ended}]
  /\ UNCHANGED <<nodes, edges, faults, pair, todo, batches, known, result, announced, failed>>

Counted(r) == [result[r] EXCEPT !.executed = @ + 1,
                 !.devices = IF CommandAt(pair[r]) = 1 THEN @ + 1 ELSE @]

Collect(r) ==
  /\ pc[r] = "collect"
  /\ LET res == Counted(r)
     IN IF OutputOf(pair[r]).status = "down"
        THEN Onward(r, WithError(r, res)) ELSE To(r, "parse", res)
  /\ UNCHANGED <<nodes, edges, faults, todo, batches, known, announced, failed, after>>

\* _parse: a CLI command needs a stored template.
Parses(k) ==
  /\ OutputOf(k).status = "fine"
  /\ CommandOf(k).type = "cli" => CommandOf(k).parser \in Parsers

Parse(r) ==
  /\ pc[r] = "parse"
  /\ \/ /\ Parses(pair[r]) /\ NoFault
        /\ LET records == OutputOf(pair[r]).records
               res == [result[r] EXCEPT !.parsed = @ + Len(records)]
           IN IF records = <<>> \/ CommandOf(pair[r]).mapping = ""
              THEN Onward(r, res) ELSE To(r, "map", res)
     \/ ~Parses(pair[r]) /\ NoFault /\ Onward(r, WithError(r, result[r]))
     \/ CommandOf(pair[r]).type = "cli" /\ Fault /\ Onward(r, WithError(r, result[r]))
  /\ UNCHANGED <<nodes, edges, todo, batches, known, announced, failed, after>>

\* A dry run collects the mutations in its result.
Show(r, ms, res) ==
  IF dry[r]
  THEN [todo |-> <<>>, batches |-> <<>>, res |-> [res EXCEPT !.shown = @ \o ms]]
  ELSE [todo |-> EdgesIn(ms), batches |-> BatchTable[r][pair[r]], res |-> res]

\* The mapping definition is loaded and applied.  What is stored may be no mapping:
\* then apply_mapping raises, outside of any try block, and so does execute.
Map(r) ==
  LET k == pair[r] name == CommandOf(k).mapping
  IN
  /\ pc[r] = "map"
  /\ \/ /\ name \in (DOMAIN MappingDefs) \ malformed /\ NoFault
        /\ LET ms == MutationsOf(k)
               plan == Show(r, ms, [result[r] EXCEPT !.generated = @ + Len(ms),
                                                     !.errors = @ \union EntryErrors(k)])
           IN /\ todo' = [todo EXCEPT ![r] = plan.todo]
              /\ batches' = [batches EXCEPT ![r] = plan.batches]
              /\ IF plan.todo = <<>> /\ plan.batches = <<>>
                 THEN Onward(r, plan.res) ELSE To(r, "write", plan.res)
     \/ /\ name \in malformed /\ NoFault
        /\ To(r, "raised", result[r]) /\ UNCHANGED <<todo, batches>>
     \/ /\ \/ name \notin DOMAIN MappingDefs /\ NoFault
           \/ Fault
        /\ Onward(r, WithError(r, result[r])) /\ UNCHANGED <<todo, batches>>
  /\ UNCHANGED <<nodes, edges, known, announced, failed, after>>

\* A statement raises: logged, without an error in the result.
Raised(r, label) == failed' = [failed EXCEPT ![r] = @ \union {<<pair[r], label>>}]
\* The next statement of the pair, if there is one.
NextStatement(r, res) ==
  IF todo'[r] = <<>> /\ batches'[r] = <<>> THEN Onward(r, res) ELSE To(r, "write", res)

\* Edges are written one by one, before the nodes.
WriteEdge(r) ==
  /\ pc[r] = "write" /\ todo[r] # <<>>
  /\ todo' = [todo EXCEPT ![r] = Tail(@)] /\ UNCHANGED batches
  /\ LET m == Head(todo[r])
     IN \/ /\ NoFault /\ edges' = MergeEdge(edges, nodes, m, r) /\ UNCHANGED failed
           /\ NextStatement(r, [result[r] EXCEPT !.applied = @ + 1])
        \/ /\ Fault /\ edges' \in {edges, MergeEdge(edges, nodes, m, r)} /\ Raised(r, m.label)
           /\ NextStatement(r, result[r])
  /\ UNCHANGED <<nodes, known, announced, after>>

\* A statement of a batch begins; what is committed from now on it may not see.
BeginBatch(r) ==
  /\ pc[r] = "write" /\ todo[r] = <<>> /\ batches[r] # <<>>
  /\ known' = [known EXCEPT ![r] = Len(nodes)]
  /\ pc' = [pc EXCEPT ![r] = "merge"]
  /\ UNCHANGED <<nodes, edges, faults, pair, todo, batches, result, announced, failed, after>>

\* It commits, commits without its reply, or fails.
WriteBatch(r) ==
  /\ pc[r] = "merge"
  /\ batches' = [batches EXCEPT ![r] = Tail(@)] /\ UNCHANGED todo
  /\ LET b == Head(batches[r])
         merged == {BulkUpsert(nodes, unseen, b, r) :
                      unseen \in SUBSET ((known[r] + 1)..Len(nodes))}
     IN \/ /\ Mergeable(b) /\ NoFault /\ nodes' \in merged /\ UNCHANGED failed
           /\ NextStatement(r, [result[r] EXCEPT !.applied = @ + Len(b.items)])
        \/ /\ IF Mergeable(b) THEN Fault /\ nodes' \in merged \union {nodes}
                              ELSE NoFault /\ UNCHANGED nodes
           /\ Raised(r, b.label)
           /\ NextStatement(r, result[r])
  /\ UNCHANGED <<edges, known, announced, after>>

\* Slip: a run with errors ends without an event.
EmitCompletion_Clean(r) ==
  /\ pc[r] = "emit"
  /\ announced' = [announced EXCEPT ![r] = IF result[r].errors = {} THEN {result[r]} ELSE @]
  /\ pc' = [pc EXCEPT ![r] = "done"]
  /\ UNCHANGED <<nodes, edges, faults, pair, todo, batches, known, result, failed, after>>
\* publish raises only if a pattern is added meanwhile (EventBus.RaisesForNewPatterns).
EmitCompletion(r) ==
  /\ pc[r] = "emit"
  /\ announced' = [announced EXCEPT ![r] = {result[r]}]
  /\ pc' = [pc EXCEPT ![r] = "done"]
  /\ UNCHANGED <<nodes, edges, faults, pair, todo, batches, known, result, failed, after>>

\* The process ends while the run is under way.
Die(r) ==
  /\ pc[r] \notin {"idle"} \union Ended /\ Fault
  /\ pc' = [pc EXCEPT ![r] = "lost"]
  /\ todo' = [todo EXCEPT ![r] = <<>>] /\ batches' = [batches EXCEPT ![r] = <<>>]
  /\ UNCHANGED <<nodes, edges, pair, known, result, announced, failed, after>>

Step(r) == \/ Begin(r) \/ Collect(r) \/ Parse(r) \/ Map(r)
           \/ WriteEdge(r) \/ BeginBatch(r) \/ WriteBatch(r) \/ EmitCompletion(r)
Next == (\E r \in Runs : Step(r) \/ Die(r)) /\ UNCHANGED inputs
Spec == Init /\ [][Next]_vars /\ \A r \in Runs : WF_vars(Step(r) /\ UNCHANGED inputs)

--------------------------------------------------------------------------------
(* Properties.                                                               *)

Maps(k) == /\ Parses(k) /\ OutputOf(k).records # <<>>
           /\ CommandOf(k).mapping \in (DOMAIN MappingDefs) \ malformed
\* The batches that run r, unless it is a dry one, may write from a device.
SourceTable ==
  [r \in Runs |-> [d \in Range(Targets) |->
     UNION {ToSet(BatchTable[r][k]) : k \in {k \in Pairs : TargetOf(k) = d}}]]
AllBatches == UNION {UNION {SourceTable[r][d] : d \in Range(Targets)} : r \in Runs}

\* A node says which run and device it comes from.  Its keys, and the properties
\* that the first item of the batch has, are those of one item of that batch: none
\* of another record, device or run is left among them, whatever runs and mappings
\* write the same node, and wherever they stop.  Each other property is one that
\* some batch of the label had in its first item, with the value of one item.
ProvenanceTrue ==
  \A i \in DOMAIN nodes :
    LET label == nodes[i].label props == nodes[i].props
        Told(item, a) == (a \in DOMAIN props <=> a \in DOMAIN item)
                         /\ (a \in DOMAIN item => props[a] = item[a])
    IN /\ Provenance \subseteq DOMAIN props /\ ~dry[props["_run"]]
       /\ \E b \in SourceTable[props["_run"]][props["_source"]] :
            b.label = label /\ \E x \in ToSet(b.items) : \A a \in b.keys \union SetAttrs(b) : Told(x, a)
       /\ \A a \in DOMAIN props : \E b \in AllBatches :
            /\ b.label = label /\ a \in b.keys \union SetAttrs(b)
            /\ \E x \in ToSet(b.items) : /\ a \in DOMAIN x /\ x[a] = props[a]
                                        /\ ~dry[x["_run"]]

\* Labels that every batch merges by the same keys, with those keys.
OneKey == {<<b.label, b.keys>> : b \in {b \in AllBatches : \A c \in AllBatches :
                                         c.label = b.label => c.keys = b.keys}}

\* Running a pipeline again makes no second node with the same keys: two of them
\* come from two runs that were under way at the same time, and then only because
\* no constraint makes one statement wait for the other.
KeysUnique ==
  \A i, j \in DOMAIN nodes : \A p \in OneKey :
    /\ i # j /\ nodes[i].label = p[1] /\ nodes[j].label = p[1]
    /\ Restrict(nodes[i].props, p[2]) = Restrict(nodes[j].props, p[2])
    => LET r == nodes[i].by q == nodes[j].by
       IN r # q /\ r \notin after[q] /\ q \notin after[r]

\* Dry runs write nothing, whoever else is under way.
DryRunsWriteNothing ==
  /\ \A i \in DOMAIN nodes : ~dry[nodes[i].by] /\ ~dry[nodes[i].props["_run"]]
  /\ \A e \in edges : ~dry[e.run]

\* The graph that runs leave behind: typed, true to what was parsed, without
\* doubles but those of overlapping runs, and untouched by dry runs.
GraphTrueToRuns == TypeOK /\ ProvenanceTrue /\ KeysUnique /\ DryRunsWriteNothing

\* An edge is written before the nodes of its own command, and is lost, although
\* counted, when its ends are new.  When a pair was run once, and is run again,
\* every edge it mapped between nodes it mapped is there, in its direction, unless
\* a statement about the edge or its ends raised.  Edges find their ends by their keys.
EdgesByTheNextRun ==
  \A r \in Runs : \A x \in after[r] :
    ~dry[r] /\ ~dry[x] /\ pc[r] = "done" /\ pc[x] = "done" =>
      \A k \in Pairs : Maps(k) /\ Whole(k) \notin result[r].errors \union result[x].errors =>
        LET ns == ToSet(NodesIn(MutationsOf(k)))
        IN \A m \in ToSet(EdgesIn(MutationsOf(k))) : \A n1, n2 \in ns :
             /\ <<k, m.label>> \notin failed[r]
             /\ {<<k, n1.label>>, <<k, n2.label>>} \intersect failed[x] = {}
             /\ \A a \in DOMAIN m.source : a \in DOMAIN n1.key /\ n1.key[a] = m.source[a]
             /\ \A a \in DOMAIN m.target : a \in DOMAIN n2.key /\ n2.key[a] = m.target[a]
             => \E e \in edges : /\ e.label = m.label
                                 /\ e.from \in Matching(nodes, n1.label, n1.key)
                                 /\ e.to \in Matching(nodes, n2.label, n2.key)

\* The errors of a pair, when no database call fails.
ErrorsAt(k) ==
  IF ~Parses(k) THEN {Whole(k)}
  ELSE IF OutputOf(k).records = <<>> \/ CommandOf(k).mapping = "" THEN {}
  ELSE IF CommandOf(k).mapping \notin DOMAIN MappingDefs THEN {Whole(k)}
  ELSE EntryErrors(k)

\* One command, device, record or entry that fails keeps no other from being tried:
\* a run that ends has tried every command on every device, has made a mutation of
\* each entry and record that render, and its errors name those, and only those,
\* that could not be collected, parsed or mapped, but for failing database calls.
\* A run that a malformed definition ended has done so up to that command.
EveryPairTried ==
  \A r \in Runs : pc[r] \in {"done", "raised"} =>
    LET upto == IF pc[r] = "done" THEN Cardinality(Pairs) ELSE pair[r]
        errors(k) == {e \in result[r].errors : e.pair = k}
        mapped(k) == {<<i, j>> \in (DOMAIN OutputOf(k).records) \X (DOMAIN MappingDefs[CommandOf(k).mapping]) :
                        [pair |-> k, record |-> i, entry |-> j] \notin EntryErrors(k)}
    IN /\ result[r].executed = upto
       /\ pc[r] = "done" => result[r].devices = Len(Targets)
       /\ pc[r] = "raised" => CommandOf(upto).mapping \in malformed /\ announced[r] = {}
       /\ \A k \in 1..(IF pc[r] = "done" THEN upto ELSE upto - 1) :
            /\ errors(k) \in {ErrorsAt(k), {Whole(k)}}
            /\ faults = 0 => errors(k) = ErrorsAt(k)
       /\ faults = 0 => result[r].generated =
            FoldSet(LAMBDA k, n : n + Cardinality(mapped(k)), 0,
                    {k \in 1..upto : Maps(k)})

\* What a run is for is done when it ends: every command tried, and every edge
\* there by the next run.
RunsComplete == EdgesByTheNextRun /\ EveryPairTried

\* Every run ends, and announces its result, unless the process or a malformed
\* definition ends it.
RunsEnd ==
  <>(\A r \in Runs : \/ pc[r] = "done" /\ announced[r] = {result[r]}
                     \/ pc[r] = "raised" /\ CommandOf(pair[r]).mapping \in malformed
                     \/ pc[r] = "lost")
================================================================================
