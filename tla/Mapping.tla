--------------------------------- MODULE Mapping ---------------------------------
(* packages/ingestion/mappers/mapping_engine.py: how parsed records become    *)
(* graph mutations.                                                           *)
(*                                                                            *)
(* A record is a function from fields to values.  A template is the field it  *)
(* prints.  An entry of a mapping is [kind, label, keys, attrs, source,       *)
(* target, needs]: attrs, source and target map attributes to templates, and  *)
(* needs are the fields without which one of them raises.                     *)
EXTENDS Naturals, Sequences, SequencesExt

Over(f, g) == [x \in DOMAIN f \union DOMAIN g |-> IF x \in DOMAIN f THEN f[x] ELSE g[x]]

\* resolve_template: a variable that is not there prints nothing.
Render(field, record) == IF field \in DOMAIN record THEN record[field] ELSE ""
RenderAll(templates, record) == [a \in DOMAIN templates |-> Render(templates[a], record)]

\* The template of a key that has none among the attributes is the key itself.
KeyTemplate(entry, k) == IF k \in DOMAIN entry.attrs THEN entry.attrs[k] ELSE k

NodeMutation(label, key, attrs) ==
  [kind |-> "node", label |-> label, key |-> key, attrs |-> attrs, source |-> <<>>, target |-> <<>>]
EdgeMutation(label, source, target) ==
  [kind |-> "edge", label |-> label, key |-> <<>>, attrs |-> <<>>, source |-> source, target |-> target]

\* _process_mapping_entry, of an entry against a record.
Mutation(entry, record) ==
  IF entry.kind = "node"
  THEN NodeMutation(entry.label, [k \in entry.keys |-> Render(KeyTemplate(entry, k), record)],
                    RenderAll(entry.attrs, record))
  ELSE EdgeMutation(entry.label, RenderAll(entry.source, record), RenderAll(entry.target, record))

\* The record is read first, then the context.
Full(context, record) == Over(record, context)

\* An expression raises when a field it works on is not there (a filter the
\* environment does not have works on a field that no record has).
Renders(entry, record) == entry.needs \subseteq DOMAIN record

\* Slip: the first entry that does not render ends those of the record.
Rendered_UntilError(entries, record) ==
  LET failing == {j \in DOMAIN entries : ~Renders(entries[j], record)}
  IN [j \in 1..(IF failing = {} THEN Len(entries) ELSE Min(failing) - 1) |->
        Mutation(entries[j], record)]
\* What the entries that render make of a record.
Rendered(entries, record) ==
  LET rendering == SelectSeq(entries, LAMBDA e : Renders(e, record))
  IN [j \in DOMAIN rendering |-> Mutation(rendering[j], record)]

\* apply_mapping: for each record, each entry; one that raises is left out and
\* reported.
Mutations(entries, records, context) ==
  FlattenSeq([i \in DOMAIN records |-> Rendered(entries, Full(context, records[i]))])
MappingErrors(entries, records, context) ==
  {<<i, j>> \in (DOMAIN records) \X (DOMAIN entries) :
     ~Renders(entries[j], Full(context, records[i]))}
================================================================================
