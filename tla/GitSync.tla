-------------------------------- MODULE GitSync --------------------------------
(*****************************************************************************)
(* packages/sync_engine/service.py (SyncService) with the schema registry it *)
(* writes to (packages/schema_engine/registry.py) and the router that starts *)
(* it.  A sync clones the head of a branch, applies each mapped directory,   *)
(* stamps the _GitSource node, records a _SyncEvent and announces it.        *)
(*                                                                           *)
(* The registry lives in the memory of the API process: it is loaded from    *)
(* the directories on disk when the process starts and changed by syncs.     *)
(* The clone and the schemas domain run without an await; the other domains  *)
(* await the database once per file, and there is no lock.                   *)
(*****************************************************************************)
EXTENDS Naturals, Sequences, FiniteSets, FiniteSetsExt

CONSTANTS
  Sources,      \* Git sources that may be registered
  Syncs,        \* calls of sync()
  MaxCommit,    \* bound: the head of a branch moves from 1 to MaxCommit
  Names,        \* names of node types and mixins
  Attributes,   \* names of attributes
  Core,         \* definitions in the directories on disk
  Repo,         \* source -> commit -> [definitions, valid]
  Mappings,     \* source -> sequence of domains, its content_mappings
  MaxRestarts   \* bound on restarts of the process

Commits == 1..MaxCommit

\* A parsed schema file: a node type or a mixin, by the attributes it states.
Definitions == [kind : {"NodeType", "Mixin"}, name : Names,
                own : SUBSET Attributes, mixins : Seq(Names)]

\* "files": a domain whose handler writes one node per file (queries, parsers,
\* commands, helpers); "jobs" has no handler; "unknown" is not a ContentDomain.
Domains == {"schemas", "files", "jobs", "unknown"}

ASSUME SyncAssumption ==
  /\ Sources # {} /\ "core" \notin Sources
  /\ MaxCommit \in Nat \ {0} /\ MaxRestarts \in Nat
  /\ Core \subseteq Definitions
  /\ \A s \in Sources :
       /\ \A c \in Commits : /\ Repo[s][c].definitions \subseteq Definitions
                             /\ Repo[s][c].valid \in BOOLEAN
       /\ Mappings[s] \in Seq(Domains)

VARIABLES
  head,        \* commit at the head of each source's branch
  source,      \* the _GitSource nodes
  registry,    \* _node_types and _mixins
  restarts,    \* restarts so far
  pc,          \* where each call of sync() is
  of,          \* the source it syncs
  clone,       \* the commit it cloned; 0: none
  place,       \* the mapping it has reached
  errors,      \* TRUE: its list of errors is not empty
  records,     \* the _SyncEvent nodes
  announced,   \* syncs whose event was emitted
  answer,      \* what each client was told
  stamped,     \* history: sources stamped "success" since the process started
  overlapped   \* history: sources that had two syncs under way at once

syncVars == <<pc, of, clone, place, errors, answer>>
vars == <<head, source, registry, restarts, syncVars, records, announced,
          stamped, overlapped>>

Origins == [source : Sources \union {"core"}, commit : 0..MaxCommit]
Running == {"clone", "files", "stamp", "record", "announce", "fail"}
Under(s) == {r \in Syncs : pc[r] \in Running /\ of[r] = s}

--------------------------------------------------------------------------------
(* The registry.                                                             *)

\* The function f with the entries of g it has no entry of its own for.
Over(f, g) == [x \in DOMAIN f \union DOMAIN g |-> IF x \in DOMAIN f THEN f[x] ELSE g[x]]

Named(ds, k) == {d.name : d \in {e \in ds : e.kind = k}}
The(ds, k, n) == CHOOSE d \in ds : d.kind = k /\ d.name = n

\* _register: each definition replaces the one of its name.  An attribute is
\* identified by the origin of the file that states it.
Register(reg, ds, o) ==
  [types  |-> Over([n \in Named(ds, "NodeType") |->
                      [from |-> o, own |-> The(ds, "NodeType", n).own,
                       mixins |-> The(ds, "NodeType", n).mixins,
                       attributes |-> [a \in The(ds, "NodeType", n).own |-> o]]],
                   reg.types),
   mixins |-> Over([n \in Named(ds, "Mixin") |->
                      [from |-> o, own |-> The(ds, "Mixin", n).own]],
                   reg.mixins)]

\* Positions of the registered mixins of type t that have attribute a.
Giving(t, ms, a) ==
  {i \in DOMAIN t.mixins : t.mixins[i] \in DOMAIN ms /\ a \in ms[t.mixins[i]].own}
GivenBy(t, ms) ==
  [a \in {b \in Attributes : Giving(t, ms, b) # {}} |->
     ms[t.mixins[Min(Giving(t, ms, a))]].from]

\* The attributes of the mixins that the type does not have yet.
Merged(t, ms) == [t EXCEPT !.attributes = Over(@, GivenBy(t, ms))]

\* Slip: only types that were never merged are looked at.
Resolve_New(reg) ==
  [reg EXCEPT !.types = [n \in DOMAIN @ |->
     IF DOMAIN @[n].attributes = @[n].own THEN Merged(@[n], reg.mixins) ELSE @[n]]]
\* _resolve_mixins: in place, for every node type of the registry.
Resolve(reg) ==
  [reg EXCEPT !.types = [n \in DOMAIN @ |-> Merged(@[n], reg.mixins)]]

Empty == [types |-> <<>>, mixins |-> <<>>]

\* load_from_directories, when the process starts.
AtStart == Resolve(Register(Empty, Core, [source |-> "core", commit |-> 0]))

\* Slip: each file is registered as soon as it is parsed.
Applied_FileByFile(reg, s, c) ==
  LET some == IF Repo[s][c].valid THEN Repo[s][c].definitions
              ELSE {d \in Repo[s][c].definitions : d.kind = "Mixin"}
  IN Resolve(Register(reg, some, [source |-> s, commit |-> c]))
\* _apply_schemas: the directory is parsed first; one bad file fails it all.
Applied(reg, s, c) ==
  IF Repo[s][c].valid
  THEN Resolve(Register(reg, Repo[s][c].definitions, [source |-> s, commit |-> c]))
  ELSE reg

--------------------------------------------------------------------------------
Init ==
  /\ head = [s \in Sources |-> 1]
  /\ source = [s \in Sources |-> [state |-> "new", commit |-> 0, status |-> "none"]]
  /\ registry = AtStart
  /\ restarts = 0
  /\ pc = [r \in Syncs |-> "idle"]
  /\ of = [r \in Syncs |-> CHOOSE s \in Sources : TRUE]
  /\ clone = [r \in Syncs |-> 0]
  /\ place = [r \in Syncs |-> 0]
  /\ errors = [r \in Syncs |-> FALSE]
  /\ records = {} /\ announced = {}
  /\ answer = [r \in Syncs |-> "none"]
  /\ stamped = {} /\ overlapped = {}

\* A commit is pushed to the branch.
Push(s) ==
  /\ head[s] < MaxCommit
  /\ head' = [head EXCEPT ![s] = @ + 1]
  /\ UNCHANGED <<source, registry, restarts, syncVars, records, announced,
                 stamped, overlapped>>

\* register_source: a new node with a new identifier.
RegisterSource(s) ==
  /\ source[s].state = "new"
  /\ source' = [source EXCEPT ![s].state = "registered"]
  /\ UNCHANGED <<head, registry, restarts, syncVars, records, announced,
                 stamped, overlapped>>

\* delete_source: the node goes; syncs under way are not told.
DeleteSource(s) ==
  /\ source[s].state = "registered"
  /\ source' = [source EXCEPT ![s].state = "deleted"]
  /\ UNCHANGED <<head, registry, restarts, syncVars, records, announced,
                 stamped, overlapped>>

\* trigger_sync: the source is looked up, outside the try block; without one,
\* or without an answer, the call ends in an exception.
Begin(r, s) ==
  /\ pc[r] = "idle"
  /\ of' = [of EXCEPT ![r] = s]
  /\ \/ /\ source[s].state = "registered"
        /\ pc' = [pc EXCEPT ![r] = "clone"]
        /\ overlapped' = IF Under(s) = {} THEN overlapped ELSE overlapped \union {s}
        /\ UNCHANGED answer
     \/ /\ pc' = [pc EXCEPT ![r] = "done"]
        /\ answer' = [answer EXCEPT ![r] = "error"]
        /\ UNCHANGED overlapped
  /\ UNCHANGED <<head, source, registry, restarts, clone, place, errors,
                 records, announced, stamped>>

\* Position of the first mapping from i on whose handler awaits the database.
NextStop(s, i) ==
  LET stops == {j \in i..Len(Mappings[s]) : Mappings[s][j] = "files"}
  IN IF stops = {} THEN Len(Mappings[s]) + 1 ELSE Min(stops)

\* Slip: the errors of a domain replace those of the domains before it.
ErrorsAfter_Replaced(before, failed) == failed
ErrorsAfter(before, failed) == before \/ failed

\* The loop over the mappings, from i to the next await or to its end.
Advance(r, s, c, i) ==
  LET stop == NextStop(s, i)
      here == {Mappings[s][j] : j \in i..(stop - 1)}
  IN /\ registry' = IF "schemas" \in here THEN Applied(registry, s, c) ELSE registry
     /\ errors' = [errors EXCEPT ![r] = ErrorsAfter(@,
          "unknown" \in here \/ ("schemas" \in here /\ ~Repo[s][c].valid))]
     /\ place' = [place EXCEPT ![r] = stop]
     /\ pc' = [pc EXCEPT ![r] = IF stop <= Len(Mappings[s]) THEN "files" ELSE "stamp"]

\* _clone_repo and _get_head_commit, then the loop as far as it runs.
Clone(r) ==
  /\ pc[r] = "clone"
  /\ clone' = [clone EXCEPT ![r] = head[of[r]]]
  /\ Advance(r, of[r], head[of[r]], 1)
  /\ UNCHANGED <<head, source, restarts, of, records, announced, answer,
                 stamped, overlapped>>

CloneFails(r) ==
  /\ pc[r] = "clone"
  /\ pc' = [pc EXCEPT ![r] = "fail"]
  /\ UNCHANGED <<head, source, registry, restarts, of, clone, place, errors,
                 records, announced, answer, stamped, overlapped>>

\* The files of a domain have been tried, each in a call of its own whose
\* exception is only logged.  Nothing is written: the statements put SET before
\* ON CREATE SET, which Cypher does not accept.
WriteFiles(r) ==
  /\ pc[r] = "files"
  /\ Advance(r, of[r], clone[r], place[r] + 1)
  /\ UNCHANGED <<head, source, restarts, of, clone, records, announced, answer,
                 stamped, overlapped>>

StatusOf(r) == IF errors[r] THEN "partial" ELSE "success"

\* Slip: the source is merged, so that a deleted one comes back.
StampSource_Merge(s, c, status) ==
  [source EXCEPT ![s] = [state |-> "registered", commit |-> c, status |-> status]]
\* MATCH ... SET: nothing happens when the source is gone.
StampSource(s, c, status) ==
  IF source[s].state = "registered"
  THEN [source EXCEPT ![s].commit = c, ![s].status = status] ELSE source

StampedCommit(r) == clone[r]

\* The statement succeeds, succeeds without its reply, or fails.
Stamp(r) ==
  /\ pc[r] = "stamp"
  /\ \/ /\ source' = StampSource(of[r], StampedCommit(r), StatusOf(r))
        /\ stamped' = IF StatusOf(r) = "success" THEN stamped \union {of[r]}
                                                 ELSE stamped \ {of[r]}
        /\ \E next \in {"record", "fail"} : pc' = [pc EXCEPT ![r] = next]
     \/ UNCHANGED <<source, stamped>> /\ pc' = [pc EXCEPT ![r] = "fail"]
  /\ UNCHANGED <<head, registry, restarts, of, clone, place, errors, records,
                 announced, answer, overlapped>>

SyncEvent(r) == [sync |-> r, commit |-> clone[r], status |-> StatusOf(r)]

\* _record_sync_event, with the same three outcomes.
Record(r) ==
  /\ pc[r] = "record"
  /\ \/ /\ records' = records \union {SyncEvent(r)}
        /\ \E next \in {"announce", "fail"} : pc' = [pc EXCEPT ![r] = next]
     \/ UNCHANGED records /\ pc' = [pc EXCEPT ![r] = "fail"]
  /\ UNCHANGED <<head, source, registry, restarts, of, clone, place, errors,
                 announced, answer, stamped, overlapped>>

\* emit_sync_completed, and the answer to the client.
Announce(r) ==
  /\ pc[r] = "announce"
  /\ announced' = announced \union {r}
  /\ answer' = [answer EXCEPT ![r] = StatusOf(r)]
  /\ pc' = [pc EXCEPT ![r] = "done"]
  /\ UNCHANGED <<head, source, registry, restarts, of, clone, place, errors,
                 records, stamped, overlapped>>

\* The except clause: a failed event is recorded, if that works, and the client
\* gets the exception.
RecordFailure(r) ==
  /\ pc[r] = "fail"
  /\ records' \in {records, records \union {[sync |-> r, commit |-> 0, status |-> "failed"]}}
  /\ answer' = [answer EXCEPT ![r] = "error"]
  /\ pc' = [pc EXCEPT ![r] = "done"]
  /\ UNCHANGED <<head, source, registry, restarts, of, clone, place, errors,
                 announced, stamped, overlapped>>

\* The process stops and starts again: what it had in memory is gone.
Restart ==
  /\ restarts < MaxRestarts
  /\ restarts' = restarts + 1
  /\ pc' = [r \in Syncs |-> IF pc[r] = "idle" THEN "idle" ELSE "done"]
  /\ registry' = AtStart
  /\ stamped' = {}
  /\ UNCHANGED <<head, source, of, clone, place, errors, records, announced,
                 answer, overlapped>>

SyncStep(r) ==
  \/ Clone(r) \/ CloneFails(r) \/ WriteFiles(r) \/ Stamp(r)
  \/ Record(r) \/ Announce(r) \/ RecordFailure(r)

Next ==
  \/ \E s \in Sources : Push(s) \/ RegisterSource(s) \/ DeleteSource(s)
  \/ \E r \in Syncs, s \in Sources : Begin(r, s)
  \/ \E r \in Syncs : SyncStep(r)
  \/ Restart

Spec == Init /\ [][Next]_vars

--------------------------------------------------------------------------------
(* Properties.                                                               *)

IsFrom(reg, k, n, o) ==
  IF k = "NodeType" THEN n \in DOMAIN reg.types /\ reg.types[n].from = o
                    ELSE n \in DOMAIN reg.mixins /\ reg.mixins[n].from = o

\* Definitions that no other source and no directory on disk has.
Alone(s, d) ==
  /\ \A e \in Core : <<e.kind, e.name>> # <<d.kind, d.name>>
  /\ \A t \in Sources \ {s}, c \in Commits :
       \A e \in Repo[t][c].definitions : <<e.kind, e.name>> # <<d.kind, d.name>>
ExclusiveTable == [s \in Sources |-> [c \in Commits |-> {d \in Repo[s][c].definitions : Alone(s, d)}]]
Exclusive(s, c) == ExclusiveTable[s][c]

\* Every variable has its type.
TypeOK ==
  /\ head \in [Sources -> Commits]
  /\ source \in [Sources -> [state : {"new", "registered", "deleted"},
                             commit : 0..MaxCommit,
                             status : {"none", "success", "partial"}]]
  /\ DOMAIN registry.types \subseteq Names /\ DOMAIN registry.mixins \subseteq Names
  /\ \A n \in DOMAIN registry.types :
       LET t == registry.types[n]
       IN /\ t.from \in Origins
          /\ t.own \subseteq DOMAIN t.attributes /\ DOMAIN t.attributes \subseteq Attributes
          /\ \A a \in DOMAIN t.attributes : t.attributes[a] \in Origins
  /\ \A n \in DOMAIN registry.mixins : registry.mixins[n].from \in Origins
  /\ restarts \in 0..MaxRestarts
  /\ pc \in [Syncs -> Running \union {"idle", "done"}]
  /\ of \in [Syncs -> Sources]
  /\ clone \in [Syncs -> 0..MaxCommit]
  /\ \A r \in Syncs : place[r] \in 0..(Len(Mappings[of[r]]) + 1)
  /\ errors \in [Syncs -> BOOLEAN]
  /\ records \subseteq [sync : Syncs, commit : 0..MaxCommit,
                        status : {"success", "partial", "failed"}]
  /\ announced \subseteq Syncs
  /\ answer \in [Syncs -> {"none", "success", "partial", "error"}]
  /\ stamped \subseteq Sources /\ overlapped \subseteq Sources

\* A node type has every attribute of the mixins it names, also when a mixin
\* came, or grew, after the type (_resolve_mixins).
MixinsMerged ==
  \A n \in DOMAIN registry.types :
    LET t == registry.types[n]
    IN \A i \in DOMAIN t.mixins :
         t.mixins[i] \in DOMAIN registry.mixins =>
           registry.mixins[t.mixins[i]].own \subseteq DOMAIN t.attributes

\* What a node type states itself is never replaced by a mixin's attribute.
OwnDefinitionsWin ==
  \A n \in DOMAIN registry.types :
    \A a \in registry.types[n].own :
      registry.types[n].attributes[a] = registry.types[n].from

\* Mixins are resolved: nothing of them is missing, and nothing is overridden,
\* in whatever order syncs bring types and mixins.
MixinsResolved == MixinsMerged /\ OwnDefinitionsWin

\* A source that a sync of this process stamped as synced is in force: its
\* definitions are those of the stamped commit, or of a later one.  Two syncs of
\* the source at the same time may break this, as may a restart.
NeverBehind ==
  \A s \in stamped \ overlapped :
    source[s].state = "registered" /\ (\E i \in DOMAIN Mappings[s] : Mappings[s][i] = "schemas") =>
      \A d \in Exclusive(s, source[s].commit) :
        \E c \in source[s].commit..MaxCommit :
          IsFrom(registry, d.kind, d.name, [source |-> s, commit |-> c])

\* The definitions of a commit that are in the registry, the commits of a source
\* that have some, and those that have all of them.
FromCommit(s, c) ==
  {d \in Exclusive(s, c) : IsFrom(registry, d.kind, d.name, [source |-> s, commit |-> c])}
Present(s)  == {c \in Commits : FromCommit(s, c) # {}}
Complete(s) == {c \in Present(s) : FromCommit(s, c) = Exclusive(s, c)}

\* The schemas of a commit come into force together (_apply_schemas parses the
\* directory before it registers anything): whatever syncs overlap, one commit of
\* a source that is in the registry is there as a whole, and without overlapping
\* syncs that is the newest of those that are there.
AppliedAsAWhole ==
  \A s \in Sources : Present(s) # {} =>
    Complete(s) # {} /\ (s \notin overlapped => Max(Present(s)) \in Complete(s))

\* The registry fits the stamps: a stamped commit is in force, and as a whole.
RegistryFitsStamps == NeverBehind /\ AppliedAsAWhole

\* A client that is told "success" or "partial" finds one record of its sync,
\* which says the same, and the sync was announced.
SuccessIsRecorded ==
  \A r \in Syncs :
    answer[r] \in {"success", "partial"} =>
      /\ {e \in records : e.sync = r} = {SyncEvent(r)}
      /\ answer[r] = StatusOf(r) /\ r \in announced

\* "success" is recorded only for a commit whose schemas could be applied.
StatusTruthful ==
  \A e \in records :
    e.status = "success" /\ (\E i \in DOMAIN Mappings[of[e.sync]] :
                               Mappings[of[e.sync]][i] = "schemas") =>
      Repo[of[e.sync]][e.commit].valid

\* Answers, records and events of a sync say the same, and say what happened.
RecordsFitAnswers == TypeOK /\ SuccessIsRecorded /\ StatusTruthful

\* A sync that is under way does not bring back a source that was deleted.
DeletedStaysDeleted ==
  [][\A s \in Sources : source[s].state = "deleted" => source'[s].state = "deleted"]_vars
================================================================================
