----------------------------- MODULE NodeProperties -----------------------------
(*****************************************************************************)
(* The attribute values of the nodes of one type: what validation lets       *)
(* through, what the service fills in and stamps, what the repository        *)
(* stores, and what the update event says was changed.  Requests interleave  *)
(* at every await, as in GraphCrud, which also models deletion.              *)
(*                                                                           *)
(* A set of properties is a function from attribute names to values, None    *)
(* standing for a JSON null.  The four lifecycle attributes behave in two    *)
(* ways (set on creation, set on every write), so two of them stand for all, *)
(* and a request stands for the user who makes it.                           *)
(*****************************************************************************)
EXTENDS Naturals, Sequences, FiniteSets, SequencesExt

CONSTANTS
  Requests,     \* requests that may be made; each is made at most once
  Attrs,        \* attributes the node type declares, mixins included
  Def,          \* attribute -> [required, auto, default, allowed]
  Internal,     \* names with a leading underscore, which validation skips
  Given,        \* bodies the clients send in this instance
  Values,       \* values the clients write
  None,         \* JSON null, and the default of an attribute without one
  Props0,       \* properties of the node in the database at the start
  Ops,          \* operations used: a subset of {"create", "update"}
  Vias          \* paths used: a subset of {"service", "tool"}

Node0 == "n0"
NodeIds == Requests \union {Node0}

\* The attributes NodeService stamps, declared by the type or not.
Managed == {"created_by", "updated_by"}
Names   == Attrs \union Internal \union Managed \union UNION {DOMAIN g : g \in Given}
Users   == NodeIds

AttributeDefinition ==
  [required : BOOLEAN, auto : BOOLEAN, default : Values \union {None},
   allowed : SUBSET Values]

PropsOver(names, values) == UNION {[D -> values] : D \in SUBSET names}
Body     == PropsOver(Names, Values \union Users \union {None})
Stored   == PropsOver(Names, Values \union Users)

ASSUME PropertiesAssumption ==
  /\ Def \in [Attrs -> AttributeDefinition]
  /\ Given \subseteq Body
  /\ Props0 \in Stored
  /\ None \notin Values \union Users
  /\ Internal \intersect (Attrs \union Managed) = {}
  /\ Node0 \notin Requests

Call == [op : {"create"}, given : Given, via : {"service", "tool"}]
        \union [op : {"update"}, id : NodeIds, given : Given, via : {"service", "tool"}]
NoCall == [op |-> "none"]
Empty  == [a \in {} |-> None]

VARIABLES
  store,     \* node id -> its properties in the database
  pc,        \* where each request is
  call,      \* what each request asked for
  body,      \* each request's dict of properties, filled and stamped in place
  log,       \* update events dispatched, with their changes
  wrote,     \* history: requests whose write took effect, in commit order
  earlier    \* history: requests that had ended when each one began

vars == <<store, pc, call, body, log, wrote, earlier>>

Ended  == {"done", "invalid", "rejected", "failed"}
Stages == {"idle", "exists", "persist", "emit"} \union Ended

Init ==
  /\ store = [n \in {Node0} |-> Props0]
  /\ pc = [r \in Requests |-> "idle"]
  /\ call = [r \in Requests |-> NoCall]
  /\ body = [r \in Requests |-> Empty]
  /\ log = <<>>
  /\ wrote = <<>>
  /\ earlier = [r \in Requests |-> {}]

Goto(r, stage) == pc' = [pc EXCEPT ![r] = stage]
Target(r) == IF call[r].op = "create" THEN r ELSE call[r].id

--------------------------------------------------------------------------------
(* SchemaRegistry.validate_node_properties.                                  *)

\* q written over p, as dict.update and SET n.k = v do.
Overlay(p, q) ==
  [a \in DOMAIN p \union DOMAIN q |-> IF a \in DOMAIN q THEN q[a] ELSE p[a]]

\* Slip: every missing attribute is filled, with null for want of a default.
Fill_Nulls(p) == Overlay([a \in Attrs |-> Def[a].default], p)
\* Validation fills the defaults of missing attributes into the caller's dict.
Fill(p) ==
  Overlay([a \in {b \in Attrs : Def[b].default # None} |-> Def[a].default], p)

Missing(p) ==
  {a \in Attrs : /\ Def[a].required /\ ~Def[a].auto /\ Def[a].default = None
                 /\ a \notin DOMAIN p}
Unknown(p) == DOMAIN p \ (Attrs \union Internal)
NullOnRequired(p) ==
  {a \in DOMAIN p \intersect Attrs : p[a] = None /\ Def[a].required /\ ~Def[a].auto}
Malformed(p) ==
  {a \in DOMAIN p \intersect Attrs : p[a] \notin Def[a].allowed \union Users \union {None}}

\* Slip: null passes for a value.
Valid_NullPasses(p) ==
  Missing(p) = {} /\ Unknown(p) = {} /\ Malformed(p) = {}
\* No error message, for properties that are filled already.
Valid(p) ==
  Missing(p) = {} /\ Unknown(p) = {} /\ NullOnRequired(p) = {} /\ Malformed(p) = {}

\* Creation stamps all lifecycle attributes, an update those of the update.
Stamp(op, r, p) ==
  Overlay(p, [a \in IF op = "create" THEN Managed ELSE {"updated_by"} |-> r])

--------------------------------------------------------------------------------
(* The steps of a request.                                                   *)

\* The agent's update tool hands its input to the repository as it is.
Unchecked(c) == c.via = "tool" /\ c.op = "update"

\* The dict when the handler reaches its first await or its error.
Prepared(r, c) ==
  IF Unchecked(c) THEN c.given
  ELSE IF c.via = "service" /\ c.op = "create" /\ Valid(Fill(c.given))
    THEN Stamp(c.op, r, Fill(c.given)) ELSE Fill(c.given)

\* The service validates; then the repository's create_node validates again,
\* now with the stamps, and raises an error of its own.
FirstStage(r, c) ==
  LET refused == c.via = "service" /\ ~Valid(Fill(c.given))
  IN CASE Unchecked(c) -> "persist"
       [] ~Unchecked(c) /\ refused -> "invalid"
       [] ~Unchecked(c) /\ ~refused /\ c.op = "update" -> "exists"
       [] OTHER -> IF Valid(Prepared(r, c)) THEN "persist" ELSE "rejected"

Begin(r, c) ==
  /\ pc[r] = "idle"
  /\ c.op \in Ops /\ c.via \in Vias
  /\ c.op = "update" => c.id \in DOMAIN store
  /\ call' = [call EXCEPT ![r] = c]
  /\ earlier' = [earlier EXCEPT ![r] = {q \in Requests : pc[q] \in Ended}]
  /\ body' = [body EXCEPT ![r] = Prepared(r, c)]
  /\ Goto(r, FirstStage(r, c))
  /\ UNCHANGED <<store, log, wrote>>

\* The node is read, and found; then the update is stamped.
CheckExists(r) ==
  /\ pc[r] = "exists"
  /\ body' = [body EXCEPT ![r] = Stamp("update", r, body[r])]
  /\ Goto(r, "persist")
  /\ UNCHANGED <<store, call, log, wrote, earlier>>

\* Neo4j keeps no null: CREATE leaves it out, SET n.k = null removes n.k.
NonNull(p) == Restrict(p, {a \in DOMAIN p : p[a] # None})

\* Slip: SET n = $props instead of one SET per property.
Result_Replace(r) == NonNull(body[r])
Result(r) ==
  IF call[r].op = "create" THEN NonNull(body[r])
                           ELSE NonNull(Overlay(store[Target(r)], body[r]))

\* CREATE, or MATCH ... SET; an empty update is turned into a read.
Write(r) ==
  IF call[r].op = "update" /\ body[r] = Empty THEN UNCHANGED <<store, wrote>>
  ELSE /\ store' = Overlay(store, [n \in {Target(r)} |-> Result(r)])
       /\ wrote' = Append(wrote, r)

Persist(r) ==
  /\ pc[r] = "persist"
  /\ Write(r)
  /\ Goto(r, IF call[r].via = "service" THEN "emit" ELSE "done")
  /\ UNCHANGED <<call, body, log, earlier>>

\* A database error, or a reply that is lost after the write took effect.
DbFails(r) ==
  /\ \/ pc[r] \in {"exists", "persist"} /\ UNCHANGED <<store, wrote>>
     \/ pc[r] = "persist" /\ Write(r)
  /\ Goto(r, "failed")
  /\ UNCHANGED <<call, body, log, earlier>>

\* Slip: the event carries what the client sent.
Changes_Given(r) == call[r].given
\* The event of an update carries the dict as it was written.
Changes(r) == body[r]

\* Emission follows the audit await; creation events carry no properties.
Emit(r) ==
  /\ pc[r] = "emit"
  /\ log' = IF call[r].op = "update"
              THEN Append(log, [req |-> r, changes |-> Changes(r)]) ELSE log
  /\ Goto(r, "done")
  /\ UNCHANGED <<store, call, body, wrote, earlier>>

Step(r) == CheckExists(r) \/ Persist(r) \/ DbFails(r) \/ Emit(r)

Next == \E r \in Requests : Step(r) \/ \E c \in Call : Begin(r, c)

Spec == Init /\ [][Next]_vars

--------------------------------------------------------------------------------
(* Properties.                                                               *)

\* Every variable has its type: in particular no node stores a null.
TypeOK ==
  /\ DOMAIN store \subseteq NodeIds
  /\ \A n \in DOMAIN store : store[n] \in Stored
  /\ pc \in [Requests -> Stages]
  /\ call \in [Requests -> Call \union {NoCall}]
  /\ body \in [Requests -> Body]
  /\ log \in Seq([req : Requests, changes : Body])
  /\ wrote \in Seq(Requests)
  /\ earlier \in [Requests -> SUBSET Requests]

\* Places in wrote of the requests that wrote node n.
WritesOf(n) == {i \in DOMAIN wrote : Target(wrote[i]) = n}

\* The last write that named attribute a of node n was an unchecked one.
WrittenUnchecked(n, a) ==
  \E i \in WritesOf(n) :
    /\ a \in DOMAIN body[wrote[i]] /\ Unchecked(call[wrote[i]])
    /\ \A j \in WritesOf(n) : a \in DOMAIN body[wrote[j]] => j <= i

\* Whatever sequence of requests wrote a node, checked or not, and whatever each
\* of them left out, it has every required attribute, none that is not declared
\* and allowed values, but for the attributes that the agent's update tool wrote
\* last (tool_executor.py, _execute_update): what else that tool writes over a
\* node, and however its writes interleave with checked ones, each attribute
\* that a checked request writes is right again.
Conforms ==
  \A n \in DOMAIN store :
    /\ \A a \in Unknown(store[n]) \union Malformed(store[n]) : WrittenUnchecked(n, a)
    /\ \A a \in Attrs : Def[a].required /\ ~Def[a].auto =>
         a \in DOMAIN store[n] \/ WrittenUnchecked(n, a)

\* The lifecycle attribute of the last update names the service request that
\* wrote last, whatever its client put there.
UpdaterRecorded ==
  \A n \in DOMAIN store : \A i \in WritesOf(n) :
    (\A j \in WritesOf(n) : j <= i) /\ call[wrote[i]].via = "service" =>
      "updated_by" \in DOMAIN store[n] /\ store[n]["updated_by"] = wrote[i]

\* What an attribute of a node is now; None when it has no value.
Value(n, a) == IF a \in DOMAIN store[n] THEN store[n][a] ELSE None

\* Requests whose write gave attribute a of node n its value.
WritersOfValue(n, a) == {wrote[i] : i \in {j \in WritesOf(n) : a \in DOMAIN body[wrote[j]]}}

\* An attribute whose writes did not overlap has the value that the last event
\* about it says, once the writers have reported.
EventsTellTheValue ==
  \A n \in DOMAIN store, a \in Names :
    LET W == WritersOfValue(n, a)
        E == {i \in DOMAIN log : log[i].req \in W}
    IN  /\ W # {}
        /\ \A r \in W : pc[r] = "done" /\ call[r].via = "service" /\ call[r].op = "update"
        /\ \A r, s \in W : r = s \/ r \in earlier[s] \/ s \in earlier[r]
        => \E i \in E : /\ \A j \in E : j <= i
                        /\ a \in DOMAIN log[i].changes
                        /\ log[i].changes[a] = Value(n, a)

\* The stored value, the stamp of its writer and the events about it agree,
\* whatever two requests interleave; what is stored is well typed.
ValuesAccountedFor == TypeOK /\ UpdaterRecorded /\ EventsTellTheValue

NamedByWriter(n, a) ==
  \E r \in Requests : pc'[r] # pc[r] /\ Target(r) = n /\ a \in DOMAIN call[r].given

\* A write leaves alone every attribute its client did not name, but for the
\* stamp and the attributes with a default, which may fall back to it: requests
\* that update other attributes do not undo each other.
OnlyNamedOrDefaulted ==
  [][\A n \in DOMAIN store : \A a \in Names \ {"updated_by"} :
       Value(n, a)' # Value(n, a) =>
         \/ NamedByWriter(n, a)
         \/ a \in Attrs /\ Value(n, a)' = Def[a].default]_vars
================================================================================
