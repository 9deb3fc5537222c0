----------------------------- MODULE Infrastructure -----------------------------
(*****************************************************************************)
(* routers/iac.py over packages/iac: config contexts, compliance and the     *)
(* replacement of devices, all on one graph.                                 *)
(*                                                                           *)
(* A request suspends at each database call, where other requests go on, and *)
(* any call may fail.  Devices may be deleted at any moment.  The runs that  *)
(* should store backups and intended configurations raise at their first     *)
(* device, so that these texts come from an administrator's own statements.  *)
(*****************************************************************************)
EXTENDS ConfigContexts, ConfigText, Replacement

CONSTANTS
  Requests,   \* requests that may be made, once each
  Elements,   \* identities of interface nodes, which bound the interfaces
  Scenes,     \* situations the requests are made in
  MaxFaults   \* bound on failing database calls

Tables == {"contexts", "rules", "mappings", "features", "other"}

\* A result is merged on the device and the feature.
Key(result) == <<result.device, result.feature>>

\* What requests would add to a table.
Added(s, table) == {s.cmd[r].object : r \in {q \in Requests : s.cmd[q].op = "create" /\ s.cmd[q].into = table}}

\* A mapping has the fields that a replacement reads.
IsMapping(m) == {"names", "rules", "transfer", "skip"} \subseteq DOMAIN m

\* The catalogue is finite, and what a request adds to it has the same form.
CatalogFits(s) ==
  /\ DOMAIN s.catalog = Tables /\ \A table \in Tables : IsFiniteSet(s.catalog[table])
  /\ \A r \in Requests : s.cmd[r].op = "create" => s.cmd[r].into \in Tables
  /\ \A cc \in s.catalog.contexts \union Added(s, "contexts") : WellFormed(cc)
  /\ \A m \in s.catalog.mappings \union Added(s, "mappings") : IsMapping(m)

\* The graph is finite, nodes of different kinds have identities of their own,
\* an interface belongs to one device, which has no second one of its name.
GraphFits(s) ==
  LET Devices == DOMAIN s.devices
      Ifaces == DOMAIN s.ifaces
      Of(d) == {e \in Ifaces : <<d, "HAS_INTERFACE", e>> \in s.edges \/ <<e, "HAS_INTERFACE", d>> \in s.edges}
  IN /\ IsFiniteSet(Devices) /\ IsFiniteSet(Ifaces) /\ IsFiniteSet(s.edges)
     /\ Devices \intersect (Ifaces \union Elements \union s.others) = {}
     /\ \A f \in s.catalog.features \union Added(s, "features") : f.name \notin Devices
     /\ \A x \in s.edges :
          /\ x[2] = "HAS_INTERFACE" =>
               (x[1] \in Devices /\ x[3] \in Ifaces) \/ (x[1] \in Ifaces /\ x[3] \in Devices)
          /\ x[2] = "CONNECTED_TO" => x[1] \in Devices \/ {x[1], x[3]} \subseteq Ifaces
     /\ \A c, d \in Devices : Of(c) \intersect Of(d) # {} => c = d
     /\ \A d \in Devices : \A e, f \in Of(d) : s.ifaces[e].name = s.ifaces[f].name => e = f

\* Texts and results that are there at first come from earlier runs, a result
\* where it is merged.
RecordsFit(s) ==
  /\ \A d \in DOMAIN s.backups : IsText(s.backups[d].text)
  /\ \A d \in DOMAIN s.intended : IsText(s.intended[d].text)
  /\ \A x \in s.collected : IsText(x.text)
  /\ \A k \in DOMAIN s.results : k = Key(s.results[k]) /\ s.results[k].run \notin Requests

ASSUME SceneAssumption ==
  \A s \in Scenes : CatalogFits(s) /\ RecordsFit(s) /\ GraphFits(s)

VARIABLES
  scene,     \* the situation: [cmd, platform, location, devices, ifaces, ...]
  devices,   \* device -> its properties
  ifaces,    \* interface node -> its properties
  edges,     \* set of <<from, type, to>>
  backups,   \* device -> [text], the _ConfigBackup of a device
  intended,  \* device -> [text], its _IntendedConfig
  results,   \* <<device, feature>> -> ComplianceResult
  catalog,   \* [contexts, rules, mappings, features, other]
  faults,
  pc,        \* where each request is
  todo,      \* devices, or writes of a replacement, it has still to do
  work,      \* what it has read for the device in hand
  report,    \* what it answers
  held,      \* history: <<kind, device, text>> of every text a device has had
  alone      \* history: no other check has run since the request began

graphVars == <<devices, ifaces, edges, backups, intended, results, catalog>>
vars == <<scene, graphVars, faults, pc, todo, work, report, held, alone>>

cmd(r) == scene.cmd[r]
PlatformOf(d) == scene.platform[d]
LocationOf(d) == scene.location[d]

IsRun(r) == cmd(r).op \in {"backup", "intended", "compliance"}
IsReplacement(r) == cmd(r).op \in {"preview", "transform"}
Checks == {r \in Requests : cmd(r).op = "compliance"}

Go(r, to) == pc' = [pc EXCEPT ![r] = to]
Learn(r, what) == work' = [work EXCEPT ![r] = what]

\* What a request knows of the device in hand: nothing to begin with; before is
\* a history, the contexts that were active when it read the device.
Blank ==
  [context |-> <<>>, data |-> <<>>, before |-> {},
   actual |-> NoText, intended |-> NoText, rules |-> <<>>, features |-> <<>>,
   device |-> <<>>, platform |-> "", ifaces |-> <<>>, links |-> <<>>, rels |-> <<>>,
   mapping |-> <<>>]

Init ==
  /\ scene \in Scenes
  /\ devices = scene.devices /\ ifaces = scene.ifaces /\ edges = scene.edges
  /\ backups = scene.backups /\ intended = scene.intended /\ results = scene.results
  /\ catalog = scene.catalog
  /\ faults = 0
  /\ pc = [r \in Requests |-> "idle"]
  /\ todo = [r \in Requests |-> <<>>]
  /\ work = [r \in Requests |-> Blank]
  /\ report = [r \in Requests |->
                  [status |-> "none", outcomes |-> <<>>, success |-> FALSE, shown |-> <<>>]]
  /\ held = {<<"backup", d, backups[d].text>> : d \in DOMAIN backups}
            \union {<<"intended", d, intended[d].text>> : d \in DOMAIN intended}
  /\ alone = [r \in Requests |-> TRUE]

--------------------------------------------------------------------------------
(* Requests.                                                                 *)

\* rbac.require_permission(actor, action, "iac").
Needs(r) == IF cmd(r).op \in {"create", "transform"} THEN "manage" ELSE "execute"

\* Who has logged in may resolve contexts.
Allowed(r) == cmd(r).op = "context" \/ Needs(r) \in cmd(r).perms

\* The devices in scope when the body names none.
Scope(r) ==
  IF cmd(r).op = "compliance" THEN DOMAIN devices \intersect DOMAIN backups
  ELSE {d \in DOMAIN devices : devices[d].status = "active"}

Targets(r) ==
  CASE ~IsRun(r) -> <<>>
    [] IsRun(r) /\ cmd(r).devices = <<>> -> SetToSeq(Scope(r))
    [] OTHER -> cmd(r).devices

FirstStep(r, targets) ==
  CASE cmd(r).op = "create"  -> "create"
    [] IsReplacement(r)      -> "source"
    [] IsRun(r) /\ targets = <<>> -> "end"
    [] OTHER                 -> "device"

\* The handler checks the permission and, for a run, finds the devices.
Begin(r) ==
  /\ pc[r] = "idle"
  /\ IF ~Allowed(r)
       THEN /\ Go(r, "end") /\ report' = [report EXCEPT ![r].status = "refused"]
            /\ UNCHANGED todo
       ELSE /\ Go(r, FirstStep(r, Targets(r)))
            /\ todo' = [todo EXCEPT ![r] = Targets(r)]
            /\ report' = [report EXCEPT ![r].status = "ok"]
  /\ alone' = IF r \notin Checks THEN alone ELSE
       [q \in Requests |-> IF q = r THEN \A o \in Checks \ {r} : pc[o] \in {"idle", "end"}
                           ELSE alone[q] /\ pc[q] = "idle"]
  /\ UNCHANGED <<scene, graphVars, faults, work, held>>

Device(r) == Head(todo[r])

\* The result of a device joins the list, and the loop goes on to the next.
Outcome(r, outcome) ==
  /\ report' = [report EXCEPT ![r].outcomes = Append(@, [outcome EXCEPT !.device = Device(r)])]
  /\ todo' = [todo EXCEPT ![r] = Tail(@)]
  /\ Go(r, IF Len(todo[r]) = 1 THEN "end" ELSE "device")
  /\ Learn(r, Blank)

Failed == [device |-> "", success |-> FALSE, compliant |-> FALSE, features |-> {}, rules |-> 0]
Succeeded == [Failed EXCEPT !.success = TRUE]

\* The request ends with an answer that is no result.
Ends(r, status) ==
  /\ report' = [report EXCEPT ![r].status = status]
  /\ Go(r, "end") /\ UNCHANGED <<todo, work>>

\* A step that only reads: it goes on with what it has learnt.
Continue(r, what, next) == Go(r, next) /\ Learn(r, what) /\ UNCHANGED <<todo, report>>

\* Or it does not find what it needs, and the device fails.
Read(r, found, what, next) ==
  IF found THEN Continue(r, what, next) ELSE Outcome(r, Failed)

ReadOnly == UNCHANGED <<scene, graphVars, faults, held, alone>>

--------------------------------------------------------------------------------
(* execute_backup and generate_intended.                                     *)

\* The record of a device's result is made without its success flag, outside
\* any try: the run raises before it has looked at its first device.
RunRaises(r) ==
  /\ cmd(r).op \in {"backup", "intended"} /\ pc[r] = "device"
  /\ Ends(r, "error")
  /\ ReadOnly

--------------------------------------------------------------------------------
(* resolve_device_contexts: the device in one read, the contexts in another. *)

\* Interfaces of a device, along the direction of the relationship.
InterfacesOf(d) == {e \in DOMAIN ifaces : <<d, "HAS_INTERFACE", e>> \in edges}

\* aggregate_sot_data.
SotData(d) ==
  [props |-> devices[d], platform |-> PlatformOf(d), location |-> LocationOf(d),
   interfaces |-> {ifaces[e].name : e \in InterfacesOf(d)}]

ActiveContexts == {cc \in catalog.contexts : cc.active}

ContextDevice(r) ==
  /\ cmd(r).op = "context" /\ pc[r] = "device"
  /\ \/ /\ cmd(r).device \notin DOMAIN devices /\ Ends(r, "absent")
     \/ /\ cmd(r).device \in DOMAIN devices
        /\ Continue(r, [work[r] EXCEPT !.data = SotData(cmd(r).device),
                                       !.before = ActiveContexts], "contexts")
  /\ ReadOnly

\* The merged context is the answer.
ContextMerge(r) ==
  /\ cmd(r).op = "context" /\ pc[r] = "contexts"
  /\ \/ ScopeRaises(ActiveContexts) /\ Ends(r, "error")
     \/ /\ ~ScopeRaises(ActiveContexts)
        /\ \E order \in ByWeight(ActiveContexts) :
             Continue(r, [work[r] EXCEPT !.context = MergedContexts(order, work[r].data)], "end")
  /\ ReadOnly

--------------------------------------------------------------------------------
(* run_compliance: device, backup, intended, rules, then a write per rule.   *)

CheckDevice(r) ==
  /\ cmd(r).op = "compliance" /\ pc[r] = "device"
  /\ Read(r, Device(r) \in DOMAIN devices, work[r], "backup")
  /\ ReadOnly

\* The text a device is related to, NoText when there is none.
TextOf(texts, d) ==
  IF d \in DOMAIN devices \intersect DOMAIN texts THEN texts[d].text ELSE NoText

CheckBackup(r) ==
  /\ cmd(r).op = "compliance" /\ pc[r] = "backup"
  /\ Continue(r, [work[r] EXCEPT !.actual = TextOf(backups, Device(r))], "intended")
  /\ ReadOnly

CheckIntended(r) ==
  /\ cmd(r).op = "compliance" /\ pc[r] = "intended"
  /\ LET text == TextOf(intended, Device(r)) IN
     Read(r, NoText \notin {work[r].actual, text}, [work[r] EXCEPT !.intended = text], "rules")
  /\ ReadOnly

\* The rules of a platform in the order of their features.
RuleOrders(platform) ==
  LET rules == {x \in catalog.rules : x.platform = platform} IN
  {q \in [1..Cardinality(rules) -> rules] :
     \A i, j \in DOMAIN q : i < j => q[i] # q[j] /\ q[i].rank <= q[j].rank}

CheckRules(r) ==
  /\ cmd(r).op = "compliance" /\ pc[r] = "rules"
  /\ \E q \in RuleOrders(PlatformOf(Device(r))) :
       Read(r, q # <<>>, [work[r] EXCEPT !.rules = q], "check")
  /\ ReadOnly

\* The result of one rule: the sections, and what the comparison says of them.
ResultOf(r, rule) ==
  LET actual == Feature(work[r].actual, rule)
      meant  == Feature(work[r].intended, rule)
      v      == Compare(actual, meant, rule)
  IN [device |-> Device(r), feature |-> rule.feature, rule |-> rule.name,
      compliant |-> v.compliant, missing |-> v.missing, extra |-> v.extra,
      actual |-> actual, intended |-> meant,
      remediation |-> Remediation(v, rule), run |-> r]

Checked(r) ==
  LET fs == work[r].features IN
  [Succeeded EXCEPT !.compliant = \A i \in DOMAIN fs : fs[i].compliant,
                    !.features = {fs[i].feature : i \in DOMAIN fs}, !.rules = Len(fs)]

\* One rule: a pattern that is no regular expression ends the device.
CheckRule(r) ==
  /\ cmd(r).op = "compliance" /\ pc[r] = "check"
  /\ IF work[r].rules = <<>> THEN Outcome(r, Checked(r)) /\ UNCHANGED results
     ELSE LET rule == Head(work[r].rules) IN
          IF Raises(work[r].actual, rule) \/ Raises(work[r].intended, rule)
            THEN Outcome(r, Failed) /\ UNCHANGED results
            ELSE LET found == ResultOf(r, rule) IN
                 /\ results' = Put(results, Key(found), found)
                 /\ Learn(r, [work[r] EXCEPT !.rules = Tail(@),
                                            !.features = Append(@, found)])
                 /\ UNCHANGED <<pc, todo, report>>
  /\ UNCHANGED <<scene, devices, ifaces, edges, backups, intended, catalog, faults, held,
                 alone>>

\* get_device_compliance: a device complies when all its results do.
Overall(d) ==
  LET own == {k \in DOMAIN results : k[1] = d} IN
  own # {} /\ \A k \in own : results[k].compliant

--------------------------------------------------------------------------------
(* transform_device: the source in four reads, the destination, the mapping, *)
(* then one write after another.                                             *)

ReplacementStep(r, at) == IsReplacement(r) /\ pc[r] = at

\* An error joins the errors of the answer; the exception is not passed on.
GiveUp(r) == Go(r, "end") /\ UNCHANGED <<todo, work, report>>

ReadSource(r) ==
  /\ ReplacementStep(r, "source")
  /\ LET d == cmd(r).source IN
     IF d \notin DOMAIN devices THEN GiveUp(r)
     ELSE Continue(r, [work[r] EXCEPT !.device = devices[d], !.platform = PlatformOf(d)], "ifaces")
  /\ ReadOnly

ReadInterfaces(r) ==
  /\ ReplacementStep(r, "ifaces")
  /\ LET own == SetToSeq(InterfacesOf(cmd(r).source)) IN
     Continue(r, [work[r] EXCEPT !.ifaces = [i \in DOMAIN own |-> ifaces[own[i]]]], "links")
  /\ ReadOnly

\* (d)-[:HAS_INTERFACE]->(i)-[:CONNECTED_TO]->(ri)<-[:HAS_INTERFACE]-(rd)
LinksOf(d) ==
  LET paths == {p \in InterfacesOf(d) \X (DOMAIN ifaces) \X (DOMAIN devices) :
                  <<p[1], "CONNECTED_TO", p[2]>> \in edges /\ p[2] \in InterfacesOf(p[3])}
  IN {[local |-> ifaces[p[1]].name, remote |-> ifaces[p[2]].name, device |-> p[3]] : p \in paths}

ReadLinks(r) ==
  /\ ReplacementStep(r, "links")
  /\ Continue(r, [work[r] EXCEPT !.links = SetToSeq(LinksOf(cmd(r).source))], "rels")
  /\ ReadOnly

\* Relations of a device that do not count as its state.
Excluded == {"HAS_INTERFACE", "RUNS_PLATFORM", "LOCATED_IN", "RUNS_VERSION", "HAS_BACKUP",
             "HAS_INTENDED_CONFIG", "HAS_COMPLIANCE_RESULT", "HAS_CONFIG_PROFILE"}

RelationsOf(d) == {[type |-> x[2], target |-> x[3]] :
                     x \in {y \in edges : y[1] = d /\ y[2] \notin Excluded}}

ReadRelations(r) ==
  /\ ReplacementStep(r, "rels")
  /\ Continue(r, [work[r] EXCEPT !.rels = SetToSeq(RelationsOf(cmd(r).source))], "destination")
  /\ ReadOnly

ReadDestination(r) ==
  /\ ReplacementStep(r, "destination")
  /\ IF cmd(r).destination \notin DOMAIN devices THEN GiveUp(r)
     ELSE Continue(r, work[r], "mapping")
  /\ ReadOnly

\* The mapping of a name, whatever its status, or one for the two platforms.
Candidates(r) ==
  IF cmd(r).mapping # "" THEN {m \in catalog.mappings : m.name = cmd(r).mapping}
  ELSE MappingsFor(catalog.mappings, work[r].platform, PlatformOf(cmd(r).destination))

\* With the mapping the rest is computed: a preview shows it and ends.
ReadMapping(r) ==
  /\ ReplacementStep(r, "mapping")
  /\ \/ Candidates(r) = {} /\ GiveUp(r)
     \/ \E m \in Candidates(r) :
          /\ Learn(r, [work[r] EXCEPT !.mapping = m])
          /\ IF cmd(r).op = "preview"
               THEN /\ report' = [report EXCEPT ![r].success = TRUE, ![r].shown = Items(work[r], m)]
                    /\ Go(r, "end") /\ UNCHANGED todo
               ELSE /\ todo' = [todo EXCEPT ![r] = Items(work[r], m)]
                    /\ Go(r, "write") /\ UNCHANGED report
  /\ ReadOnly

\* Interfaces related to a device, in either direction.
Touching(d) ==
  {e \in DOMAIN ifaces :
     <<d, "HAS_INTERFACE", e>> \in edges \/ <<e, "HAS_INTERFACE", d>> \in edges}

\* Slip: only an interface along the direction of the schema is found.
Attached_Directed(d, name) == {e \in InterfacesOf(d) : ifaces[e].name = name}

\* (i:Interface {name})-[:HAS_INTERFACE]-(d), in either direction.
Attached(d, name) == {e \in Touching(d) : ifaces[e].name = name}

\* MERGE (i)-[:HAS_INTERFACE]-(d) SET i += props.  The direction of a new
\* relationship is left to the database.
MergeInterface(d, item) ==
  LET own == Attached(d, item.name) IN
  IF own # {}
    THEN /\ ifaces' = Over([e \in own |-> Over(item.props, ifaces[e])], ifaces)
         /\ UNCHANGED edges
    ELSE LET e == CHOOSE x \in Elements : x \notin DOMAIN ifaces IN
         /\ Elements \ DOMAIN ifaces # {}
         /\ ifaces' = Put(ifaces, e, item.props)
         /\ \E edge \in {<<d, "HAS_INTERFACE", e>>, <<e, "HAS_INTERFACE", d>>} :
              edges' = edges \union {edge}

\* MATCH both interfaces, MERGE the link between them.
MergeLink(d, item) ==
  edges' = edges \union
    {<<e, "CONNECTED_TO", f>> :
       e \in {x \in InterfacesOf(d) : ifaces[x].name = item.local},
       f \in {x \in InterfacesOf(item.device) : ifaces[x].name = item.remote}}

\* Other nodes a device is related to are there throughout.
Exists(node) == node \in DOMAIN devices \union scene.others

\* The write of one item; nothing is matched when an end of it is gone.
Apply(r, item) ==
  LET d == cmd(r).destination IN
  \/ /\ d \notin DOMAIN devices
     /\ UNCHANGED <<devices, ifaces, edges>>
  \/ /\ d \in DOMAIN devices /\ item.kind = "iface"
     /\ MergeInterface(d, item) /\ UNCHANGED devices
  \/ /\ d \in DOMAIN devices /\ item.kind = "link"
     /\ MergeLink(d, item) /\ UNCHANGED <<devices, ifaces>>
  \/ /\ d \in DOMAIN devices /\ item.kind = "rel"
     /\ edges' = edges \union
          (IF Exists(item.target) THEN {<<d, item.type, item.target>>} ELSE {})
     /\ UNCHANGED <<devices, ifaces>>
  \/ /\ d \in DOMAIN devices /\ item.kind = "props"
     /\ devices' = [devices EXCEPT ![d] = Over(item.props, @)]
     /\ UNCHANGED <<ifaces, edges>>
  \/ /\ d \in DOMAIN devices /\ item.kind = "record"
     /\ edges' = edges \union
          (IF Exists(cmd(r).source) THEN {<<d, "REPLACES_DEVICE", cmd(r).source>>} ELSE {})
     /\ UNCHANGED <<devices, ifaces>>

Write(r) ==
  /\ ReplacementStep(r, "write")
  /\ Apply(r, Head(todo[r]))
  /\ todo' = [todo EXCEPT ![r] = Tail(@)]
  /\ LET last == Len(todo[r]) = 1 IN
     /\ Go(r, IF last THEN "end" ELSE "write")
     /\ report' = [report EXCEPT ![r].success = last, ![r].shown = Append(@, Head(todo[r]))]
  /\ UNCHANGED <<scene, backups, intended, results, catalog, faults, work, held, alone>>

--------------------------------------------------------------------------------
(* Creating profiles, features, rules, contexts, mappings and patterns.      *)

\* CREATE; the rule is then linked to the feature of its name, if there is one.
Create(r) ==
  /\ cmd(r).op = "create" /\ pc[r] = "create"
  /\ catalog' = [catalog EXCEPT ![cmd(r).into] = @ \union {cmd(r).object}]
  /\ Go(r, IF cmd(r).into = "rules" THEN "link" ELSE "end")
  /\ UNCHANGED <<scene, devices, ifaces, edges, backups, intended, results, faults,
                 todo, work, report, held, alone>>

LinkRule(r) ==
  /\ cmd(r).op = "create" /\ pc[r] = "link"
  /\ LET rule == cmd(r).object IN
     edges' = edges \union {<<f.name, "HAS_COMPLIANCE_RULE", rule.name>> :
                              f \in {x \in catalog.features : x.name = rule.feature}}
  /\ Go(r, "end")
  /\ UNCHANGED <<scene, devices, ifaces, backups, intended, results, catalog, faults,
                 todo, work, report, held, alone>>

--------------------------------------------------------------------------------
(* What else happens.                                                        *)

\* Before its first device a run looks up its scope, or the custom filters.
Prepares(r) ==
  /\ IsRun(r) /\ Allowed(r)
  /\ cmd(r).op = "intended" \/ cmd(r).devices = <<>>

\* A database call fails.  A run goes on with its next device, a replacement
\* answers with the error, anything else is an error of the server.
Fault(r) ==
  /\ faults < MaxFaults /\ faults' = faults + 1
  /\ pc[r] # "end" /\ (pc[r] = "idle" => Prepares(r))
  /\ cmd(r).op \in {"backup", "intended"} => pc[r] = "idle"
  /\ CASE IsRun(r) /\ pc[r] # "idle" -> Outcome(r, Failed)
       [] IsReplacement(r) -> GiveUp(r)
       [] OTHER            -> Ends(r, "error")
  /\ UNCHANGED <<scene, graphVars, held, alone>>

\* A device is deleted with its relationships; its texts lose their device.
DeleteDevice(d) ==
  /\ d \in DOMAIN devices
  /\ devices' = Restrict(devices, DOMAIN devices \ {d})
  /\ edges' = {e \in edges : d \notin {e[1], e[3]}}
  /\ UNCHANGED <<scene, ifaces, backups, intended, results, catalog, faults, pc, todo, work,
                 report, held, alone>>

\* An administrator stores a backup by a statement of their own.
StoreBackup(d, text) ==
  /\ d \in DOMAIN devices
  /\ <<"backup", d, text>> \notin held
  /\ backups' = Put(backups, d, [text |-> text])
  /\ held' = held \union {<<"backup", d, text>>}
  /\ UNCHANGED <<scene, devices, ifaces, edges, intended, results, catalog, faults, pc,
                 todo, work, report, alone>>

\* And an intended configuration by another.
StoreIntended(d, text) ==
  /\ d \in DOMAIN devices
  /\ <<"intended", d, text>> \notin held
  /\ intended' = Put(intended, d, [text |-> text])
  /\ held' = held \union {<<"intended", d, text>>}
  /\ UNCHANGED <<scene, devices, ifaces, edges, backups, results, catalog, faults, pc,
                 todo, work, report, alone>>

ContextStep(r) == ContextDevice(r) \/ ContextMerge(r)
CheckStep(r) ==
  CheckDevice(r) \/ CheckBackup(r) \/ CheckIntended(r) \/ CheckRules(r) \/ CheckRule(r)
SourceStep(r) ==
  ReadSource(r) \/ ReadInterfaces(r) \/ ReadLinks(r) \/ ReadRelations(r)
WriteStep(r) == ReadDestination(r) \/ ReadMapping(r) \/ Write(r)

Next ==
  \/ \E r \in Requests :
       \/ Begin(r) \/ RunRaises(r) \/ ContextStep(r) \/ CheckStep(r)
       \/ SourceStep(r) \/ WriteStep(r) \/ Create(r) \/ LinkRule(r) \/ Fault(r)
  \/ \E d \in scene.leaving : DeleteDevice(d)
  \/ \E x \in scene.collected : StoreBackup(x.device, x.text) \/ StoreIntended(x.device, x.text)

Spec == Init /\ [][Next]_vars

--------------------------------------------------------------------------------
(* Properties.                                                               *)

\* A result agrees with the texts it is about: they are texts that the device
\* has had, and the verdict is what a comparison of the sections would say.
VerdictTrue(result) ==
  \E actual, meant \in held, rule \in catalog.rules :
    /\ actual[1] = "backup" /\ meant[1] = "intended"
    /\ actual[2] = result.device /\ meant[2] = result.device
    /\ rule.name = result.rule /\ rule.feature = result.feature
    /\ actual[3] # NoText /\ meant[3] # NoText
    /\ result.actual = Feature(actual[3], rule) /\ result.intended = Feature(meant[3], rule)
    /\ Exact(actual[3], rule) /\ Exact(meant[3], rule) =>
         (result.compliant <=> Agree(actual[3], meant[3], rule))

\* Every compliance result a run has stored is true in that sense, however
\* new texts, checks and deletions interleave and wherever a call fails.
VerdictsTrue ==
  \A k \in DOMAIN results : results[k].run \in Requests => VerdictTrue(results[k])

\* What a check says of a device is what the page of the device shows, as long
\* as no other check has run since, nor the same one on the device again, no two
\* of its rules share a feature, and no result of an earlier rule is left.
OverallAsReported ==
  \A r \in Checks : pc[r] = "end" /\ alone[r] /\ report[r].status = "ok" =>
    \A i \in DOMAIN report[r].outcomes : LET o == report[r].outcomes[i] IN
      /\ o.success /\ \A j \in DOMAIN report[r].outcomes : report[r].outcomes[j].device = o.device => j <= i
      /\ Cardinality(o.features) = o.rules
      /\ \A k \in DOMAIN results : k[1] = o.device => results[k].feature \in o.features
      => (Overall(o.device) <=> o.compliant)

\* Results say what the texts say, and a device's verdict what its results say.
ComplianceTrue == VerdictsTrue /\ OverallAsReported

\* Nobody but a replacement writes to a device that stays.
LeftAlone(d) ==
  d \in DOMAIN devices /\ \A q \in Requests : cmd(q).op = "transform" => cmd(q).destination # d

\* The context that is shown for a device holds, for every setting, the value of
\* the heaviest context that applies to the device as it now is.  Contexts that
\* were active when the device was read all count, later ones may.
ContextTrue ==
  \A r \in Requests :
    /\ cmd(r).op = "context" /\ pc[r] = "end" /\ report[r].status = "ok"
    /\ LeftAlone(cmd(r).device)
    => \E seen \in SUBSET ActiveContexts :
         /\ work[r].before \subseteq seen
         /\ HeaviestWins(work[r].context, seen, SotData(cmd(r).device))

\* No device gets two interfaces of one name, whatever is retried or concurrent.
NamesOnce ==
  \A d \in DOMAIN devices : \A e, f \in Touching(d) :
    ifaces[e].name = ifaces[f].name => e = f

\* Nobody writes to what r reads, and to its destination only the same.
Undisturbed(r) ==
  /\ {cmd(r).source, cmd(r).destination} \subseteq DOMAIN devices
  /\ \A q \in Requests : cmd(q).op = "transform" =>
       /\ cmd(q).destination # cmd(r).source
       /\ cmd(q).destination = cmd(r).destination =>
            cmd(q).source = cmd(r).source /\ work[q].mapping \in {Blank.mapping, work[r].mapping}

\* The interfaces of the source get different names.
Injective(r) ==
  \A e, f \in InterfacesOf(cmd(r).source) :
    InterfaceName(ifaces[e].name, work[r].mapping.names)
      = InterfaceName(ifaces[f].name, work[r].mapping.names) => e = f

Renamed(rules) == {rules[k].to : k \in {x \in DOMAIN rules : rules[x].do = "rename"}}

\* Interfaces: each of the source has one of its new name at the destination,
\* whichever way round that is attached, with what the mapping lets pass.
InterfacesMoved(r) ==
  LET d == cmd(r).destination
      m == work[r].mapping
  IN Injective(r) => \A e \in InterfacesOf(cmd(r).source) :
       \E f \in Touching(d) :
         /\ ifaces[f].name = InterfaceName(ifaces[e].name, m.names)
         /\ \A k \in DOMAIN ifaces[e] \ {"name", "_source"} :
              k \notin DOMAIN m.rules \union Renamed(m.rules) =>
                k \in DOMAIN ifaces[f] /\ ifaces[f][k] = ifaces[e][k]

\* Relations: those that start at the device itself.
RelationsMoved(r) ==
  \A x \in RelationsOf(cmd(r).source) :
    Transfers(work[r].mapping, x.type) /\ Exists(x.target)
      => <<cmd(r).destination, x.type, x.target>> \in edges

\* Links: an interface of the destination has those of the one it stands for,
\* or it is attached against the direction of the schema, and may have none.
LinksMoved(r) ==
  TransfersLinks(work[r].mapping) => \A l \in LinksOf(cmd(r).source) :
    \A e \in Touching(cmd(r).destination), f \in InterfacesOf(l.device) :
      /\ ifaces[e].name = InterfaceName(l.local, work[r].mapping.names)
      /\ ifaces[f].name = l.remote
      => \/ <<e, "CONNECTED_TO", f>> \in edges
         \/ <<e, "HAS_INTERFACE", cmd(r).destination>> \in edges

Recorded(r) == <<cmd(r).destination, "REPLACES_DEVICE", cmd(r).source>> \in edges

\* A replacement that succeeds has done all that it does, be it a retry of one
\* that failed half way; it doubles no interface, and no device changes its
\* identity.  What it leaves behind is what these parts leave out.
ReplacementDone ==
  /\ NamesOnce
  /\ \A d \in DOMAIN devices : \A k \in Identity \intersect DOMAIN scene.devices[d] :
       devices[d][k] = scene.devices[d][k]
  /\ \A r \in Requests :
       /\ cmd(r).op = "transform" /\ report[r].status = "ok" /\ report[r].success
       /\ Undisturbed(r)
       => InterfacesMoved(r) /\ RelationsMoved(r) /\ LinksMoved(r) /\ Recorded(r)
================================================================================
