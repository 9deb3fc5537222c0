-------------------------------- MODULE Accounts --------------------------------
(*****************************************************************************)
(* Accounts and access: routers/auth.py, packages/auth (jwt.py, backends.py, *)
(* groups.py, middleware.py) and the start of the API process (app.py).      *)
(*                                                                           *)
(* A request with a token is resolved by the middleware, loaded with the     *)
(* permissions of its groups, checked against what the operation requires    *)
(* (Permissions), and then reads and writes the database.  Every await lets  *)
(* other requests in, and every database call is a transaction of its own.   *)
(* A JWT carries the role its user had when it was issued.                   *)
(*****************************************************************************)
EXTENDS Permissions, FiniteSets

CONSTANTS
  Requests,     \* requests; the uuid4 a request draws is named after it
  Worlds,       \* [db, issued]: databases, and JWTs already handed out
  Commands,     \* what a request may be: [op, cred, id, name, value]
  Short,        \* passwords below min_password_length
  Payload,      \* name of a permission payload -> the group permission it makes
  MaxRestarts   \* bound on restarts of the process

VARIABLES
  db,        \* [users, groups, members, perms, tokens] in Neo4j
  issued,    \* JWTs handed out: [jti, type, sub, role]
  restarts,
  pc,        \* where each request is
  cmd,       \* what it asks for
  ctx,       \* its AuthContext: [sub, role, grants]
  row,       \* the user it read back: [id, name, role, active, pw]
  answer,    \* what its client was told
  seen       \* history: databases that stood while it was under way

Operations ==
  {"login", "refresh", "create_user", "update_user", "delete_user", "reset_password",
   "change_password", "create_group", "delete_group", "add_member", "remove_member",
   "create_permission", "update_permission", "delete_permission", "create_api_token",
   "revoke_api_token", "execute_job", "create_node"}

\* Nodes and relationships as the API writes them.
IsFunction(f) == f = [x \in DOMAIN f |-> f[x]]
IsUser(u) == /\ u = [name |-> u.name, role |-> u.role, active |-> u.active, pw |-> u.pw]
             /\ u.role \in Roles /\ u.active \in BOOLEAN
IsGrant(g) == /\ g = [enabled |-> g.enabled, can |-> g.can, types |-> g.types,
                      runs |-> g.runs, jobs |-> g.jobs]
              /\ g.enabled \in BOOLEAN
IsPermission(p) == p = [group |-> p.group, grant |-> p.grant] /\ IsGrant(p.grant)
IsToken(t) == t = [owner |-> t.owner, active |-> t.active] /\ t.active \in BOOLEAN
IsDatabase(d) ==
  /\ d = [users |-> d.users, groups |-> d.groups, members |-> d.members,
          perms |-> d.perms, tokens |-> d.tokens]
  /\ IsFunction(d.users) /\ IsFunction(d.groups) /\ IsFunction(d.perms) /\ IsFunction(d.tokens)
  /\ \A u \in DOMAIN d.users : IsUser(d.users[u])
  /\ \A m \in d.members : m = <<m[1], m[2]>>
  /\ \A p \in DOMAIN d.perms : IsPermission(d.perms[p])
  /\ \A t \in DOMAIN d.tokens : IsToken(d.tokens[t])

Attached(d) ==
  /\ \A m \in d.members : m[1] \in DOMAIN d.users /\ m[2] \in DOMAIN d.groups
  /\ \A p \in DOMAIN d.perms : d.perms[p].group \in DOMAIN d.groups

\* A request that is yet to come has left nothing in the database, which has one
\* user, and one group, of a name.
ASSUME WorldAssumption ==
  \A w \in Worlds :
    /\ IsDatabase(w.db) /\ Attached(w.db)
    /\ \A f \in {"users", "groups"} : \A x, y \in DOMAIN w.db[f] :
         x \notin Requests /\ (w.db[f][x].name = w.db[f][y].name => x = y)
    /\ \A t \in w.issued : /\ t.type \in {"access", "refresh"} /\ t.role \in Roles
                           /\ t.jti \notin Requests

\* RoleType and the other types of the request bodies.
ASSUME CommandAssumption ==
  /\ MaxRestarts \in Nat
  /\ \A c \in Commands :
       /\ c.op \in Operations
       /\ c.op = "create_user" \/ (c.op = "update_user" /\ c.name = "role") => c.value \in Roles
       /\ c.op = "update_user" => c.name \in {"role", "is_active"}
       /\ c.op = "create_permission" => IsGrant(Payload[c.value])

reqVars == <<pc, cmd, ctx, row, answer>>
vars == <<db, issued, restarts, reqVars, seen>>

Nobody == [id |-> "none", name |-> "none", role |-> "viewer", active |-> FALSE, pw |-> "none"]
NoContext == [sub |-> "none", role |-> "viewer", grants |-> {}]
NoCommand == [op |-> "none", cred |-> [kind |-> "none", id |-> "none"],
              id |-> "none", name |-> "none", value |-> "none"]
Ended == {"done", "lost"}
Running(r) == pc[r] \notin {"idle"} \union Ended

Put(f, k, v) == [x \in DOMAIN f \union {k} |-> IF x = k THEN v ELSE f[x]]
Without(f, ks) == [x \in DOMAIN f \ ks |-> f[x]]

--------------------------------------------------------------------------------
(* Queries.                                                                  *)

Named(f, n) == {i \in DOMAIN f : f[i].name = n}
GroupsOf(d, u) == {m[2] : m \in {x \in d.members : x[1] = u}}
\* Slip: the permissions of every group.
GrantsOf_All(d, u) == {d.perms[p].grant : p \in DOMAIN d.perms}
\* _enrich_auth_context: the enabled permissions of the groups of a user.
GrantsOf(d, u) ==
  {d.perms[p].grant : p \in {q \in DOMAIN d.perms : d.perms[q].group \in GroupsOf(d, u)
                                                     /\ d.perms[q].grant.enabled}}
\* _resolve_api_token: an active token and its owner, who may be disabled.
Resolves(d, t) == t \in DOMAIN d.tokens /\ d.tokens[t].active
                  /\ d.tokens[t].owner \in DOMAIN d.users

\* What rbac.require_permission asks for; <<>>: the handler does not ask.
Requires(c) ==
  CASE c.op \in {"create_user", "update_user", "delete_user", "reset_password"} ->
         <<"manage", "user", c.op>>
    [] c.op \in {"create_group", "delete_group", "add_member", "remove_member",
                 "create_permission", "update_permission", "delete_permission"} ->
         <<"manage", "group", c.op>>
    [] c.op = "execute_job" -> <<"execute", "job", c.value>>
    [] c.op = "create_node" -> <<"write", "node", c.value>>
    [] OTHER -> <<>>

--------------------------------------------------------------------------------
(* Writes: the effect of one statement on the database, and whether it       *)
(* matched anything.                                                         *)

NewUser(n, role, pw) == [name |-> n, role |-> role, active |-> TRUE, pw |-> pw]

SetUser(d, u, field, v) ==
  IF u \in DOMAIN d.users THEN [d EXCEPT !.users[u][field] = v] ELSE d

CreateUser(d, r, c) == [d EXCEPT !.users = Put(@, r, NewUser(c.name, c.value, c.id))]
UpdateUser(d, c) == IF c.name = "role" THEN SetUser(d, c.id, "role", c.value)
                                       ELSE SetUser(d, c.id, "active", c.value = "true")
DeleteUser(d, c) == SetUser(d, c.id, "active", FALSE)
ResetPassword(d, c) == SetUser(d, c.id, "pw", c.value)
ChangePassword(d, c, u) == SetUser(d, u, "pw", c.value)

CreateGroup(d, r, c) == [d EXCEPT !.groups = Put(@, r, [name |-> c.name])]
\* Slip: the permissions of the group stay.
DeleteGroup_Alone(d, g) ==
  [d EXCEPT !.groups = Without(@, {g}), !.members = {m \in @ : m[2] # g}]
\* DETACH DELETE of the group and its permissions.
DeleteGroup(d, g) ==
  [d EXCEPT !.groups = Without(@, {g}), !.members = {m \in @ : m[2] # g},
            !.perms = Without(@, {p \in DOMAIN @ : @[p].group = g})]
AddMember(d, c) ==
  IF c.id \in DOMAIN d.groups /\ c.name \in DOMAIN d.users
  THEN [d EXCEPT !.members = @ \union {<<c.name, c.id>>}] ELSE d
RemoveMember(d, c) == [d EXCEPT !.members = @ \ {<<c.name, c.id>>}]
CreatePermission(d, r, c) ==
  IF c.id \in DOMAIN d.groups
  THEN [d EXCEPT !.perms = Put(@, r, [group |-> c.id, grant |-> Payload[c.value]])] ELSE d
UpdatePermission(d, c) ==
  IF c.id \in DOMAIN d.perms
  THEN [d EXCEPT !.perms[c.id].grant.enabled = (c.value = "true")] ELSE d
DeletePermission(d, c) == [d EXCEPT !.perms = Without(@, {c.id})]

CreateApiToken(d, r, u) ==
  IF u \in DOMAIN d.users
  THEN [d EXCEPT !.tokens = Put(@, r, [owner |-> u, active |-> TRUE])] ELSE d
Owns(d, u, t) == t \in DOMAIN d.tokens /\ d.tokens[t].owner = u /\ u \in DOMAIN d.users
RevokeApiToken(d, c, u) ==
  IF Owns(d, u, c.id) THEN [d EXCEPT !.tokens[c.id].active = FALSE] ELSE d

\* What the statement of request r with command c, sent by user u, makes of d.
Written(d, r, c, u) ==
  CASE c.op = "create_user" -> CreateUser(d, r, c)
    [] c.op = "update_user" -> UpdateUser(d, c)
    [] c.op = "delete_user" -> DeleteUser(d, c)
    [] c.op = "reset_password" -> ResetPassword(d, c)
    [] c.op = "change_password" -> ChangePassword(d, c, u)
    [] c.op = "create_group" -> CreateGroup(d, r, c)
    [] c.op = "delete_group" -> DeleteGroup(d, c.id)
    [] c.op = "add_member" -> AddMember(d, c)
    [] c.op = "remove_member" -> RemoveMember(d, c)
    [] c.op = "create_permission" -> CreatePermission(d, r, c)
    [] c.op = "update_permission" -> UpdatePermission(d, c)
    [] c.op = "delete_permission" -> DeletePermission(d, c)
    [] c.op = "create_api_token" -> CreateApiToken(d, r, u)
    [] c.op = "revoke_api_token" -> RevokeApiToken(d, c, u)

\* Handlers that look at the rows they get back, and answer 404 or "added: false".
Matched(d, c, u) ==
  CASE c.op \in {"update_user", "reset_password"} -> c.id \in DOMAIN d.users
    [] c.op = "delete_group" -> c.id \in DOMAIN d.groups
    [] c.op = "add_member" -> c.id \in DOMAIN d.groups /\ c.name \in DOMAIN d.users
    [] c.op = "update_permission" -> c.id \in DOMAIN d.perms
    [] c.op = "revoke_api_token" -> Owns(d, u, c.id)
    [] OTHER -> TRUE

--------------------------------------------------------------------------------
TypeOK ==
  /\ DOMAIN db = {"users", "groups", "members", "perms", "tokens"}
  /\ \A u \in DOMAIN db.users : /\ db.users[u].role \in Roles
                                /\ db.users[u].active \in BOOLEAN
  /\ \A t \in issued : t.type \in {"access", "refresh"} /\ t.role \in Roles
  /\ restarts \in 0..MaxRestarts
  /\ pc \in [Requests -> Ended \union {"idle", "count", "seed", "login", "ldap", "member",
                           "find", "resolve", "enrich", "check", "write"}]
  /\ \A r \in Requests : cmd[r] \in Commands \union {NoCommand} /\ ctx[r].role \in Roles
  /\ answer \in [Requests -> {"none", "ok", "400", "401", "403", "404", "409", "422", "500"}]

Init ==
  /\ \E w \in Worlds : db = w.db /\ issued = w.issued
  /\ restarts = 0
  /\ pc = [r \in Requests |-> "idle"]
  /\ cmd = [r \in Requests |-> NoCommand]
  /\ ctx = [r \in Requests |-> NoContext]
  /\ row = [r \in Requests |-> Nobody]
  /\ answer = [r \in Requests |-> "none"]
  /\ seen = [r \in Requests |-> {}]

Go(r, stage) == pc' = [pc EXCEPT ![r] = stage] /\ UNCHANGED answer
Answer(r, a) == pc' = [pc EXCEPT ![r] = "done"] /\ answer' = [answer EXCEPT ![r] = a]

UserRow(d, u) == [id |-> u, name |-> d.users[u].name, role |-> d.users[u].role,
                  active |-> d.users[u].active, pw |-> d.users[u].pw]

\* The JWTs a credential may be: the middleware takes access tokens only.
Presented(c) == {t \in issued : t.jti = c.cred.id /\ t.type = c.cred.kind}

--------------------------------------------------------------------------------
(* The middleware.                                                           *)

\* dispatch, up to the first await.
Arrive(r, c) ==
  /\ pc[r] = "idle"
  /\ cmd' = [cmd EXCEPT ![r] = c]
  /\ \/ c.op = "login" /\ Go(r, "count") /\ UNCHANGED <<ctx, row>>
     \/ /\ c.op = "refresh" /\ c.cred.kind = "refresh"
        /\ \E t \in Presented(c) :
             row' = [row EXCEPT ![r] = [Nobody EXCEPT !.id = t.sub]]
        /\ Go(r, "find") /\ UNCHANGED ctx
     \/ /\ c.op \notin {"login", "refresh"} /\ c.cred.kind = "access"
        /\ \E t \in Presented(c) :
             ctx' = [ctx EXCEPT ![r] = [sub |-> t.sub, role |-> t.role, grants |-> {}]]
        /\ Go(r, "enrich") /\ UNCHANGED row
     \/ /\ c.op \notin {"login", "refresh"} /\ c.cred.kind = "api"
        /\ Go(r, "resolve") /\ UNCHANGED <<ctx, row>>
     \/ /\ c.op # "login" /\ c.cred.kind # "api"
        /\ \/ Presented(c) = {}
           \/ c.cred.kind # (IF c.op = "refresh" THEN "refresh" ELSE "access")
        /\ Answer(r, "401") /\ UNCHANGED <<ctx, row>>
  /\ UNCHANGED <<db, issued, restarts>>

\* An API token gives the role its owner has now.
Resolve(r) ==
  /\ pc[r] = "resolve"
  /\ LET t == cmd[r].cred.id
     IN IF Resolves(db, t)
        THEN /\ ctx' = [ctx EXCEPT ![r] = [sub |-> db.tokens[t].owner,
                          role |-> db.users[db.tokens[t].owner].role, grants |-> {}]]
             /\ Go(r, "enrich")
        ELSE Answer(r, "401") /\ UNCHANGED ctx
  /\ UNCHANGED <<db, issued, restarts, cmd, row>>

\* The handler from its first line to its first await, with the context cx.
Handle(r, cx) ==
  LET c == cmd[r]
      weak == \/ c.op = "create_user" /\ c.id \in Short
              \/ c.op = "reset_password" /\ c.value \in Short
  IN IF Requires(c) # <<>> /\ ~Allowed(cx.role, cx.grants, Requires(c)) THEN Answer(r, "403")
     ELSE IF c.op = "delete_user" /\ c.id = cx.sub THEN Answer(r, "400")
     ELSE IF weak THEN Answer(r, "422")
     ELSE CASE c.op \in {"execute_job", "create_node"} -> Answer(r, "ok")
            [] c.op \in {"create_user", "create_group", "change_password"} -> Go(r, "check")
            [] OTHER -> Go(r, "write")

\* The request goes on without groups when they cannot be read.
Enrich(r) ==
  /\ pc[r] = "enrich"
  /\ \E grants \in {GrantsOf(db, ctx[r].sub), {}} :
       LET cx == [ctx[r] EXCEPT !.grants = grants]
       IN ctx' = [ctx EXCEPT ![r] = cx] /\ Handle(r, cx)
  /\ UNCHANGED <<db, issued, restarts, cmd, row>>

--------------------------------------------------------------------------------
(* Login and refresh.                                                        *)

\* _count_users: the default administrator is made when there is no user.
Count(r) ==
  /\ pc[r] = "count"
  /\ Go(r, IF DOMAIN db.users = {} THEN "seed" ELSE "login")
  /\ UNCHANGED <<db, issued, restarts, cmd, ctx, row>>

Seed(r) ==
  /\ pc[r] = "seed"
  /\ db' = [db EXCEPT !.users = Put(@, r, NewUser("admin", "admin", "admin"))]
  /\ Go(r, "login")
  /\ UNCHANGED <<issued, restarts, cmd, ctx, row>>

\* LocalBackend.authenticate.
Accepts(u, pw) == u.active /\ u.pw = pw

Login(r) ==
  /\ pc[r] = "login"
  /\ \/ /\ Named(db.users, cmd[r].name) = {}
        /\ Go(r, "ldap") /\ UNCHANGED row
     \/ \E u \in Named(db.users, cmd[r].name) :
          IF Accepts(db.users[u], cmd[r].value)
          THEN row' = [row EXCEPT ![r] = UserRow(db, u)] /\ Go(r, "member")
          ELSE Go(r, "ldap") /\ UNCHANGED row
  /\ UNCHANGED <<db, issued, restarts, cmd, ctx>>

\* The LDAP configuration is read; ldap3 is no dependency, so it never succeeds.
Ldap(r) ==
  /\ pc[r] = "ldap" /\ Answer(r, "401")
  /\ UNCHANGED <<db, issued, restarts, cmd, ctx, row>>

\* create_token_pair: both tokens carry the role of the row that was read.
Pair(r, u) == {[jti |-> r, type |-> k, sub |-> u.id, role |-> u.role] : k \in {"access", "refresh"}}

\* The groups of the user are read, and not used.
Member(r) ==
  /\ pc[r] = "member"
  /\ issued' = issued \union Pair(r, row[r])
  /\ Answer(r, "ok")
  /\ UNCHANGED <<db, restarts, cmd, ctx, row>>

Find(r) ==
  /\ pc[r] = "find"
  /\ LET u == row[r].id
     IN IF u \in DOMAIN db.users /\ db.users[u].active
        THEN /\ issued' = issued \union Pair(r, UserRow(db, u))
             /\ Answer(r, "ok")
        ELSE Answer(r, "401") /\ UNCHANGED issued
  /\ UNCHANGED <<db, restarts, cmd, ctx, row>>

--------------------------------------------------------------------------------
(* The administration of users, groups, permissions and API tokens.          *)

\* Slip: the name is not looked up.
Taken_Never(d, c) == FALSE
Taken(d, c) ==
  Named(IF c.op = "create_user" THEN d.users ELSE d.groups, c.name) # {}

\* change_password: the checks in their order.
Refusal(d, c, u) ==
  CASE u \notin DOMAIN d.users -> "401"
    [] u \in DOMAIN d.users /\ d.users[u].pw # c.id -> "401"
    [] OTHER -> IF c.value \in Short THEN "422" ELSE "none"

Check(r) ==
  /\ pc[r] = "check"
  /\ LET c == cmd[r]
         refusal == IF c.op = "change_password" THEN Refusal(db, c, ctx[r].sub)
                    ELSE IF Taken(db, c) THEN "409" ELSE "none"
     IN IF refusal = "none" THEN Go(r, "write") ELSE Answer(r, refusal)
  /\ UNCHANGED <<db, issued, restarts, cmd, ctx, row>>

\* Slip: the rows that come back are not looked at.
WriteAnswer_Always(d, c, u) == "ok"
WriteAnswer(d, c, u) == IF Matched(d, c, u) THEN "ok" ELSE "404"

Write(r) ==
  /\ pc[r] = "write"
  /\ db' = Written(db, r, cmd[r], ctx[r].sub)
  /\ \E a \in {WriteAnswer(db, cmd[r], ctx[r].sub), "500"} : Answer(r, a)
  /\ UNCHANGED <<issued, restarts, cmd, ctx, row>>

\* A database call raises before it has any effect.
Raise(r) ==
  /\ Running(r) /\ pc[r] # "enrich"
  /\ Answer(r, "500")
  /\ UNCHANGED <<db, issued, restarts, cmd, ctx, row>>

\* lifespan: every start deletes the users named admin; when that fails the
\* start goes on.  The signing key is configured, so that JWTs stay valid.
Restart ==
  /\ restarts < MaxRestarts
  /\ restarts' = restarts + 1
  /\ pc' = [r \in Requests |-> IF Running(r) THEN "lost" ELSE pc[r]]
  /\ LET admins == Named(db.users, "admin")
     IN db' \in {[db EXCEPT !.users = Without(@, admins),
                            !.members = {m \in @ : m[1] \notin admins}], db}
  /\ UNCHANGED <<issued, cmd, ctx, row, answer>>

Step(r) == \/ Resolve(r) \/ Enrich(r) \/ Count(r) \/ Seed(r) \/ Login(r) \/ Ldap(r)
           \/ Member(r) \/ Find(r) \/ Check(r) \/ Write(r) \/ Raise(r)

Observe ==
  seen' = [r \in Requests |->
             IF pc[r] \in Ended \/ pc'[r] = "idle" THEN seen[r] ELSE seen[r] \union {db, db'}]

Next ==
  /\ \/ \E r \in Requests : (\E c \in Commands : Arrive(r, c)) \/ Step(r)
     \/ Restart
  /\ Observe

Spec == Init /\ [][Next]_vars

--------------------------------------------------------------------------------
(* Properties.                                                               *)

Succeeded(r, op) == answer[r] = "ok" /\ cmd[r].op = op

\* A user name and a group name are each used once: create_user and create_group
\* answer 409 for a name that is taken.  There is no constraint behind them, so
\* that two creations that were both under way may still give one name twice.
NamesUnique ==
  \A f \in {"users", "groups"} : \A x, y \in DOMAIN db[f] :
    x # y /\ db[f][x].name = db[f][y].name =>
      /\ {x, y} \subseteq Requests
      /\ \E d \in seen[x] : y \notin DOMAIN d[f]
      /\ \E d \in seen[y] : x \notin DOMAIN d[f]

\* A user that could log in with what request r sent, and had the role given out.
Stood(r, u, role) ==
  \E d \in seen[r] :
    /\ u \in DOMAIN d.users /\ d.users[u].active /\ d.users[u].role = role
    /\ cmd[r].op = "login" => /\ d.users[u].name = cmd[r].name
                             /\ d.users[u].pw = cmd[r].value

\* The role in a token pair is the one that an enabled user had at some moment of
\* the login, together with the name and the password that were sent, or at some
\* moment of the refresh.
TokensJustified == \A t \in issued : t.jti \in Requests => Stood(t.jti, t.sub, t.role)

HeldGrant(d, u, required) ==
  \E p \in DOMAIN d.perms : /\ <<u, d.perms[p].group>> \in d.members
                            /\ GrantAllows(d.perms[p].grant, required)

Entitled(r) ==
  LET required == Requires(cmd[r])
      held(u) == \E d \in seen[r] : HeldGrant(d, u, required)
  IN IF cmd[r].cred.kind = "access"
     THEN \E t \in Presented(cmd[r]) : RoleAllows(t.role, required) \/ held(t.sub)
     ELSE \E d \in seen[r] :
            /\ Resolves(d, cmd[r].cred.id)
            /\ LET u == d.tokens[cmd[r].cred.id].owner
               IN RoleAllows(d.users[u].role, required) \/ held(u)

\* What an operation requires was allowed by a role or a group permission that
\* stood: the role in the JWT, or the one of the owner of an API token that was
\* active at some moment of the request; a permission of a group the user was a
\* member of at some moment of it.
AccessJustified ==
  \A r \in Requests : answer[r] = "ok" /\ Requires(cmd[r]) # <<>> => Entitled(r)

KnewPassword(r) ==
  \E d \in seen[r] : ctx[r].sub \in DOMAIN d.users /\ d.users[ctx[r].sub].pw = cmd[r].id

\* A password is changed only for who knew the one that was set at some moment of
\* the request.
ChangeJustified == \A r \in Requests : Succeeded(r, "change_password") => KnewPassword(r)

\* Every privilege that is given out, used or changed goes back to what the
\* database held while the request was under way, whatever is revoked, disabled
\* or restarted meanwhile.
PrivilegesJustified == TokensJustified /\ AccessJustified /\ ChangeJustified

\* Memberships and permissions belong to users and groups that exist, whatever is
\* deleted while they are added.
NothingDangles == Attached(db)

\* The graph of users, groups, members and permissions is well formed.
AccountsWellFormed == TypeOK /\ NothingDangles

\* In d, what command c of request r asks for is so.
Holds(d, r, c) ==
  CASE c.op = "create_user" -> r \in DOMAIN d.users /\ d.users[r].name = c.name
    [] c.op = "create_group" -> r \in DOMAIN d.groups
    [] c.op = "update_user" /\ c.name = "role" ->
         c.id \in DOMAIN d.users /\ d.users[c.id].role = c.value
    [] c.op = "delete_user" -> c.id \in DOMAIN d.users => ~d.users[c.id].active
    [] c.op = "reset_password" -> c.id \in DOMAIN d.users /\ d.users[c.id].pw = c.value
    [] c.op = "delete_group" -> c.id \notin DOMAIN d.groups
    [] c.op = "add_member" -> <<c.name, c.id>> \in d.members
    [] c.op = "remove_member" -> <<c.name, c.id>> \notin d.members
    [] c.op = "update_permission" ->
         c.id \in DOMAIN d.perms /\ d.perms[c.id].grant.enabled = (c.value = "true")
    [] c.op = "delete_permission" -> c.id \notin DOMAIN d.perms
    [] c.op = "revoke_api_token" -> c.id \in DOMAIN d.tokens /\ ~d.tokens[c.id].active
    [] OTHER -> TRUE

\* What was asked for stood at some moment of a request that was told it succeeded.
\* The answers of POST /groups/{id}/permissions and POST /api-tokens are left out:
\* they do not look at whether the group or the user was still there.
SuccessMeansDone ==
  \A r \in Requests : answer[r] = "ok" => \E d \in seen[r] : Holds(d, r, cmd[r])
================================================================================
