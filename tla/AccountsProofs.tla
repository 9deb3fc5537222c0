----------------------------- MODULE AccountsProofs -----------------------------
(*****************************************************************************)
(* Proofs about Accounts.  A statement changes one part of the database and  *)
(* leaves it well formed.  What a request was told, was given or changed is  *)
(* true of a database it has seen: what it has seen only grows while it is   *)
(* under way, and stays when it has ended.                                   *)
(*****************************************************************************)
EXTENDS Accounts, TLAPS

--------------------------------------------------------------------------------
(* Statements.                                                               *)

Writes == Operations \ {"login", "refresh", "execute_job", "create_node"}

\* What the API sets a field of a user to.
CanBe(field, v) ==
  \/ field = "role" /\ v \in Roles
  \/ field = "active" /\ v \in BOOLEAN
  \/ field = "pw"

\* One field of one user is set.
LEMMA SetUserEffect ==
  ASSUME NEW d, IsDatabase(d), NEW u, NEW field, NEW v, CanBe(field, v),
         NEW w, w = SetUser(d, u, field, v)
  PROVE  /\ IsDatabase(w)
         /\ w.groups = d.groups /\ w.members = d.members /\ w.perms = d.perms
         /\ w.tokens = d.tokens /\ DOMAIN w.users = DOMAIN d.users
         /\ \A x \in DOMAIN d.users : w.users[x].name = d.users[x].name
         /\ u \in DOMAIN d.users => w.users[u][field] = v
<1> DEFINE row0 == [d.users[u] EXCEPT ![field] = v]
<1>1. CASE u \notin DOMAIN d.users
  BY <1>1 DEF SetUser
<1>2. CASE u \in DOMAIN d.users
  <2>1. IsUser(d.users[u])
    BY <1>2 DEF IsDatabase
  <2>2. IsUser(row0) /\ row0.name = d.users[u].name /\ row0[field] = v
    BY <2>1 DEF IsUser, CanBe
  <2>3. w = [d EXCEPT !.users = [d.users EXCEPT ![u] = row0]]
    BY <1>2 DEF SetUser
  <2>4. /\ w = [users |-> [d.users EXCEPT ![u] = row0], groups |-> d.groups,
                members |-> d.members, perms |-> d.perms, tokens |-> d.tokens]
    BY <2>3 DEF IsDatabase
  <2> HIDE DEF row0
  <2>5. /\ IsFunction(w.users) /\ DOMAIN w.users = DOMAIN d.users /\ w.users[u] = row0
        /\ \A x \in DOMAIN d.users : x # u => w.users[x] = d.users[x]
    BY <1>2, <2>4 DEF IsDatabase, IsFunction
  <2>6. IsDatabase(w)
    BY <2>2, <2>4, <2>5 DEF IsDatabase
  <2> QED
    BY <2>2, <2>4, <2>5, <2>6
<1> QED
  BY <1>1, <1>2

\* The statement that creates a node of f.
Creates == [users |-> "create_user", groups |-> "create_group"]

\* What d holds of users and groups w has too, and nothing else but a node that
\* is new; the names stay.
Follows(d, w, r, op, n) ==
  \A f \in {"users", "groups"} : \A x \in DOMAIN w[f] :
    \/ x \in DOMAIN d[f] /\ w[f][x].name = d[f][x].name
    \/ x = r /\ op = Creates[f] /\ w[f][x].name = n

\* A user is created.
LEMMA UserCreated ==
  ASSUME NEW d, IsDatabase(d), NEW r, NEW n, NEW role, role \in Roles, NEW pw,
         NEW w, w = [d EXCEPT !.users = Put(@, r, NewUser(n, role, pw))]
  PROVE  /\ IsDatabase(w)
         /\ Attached(d) => Attached(w)
         /\ Follows(d, w, r, "create_user", n)
<1> DEFINE users == Put(d.users, r, NewUser(n, role, pw))
<1>1. w = [users |-> users, groups |-> d.groups, members |-> d.members,
           perms |-> d.perms, tokens |-> d.tokens]
  BY DEF IsDatabase
<1>2. /\ IsFunction(users) /\ DOMAIN users = DOMAIN d.users \union {r}
      /\ users[r] = NewUser(n, role, pw)
      /\ \A x \in DOMAIN d.users : x # r => users[x] = d.users[x]
  BY DEF Put, IsFunction
<1> HIDE DEF users
<1>3. IsUser(users[r]) /\ users[r].name = n
  BY <1>2 DEF IsUser, NewUser
<1>4. IsDatabase(w)
  BY <1>1, <1>2, <1>3 DEF IsDatabase
<1>5. Follows(d, w, r, "create_user", n)
  <2>1. Creates["users"] = "create_user" /\ w.groups = d.groups /\ w.users = users
    BY <1>1 DEF Creates
  <2> QED
    BY <1>2, <1>3, <2>1 DEF Follows
<1> QED
  BY <1>1, <1>2, <1>4, <1>5 DEF Attached

\* The effect of each statement.
LEMMA WriteEffect ==
  ASSUME NEW d, IsDatabase(d), NEW r, NEW c \in Commands, c.op \in Writes, NEW u
  PROVE  LET w == Written(d, r, c, u)
         IN /\ IsDatabase(w)
            /\ Attached(d) => Attached(w)
            /\ Follows(d, w, r, c.op, c.name)
<1> DEFINE w == Written(d, r, c, u)
           Fits == IsDatabase(w) /\ (Attached(d) => Attached(w)) /\ Follows(d, w, r, c.op, c.name)
<1>1. ASSUME NEW x, NEW field, NEW v, CanBe(field, v),
             w = SetUser(d, x, field, v)
      PROVE  Fits
  <2>1. /\ IsDatabase(w)
        /\ w.groups = d.groups /\ w.members = d.members /\ w.perms = d.perms
        /\ w.tokens = d.tokens /\ DOMAIN w.users = DOMAIN d.users
        /\ \A i \in DOMAIN d.users : w.users[i].name = d.users[i].name
    <3> DEFINE z == SetUser(d, x, field, v)
    <3>1. w = z
      BY <1>1
    <3> HIDE DEF w, z
    <3>2. z = SetUser(d, x, field, v)
      BY DEF z
    <3>3. /\ IsDatabase(z)
          /\ z.groups = d.groups /\ z.members = d.members /\ z.perms = d.perms
          /\ z.tokens = d.tokens /\ DOMAIN z.users = DOMAIN d.users
          /\ \A i \in DOMAIN d.users : z.users[i].name = d.users[i].name
      BY <1>1, <3>2, SetUserEffect
    <3> QED
      BY <3>1, <3>3
  <2> HIDE DEF w
  <2> QED
    BY <2>1 DEF Attached, Follows, w
<1>2. CASE c.op \in {"update_user", "delete_user", "reset_password", "change_password"}
  <2>1. CASE c.op = "update_user" /\ c.name = "role"
    BY <1>1, <2>1, CommandAssumption DEF Written, UpdateUser, CanBe
  <2>2. CASE c.op = "update_user" /\ c.name # "role"
    BY <1>1, <2>2 DEF Written, UpdateUser, CanBe
  <2>3. CASE c.op = "delete_user"
    BY <1>1, <2>3 DEF Written, DeleteUser, CanBe
  <2>4. CASE c.op = "reset_password"
    BY <1>1, <2>4 DEF Written, ResetPassword, CanBe
  <2>5. CASE c.op = "change_password"
    BY <1>1, <2>5 DEF Written, ChangePassword, CanBe
  <2> QED
    BY <1>2, <2>1, <2>2, <2>3, <2>4, <2>5
<1>3. CASE c.op = "create_user"
  <2>1. c.value \in Roles /\ w = [d EXCEPT !.users = Put(@, r, NewUser(c.name, c.value, c.id))]
    BY <1>3, CommandAssumption DEF Written, CreateUser
  <2> HIDE DEF w
  <2>2. IsDatabase(w) /\ (Attached(d) => Attached(w)) /\ Follows(d, w, r, "create_user", c.name)
    BY <2>1, UserCreated
  <2> QED
    BY <1>3, <2>2 DEF w
<1>4. CASE c.op = "create_group"
  <2> DEFINE node == [name |-> c.name]
             groups == Put(d.groups, r, node)
  <2>1. w = [users |-> d.users, groups |-> groups, members |-> d.members,
             perms |-> d.perms, tokens |-> d.tokens]
    BY <1>4 DEF Written, CreateGroup, IsDatabase
  <2>2. /\ IsFunction(groups) /\ DOMAIN groups = DOMAIN d.groups \union {r}
        /\ groups[r] = node /\ node.name = c.name
        /\ \A x \in DOMAIN d.groups : x # r => groups[x] = d.groups[x]
    <3> HIDE DEF node
    <3>1. /\ IsFunction(groups) /\ DOMAIN groups = DOMAIN d.groups \union {r}
          /\ groups[r] = node
          /\ \A x \in DOMAIN d.groups : x # r => groups[x] = d.groups[x]
      BY DEF Put, IsFunction
    <3> QED
      BY <3>1 DEF node
  <2> HIDE DEF node, groups, w
  <2>4. IsDatabase(w)
    BY <2>1, <2>2 DEF IsDatabase
  <2>5. Follows(d, w, r, c.op, c.name)
    BY <1>4, <2>1, <2>2 DEF Follows, Creates
  <2> QED
    BY <2>1, <2>2, <2>4, <2>5 DEF Attached, w
<1>5. CASE c.op = "delete_group"
  <2> DEFINE groups == Without(d.groups, {c.id})
             gone == {p \in DOMAIN d.perms : d.perms[p].group = c.id}
             perms == Without(d.perms, gone)
             members == {m \in d.members : m[2] # c.id}
  <2>1. w = [users |-> d.users, groups |-> groups, members |-> members,
             perms |-> perms, tokens |-> d.tokens]
    BY <1>5 DEF Written, DeleteGroup, IsDatabase
  <2>2. /\ IsFunction(groups) /\ DOMAIN groups = DOMAIN d.groups \ {c.id}
        /\ \A x \in DOMAIN groups : groups[x] = d.groups[x]
        /\ IsFunction(perms) /\ DOMAIN perms = DOMAIN d.perms \ gone
        /\ \A x \in DOMAIN perms : perms[x] = d.perms[x]
    <3> HIDE DEF gone
    <3> QED
      BY DEF Without, IsFunction
  <2> HIDE DEF groups, perms, w
  <2>4. IsDatabase(w)
    BY <2>1, <2>2 DEF IsDatabase
  <2>5. Follows(d, w, r, c.op, c.name)
    BY <2>1, <2>2 DEF Follows
  <2> QED
    BY <2>1, <2>2, <2>4, <2>5 DEF Attached, w
<1>6. CASE c.op = "add_member"
  BY <1>6 DEF Written, AddMember, IsDatabase, Attached, Follows
<1>7. CASE c.op = "remove_member"
  BY <1>7 DEF Written, RemoveMember, IsDatabase, Attached, Follows
<1>8. CASE c.op = "create_permission"
  <2>1. CASE c.id \notin DOMAIN d.groups
    BY <1>8, <2>1 DEF Written, CreatePermission, Follows
  <2>2. CASE c.id \in DOMAIN d.groups
    <3> DEFINE node == [group |-> c.id, grant |-> Payload[c.value]]
               perms == Put(d.perms, r, node)
    <3>1. w = [users |-> d.users, groups |-> d.groups, members |-> d.members,
               perms |-> perms, tokens |-> d.tokens]
      BY <1>8, <2>2 DEF Written, CreatePermission, IsDatabase
    <3>2. IsPermission(node) /\ node.group = c.id
      BY <1>8, CommandAssumption DEF IsPermission
    <3> HIDE DEF node
    <3>3. /\ IsFunction(perms) /\ DOMAIN perms = DOMAIN d.perms \union {r}
          /\ perms[r] = node
          /\ \A x \in DOMAIN d.perms : x # r => perms[x] = d.perms[x]
      BY DEF Put, IsFunction
    <3> HIDE DEF perms, w
    <3>4. IsDatabase(w)
      BY <3>1, <3>2, <3>3 DEF IsDatabase
    <3> QED
      BY <2>2, <3>1, <3>2, <3>3, <3>4 DEF Attached, Follows, w
  <2> QED
    BY <2>1, <2>2
<1>9. CASE c.op = "update_permission"
  <2>1. CASE c.id \notin DOMAIN d.perms
    BY <1>9, <2>1 DEF Written, UpdatePermission, Follows
  <2>2. CASE c.id \in DOMAIN d.perms
    <3> DEFINE old == d.perms[c.id]
               node == [old EXCEPT !.grant.enabled = (c.value = "true")]
               perms == [d.perms EXCEPT ![c.id] = node]
    <3>0. IsPermission(old)
      BY <2>2 DEF IsDatabase
    <3>1. w = [users |-> d.users, groups |-> d.groups, members |-> d.members,
               perms |-> perms, tokens |-> d.tokens]
      BY <1>9, <2>2 DEF Written, UpdatePermission, IsDatabase
    <3> HIDE DEF old
    <3>2. IsPermission(node) /\ node.group = old.group
      <4> DEFINE grant == [enabled |-> c.value = "true", can |-> old.grant.can,
                           types |-> old.grant.types, runs |-> old.grant.runs,
                           jobs |-> old.grant.jobs]
      <4>1. node = [group |-> old.group, grant |-> grant]
        BY <3>0 DEF IsPermission, IsGrant
      <4>2. IsGrant(grant)
        BY DEF IsGrant
      <4> HIDE DEF node, grant
      <4> QED
        BY <4>1, <4>2 DEF IsPermission
    <3> HIDE DEF node
    <3>3. /\ IsFunction(perms) /\ DOMAIN perms = DOMAIN d.perms
          /\ perms[c.id] = node
          /\ \A x \in DOMAIN d.perms : x # c.id => perms[x] = d.perms[x]
      BY <2>2 DEF IsDatabase, IsFunction
    <3> HIDE DEF perms, w
    <3>4. IsDatabase(w)
      BY <3>1, <3>2, <3>3 DEF IsDatabase
    <3> QED
      BY <2>2, <3>1, <3>2, <3>3, <3>4 DEF Attached, Follows, w, old
  <2> QED
    BY <2>1, <2>2
<1>10. CASE c.op = "delete_permission"
  <2> DEFINE perms == Without(d.perms, {c.id})
  <2>1. w = [users |-> d.users, groups |-> d.groups, members |-> d.members,
             perms |-> perms, tokens |-> d.tokens]
    BY <1>10 DEF Written, DeletePermission, IsDatabase
  <2>2. /\ IsFunction(perms) /\ DOMAIN perms = DOMAIN d.perms \ {c.id}
        /\ \A x \in DOMAIN perms : perms[x] = d.perms[x]
    BY DEF Without, IsFunction
  <2> HIDE DEF perms, w
  <2>4. IsDatabase(w)
    BY <2>1, <2>2 DEF IsDatabase
  <2> QED
    BY <2>1, <2>2, <2>4 DEF Attached, Follows, w
<1>11. CASE c.op = "create_api_token"
  <2>1. CASE u \notin DOMAIN d.users
    BY <1>11, <2>1 DEF Written, CreateApiToken, Follows
  <2>2. CASE u \in DOMAIN d.users
    <3> DEFINE node == [owner |-> u, active |-> TRUE]
               tokens == Put(d.tokens, r, node)
    <3>1. w = [users |-> d.users, groups |-> d.groups, members |-> d.members,
               perms |-> d.perms, tokens |-> tokens]
      BY <1>11, <2>2 DEF Written, CreateApiToken, IsDatabase
    <3>2. IsToken(node)
      BY DEF IsToken
    <3> HIDE DEF node
    <3>3. /\ IsFunction(tokens) /\ DOMAIN tokens = DOMAIN d.tokens \union {r}
          /\ tokens[r] = node
          /\ \A x \in DOMAIN d.tokens : x # r => tokens[x] = d.tokens[x]
      BY DEF Put, IsFunction
    <3> HIDE DEF tokens, w
    <3>4. IsDatabase(w)
      BY <3>1, <3>2, <3>3 DEF IsDatabase
    <3> QED
      BY <3>1, <3>4 DEF Attached, Follows, w
  <2> QED
    BY <2>1, <2>2
<1>12. CASE c.op = "revoke_api_token"
  <2>1. CASE ~Owns(d, u, c.id)
    BY <1>12, <2>1 DEF Written, RevokeApiToken, Follows
  <2>2. CASE Owns(d, u, c.id)
    <3> DEFINE old == d.tokens[c.id]
               no == FALSE
               node == [old EXCEPT !.active = no]
               tokens == [d.tokens EXCEPT ![c.id] = node]
    <3>0. c.id \in DOMAIN d.tokens /\ IsToken(old)
      BY <2>2 DEF IsDatabase, Owns
    <3>1. w = [users |-> d.users, groups |-> d.groups, members |-> d.members,
               perms |-> d.perms, tokens |-> tokens]
      BY <1>12, <2>2 DEF Written, RevokeApiToken, IsDatabase
    <3> HIDE DEF old
    <3>2. IsToken(node)
      <4> HIDE DEF no
      <4>0. PICK o, a : old = [owner |-> o, active |-> a]
        BY <3>0 DEF IsToken
      <4>1. node = [owner |-> o, active |-> no]
        BY <4>0
      <4> HIDE DEF node
      <4> QED
        BY <4>1 DEF IsToken, no
    <3> HIDE DEF node
    <3>3. /\ IsFunction(tokens) /\ DOMAIN tokens = DOMAIN d.tokens
          /\ tokens[c.id] = node
          /\ \A x \in DOMAIN d.tokens : x # c.id => tokens[x] = d.tokens[x]
      BY <3>0 DEF IsDatabase, IsFunction
    <3> HIDE DEF tokens, w
    <3>4. IsDatabase(w)
      BY <3>1, <3>2, <3>3 DEF IsDatabase
    <3> QED
      BY <3>1, <3>4 DEF Attached, Follows, w
  <2> QED
    BY <2>1, <2>2
<1> QED
  BY <1>2, <1>3, <1>4, <1>5, <1>6, <1>7, <1>8, <1>9, <1>10, <1>11, <1>12 DEF Writes, Operations

\* A statement whose rows were looked at, and were there, did what was asked for;
\* the others that have a handler which asks nothing of the rows do it anyway.
LEMMA WriteDone ==
  ASSUME NEW d, IsDatabase(d), NEW r, NEW c \in Commands, c.op \in Writes, NEW u,
         Matched(d, c, u)
  PROVE  Holds(Written(d, r, c, u), r, c)
<1>1. CASE c.op = "create_user"
  BY <1>1 DEF Written, CreateUser, Put, NewUser, IsDatabase, Holds
<1>2. CASE c.op = "create_group"
  BY <1>2 DEF Written, CreateGroup, Put, IsDatabase, Holds
<1>3. CASE c.op = "update_user"
  <2>1. CASE c.name = "role"
    <3> DEFINE w == SetUser(d, c.id, "role", c.value)
    <3>1. Written(d, r, c, u) = w /\ c.id \in DOMAIN d.users /\ CanBe("role", c.value)
      BY <1>3, <2>1, CommandAssumption DEF Written, UpdateUser, Matched, CanBe
    <3> HIDE DEF w
    <3>2. w = SetUser(d, c.id, "role", c.value)
      BY DEF w
    <3>3. DOMAIN w.users = DOMAIN d.users /\ w.users[c.id].role = c.value
      BY <3>1, <3>2, SetUserEffect
    <3> QED
      BY <1>3, <2>1, <3>1, <3>3 DEF Holds
  <2>2. CASE c.name # "role"
    BY <1>3, <2>2 DEF Holds
  <2> QED
    BY <2>1, <2>2
<1>4. CASE c.op = "delete_user"
  <2> DEFINE no == FALSE
             w == SetUser(d, c.id, "active", no)
  <2>1. Written(d, r, c, u) = w /\ CanBe("active", no)
    BY <1>4 DEF Written, DeleteUser, CanBe
  <2> HIDE DEF w, no
  <2>2. w = SetUser(d, c.id, "active", no)
    BY DEF w
  <2>3. DOMAIN w.users = DOMAIN d.users /\ (c.id \in DOMAIN d.users => w.users[c.id].active = no)
    BY <2>1, <2>2, SetUserEffect
  <2> QED
    BY <1>4, <2>1, <2>3 DEF Holds, no
<1>5. CASE c.op = "reset_password"
  <2> DEFINE w == SetUser(d, c.id, "pw", c.value)
  <2>1. Written(d, r, c, u) = w /\ c.id \in DOMAIN d.users /\ CanBe("pw", c.value)
    BY <1>5 DEF Written, ResetPassword, Matched, CanBe
  <2> HIDE DEF w
  <2>2. w = SetUser(d, c.id, "pw", c.value)
    BY DEF w
  <2>3. DOMAIN w.users = DOMAIN d.users /\ w.users[c.id].pw = c.value
    BY <2>1, <2>2, SetUserEffect
  <2> QED
    BY <1>5, <2>1, <2>3 DEF Holds
<1>6. CASE c.op = "delete_group"
  BY <1>6 DEF Written, DeleteGroup, Without, IsDatabase, Holds
<1>7. CASE c.op = "add_member"
  BY <1>7 DEF Written, AddMember, Matched, IsDatabase, Holds
<1>8. CASE c.op = "remove_member"
  BY <1>8 DEF Written, RemoveMember, IsDatabase, Holds
<1>9. CASE c.op = "update_permission"
  <2>1. c.id \in DOMAIN d.perms
    BY <1>9 DEF Matched
  <2> DEFINE old == d.perms[c.id]
             flag == c.value = "true"
             node == [old EXCEPT !.grant.enabled = flag]
             perms == [d.perms EXCEPT ![c.id] = node]
             w == [d EXCEPT !.perms = perms]
  <2>2. Written(d, r, c, u) = w
    BY <1>9, <2>1 DEF Written, UpdatePermission
  <2>3. IsPermission(old) /\ IsFunction(d.perms)
    BY <2>1 DEF IsDatabase
  <2>4. w.perms = perms
    BY DEF IsDatabase
  <2>5. DOMAIN perms = DOMAIN d.perms /\ perms[c.id] = node
    BY <2>1, <2>3 DEF IsFunction
  <2>6. node.grant.enabled = flag
    <3> HIDE DEF old, flag
    <3> QED
      BY <2>3 DEF IsPermission, IsGrant
  <2> HIDE DEF w, perms, node
  <2> QED
    BY <1>9, <2>1, <2>2, <2>4, <2>5, <2>6 DEF Holds
<1>10. CASE c.op = "delete_permission"
  BY <1>10 DEF Written, DeletePermission, Without, IsDatabase, Holds
<1>11. CASE c.op = "revoke_api_token"
  <2>1. Owns(d, u, c.id) /\ c.id \in DOMAIN d.tokens
    BY <1>11 DEF Matched, Owns
  <2> DEFINE old == d.tokens[c.id]
             node == [old EXCEPT !.active = FALSE]
             tokens == [d.tokens EXCEPT ![c.id] = node]
             w == [d EXCEPT !.tokens = tokens]
  <2>2. Written(d, r, c, u) = w
    BY <1>11, <2>1 DEF Written, RevokeApiToken
  <2>3. IsToken(old) /\ IsFunction(d.tokens)
    BY <2>1 DEF IsDatabase
  <2>4. w.tokens = tokens
    BY DEF IsDatabase
  <2>5. DOMAIN tokens = DOMAIN d.tokens /\ tokens[c.id] = node
    BY <2>1, <2>3 DEF IsFunction
  <2>6. ~node.active
    <3> HIDE DEF old
    <3> QED
      BY <2>3 DEF IsToken
  <2> HIDE DEF w, tokens, node
  <2> QED
    BY <1>11, <2>1, <2>2, <2>4, <2>5, <2>6 DEF Holds
<1>12. CASE c.op \in {"change_password", "create_permission", "create_api_token"}
  BY <1>12 DEF Holds
<1> QED
  BY <1>1, <1>2, <1>3, <1>4, <1>5, <1>6, <1>7, <1>8, <1>9, <1>10, <1>11, <1>12 DEF Writes, Operations

--------------------------------------------------------------------------------
(* Invariants.                                                               *)

Stages == Ended \union {"idle", "count", "seed", "login", "ldap", "member",
                        "find", "resolve", "enrich", "check", "write"}
Answers == {"none", "ok", "400", "401", "403", "404", "409", "422", "500"}
IsContext(x) == x = [sub |-> x.sub, role |-> x.role, grants |-> x.grants] /\ x.role \in Roles

\* Types, and what they need to be inductive.
Sound ==
  /\ IsDatabase(db) /\ Attached(db)
  /\ \A t \in issued : t.type \in {"access", "refresh"} /\ t.role \in Roles
  /\ restarts \in 0..MaxRestarts
  /\ pc \in [Requests -> Stages]
  /\ cmd \in [Requests -> Commands \union {NoCommand}]
  /\ IsFunction(ctx) /\ DOMAIN ctx = Requests /\ \A r \in Requests : IsContext(ctx[r])
  /\ IsFunction(row) /\ DOMAIN row = Requests /\ \A r \in Requests : row[r].role \in Roles
  /\ answer \in [Requests -> Answers]

\* Which requests come to which place.
OnItsWay(r) ==
  /\ pc[r] # "idle" => cmd[r] \in Commands /\ seen[r] # {}
  /\ pc[r] \in {"count", "seed", "login", "ldap", "member"} => cmd[r].op = "login"
  /\ pc[r] = "find" => cmd[r].op = "refresh"
  /\ pc[r] \in {"resolve", "enrich", "check", "write"} =>
       /\ cmd[r].op \notin {"login", "refresh"}
       /\ cmd[r].cred.kind \in {"access", "api"}
  /\ pc[r] = "resolve" => cmd[r].cred.kind = "api"
  /\ pc[r] = "check" => cmd[r].op \in {"create_user", "create_group", "change_password"}
  /\ pc[r] = "write" => cmd[r].op \in Writes
  /\ pc[r] # "done" => answer[r] = "none"

\* The context is that of the credential.
Identified(r) ==
  IF cmd[r].cred.kind = "access"
  THEN \E t \in Presented(cmd[r]) : ctx[r].sub = t.sub /\ ctx[r].role = t.role
  ELSE \E d \in seen[r] :
         /\ Resolves(d, cmd[r].cred.id)
         /\ ctx[r].sub = d.tokens[cmd[r].cred.id].owner
         /\ ctx[r].role = d.users[d.tokens[cmd[r].cred.id].owner].role

\* The name a request gives to what it creates was free.
WasFree(r, f, n) == \E d \in seen[r] : Named(d[f], n) = {}

\* Where a request has not written yet, and may.
Unwritten == {"idle", "count", "seed", "resolve", "enrich", "check", "write"}

\* What a request has found out was so in a database it has seen.
Justified(r) ==
  /\ OnItsWay(r)
  /\ pc[r] = "seed" => WasFree(r, "users", "admin")
  /\ pc[r] = "member" => Stood(r, row[r].id, row[r].role)
  /\ pc[r] = "enrich" => Identified(r)
  /\ pc[r] \in {"check", "write"} \/ answer[r] = "ok" => (Requires(cmd[r]) # <<>> => Entitled(r))
  /\ pc[r] = "write" \/ answer[r] = "ok" => (cmd[r].op = "change_password" => KnewPassword(r))
  /\ pc[r] = "write" => \A f \in {"users", "groups"} :
       cmd[r].op = Creates[f] => WasFree(r, f, cmd[r].name)
  /\ answer[r] = "ok" => \E d \in seen[r] : Holds(d, r, cmd[r])

\* Token pairs come from requests that have ended.
TokensTrue ==
  \A t \in issued : t.jti \in Requests => pc[t.jti] = "done" /\ Stood(t.jti, t.sub, t.role)

--------------------------------------------------------------------------------
(* What a step leaves alone.                                                 *)

Kept(q) == /\ pc'[q] = pc[q] /\ cmd'[q] = cmd[q] /\ ctx'[q] = ctx[q]
           /\ row'[q] = row[q] /\ answer'[q] = answer[q]

\* What a request has seen grows while it is under way.
LEMMA SeenGrows ==
  ASSUME Observe, NEW q \in Requests
  PROVE  /\ seen[q] \subseteq seen'[q] /\ seen'[q] \subseteq seen[q] \union {db, db'}
         /\ pc[q] \notin Ended /\ pc'[q] # "idle" => seen'[q] = seen[q] \union {db, db'}
  BY DEF Observe

\* The credential of a command stays what it is.
LEMMA PresentedGrows ==
  ASSUME issued \subseteq issued', NEW c
  PROVE  Presented(c) \subseteq Presented(c)'
  BY DEF Presented

\* A request that did not move has found out the same.
LEMMA JustifiedStays ==
  ASSUME NEW q \in Requests, Justified(q), Kept(q), Observe, issued \subseteq issued'
  PROVE  Justified(q)'
<1>1. seen[q] \subseteq seen'[q]
  BY SeenGrows
<1>2. Presented(cmd[q]) \subseteq Presented(cmd[q])'
  BY PresentedGrows DEF Kept
<1>3. OnItsWay(q)'
  BY <1>1 DEF Kept, Justified, OnItsWay
<1>4. \A f, n : WasFree(q, f, n) => WasFree(q, f, n)'
  BY <1>1 DEF WasFree
<1>5. \A u, role : Stood(q, u, role) => Stood(q, u, role)'
  BY <1>1 DEF Stood, Kept
<1>6. Identified(q) => Identified(q)'
  BY <1>1, <1>2 DEF Identified, Kept
<1>7. Entitled(q) => Entitled(q)'
  BY <1>1, <1>2 DEF Entitled, Kept
<1>8. KnewPassword(q) => KnewPassword(q)'
  BY <1>1 DEF KnewPassword, Kept
<1>9. (\E d \in seen[q] : Holds(d, q, cmd[q])) => \E d \in seen'[q] : Holds(d, q, cmd'[q])
  BY <1>1 DEF Kept
<1> QED
  BY <1>3, <1>4, <1>5, <1>6, <1>7, <1>8, <1>9 DEF Justified, Kept

--------------------------------------------------------------------------------
(* The steps of a request.                                                   *)

\* What a step of request r comes to.
Turn(r) ==
  /\ Sound'
  /\ Justified(r)'
  /\ pc[r] # "done"
  /\ \A q \in Requests \ {r} : Kept(q)
  /\ issued \subseteq issued'
  /\ \A t \in issued' \ issued : t.jti = r /\ pc'[r] = "done" /\ Stood(r, t.sub, t.role)'

\* Go: the place of one request changes.
LEMMA GoPlace ==
  ASSUME Sound, NEW r \in Requests, NEW s \in Stages, Go(r, s)
  PROVE  /\ pc' \in [Requests -> Stages] /\ answer' \in [Requests -> Answers]
         /\ pc'[r] = s /\ answer'[r] = answer[r]
         /\ \A q \in Requests \ {r} : pc'[q] = pc[q] /\ answer'[q] = answer[q]
  BY DEF Sound, Go

\* Answer: one request ends, with its answer.
LEMMA AnswerPlace ==
  ASSUME Sound, NEW r \in Requests, NEW a \in Answers, Answer(r, a)
  PROVE  /\ pc' \in [Requests -> Stages] /\ answer' \in [Requests -> Answers]
         /\ pc'[r] = "done" /\ answer'[r] = a
         /\ \A q \in Requests \ {r} : pc'[q] = pc[q] /\ answer'[q] = answer[q]
  BY DEF Sound, Answer, Stages, Ended

\* A request that comes in is identified by its token, if it has one.
LEMMA ArriveTurn ==
  ASSUME Sound, NEW r \in Requests, NEW c \in Commands, Justified(r), Observe, Arrive(r, c)
  PROVE  Turn(r)
<1>1. /\ pc[r] = "idle" /\ answer[r] = "none" /\ c.op \in Operations
      /\ cmd' = [cmd EXCEPT ![r] = c] /\ UNCHANGED <<db, issued, restarts>>
  BY CommandAssumption DEF Arrive, Justified, OnItsWay
<1>2. /\ cmd' \in [Requests -> Commands \union {NoCommand}] /\ cmd'[r] = c
      /\ \A q \in Requests \ {r} : cmd'[q] = cmd[q]
  BY <1>1 DEF Sound
<1>3. pc'[r] # "idle" => seen'[r] # {}
  BY <1>1, SeenGrows DEF Ended
<1>4. Presented(c)' = Presented(c)
  BY <1>1 DEF Presented
<1>5. CASE c.op = "login" /\ Go(r, "count") /\ UNCHANGED <<ctx, row>>
  <2>1. /\ pc' \in [Requests -> Stages] /\ answer' \in [Requests -> Answers]
        /\ pc'[r] = "count" /\ answer'[r] = answer[r]
        /\ \A q \in Requests \ {r} : pc'[q] = pc[q] /\ answer'[q] = answer[q]
    BY <1>5, GoPlace DEF Stages
  <2>2. Sound'
    BY <1>1, <1>2, <1>5, <2>1 DEF Sound
  <2>3. Justified(r)'
    BY <1>1, <1>2, <1>3, <1>5, <2>1 DEF Justified, OnItsWay
  <2> QED
    BY <1>1, <1>2, <1>5, <2>1, <2>2, <2>3 DEF Turn, Kept
<1>6. CASE /\ c.op = "refresh" /\ c.cred.kind = "refresh"
           /\ \E t \in Presented(c) : row' = [row EXCEPT ![r] = [Nobody EXCEPT !.id = t.sub]]
           /\ Go(r, "find") /\ UNCHANGED ctx
  <2>1. /\ pc' \in [Requests -> Stages] /\ answer' \in [Requests -> Answers]
        /\ pc'[r] = "find" /\ answer'[r] = answer[r]
        /\ \A q \in Requests \ {r} : pc'[q] = pc[q] /\ answer'[q] = answer[q]
    BY <1>6, GoPlace DEF Stages
  <2>2. /\ IsFunction(row') /\ DOMAIN row' = Requests
        /\ row'[r].role = "viewer" /\ \A q \in Requests \ {r} : row'[q] = row[q]
    BY <1>6 DEF Sound, IsFunction, Nobody
  <2>3. "viewer" \in Roles
    BY DEF Roles, RoleOrder
  <2>4. Sound'
    BY <1>1, <1>2, <1>6, <2>1, <2>2, <2>3 DEF Sound
  <2>5. Justified(r)'
    BY <1>1, <1>2, <1>3, <1>6, <2>1 DEF Justified, OnItsWay
  <2> QED
    BY <1>1, <1>2, <1>6, <2>1, <2>2, <2>4, <2>5 DEF Turn, Kept
<1>7. CASE /\ c.op \notin {"login", "refresh"} /\ c.cred.kind = "access"
           /\ \E t \in Presented(c) :
                ctx' = [ctx EXCEPT ![r] = [sub |-> t.sub, role |-> t.role, grants |-> {}]]
           /\ Go(r, "enrich") /\ UNCHANGED row
  <2>1. /\ pc' \in [Requests -> Stages] /\ answer' \in [Requests -> Answers]
        /\ pc'[r] = "enrich" /\ answer'[r] = answer[r]
        /\ \A q \in Requests \ {r} : pc'[q] = pc[q] /\ answer'[q] = answer[q]
    BY <1>7, GoPlace DEF Stages
  <2>2. PICK t \in Presented(c) :
          ctx' = [ctx EXCEPT ![r] = [sub |-> t.sub, role |-> t.role, grants |-> {}]]
    BY <1>7
  <2>3. t.role \in Roles
    BY <2>2 DEF Sound, Presented
  <2>4. /\ IsFunction(ctx') /\ DOMAIN ctx' = Requests
        /\ ctx'[r].sub = t.sub /\ ctx'[r].role = t.role /\ IsContext(ctx'[r])
        /\ \A q \in Requests \ {r} : ctx'[q] = ctx[q]
    BY <2>2, <2>3 DEF Sound, IsFunction, IsContext
  <2>5. Sound'
    BY <1>1, <1>2, <1>7, <2>1, <2>4 DEF Sound
  <2>6. Identified(r)'
    BY <1>2, <1>4, <1>7, <2>4 DEF Identified
  <2>7. Justified(r)'
    BY <1>1, <1>2, <1>3, <1>7, <2>1, <2>6 DEF Justified, OnItsWay
  <2> QED
    BY <1>1, <1>2, <1>7, <2>1, <2>4, <2>5, <2>7 DEF Turn, Kept
<1>8. CASE /\ c.op \notin {"login", "refresh"} /\ c.cred.kind = "api"
           /\ Go(r, "resolve") /\ UNCHANGED <<ctx, row>>
  <2>1. /\ pc' \in [Requests -> Stages] /\ answer' \in [Requests -> Answers]
        /\ pc'[r] = "resolve" /\ answer'[r] = answer[r]
        /\ \A q \in Requests \ {r} : pc'[q] = pc[q] /\ answer'[q] = answer[q]
    BY <1>8, GoPlace DEF Stages
  <2>2. Sound'
    BY <1>1, <1>2, <1>8, <2>1 DEF Sound
  <2>3. Justified(r)'
    BY <1>1, <1>2, <1>3, <1>8, <2>1 DEF Justified, OnItsWay
  <2> QED
    BY <1>1, <1>2, <1>8, <2>1, <2>2, <2>3 DEF Turn, Kept
<1>9. CASE Answer(r, "401") /\ UNCHANGED <<ctx, row>>
  <2>1. /\ pc' \in [Requests -> Stages] /\ answer' \in [Requests -> Answers]
        /\ pc'[r] = "done" /\ answer'[r] = "401"
        /\ \A q \in Requests \ {r} : pc'[q] = pc[q] /\ answer'[q] = answer[q]
    BY <1>9, AnswerPlace DEF Answers
  <2>2. Sound'
    BY <1>1, <1>2, <1>9, <2>1 DEF Sound
  <2>3. Justified(r)'
    BY <1>1, <1>2, <1>3, <1>9, <2>1 DEF Justified, OnItsWay
  <2> QED
    BY <1>1, <1>2, <1>9, <2>1, <2>2, <2>3 DEF Turn, Kept
<1> QED
  BY <1>5, <1>6, <1>7, <1>8, <1>9 DEF Arrive

\* The step of a request that reads, or fails: it goes on or answers.
LEMMA PlainTurn ==
  ASSUME Sound, NEW r \in Requests, Justified(r), Observe,
         pc[r] \notin {"idle", "done", "lost"},
         UNCHANGED <<db, issued, restarts, cmd, ctx, row>>,
         \/ \E a \in Answers \ {"ok", "none"} : Answer(r, a)
         \/ Go(r, "seed") /\ pc[r] = "count" /\ DOMAIN db.users = {}
         \/ Go(r, "login") /\ pc[r] = "count"
         \/ Go(r, "ldap") /\ pc[r] = "login"
  PROVE  Turn(r)
<1>1. /\ seen'[r] = seen[r] \union {db, db'} \/ pc'[r] = "idle"
      /\ answer[r] = "none" /\ pc[r] \notin Ended
  BY SeenGrows DEF Justified, OnItsWay, Ended
<1>2. CASE \E a \in Answers \ {"ok", "none"} : Answer(r, a)
  <2>1. PICK a \in Answers \ {"ok", "none"} : Answer(r, a)
    BY <1>2
  <2>2. /\ pc' \in [Requests -> Stages] /\ answer' \in [Requests -> Answers]
        /\ pc'[r] = "done" /\ answer'[r] = a
        /\ \A q \in Requests \ {r} : pc'[q] = pc[q] /\ answer'[q] = answer[q]
    BY <2>1, AnswerPlace
  <2>3. Sound'
    BY <2>2 DEF Sound
  <2>4. Justified(r)'
    BY <1>1, <2>2 DEF Justified, OnItsWay
  <2> QED
    BY <2>2, <2>3, <2>4 DEF Turn, Kept
<1>3. ASSUME NEW s \in {"seed", "login", "ldap"}, Go(r, s), cmd[r].op = "login",
             s = "seed" => DOMAIN db.users = {}
      PROVE  Turn(r)
  <2>2. /\ pc' \in [Requests -> Stages] /\ answer' \in [Requests -> Answers]
        /\ pc'[r] = s /\ answer'[r] = answer[r]
        /\ \A q \in Requests \ {r} : pc'[q] = pc[q] /\ answer'[q] = answer[q]
    BY <1>3, GoPlace DEF Stages
  <2>3. Sound'
    BY <2>2 DEF Sound
  <2>4. s = "seed" => WasFree(r, "users", "admin")'
    BY <1>1, <1>3, <2>2 DEF WasFree, Named
  <2>5. Justified(r)'
    BY <1>1, <1>3, <2>2, <2>4 DEF Justified, OnItsWay
  <2> QED
    BY <2>2, <2>3, <2>5 DEF Turn, Kept
<1>4. pc[r] \in {"count", "login"} => cmd[r].op = "login"
  BY DEF Justified, OnItsWay
<1> QED
  BY <1>2, <1>3, <1>4

\* The answers of a failed call and of a refused login, and the count of users.
LEMMA RefuseTurn ==
  ASSUME Sound, NEW r \in Requests, Justified(r), Observe,
         Raise(r) \/ Count(r) \/ Ldap(r)
  PROVE  Turn(r)
<1>1. CASE Raise(r)
  <2>1. pc[r] \notin {"idle", "done", "lost"} /\ "500" \in Answers \ {"ok", "none"}
    BY <1>1 DEF Raise, Running, Ended, Answers
  <2> QED
    BY <1>1, <2>1, PlainTurn DEF Raise
<1>2. CASE Count(r)
  BY <1>2, PlainTurn DEF Count
<1>3. CASE Ldap(r)
  <2>1. "401" \in Answers \ {"ok", "none"}
    BY DEF Answers
  <2> QED
    BY <1>3, <2>1, PlainTurn DEF Ldap
<1> QED
  BY <1>1, <1>2, <1>3

\* A login reads the user whose role it gives out.
LEMMA LoginTurn ==
  ASSUME Sound, NEW r \in Requests, Justified(r), Observe, Login(r)
  PROVE  Turn(r)
<1>1. /\ pc[r] = "login" /\ cmd[r].op = "login" /\ answer[r] = "none"
      /\ UNCHANGED <<db, issued, restarts, cmd, ctx>>
  BY DEF Login, Justified, OnItsWay
<1>2. CASE Go(r, "ldap") /\ UNCHANGED row
  BY <1>1, <1>2, PlainTurn
<1>3. ASSUME NEW u \in Named(db.users, cmd[r].name), Accepts(db.users[u], cmd[r].value),
             row' = [row EXCEPT ![r] = UserRow(db, u)], Go(r, "member")
      PROVE  Turn(r)
  <2>1. /\ pc' \in [Requests -> Stages] /\ answer' \in [Requests -> Answers]
        /\ pc'[r] = "member" /\ answer'[r] = answer[r]
        /\ \A q \in Requests \ {r} : pc'[q] = pc[q] /\ answer'[q] = answer[q]
    BY <1>3, GoPlace DEF Stages
  <2>2. /\ u \in DOMAIN db.users /\ db.users[u].name = cmd[r].name
        /\ db.users[u].role \in Roles
    BY <1>3 DEF Named, Sound, IsDatabase, IsUser
  <2>3. /\ IsFunction(row') /\ DOMAIN row' = Requests
        /\ row'[r].role = db.users[u].role /\ row'[r].id = u
        /\ \A q \in Requests \ {r} : row'[q] = row[q]
    BY <1>3 DEF Sound, IsFunction, UserRow
  <2>4. Sound'
    BY <1>1, <2>1, <2>2, <2>3 DEF Sound
  <2>5. seen'[r] = seen[r] \union {db, db'}
    BY <1>1, <2>1, SeenGrows DEF Ended
  <2>6. Stood(r, u, db.users[u].role)'
    BY <1>1, <1>3, <2>2, <2>5 DEF Stood, Accepts
  <2>7. Stood(r, row[r].id, row[r].role)'
    BY <1>1, <2>3, <2>6 DEF Stood
  <2>8. Justified(r)'
    BY <1>1, <2>1, <2>5, <2>7 DEF Justified, OnItsWay
  <2> QED
    BY <1>1, <2>1, <2>3, <2>4, <2>8 DEF Turn, Kept
<1> QED
  BY <1>2, <1>3 DEF Login

\* The tokens of a pair carry the user and the role that were read.
LEMMA PairTurn ==
  ASSUME Sound, NEW r \in Requests, Justified(r), Observe, NEW u,
         pc[r] \in {"member", "find"}, u.role \in Roles, Stood(r, u.id, u.role)',
         issued' = issued \union Pair(r, u), Answer(r, "ok"),
         UNCHANGED <<db, restarts, cmd, ctx, row>>
  PROVE  Turn(r)
<1>1. /\ pc' \in [Requests -> Stages] /\ answer' \in [Requests -> Answers]
      /\ pc'[r] = "done" /\ answer'[r] = "ok"
      /\ \A q \in Requests \ {r} : pc'[q] = pc[q] /\ answer'[q] = answer[q]
  BY AnswerPlace DEF Answers
<1>2. \A t \in Pair(r, u) : /\ t.jti = r /\ t.sub = u.id /\ t.role = u.role
                            /\ t.type \in {"access", "refresh"}
  BY DEF Pair
<1>3. Sound'
  BY <1>1, <1>2 DEF Sound
<1>4. cmd[r].op \in {"login", "refresh"} /\ cmd[r] \in Commands
  BY DEF Justified, OnItsWay
<1>5. seen'[r] = seen[r] \union {db, db'}
  BY <1>1, SeenGrows DEF Ended
<1>6. Requires(cmd[r]) = <<>> /\ Holds(db, r, cmd[r])
  BY <1>4 DEF Requires, Holds
<1>7. Justified(r)'
  BY <1>1, <1>4, <1>5, <1>6 DEF Justified, OnItsWay
<1>8. \A t \in issued' \ issued : t.jti = r /\ pc'[r] = "done" /\ Stood(r, t.sub, t.role)'
  BY <1>1, <1>2
<1> QED
  BY <1>1, <1>3, <1>7, <1>8 DEF Turn, Kept

\* Tokens are given out at the end of a login and of a refresh.
LEMMA IssueTurn ==
  ASSUME Sound, NEW r \in Requests, Justified(r), Observe, Member(r) \/ Find(r)
  PROVE  Turn(r)
<1>1. CASE Member(r)
  <2>1. pc[r] = "member" /\ Stood(r, row[r].id, row[r].role) /\ row[r].role \in Roles
    BY <1>1 DEF Member, Justified, Sound
  <2>2. Stood(r, row[r].id, row[r].role)'
    BY <1>1, <2>1, SeenGrows DEF Stood, Member
  <2> DEFINE u == row[r]
  <2>4. /\ issued' = issued \union Pair(r, u) /\ Answer(r, "ok")
        /\ UNCHANGED <<db, restarts, cmd, ctx, row>>
    BY <1>1 DEF Member
  <2> QED
    BY <2>1, <2>2, <2>4, PairTurn
<1>2. CASE Find(r)
  <2> DEFINE i == row[r].id
  <2>0. pc[r] = "find" /\ cmd[r].op = "refresh" /\ UNCHANGED <<db, restarts, cmd, ctx, row>>
    BY <1>2 DEF Find, Justified, OnItsWay
  <2>1. CASE i \in DOMAIN db.users /\ db.users[i].active
    <3>0. PICK u : u = UserRow(db, i)
      OBVIOUS
    <3>1. issued' = issued \union Pair(r, u) /\ Answer(r, "ok")
      BY <1>2, <2>1, <3>0 DEF Find
    <3>2. pc'[r] = "done"
      BY <3>1, AnswerPlace DEF Answers
    <3>3. seen'[r] = seen[r] \union {db, db'}
      BY <2>0, <3>2, SeenGrows DEF Ended
    <3>4. u.id = i /\ u.role = db.users[i].role /\ u.role \in Roles
      BY <2>1, <3>0 DEF UserRow, Sound, IsDatabase, IsUser
    <3>5. Stood(r, u.id, u.role)'
      BY <2>0, <2>1, <3>3, <3>4 DEF Stood
    <3> QED
      BY <2>0, <3>1, <3>4, <3>5, PairTurn
  <2>2. CASE ~(i \in DOMAIN db.users /\ db.users[i].active)
    <3>1. Answer(r, "401") /\ UNCHANGED issued
      BY <1>2, <2>2 DEF Find
    <3>2. "401" \in Answers \ {"ok", "none"}
      BY DEF Answers
    <3> QED
      BY <2>0, <3>1, <3>2, PlainTurn
  <2> QED
    BY <2>1, <2>2
<1> QED
  BY <1>1, <1>2

\* The default administrator is created when no user was seen.
LEMMA SeedTurn ==
  ASSUME Sound, NEW r \in Requests, Justified(r), Observe, Seed(r)
  PROVE  Turn(r) /\ Follows(db, db', r, "create_user", "admin") /\ pc'[r] \notin Unwritten
<1>1. /\ pc[r] = "seed" /\ cmd[r].op = "login" /\ answer[r] = "none"
      /\ Go(r, "login") /\ UNCHANGED <<issued, restarts, cmd, ctx, row>>
      /\ db' = [db EXCEPT !.users = Put(@, r, NewUser("admin", "admin", "admin"))]
      /\ "admin" \in Roles
  BY DEF Seed, Justified, OnItsWay, Roles, RoleOrder
<1>2. /\ IsDatabase(db') /\ Attached(db') /\ Follows(db, db', r, "create_user", "admin")
  <2>0. IsDatabase(db) /\ Attached(db)
    BY DEF Sound
  <2> DEFINE w == [db EXCEPT !.users = Put(@, r, NewUser("admin", "admin", "admin"))]
  <2>1. db' = w
    BY <1>1
  <2> HIDE DEF w
  <2>2. IsDatabase(w) /\ (Attached(db) => Attached(w)) /\ Follows(db, w, r, "create_user", "admin")
    <3>1. w = [db EXCEPT !.users = Put(@, r, NewUser("admin", "admin", "admin"))]
      BY DEF w
    <3> QED
      BY <1>1, <2>0, <3>1, UserCreated
  <2> QED
    BY <2>0, <2>1, <2>2
<1>3. /\ pc' \in [Requests -> Stages] /\ answer' \in [Requests -> Answers]
      /\ pc'[r] = "login" /\ answer'[r] = answer[r]
      /\ \A q \in Requests \ {r} : pc'[q] = pc[q] /\ answer'[q] = answer[q]
  BY <1>1, GoPlace DEF Stages
<1>4. Sound'
  BY <1>1, <1>2, <1>3 DEF Sound
<1>5. seen'[r] # {}
  BY <1>1, <1>3, SeenGrows DEF Ended
<1>6. Justified(r)'
  BY <1>1, <1>3, <1>5 DEF Justified, OnItsWay
<1> QED
  BY <1>1, <1>2, <1>3, <1>4, <1>6 DEF Turn, Kept, Unwritten

\* An API token identifies its owner, with the role the owner has now.
LEMMA ResolveTurn ==
  ASSUME Sound, NEW r \in Requests, Justified(r), Observe, Resolve(r)
  PROVE  Turn(r)
<1> DEFINE t == cmd[r].cred.id
           u == db.tokens[t].owner
<1>1. /\ pc[r] = "resolve" /\ answer[r] = "none" /\ cmd[r].cred.kind = "api"
      /\ UNCHANGED <<db, issued, restarts, cmd, row>>
      /\ cmd[r] \in Commands /\ cmd[r].op \notin {"login", "refresh"}
  BY DEF Resolve, Justified, OnItsWay
<1>2. CASE Resolves(db, t)
  <2>1. /\ ctx' = [ctx EXCEPT ![r] = [sub |-> u, role |-> db.users[u].role, grants |-> {}]]
        /\ Go(r, "enrich")
    BY <1>2 DEF Resolve
  <2>2. /\ pc' \in [Requests -> Stages] /\ answer' \in [Requests -> Answers]
        /\ pc'[r] = "enrich" /\ answer'[r] = answer[r]
        /\ \A q \in Requests \ {r} : pc'[q] = pc[q] /\ answer'[q] = answer[q]
    BY <2>1, GoPlace DEF Stages
  <2>3. db.users[u].role \in Roles
    BY <1>2 DEF Resolves, Sound, IsDatabase, IsUser
  <2>4. /\ IsFunction(ctx') /\ DOMAIN ctx' = Requests
        /\ ctx'[r].sub = u /\ ctx'[r].role = db.users[u].role /\ IsContext(ctx'[r])
        /\ \A q \in Requests \ {r} : ctx'[q] = ctx[q]
    BY <2>1, <2>3 DEF Sound, IsFunction, IsContext
  <2>5. Sound'
    BY <1>1, <2>2, <2>4 DEF Sound
  <2>6. db \in seen'[r]
    BY <1>1, <2>2, SeenGrows DEF Ended
  <2>7. Identified(r)'
    BY <1>1, <1>2, <2>4, <2>6 DEF Identified
  <2>8. Justified(r)'
    BY <1>1, <2>2, <2>6, <2>7 DEF Justified, OnItsWay
  <2> QED
    BY <1>1, <2>2, <2>4, <2>5, <2>8 DEF Turn, Kept
<1>3. CASE ~Resolves(db, t)
  <2>1. Answer(r, "401") /\ UNCHANGED ctx
    BY <1>3 DEF Resolve
  <2>2. "401" \in Answers \ {"ok", "none"}
    BY DEF Answers
  <2> QED
    BY <1>1, <2>1, <2>2, PlainTurn
<1> QED
  BY <1>2, <1>3

\* Where a handler goes from its first line, and what it has checked then.
LEMMA HandleGoes ==
  ASSUME NEW r \in Requests, cmd[r] \in Commands, cmd[r].op \notin {"login", "refresh"},
         NEW cx, Handle(r, cx)
  PROVE  \/ \E a \in Answers \ {"ok", "none"} : Answer(r, a)
         \/ /\ Requires(cmd[r]) # <<>> => Allowed(cx.role, cx.grants, Requires(cmd[r]))
            /\ \/ cmd[r].op \in {"execute_job", "create_node"} /\ Answer(r, "ok")
               \/ cmd[r].op \in {"create_user", "create_group", "change_password"} /\ Go(r, "check")
               \/ /\ cmd[r].op \in Writes \ {"create_user", "create_group", "change_password"}
                  /\ Go(r, "write")
<1> DEFINE c == cmd[r]
<1>0. {"400", "403", "422"} \subseteq Answers \ {"ok", "none"}
  BY DEF Answers
<1>1. CASE Requires(c) # <<>> /\ ~Allowed(cx.role, cx.grants, Requires(c))
  <2>1. Answer(r, "403")
    BY <1>1 DEF Handle
  <2> QED
    BY <1>0, <2>1
<1>2. CASE ~(Requires(c) # <<>> /\ ~Allowed(cx.role, cx.grants, Requires(c)))
  <2>1. CASE c.op = "delete_user" /\ c.id = cx.sub
    <3>1. Answer(r, "400")
      BY <1>2, <2>1 DEF Handle
    <3> QED
      BY <1>0, <3>1
  <2>2. CASE (c.op = "create_user" /\ c.id \in Short) \/ (c.op = "reset_password" /\ c.value \in Short)
    <3>1. Answer(r, "422")
      BY <1>2, <2>2 DEF Handle
    <3> QED
      BY <1>0, <3>1
  <2>3. CASE c.op \in {"execute_job", "create_node"}
    <3>1. Answer(r, "ok")
      BY <1>2, <2>3 DEF Handle
    <3> QED
      BY <1>2, <2>3, <3>1
  <2>4. CASE c.op \in {"create_user", "create_group", "change_password"} /\ ~(c.op = "create_user" /\ c.id \in Short)
    <3>1. Go(r, "check")
      BY <1>2, <2>4 DEF Handle
    <3> QED
      BY <1>2, <2>4, <3>1
  <2>5. CASE /\ c.op \notin {"execute_job", "create_node", "create_user", "create_group", "change_password"}
             /\ ~(c.op = "delete_user" /\ c.id = cx.sub)
             /\ ~(c.op = "reset_password" /\ c.value \in Short)
    <3>1. Go(r, "write")
      BY <1>2, <2>5 DEF Handle
    <3>2. c.op \in Writes \ {"create_user", "create_group", "change_password"}
      BY <2>5, CommandAssumption DEF Writes
    <3> QED
      BY <1>2, <3>1, <3>2
  <2> QED
    BY <2>1, <2>2, <2>3, <2>4, <2>5
<1> QED
  BY <1>1, <1>2

\* What the role or a grant of the groups allows is held.
LEMMA GrantsHeld ==
  ASSUME IsDatabase(db), NEW u, NEW role, NEW grants \in {GrantsOf(db, u), {}}, NEW required,
         Allowed(role, grants, required)
  PROVE  RoleAllows(role, required) \/ HeldGrant(db, u, required)
<1> SUFFICES ASSUME ~RoleAllows(role, required) PROVE HeldGrant(db, u, required)
  OBVIOUS
<1>1. PICK g \in GrantsOf(db, u) : GrantAllows(g, required)
  BY DEF Allowed
<1>2. PICK p \in DOMAIN db.perms : g = db.perms[p].grant /\ db.perms[p].group \in GroupsOf(db, u)
  BY <1>1 DEF GrantsOf
<1>3. PICK m \in db.members : m[1] = u /\ m[2] = db.perms[p].group
  BY <1>2 DEF GroupsOf
<1>4. m = <<m[1], m[2]>>
  BY <1>3 DEF IsDatabase
<1>5. <<u, db.perms[p].group>> \in db.members
  BY <1>3, <1>4
<1> QED
  BY <1>1, <1>2, <1>5 DEF HeldGrant

\* Who is identified and allowed is entitled.
LEMMA AllowedEntitled ==
  ASSUME Sound, NEW r \in Requests, Identified(r),
         NEW grants \in {GrantsOf(db, ctx[r].sub), {}},
         Allowed(ctx[r].role, grants, Requires(cmd[r])),
         seen'[r] = seen[r] \union {db, db'}, UNCHANGED <<issued, cmd>>
  PROVE  Entitled(r)'
<1> DEFINE required == Requires(cmd[r])
<1>1. RoleAllows(ctx[r].role, required) \/ HeldGrant(db, ctx[r].sub, required)
  BY GrantsHeld DEF Sound
<1> HIDE DEF required
<1>2. /\ db \in seen'[r] /\ seen[r] \subseteq seen'[r] /\ required' = required
      /\ required = Requires(cmd[r])
  BY DEF required
<1>3. CASE cmd[r].cred.kind = "access"
  <2>1. PICK t \in Presented(cmd[r]) : ctx[r].sub = t.sub /\ ctx[r].role = t.role
    BY <1>3 DEF Identified
  <2>2. t \in Presented(cmd[r])'
    BY <2>1 DEF Presented
  <2> QED
    BY <1>1, <1>2, <1>3, <2>1, <2>2 DEF Entitled
<1>4. CASE cmd[r].cred.kind # "access"
  <2>1. PICK d \in seen[r] :
          /\ Resolves(d, cmd[r].cred.id)
          /\ ctx[r].sub = d.tokens[cmd[r].cred.id].owner
          /\ ctx[r].role = d.users[d.tokens[cmd[r].cred.id].owner].role
    BY <1>4 DEF Identified
  <2>2. d \in seen'[r]
    BY <1>2, <2>1
  <2> QED
    BY <1>1, <1>2, <1>4, <2>1, <2>2 DEF Entitled
<1> QED
  BY <1>3, <1>4

\* The permissions of the groups are loaded and the handler starts.
LEMMA EnrichTurn ==
  ASSUME Sound, NEW r \in Requests, Justified(r), Observe, Enrich(r)
  PROVE  Turn(r)
<1>1. PICK grants \in {GrantsOf(db, ctx[r].sub), {}} :
        LET cx == [ctx[r] EXCEPT !.grants = grants]
        IN ctx' = [ctx EXCEPT ![r] = cx] /\ Handle(r, cx)
  BY DEF Enrich
<1> DEFINE cx == [ctx[r] EXCEPT !.grants = grants]
<1>2. /\ pc[r] = "enrich" /\ answer[r] = "none" /\ Identified(r)
      /\ UNCHANGED <<db, issued, restarts, cmd, row>>
      /\ cmd[r] \in Commands /\ cmd[r].op \notin {"login", "refresh"}
      /\ cmd[r].cred.kind \in {"access", "api"}
  BY DEF Enrich, Justified, OnItsWay
<1>3. /\ cx.sub = ctx[r].sub /\ cx.role = ctx[r].role /\ cx.grants = grants /\ IsContext(cx)
  BY DEF Sound, IsContext
<1>4. ctx' = [ctx EXCEPT ![r] = cx] /\ Handle(r, cx)
  BY <1>1
<1> HIDE DEF cx
<1>5. /\ IsFunction(ctx') /\ DOMAIN ctx' = Requests /\ ctx'[r] = cx
      /\ \A q \in Requests \ {r} : ctx'[q] = ctx[q]
  BY <1>4 DEF Sound, IsFunction
<1>6. ASSUME NEW s \in Stages \ {"idle"}, NEW a \in Answers,
             /\ pc' \in [Requests -> Stages] /\ answer' \in [Requests -> Answers]
             /\ pc'[r] = s /\ answer'[r] = a
             /\ \A q \in Requests \ {r} : pc'[q] = pc[q] /\ answer'[q] = answer[q],
             \/ s = "done" /\ a \notin {"ok", "none"}
             \/ /\ Requires(cmd[r]) # <<>> => Allowed(cx.role, cx.grants, Requires(cmd[r]))
                /\ \/ cmd[r].op \in {"execute_job", "create_node"} /\ s = "done" /\ a = "ok"
                   \/ /\ cmd[r].op \in {"create_user", "create_group", "change_password"}
                      /\ s = "check" /\ a = "none"
                   \/ /\ cmd[r].op \in Writes \ {"create_user", "create_group", "change_password"}
                      /\ s = "write" /\ a = "none"
      PROVE  Turn(r)
  <2>1. Sound'
    BY <1>2, <1>3, <1>5, <1>6 DEF Sound
  <2>2. seen'[r] = seen[r] \union {db, db'}
    BY <1>2, <1>6, SeenGrows DEF Ended
  <2>3. OnItsWay(r)'
    BY <1>2, <1>6, <2>2 DEF OnItsWay, Writes
  <2>4. Requires(cmd[r]) # <<>> /\ (s # "done" \/ a = "ok") => Entitled(r)'
    BY <1>2, <1>3, <1>6, <2>2, AllowedEntitled
  <2>5. a = "ok" => Holds(db, r, cmd[r])
    BY <1>6 DEF Holds
  <2>6. \A f \in {"users", "groups"} : s = "write" => cmd[r].op # Creates[f]
    BY <1>6 DEF Creates
  <2>7. s = "write" \/ a = "ok" => cmd[r].op # "change_password"
    BY <1>6
  <2>8. /\ pc'[r] \notin {"idle", "seed", "member", "enrich"}
        /\ pc'[r] = s /\ answer'[r] = a /\ cmd' = cmd /\ Requires(cmd[r])' = Requires(cmd[r])
    BY <1>2, <1>6
  <2>9. Justified(r)'
    BY <2>2, <2>3, <2>4, <2>5, <2>6, <2>7, <2>8, <1>6 DEF Justified
  <2> QED
    BY <1>2, <1>5, <1>6, <2>1, <2>9 DEF Turn, Kept
<1>7. CASE \E a \in Answers \ {"ok", "none"} : Answer(r, a)
  <2>1. PICK a \in Answers \ {"ok", "none"} : Answer(r, a)
    BY <1>7
  <2>2. "done" \in Stages \ {"idle"}
    BY DEF Stages, Ended
  <2> QED
    BY <1>6, <2>1, <2>2, AnswerPlace
<1>8. CASE /\ Requires(cmd[r]) # <<>> => Allowed(cx.role, cx.grants, Requires(cmd[r]))
           /\ cmd[r].op \in {"execute_job", "create_node"} /\ Answer(r, "ok")
  <2>2. "done" \in Stages \ {"idle"} /\ "ok" \in Answers
    BY DEF Stages, Ended, Answers
  <2> QED
    BY <1>6, <1>8, <2>2, AnswerPlace
<1>9. CASE /\ Requires(cmd[r]) # <<>> => Allowed(cx.role, cx.grants, Requires(cmd[r]))
           /\ cmd[r].op \in {"create_user", "create_group", "change_password"} /\ Go(r, "check")
  <2>2. "check" \in Stages \ {"idle"} /\ "none" \in Answers
    BY DEF Stages, Answers
  <2> QED
    BY <1>2, <1>6, <1>9, <2>2, GoPlace
<1>10. CASE /\ Requires(cmd[r]) # <<>> => Allowed(cx.role, cx.grants, Requires(cmd[r]))
            /\ cmd[r].op \in Writes \ {"create_user", "create_group", "change_password"}
            /\ Go(r, "write")
  <2>2. "write" \in Stages \ {"idle"} /\ "none" \in Answers
    BY DEF Stages, Answers
  <2> QED
    BY <1>2, <1>6, <1>10, <2>2, GoPlace
<1> QED
  BY <1>2, <1>4, <1>7, <1>8, <1>9, <1>10, HandleGoes

\* The name is free, or the password known, in the database that is looked at.
LEMMA CheckTurn ==
  ASSUME Sound, NEW r \in Requests, Justified(r), Observe, Check(r)
  PROVE  Turn(r)
<1> DEFINE c == cmd[r]
           u == ctx[r].sub
           refusal == IF c.op = "change_password" THEN Refusal(db, c, u)
                      ELSE IF Taken(db, c) THEN "409" ELSE "none"
<1>1. /\ pc[r] = "check" /\ answer[r] = "none" /\ c \in Commands
      /\ c.op \in {"create_user", "create_group", "change_password"}
      /\ c.op \notin {"login", "refresh"} /\ c.cred.kind \in {"access", "api"}
      /\ Requires(c) # <<>> => Entitled(r)
      /\ UNCHANGED <<db, issued, restarts, cmd, ctx, row>>
  BY DEF Check, Justified, OnItsWay
<1>2. CASE refusal # "none"
  <2>1. Answer(r, refusal)
    BY <1>2 DEF Check
  <2>2. refusal \in Answers \ {"ok", "none"}
    BY <1>2 DEF Refusal, Answers
  <2> HIDE DEF refusal
  <2> QED
    BY <1>1, <2>1, <2>2, PlainTurn
<1>3. CASE refusal = "none"
  <2>1. Go(r, "write")
    BY <1>3 DEF Check
  <2>2. /\ pc' \in [Requests -> Stages] /\ answer' \in [Requests -> Answers]
        /\ pc'[r] = "write" /\ answer'[r] = answer[r]
        /\ \A q \in Requests \ {r} : pc'[q] = pc[q] /\ answer'[q] = answer[q]
    BY <2>1, GoPlace DEF Stages
  <2>3. Sound'
    BY <1>1, <2>2 DEF Sound
  <2>4. seen'[r] = seen[r] \union {db, db'}
    BY <1>1, <2>2, SeenGrows DEF Ended
  <2>5. c.op = "change_password" => KnewPassword(r)'
    <3>1. c.op = "change_password" => u \in DOMAIN db.users /\ db.users[u].pw = c.id
      BY <1>3 DEF Refusal
    <3> QED
      BY <1>1, <2>4, <3>1 DEF KnewPassword
  <2>6. ASSUME NEW f \in {"users", "groups"}, c.op = Creates[f]
        PROVE  WasFree(r, f, c.name)'
    <3>1. Named(db[f], c.name) = {}
      BY <1>3, <2>6 DEF Creates, Taken
    <3> QED
      BY <1>1, <2>4, <3>1 DEF WasFree
  <2>7. Entitled(r) => Entitled(r)'
    <3>1. Presented(c)' = Presented(c)
      BY <1>1 DEF Presented
    <3> QED
      BY <1>1, <2>4, <3>1 DEF Entitled
  <2>8. OnItsWay(r)'
    BY <1>1, <2>2, <2>4 DEF OnItsWay, Writes, Operations
  <2>9. Justified(r)'
    BY <1>1, <2>2, <2>5, <2>6, <2>7, <2>8 DEF Justified
  <2> QED
    BY <1>1, <2>2, <2>3, <2>9 DEF Turn, Kept
<1> QED
  BY <1>2, <1>3

\* The statement of a request, and what its client is told of it.
LEMMA WriteTurn ==
  ASSUME Sound, NEW r \in Requests, Justified(r), Observe, Write(r)
  PROVE  Turn(r) /\ Follows(db, db', r, cmd[r].op, cmd[r].name) /\ pc'[r] \notin Unwritten
<1> DEFINE c == cmd[r]
           u == ctx[r].sub
<1>1. /\ pc[r] = "write" /\ answer[r] = "none" /\ c \in Commands /\ c.op \in Writes
      /\ Requires(c) # <<>> => Entitled(r)
      /\ c.op = "change_password" => KnewPassword(r)
      /\ UNCHANGED <<issued, restarts, cmd, ctx, row>>
      /\ db' = Written(db, r, c, u)
  BY DEF Write, Justified, OnItsWay
<1>2. IsDatabase(db) /\ Attached(db)
  BY DEF Sound
<1>3. IsDatabase(db') /\ Attached(db') /\ Follows(db, db', r, c.op, c.name)
  BY <1>1, <1>2, WriteEffect
<1>4. PICK a \in {WriteAnswer(db, c, u), "500"} : Answer(r, a)
  BY DEF Write
<1>5. a \in Answers \ {"none"} /\ (a = "ok" => Matched(db, c, u))
  BY <1>4 DEF WriteAnswer, Answers
<1>6. /\ pc' \in [Requests -> Stages] /\ answer' \in [Requests -> Answers]
      /\ pc'[r] = "done" /\ answer'[r] = a
      /\ \A q \in Requests \ {r} : pc'[q] = pc[q] /\ answer'[q] = answer[q]
  BY <1>4, <1>5, AnswerPlace
<1>7. Sound'
  BY <1>1, <1>3, <1>6 DEF Sound
<1>8. seen'[r] = seen[r] \union {db, db'}
  BY <1>1, <1>6, SeenGrows DEF Ended
<1>9. a = "ok" => Holds(db', r, c)
  BY <1>1, <1>2, <1>5, WriteDone
<1>10. KnewPassword(r) => KnewPassword(r)'
  BY <1>1, <1>8 DEF KnewPassword
<1>11. Entitled(r) => Entitled(r)'
  <2>1. Presented(c)' = Presented(c)
    BY <1>1 DEF Presented
  <2> QED
    BY <1>1, <1>8, <2>1 DEF Entitled
<1>12. OnItsWay(r)'
  BY <1>1, <1>6, <1>8 DEF OnItsWay
<1>13. Justified(r)'
  <2>1. a = "ok" => \E d \in seen'[r] : Holds(d, r, c)
    BY <1>8, <1>9
  <2> QED
    BY <1>1, <1>6, <1>10, <1>11, <1>12, <2>1 DEF Justified
<1> QED
  BY <1>1, <1>3, <1>6, <1>7, <1>13 DEF Turn, Kept, Unwritten

--------------------------------------------------------------------------------
(* A restart.                                                                *)

WithoutUsers(d, gone) ==
  [d EXCEPT !.users = Without(@, gone), !.members = {m \in @ : m[1] \notin gone}]

\* Users are deleted with their memberships.
LEMMA UsersDeleted ==
  ASSUME NEW d, IsDatabase(d), NEW gone, NEW w, w = WithoutUsers(d, gone)
  PROVE  /\ IsDatabase(w)
         /\ Attached(d) => Attached(w)
         /\ \A r : Follows(d, w, r, "none", "none")
<1> DEFINE users == Without(d.users, gone)
           members == {m \in d.members : m[1] \notin gone}
<1>1. w = [users |-> users, groups |-> d.groups, members |-> members,
           perms |-> d.perms, tokens |-> d.tokens]
  BY DEF IsDatabase, WithoutUsers
<1>2. /\ IsFunction(users) /\ DOMAIN users = DOMAIN d.users \ gone
      /\ \A x \in DOMAIN users : users[x] = d.users[x]
  BY DEF Without, IsFunction
<1> HIDE DEF users
<1>3. \A m \in members : m \in d.members /\ m[1] \notin gone
  OBVIOUS
<1>4. IsDatabase(w)
  BY <1>1, <1>2, <1>3 DEF IsDatabase
<1>5. Attached(d) => Attached(w)
  BY <1>1, <1>2, <1>3 DEF Attached
<1>6. \A r : Follows(d, w, r, "none", "none")
  BY <1>1, <1>2 DEF Follows
<1> QED
  BY <1>4, <1>5, <1>6

\* A restart ends what is under way, and may delete the users named admin.
LEMMA RestartStep ==
  ASSUME Sound, Restart
  PROVE  /\ Sound' /\ issued' = issued
         /\ \A q \in Requests : /\ cmd'[q] = cmd[q] /\ ctx'[q] = ctx[q] /\ row'[q] = row[q]
                                /\ answer'[q] = answer[q]
                                /\ pc'[q] = pc[q] \/ (pc'[q] = "lost" /\ Running(q))
         /\ \A r : Follows(db, db', r, "none", "none")
<1>1. IsDatabase(db) /\ Attached(db)
  BY DEF Sound
<1>2. IsDatabase(db') /\ Attached(db') /\ \A r : Follows(db, db', r, "none", "none")
  <2>1. PICK admins : admins = Named(db.users, "admin")
    OBVIOUS
  <2>2. PICK w : w = WithoutUsers(db, admins)
    OBVIOUS
  <2>3. IsDatabase(w) /\ Attached(w) /\ \A r : Follows(db, w, r, "none", "none")
    BY <1>1, <2>2, UsersDeleted
  <2>4. \A r : Follows(db, db, r, "none", "none")
    BY DEF Follows
  <2>5. db' = w \/ db' = db
    BY <2>1, <2>2 DEF Restart, WithoutUsers
  <2> QED
    BY <1>1, <2>3, <2>4, <2>5
<1>3. restarts' \in 0..MaxRestarts
  BY CommandAssumption DEF Restart, Sound
<1>4. /\ pc' \in [Requests -> Stages]
      /\ \A q \in Requests : pc'[q] = pc[q] \/ (pc'[q] = "lost" /\ Running(q))
  BY DEF Restart, Sound, Stages, Ended
<1>5. Sound'
  BY <1>2, <1>3, <1>4 DEF Sound, Restart
<1> QED
  BY <1>2, <1>4, <1>5 DEF Restart

--------------------------------------------------------------------------------
(* The invariant of the whole.                                               *)

Held == Sound /\ (\A r \in Requests : Justified(r)) /\ TokensTrue

\* A step is the turn of one request, or a restart.
LEMMA NextTurns ==
  ASSUME Held, Next
  PROVE  \/ \E r \in Requests : /\ Turn(r)
                                /\ \/ db' = db
                                   \/ /\ pc[r] = "seed" /\ pc'[r] \notin Unwritten
                                      /\ Follows(db, db', r, "create_user", "admin")
                                   \/ /\ pc[r] = "write" /\ pc'[r] \notin Unwritten
                                      /\ Follows(db, db', r, cmd[r].op, cmd[r].name)
         \/ Restart
<1>1. Observe
  BY DEF Next
<1>2. ASSUME NEW r \in Requests, NEW c \in Commands, Arrive(r, c)
      PROVE  Turn(r) /\ db' = db
  BY <1>1, <1>2, ArriveTurn DEF Held, Arrive
<1>3. ASSUME NEW r \in Requests, Seed(r)
      PROVE  /\ Turn(r) /\ pc[r] = "seed" /\ pc'[r] \notin Unwritten
             /\ Follows(db, db', r, "create_user", "admin")
  BY <1>1, <1>3, SeedTurn DEF Held, Seed
<1>4. ASSUME NEW r \in Requests, Write(r)
      PROVE  /\ Turn(r) /\ pc[r] = "write" /\ pc'[r] \notin Unwritten
             /\ Follows(db, db', r, cmd[r].op, cmd[r].name)
  BY <1>1, <1>4, WriteTurn DEF Held, Write
<1>5. ASSUME NEW r \in Requests,
             \/ Resolve(r) \/ Enrich(r) \/ Count(r) \/ Login(r) \/ Ldap(r)
             \/ Member(r) \/ Find(r) \/ Check(r) \/ Raise(r)
      PROVE  Turn(r) /\ db' = db
  <2>1. Justified(r) /\ Sound
    BY DEF Held
  <2>2. CASE Resolve(r)
    BY <1>1, <2>1, <2>2, ResolveTurn DEF Resolve
  <2>3. CASE Enrich(r)
    BY <1>1, <2>1, <2>3, EnrichTurn DEF Enrich
  <2>4. CASE Count(r)
    BY <1>1, <2>1, <2>4, RefuseTurn DEF Count
  <2>5. CASE Ldap(r)
    BY <1>1, <2>1, <2>5, RefuseTurn DEF Ldap
  <2>6. CASE Raise(r)
    BY <1>1, <2>1, <2>6, RefuseTurn DEF Raise
  <2>7. CASE Login(r)
    BY <1>1, <2>1, <2>7, LoginTurn DEF Login
  <2>8. CASE Member(r)
    BY <1>1, <2>1, <2>8, IssueTurn DEF Member
  <2>9. CASE Find(r)
    BY <1>1, <2>1, <2>9, IssueTurn DEF Find
  <2>10. CASE Check(r)
    BY <1>1, <2>1, <2>10, CheckTurn DEF Check
  <2> QED
    BY <1>5, <2>2, <2>3, <2>4, <2>5, <2>6, <2>7, <2>8, <2>9, <2>10
<1> QED
  BY <1>2, <1>3, <1>4, <1>5 DEF Next, Step

\* The databases the API starts on.
LEMMA HeldInit == Init => Held
<1> SUFFICES ASSUME Init PROVE Held
  OBVIOUS
<1>1. PICK w \in Worlds : db = w.db /\ issued = w.issued
  BY DEF Init
<1>2. IsDatabase(db) /\ Attached(db)
  BY <1>1, WorldAssumption
<1>3. \A t \in issued : /\ t.type \in {"access", "refresh"} /\ t.role \in Roles
                        /\ t.jti \notin Requests
  BY <1>1, WorldAssumption
<1>4. IsContext(NoContext) /\ Nobody.role \in Roles
  BY DEF IsContext, NoContext, Nobody, Roles, RoleOrder
<1>5. Sound
  BY <1>2, <1>3, <1>4, CommandAssumption
     DEF Init, Sound, Stages, Ended, Answers, IsFunction
<1>6. \A r \in Requests : Justified(r)
  BY DEF Init, Justified, OnItsWay
<1>7. TokensTrue
  BY <1>3 DEF TokensTrue
<1> QED
  BY <1>5, <1>6, <1>7 DEF Held

\* The invariant is kept by every step.
LEMMA HeldStep == Held /\ [Next]_vars => Held'
<1> SUFFICES ASSUME Held, [Next]_vars PROVE Held'
  OBVIOUS
<1>1. CASE UNCHANGED vars
  <2>1. UNCHANGED <<db, issued, restarts, pc, cmd, ctx, row, answer, seen>>
    BY <1>1 DEF vars, reqVars
  <2>2. Sound'
    BY <2>1 DEF Held, Sound
  <2>3. TokensTrue'
    BY <2>1 DEF Held, TokensTrue, Stood
  <2>4. ASSUME NEW r \in Requests PROVE Justified(r)'
    <3>1. Justified(r) /\ OnItsWay(r)'
      BY <2>1 DEF Held, Justified, OnItsWay
    <3>2. /\ \A f, n : WasFree(r, f, n)' = WasFree(r, f, n)
          /\ \A u, role : Stood(r, u, role)' = Stood(r, u, role)
      BY <2>1 DEF WasFree, Stood
    <3>3. Presented(cmd[r])' = Presented(cmd[r])
      BY <2>1 DEF Presented
    <3>4. /\ Identified(r) => Identified(r)'
          /\ Entitled(r) => Entitled(r)'
          /\ KnewPassword(r) => KnewPassword(r)'
      BY <2>1, <3>3 DEF Identified, Entitled, KnewPassword
    <3> QED
      BY <2>1, <3>1, <3>2, <3>4 DEF Justified
  <2> QED
    BY <2>2, <2>3, <2>4 DEF Held
<1>2. ASSUME Next, NEW r \in Requests, Turn(r) PROVE Held'
  <2>0. Observe /\ Sound' /\ issued \subseteq issued'
    BY <1>2 DEF Next, Turn
  <2>1. \A q \in Requests : Justified(q)'
    <3> SUFFICES ASSUME NEW q \in Requests PROVE Justified(q)'
      OBVIOUS
    <3>1. CASE q = r
      BY <1>2, <3>1 DEF Turn
    <3>2. CASE q # r
      <4>1. Kept(q) /\ Justified(q)
        BY <1>2, <3>2 DEF Turn, Held
      <4> QED
        BY <2>0, <4>1, JustifiedStays
    <3> QED
      BY <3>1, <3>2
  <2>2. TokensTrue'
    <3> SUFFICES ASSUME NEW t \in issued', t.jti \in Requests
                 PROVE  pc'[t.jti] = "done" /\ Stood(t.jti, t.sub, t.role)'
      BY DEF TokensTrue
    <3>1. CASE t \notin issued
      BY <1>2, <3>1 DEF Turn
    <3>2. CASE t \in issued
      <4>1. pc[t.jti] = "done" /\ Stood(t.jti, t.sub, t.role)
        BY <3>2 DEF Held, TokensTrue
      <4>2. t.jti # r
        BY <1>2, <4>1 DEF Turn
      <4>3. Kept(t.jti) /\ seen[t.jti] \subseteq seen'[t.jti]
        BY <1>2, <2>0, <4>2, SeenGrows DEF Turn
      <4> QED
        BY <4>1, <4>3 DEF Kept, Stood
    <3> QED
      BY <3>1, <3>2
  <2> QED
    BY <2>0, <2>1, <2>2 DEF Held
<1>3. CASE Next /\ Restart
  <2>0. Observe /\ Sound
    BY <1>3 DEF Next, Held
  <2>1. Sound' /\ issued' = issued
    BY <1>3, <2>0, RestartStep
  <2>2. ASSUME NEW q \in Requests
        PROVE  /\ cmd'[q] = cmd[q] /\ ctx'[q] = ctx[q] /\ row'[q] = row[q] /\ answer'[q] = answer[q]
               /\ pc'[q] = pc[q] \/ (pc'[q] = "lost" /\ Running(q))
               /\ seen[q] \subseteq seen'[q]
    BY <1>3, <2>0, RestartStep, SeenGrows
  <2>3. \A q \in Requests : Justified(q)'
    <3> SUFFICES ASSUME NEW q \in Requests PROVE Justified(q)'
      OBVIOUS
    <3>1. CASE pc'[q] = pc[q]
      <4>1. Kept(q) /\ Justified(q)
        BY <2>2, <3>1 DEF Kept, Held
      <4> QED
        BY <2>0, <2>1, <4>1, JustifiedStays
    <3>2. CASE pc'[q] = "lost" /\ Running(q)
      <4>1. answer[q] = "none" /\ cmd[q] \in Commands /\ seen[q] # {}
        BY <3>2 DEF Held, Justified, OnItsWay, Running, Ended
      <4>2. OnItsWay(q)'
        BY <2>2, <3>2, <4>1 DEF OnItsWay
      <4> QED
        BY <2>2, <3>2, <4>1, <4>2 DEF Justified
    <3> QED
      BY <2>2, <3>1, <3>2
  <2>4. TokensTrue'
    <3> SUFFICES ASSUME NEW t \in issued, t.jti \in Requests
                 PROVE  pc'[t.jti] = "done" /\ Stood(t.jti, t.sub, t.role)'
      BY <2>1 DEF TokensTrue
    <3>1. pc[t.jti] = "done" /\ Stood(t.jti, t.sub, t.role)
      BY DEF Held, TokensTrue
    <3>2. pc'[t.jti] = "done"
      BY <2>2, <3>1 DEF Running, Ended
    <3> QED
      BY <2>2, <3>1, <3>2 DEF Stood
  <2> QED
    BY <2>1, <2>3, <2>4 DEF Held
<1> QED
  BY <1>1, <1>2, <1>3, NextTurns

\* The invariant holds of every reachable state.
LEMMA HeldAlways == Spec => []Held
  BY HeldInit, HeldStep, PTL DEF Spec

--------------------------------------------------------------------------------
(* Names.                                                                    *)

\* The databases that stood while the requests were under way, and the one now.
Past == {db} \union UNION {seen[q] : q \in Requests}

\* Requests that may still create a node have not done so: their uuid is new.
UuidsAreNew ==
  \A r \in Requests : pc[r] \in Unwritten =>
    \A f \in {"users", "groups"} : \A d \in Past : r \notin DOMAIN d[f]

\* Nothing is renamed.
NamesStay ==
  \A f \in {"users", "groups"} : \A d \in Past : \A x \in DOMAIN d[f] \intersect DOMAIN db[f] :
    d[f][x].name = db[f][x].name

\* What no request created has been there from the start.
FromTheStart ==
  \A f \in {"users", "groups"} : \A x \in DOMAIN db[f] : x \in Requests \/ \A d \in Past : x \in DOMAIN d[f]

NamesTrue == UuidsAreNew /\ NamesStay /\ FromTheStart /\ NamesUnique

\* The database the API starts on has each name once.
LEMMA NamesInit == Init => NamesTrue
<1> SUFFICES ASSUME Init PROVE NamesTrue
  OBVIOUS
<1>1. PICK w \in Worlds : db = w.db
  BY DEF Init
<1>2. \A f \in {"users", "groups"} : \A x, y \in DOMAIN db[f] :
        x \notin Requests /\ (db[f][x].name = db[f][y].name => x = y)
  BY <1>1, WorldAssumption
<1>3. Past = {db}
  BY DEF Init, Past
<1>4. UuidsAreNew
  BY <1>2, <1>3 DEF UuidsAreNew
<1>5. NamesStay
  BY <1>3 DEF NamesStay
<1>6. FromTheStart
  BY <1>3 DEF FromTheStart
<1>7. NamesUnique
  BY <1>2 DEF NamesUnique
<1> QED
  BY <1>4, <1>5, <1>6, <1>7 DEF NamesTrue

\* What a request has seen is in the past, and the past grows by the database now.
LEMMA PastGrows ==
  ASSUME Observe
  PROVE  /\ Past' \subseteq Past \union {db'} /\ db' \in Past' /\ db \in Past
         /\ \A q \in Requests : seen[q] \subseteq Past /\ seen[q] \subseteq seen'[q]
  BY SeenGrows DEF Past

\* Nobody comes back to where he may still write.
LEMMA Onward ==
  ASSUME Sound, Next, NEW q \in Requests, pc'[q] \in Unwritten
  PROVE  pc[q] \in Unwritten
<1>1. ASSUME NEW r \in Requests, NEW c \in Commands, Arrive(r, c)
      PROVE  pc[q] \in Unwritten
  BY <1>1 DEF Arrive, Go, Answer, Sound, Unwritten
<1>2. ASSUME NEW r \in Requests, Step(r) PROVE pc[q] \in Unwritten
  <2>1. CASE Resolve(r) \/ Enrich(r) \/ Count(r) \/ Seed(r) \/ Check(r) \/ Write(r)
    <3>1. pc[r] \in Unwritten
      BY <2>1 DEF Resolve, Enrich, Count, Seed, Check, Write, Unwritten
    <3>2. q # r => pc'[q] = pc[q]
      <4>1. \A a : Answer(r, a) => pc' = [pc EXCEPT ![r] = "done"]
        BY DEF Answer
      <4>2. \A s : Go(r, s) => pc' = [pc EXCEPT ![r] = s]
        BY DEF Go
      <4>3. \E s : pc' = [pc EXCEPT ![r] = s]
        BY <2>1, <4>1, <4>2 DEF Resolve, Enrich, Count, Seed, Check, Write, Handle
      <4> QED
        BY <4>3 DEF Sound
    <3> QED
      BY <3>1, <3>2
  <2>2. CASE Login(r) \/ Ldap(r) \/ Member(r) \/ Find(r) \/ Raise(r)
    <3>1. \E s \in {"ldap", "member", "done"} : pc' = [pc EXCEPT ![r] = s]
      BY <2>2 DEF Login, Ldap, Member, Find, Raise, Go, Answer
    <3> QED
      BY <3>1 DEF Sound, Unwritten
  <2> QED
    BY <1>2, <2>1, <2>2 DEF Step
<1>3. CASE Restart
  BY <1>3 DEF Restart, Sound, Unwritten
<1> QED
  BY <1>1, <1>2, <1>3 DEF Next

\* One step of the names: r may create a node of name n that was free in a
\* database it has seen.
LEMMA NamesFollow ==
  ASSUME Held, NamesTrue, Next, NEW r, NEW op, NEW n, Follows(db, db', r, op, n),
         \A f \in {"users", "groups"} : op = Creates[f] =>
           /\ r \in Requests /\ pc[r] \in Unwritten /\ pc'[r] \notin Unwritten
           /\ WasFree(r, f, n)
  PROVE  NamesTrue'
<1> DEFINE Creation(f) == /\ op = Creates[f] /\ r \in Requests /\ pc[r] \in Unwritten
                          /\ pc'[r] \notin Unwritten /\ WasFree(r, f, n)
<1>1. /\ Past' \subseteq Past \union {db'} /\ db' \in Past' /\ db \in Past
      /\ \A q \in Requests : seen[q] \subseteq Past /\ seen[q] \subseteq seen'[q]
  BY PastGrows DEF Next
<1>2. ASSUME NEW f \in {"users", "groups"}, NEW x \in DOMAIN db'[f]
      PROVE  \/ x \in DOMAIN db[f] /\ db'[f][x].name = db[f][x].name
             \/ /\ x = r /\ db'[f][x].name = n /\ Creation(f)
                /\ \A d \in Past : x \notin DOMAIN d[f]
  BY DEF Follows, NamesTrue, UuidsAreNew
<1>3. UuidsAreNew'
  <2> SUFFICES ASSUME NEW q \in Requests, pc'[q] \in Unwritten,
                      NEW f \in {"users", "groups"}, NEW d \in Past'
               PROVE  q \notin DOMAIN d[f]
    BY DEF UuidsAreNew
  <2>1. pc[q] \in Unwritten
    BY Onward DEF Held
  <2>2. \A e \in Past : q \notin DOMAIN e[f]
    BY <2>1 DEF NamesTrue, UuidsAreNew
  <2>3. q \notin DOMAIN db'[f]
    BY <1>1, <1>2, <2>2
  <2> QED
    BY <1>1, <2>2, <2>3
<1>4. NamesStay'
  <2> SUFFICES ASSUME NEW f \in {"users", "groups"}, NEW d \in Past',
                      NEW x \in DOMAIN d[f] \intersect DOMAIN db'[f]
               PROVE  d[f][x].name = db'[f][x].name
    BY DEF NamesStay
  <2>1. CASE d = db'
    BY <2>1
  <2>2. CASE d \in Past
    <3>1. x \in DOMAIN db[f] /\ db'[f][x].name = db[f][x].name
      BY <1>2, <2>2
    <3> QED
      BY <2>2, <3>1 DEF NamesTrue, NamesStay
  <2> QED
    BY <1>1, <2>1, <2>2
<1>5. FromTheStart'
  <2> SUFFICES ASSUME NEW f \in {"users", "groups"}, NEW x \in DOMAIN db'[f], x \notin Requests,
                      NEW d \in Past'
               PROVE  x \in DOMAIN d[f]
    BY DEF FromTheStart
  <2>1. x \in DOMAIN db[f]
    BY <1>2
  <2> QED
    BY <1>1, <2>1 DEF NamesTrue, FromTheStart
<1>6. ASSUME NEW f \in {"users", "groups"}, Creation(f), NEW y \in DOMAIN db[f], y # r,
             db[f][y].name = n
      PROVE  /\ y \in Requests
             /\ \E d \in seen'[r] : y \notin DOMAIN d[f]
             /\ \E d \in seen'[y] : r \notin DOMAIN d[f]
  <2>1. PICK d0 \in seen[r] : Named(d0[f], n) = {}
    BY <1>6 DEF WasFree
  <2>2. d0 \in Past /\ d0 \in seen'[r]
    BY <1>1, <1>6, <2>1
  <2>3. y \notin DOMAIN d0[f]
    BY <1>6, <2>1, <2>2 DEF Named, NamesTrue, NamesStay
  <2>4. y \in Requests
    BY <1>6, <2>2, <2>3 DEF NamesTrue, FromTheStart
  <2>5. pc[y] \notin Unwritten
    BY <1>1, <1>6, <2>4 DEF NamesTrue, UuidsAreNew
  <2>6. seen[y] # {}
    BY <2>4, <2>5 DEF Held, Justified, OnItsWay, Unwritten
  <2>7. PICK d1 \in seen[y] : TRUE
    BY <2>6
  <2>8. r \notin DOMAIN d1[f]
    BY <1>1, <1>6, <2>4, <2>7 DEF NamesTrue, UuidsAreNew
  <2> QED
    BY <1>1, <2>2, <2>3, <2>4, <2>7, <2>8
<1>7. NamesUnique'
  <2> SUFFICES ASSUME NEW f \in {"users", "groups"}, NEW x \in DOMAIN db'[f], NEW y \in DOMAIN db'[f],
                      x # y, db'[f][x].name = db'[f][y].name
               PROVE  /\ {x, y} \subseteq Requests
                      /\ \E d \in seen'[x] : y \notin DOMAIN d[f]
                      /\ \E d \in seen'[y] : x \notin DOMAIN d[f]
    BY DEF NamesUnique
  <2>1. CASE /\ x \in DOMAIN db[f] /\ db'[f][x].name = db[f][x].name
             /\ y \in DOMAIN db[f] /\ db'[f][y].name = db[f][y].name
    BY <1>1, <2>1 DEF NamesTrue, NamesUnique
  <2>2. CASE /\ x = r /\ db'[f][x].name = n /\ Creation(f)
             /\ y \in DOMAIN db[f] /\ db'[f][y].name = db[f][y].name
    BY <1>6, <2>2
  <2>3. CASE /\ y = r /\ db'[f][y].name = n /\ Creation(f)
             /\ x \in DOMAIN db[f] /\ db'[f][x].name = db[f][x].name
    BY <1>6, <2>3
  <2> QED
    BY <1>2, <2>1, <2>2, <2>3
<1> QED
  BY <1>3, <1>4, <1>5, <1>7 DEF NamesTrue

\* Names are kept by every step.
LEMMA NamesStep == Held /\ NamesTrue /\ [Next]_vars => NamesTrue'
<1> SUFFICES ASSUME Held, NamesTrue, [Next]_vars PROVE NamesTrue'
  OBVIOUS
<1>1. CASE UNCHANGED vars
  <2>1. UNCHANGED <<db, pc, seen>>
    BY <1>1 DEF vars, reqVars
  <2>2. Past' = Past
    BY <2>1 DEF Past
  <2> QED
    BY <2>1, <2>2 DEF NamesTrue, UuidsAreNew, NamesStay, FromTheStart, NamesUnique
<1>2. ASSUME Next, NEW r \in Requests,
             \/ /\ pc[r] = "seed" /\ pc'[r] \notin Unwritten
                /\ Follows(db, db', r, "create_user", "admin")
             \/ /\ pc[r] = "write" /\ pc'[r] \notin Unwritten
                /\ Follows(db, db', r, cmd[r].op, cmd[r].name)
      PROVE  NamesTrue'
  <2>1. Justified(r)
    BY DEF Held
  <2>2. CASE /\ pc[r] = "seed" /\ pc'[r] \notin Unwritten
             /\ Follows(db, db', r, "create_user", "admin")
    <3>1. pc[r] \in Unwritten /\ WasFree(r, "users", "admin")
      BY <2>1, <2>2 DEF Unwritten, Justified
    <3>2. \A f \in {"users", "groups"} : "create_user" = Creates[f] => f = "users"
      BY DEF Creates
    <3>3. \A f \in {"users", "groups"} : "create_user" = Creates[f] =>
            /\ r \in Requests /\ pc[r] \in Unwritten /\ pc'[r] \notin Unwritten
            /\ WasFree(r, f, "admin")
      BY <2>2, <3>1, <3>2
    <3> QED
      BY <1>2, <2>2, <3>3, NamesFollow
  <2>3. CASE /\ pc[r] = "write" /\ pc'[r] \notin Unwritten
             /\ Follows(db, db', r, cmd[r].op, cmd[r].name)
    <3>1. pc[r] \in Unwritten
      BY <2>3 DEF Unwritten
    <3>2. \A f \in {"users", "groups"} : cmd[r].op = Creates[f] =>
            /\ r \in Requests /\ pc[r] \in Unwritten /\ pc'[r] \notin Unwritten
            /\ WasFree(r, f, cmd[r].name)
      BY <2>1, <2>3, <3>1 DEF Justified
    <3> QED
      BY <1>2, <2>3, <3>2, NamesFollow
  <2> QED
    BY <1>2, <2>2, <2>3
<1>3. ASSUME Next, \A r : Follows(db, db', r, "none", "none") PROVE NamesTrue'
  <2>1. \A f \in {"users", "groups"} : "none" # Creates[f]
    BY DEF Creates
  <2>2. Follows(db, db', "none", "none", "none")
    BY <1>3
  <2> QED
    BY <1>3, <2>1, <2>2, NamesFollow
<1>4. CASE Next /\ Restart
  <2>1. Sound
    BY DEF Held
  <2> QED
    BY <1>3, <1>4, <2>1, RestartStep
<1>5. CASE Next /\ db' = db
  <2>1. \A r : Follows(db, db', r, "none", "none")
    BY <1>5 DEF Follows
  <2> QED
    BY <1>3, <1>5, <2>1
<1> QED
  BY <1>1, <1>2, <1>4, <1>5, NextTurns

--------------------------------------------------------------------------------
(* Theorems.                                                                 *)

\* Two users, or two groups, of one name come only from two requests that were
\* both under way when the other had not yet created its own: the look-up before
\* each creation excludes everything else, restarts and the seeding included.
THEOREM NamesAreUnique == Spec => []NamesUnique
<1>1. NamesTrue => NamesUnique
  BY DEF NamesTrue
<1> QED
  BY <1>1, HeldAlways, NamesInit, NamesStep, PTL DEF Spec

\* Whatever is revoked, disabled, deleted or restarted meanwhile: a token pair is
\* given out, an operation let through and a password changed on what the
\* database held at some moment of the request.
THEOREM PrivilegesAreJustified == Spec => []PrivilegesJustified
<1>1. Held => PrivilegesJustified
  <2> SUFFICES ASSUME Held PROVE PrivilegesJustified
    OBVIOUS
  <2>1. TokensJustified
    BY DEF Held, TokensTrue, TokensJustified
  <2>2. AccessJustified
    BY DEF Held, Justified, AccessJustified
  <2>3. ChangeJustified
    BY DEF Held, Justified, ChangeJustified, Succeeded
  <2> QED
    BY <2>1, <2>2, <2>3 DEF PrivilegesJustified
<1> QED
  BY <1>1, HeldAlways, PTL

\* No interleaving leaves a membership or a permission whose user or group is
\* gone, and what the API writes is well typed.
THEOREM AccountsStayWellFormed == Spec => []AccountsWellFormed
<1>1. Held => AccountsWellFormed
  <2> SUFFICES ASSUME Held PROVE AccountsWellFormed
    OBVIOUS
  <2>1. Sound
    BY DEF Held
  <2>2. DOMAIN db = {"users", "groups", "members", "perms", "tokens"}
    BY <2>1 DEF Sound, IsDatabase
  <2>3. \A u \in DOMAIN db.users : db.users[u].role \in Roles /\ db.users[u].active \in BOOLEAN
    BY <2>1 DEF Sound, IsDatabase, IsUser
  <2>4. \A r \in Requests : cmd[r] \in Commands \union {NoCommand} /\ ctx[r].role \in Roles
    BY <2>1 DEF Sound, IsContext
  <2>5. TypeOK
    BY <2>1, <2>2, <2>3, <2>4 DEF TypeOK, Sound, Stages, Answers
  <2> QED
    BY <2>1, <2>5 DEF AccountsWellFormed, NothingDangles, Sound
<1> QED
  BY <1>1, HeldAlways, PTL

\* Who was told that a change succeeded finds it done at some moment of the request.
THEOREM SuccessIsDone == Spec => []SuccessMeansDone
<1>1. Held => SuccessMeansDone
  BY DEF Held, Justified, SuccessMeansDone
<1> QED
  BY <1>1, HeldAlways, PTL
================================================================================
