------------------------------- MODULE MCAccounts -------------------------------
(* Instances of Accounts for TLC.                                            *)
EXTENDS Accounts, TLC

Cred(k, i) == [kind |-> k, id |-> i]
Anonymous == Cred("none", "none")
Boss == Cred("access", "boss")
Bob == Cred("access", "bob")
BobApi == Cred("api", "key")
Do(op, cred, id, name, value) ==
  [op |-> op, cred |-> cred, id |-> id, name |-> name, value |-> value]

User(n, role, pw) == [name |-> n, role |-> role, active |-> TRUE, pw |-> pw]
Grant(can, types, runs, jobs) ==
  [enabled |-> TRUE, can |-> can, types |-> types, runs |-> runs, jobs |-> jobs]
Payloads == [devices |-> Grant({"create"}, {"Device"}, TRUE, {"backup"})]

NothingYet == [users |-> <<>>, groups |-> <<>>, members |-> {}, perms |-> <<>>, tokens |-> <<>>]
Small ==
  [users   |-> ("u1" :> User("root", "admin", "pw1") @@ "u2" :> User("bob", "viewer", "pw1")),
   groups  |-> ("g1" :> [name |-> "net"]),
   members |-> {<<"u2", "g1">>},
   perms   |-> ("p1" :> [group |-> "g1", grant |-> Grant({"update"}, {"Device"}, FALSE, {})]),
   tokens  |-> ("key" :> [owner |-> "u2", active |-> TRUE])]
Jwts == {[jti |-> "boss", type |-> "access", sub |-> "u1", role |-> "admin"],
         [jti |-> "bob", type |-> "access", sub |-> "u2", role |-> "viewer"],
         [jti |-> "bob", type |-> "refresh", sub |-> "u2", role |-> "viewer"]}
TwoWorlds == {[db |-> NothingYet, issued |-> {}], [db |-> Small, issued |-> Jwts]}

Everything ==
  {Do("login", Anonymous, "none", "admin", "admin"), Do("login", Anonymous, "none", "bob", "pw1"),
   Do("refresh", Cred("refresh", "bob"), "none", "none", "none"),
   Do("refresh", Bob, "none", "none", "none"),
   Do("create_user", Boss, "pw1", "bob", "viewer"), Do("create_user", Boss, "pw1", "ann", "editor"),
   Do("create_user", Boss, "x", "ann", "viewer"), Do("create_user", Bob, "pw1", "ann", "viewer"),
   Do("update_user", Boss, "u2", "role", "editor"), Do("update_user", Boss, "u2", "is_active", "true"),
   Do("delete_user", Boss, "u2", "none", "none"), Do("delete_user", Boss, "u1", "none", "none"),
   Do("reset_password", Boss, "u2", "none", "pw2"), Do("reset_password", Boss, "u2", "none", "x"),
   Do("change_password", Bob, "pw1", "none", "pw3"), Do("change_password", Bob, "pw2", "none", "pw3"),
   Do("create_group", Boss, "none", "net", "none"), Do("create_group", Boss, "none", "lab", "none"),
   Do("delete_group", Boss, "g1", "none", "none"), Do("add_member", Boss, "g1", "u1", "none"),
   Do("remove_member", Boss, "g1", "u2", "none"), Do("create_permission", Boss, "g1", "none", "devices"),
   Do("update_permission", Boss, "p1", "none", "false"), Do("delete_permission", Boss, "p1", "none", "none"),
   Do("create_api_token", Bob, "none", "none", "none"), Do("revoke_api_token", Bob, "key", "none", "none"),
   Do("create_node", Bob, "none", "none", "Device"), Do("create_node", BobApi, "none", "none", "Device"),
   Do("create_node", BobApi, "none", "none", "Site"), Do("execute_job", Bob, "none", "none", "backup"),
   Do("execute_job", BobApi, "none", "none", "backup")}
================================================================================
