------------------------------- MODULE Permissions -------------------------------
(* packages/auth/rbac.py: what a role and the permissions of groups allow,    *)
(* and routers/generated.py, which explains such a decision.                  *)
(*                                                                            *)
(* A permission string is the sequence of its parts, <<"read", "node", "*">>, *)
(* and so is what an operation requires, <<"read", "node", "Device">>.        *)
EXTENDS Naturals, Sequences

RoleOrder == <<"viewer", "editor", "operator", "admin", "superadmin">>
Roles == {RoleOrder[i] : i \in DOMAIN RoleOrder}
Rank(role) == CHOOSE i \in DOMAIN RoleOrder : RoleOrder[i] = role

Own ==
  [viewer     |-> {<<"read", k, "*">> : k \in {"node", "edge", "query", "schema"}},
   editor     |-> {<<"write", "node", "*">>, <<"write", "edge", "*">>, <<"execute", "query", "*">>},
   operator   |-> {<<"execute", "job", "*">>} \union
                  {<<"manage", k, "*">> : k \in {"sync", "parser", "iac"}},
   admin      |-> {<<"manage", k, "*">> : k \in {"user", "group", "role", "schema"}} \union
                  {<<"execute", "cypher">>},
   superadmin |-> {<<"*">>}]

\* Slip: a role has its own permissions only.
RolePermissions_Own(role) == Own[role]
\* get_role_permissions: those of the role and of every role below it.
RolePermissions(role) == UNION {Own[RoleOrder[i]] : i \in 1..Rank(role)}

\* _permission_matches: fnmatch over the whole string, so that "a:b:*" covers
\* "a:b:c" but not "a:b".
Matches(granted, required) ==
  \/ granted = <<"*">>
  \/ granted = required
  \/ /\ Len(granted) = 3 /\ granted[3] = "*"
     /\ Len(required) = 3 /\ SubSeq(required, 1, 2) = SubSeq(granted, 1, 2)

RoleAllows(role, required) ==
  role = "superadmin" \/ \E p \in RolePermissions(role) : Matches(p, required)

Action(required) == required[1]
Kind(required) == required[2]
Object(required) == IF Len(required) > 2 THEN required[3] ELSE ""

\* One permission of a group: [enabled, can, types, runs, jobs]; no types, and
\* no jobs, stand for all of them.
GrantAllows(g, required) ==
  /\ g.enabled
  /\ IF Action(required) = "execute" /\ Kind(required) = "job"
     THEN g.runs /\ (g.jobs = {} \/ {Object(required), "*"} \intersect g.jobs # {})
     ELSE /\ Kind(required) \in {"node", "edge"}
          /\ g.types = {} \/ Object(required) \in g.types
          /\ \/ Action(required) = "read" /\ "read" \in g.can
             \/ Action(required) = "write" /\ {"create", "update"} \intersect g.can # {}
             \/ Action(required) = "delete" /\ "delete" \in g.can

\* check_permission, for the role and the group permissions of a request.
Allowed(role, grants, required) ==
  RoleAllows(role, required) \/ \E g \in grants : GrantAllows(g, required)

\* check_job_permission and check_object_permission: the same questions, asked
\* without a resource string.
JobAllowed(role, grants, job) ==
  \/ RoleAllows(role, <<"execute", "job", job>>)
  \/ \E g \in grants : g.enabled /\ g.runs /\ (g.jobs = {} \/ job \in g.jobs)
ObjectAllowed(role, grants, action, type) ==
  \/ role = "superadmin"
  \/ \E g \in grants : g.enabled /\ (g.types = {} \/ type \in g.types) /\ action \in g.can

\* Slip: the prefix is compared with the wildcard still in it.
Explains_Exact(p, required) == p = <<"*">> \/ p = required
\* "Allowed by role" of GET /permissions/check: the requirement starts with the
\* permission, the wildcard taken off.
Explains(p, required) ==
  \/ p = <<"*">>
  \/ LET n == IF p[Len(p)] = "*" THEN Len(p) - 1 ELSE Len(p)
     IN Len(required) >= Len(p) /\ SubSeq(required, 1, n) = SubSeq(p, 1, n)
ExplainedByRole(role, required) ==
  role = "superadmin" \/ \E p \in RolePermissions(role) : Explains(p, required)
================================================================================
