-------------------------------- MODULE Rbac -------------------------------
(***************************************************************************)
(* packages/types/src/rbac.ts and RbacGuard: roles, their permissions and  *)
(* the check made before a tenant-scoped handler runs.                     *)
(***************************************************************************)
EXTENDS Integers

ROLES == {"OWNER", "ADMIN", "MEMBER", "GUEST"}

ROLE_RANK == [OWNER |-> 3, ADMIN |-> 2, MEMBER |-> 1, GUEST |-> 0]

MEMBER_PERMS == {"project:create", "project:update", "issue:create", "issue:update",
                 "issue:delete", "issue:assign", "comment:create", "attachment:upload"}

ADMIN_PERMS == MEMBER_PERMS \cup {"org:update", "member:invite", "member:remove",
                                  "member:update_role", "project:delete", "audit:read"}

OWNER_PERMS == ADMIN_PERMS \cup {"org:delete", "org:manage_billing"}

GUEST_PERMS == {"comment:create"}

ROLE_PERMISSIONS == [OWNER |-> OWNER_PERMS, ADMIN |-> ADMIN_PERMS,
                     MEMBER |-> MEMBER_PERMS, GUEST |-> GUEST_PERMS]

Can(role, permission) == permission \in ROLE_PERMISSIONS[role]

AtLeast(role, min) == ROLE_RANK[role] >= ROLE_RANK[min]

\* RbacGuard.canActivate for a route that requires permissions and, when roles
\* is not empty, at least one of the roles.
RbacAllows(role, permissions, roles) ==
  /\ roles # {} => \E min \in roles : AtLeast(role, min)
  /\ \A p \in permissions : Can(role, p)
=============================================================================
