---------------------------- MODULE AccessControl ----------------------------
(***************************************************************************)
(* Roles, permissions and who holds them, changed by concurrent requests   *)
(* of anybody whose permissions allow it.  A handler loads the caller's    *)
(* context, checks that nothing reserved is named, looks the target up and *)
(* then writes by id, with other requests between the lookup and the       *)
(* write.  The role `admin' and the permission `manage.all' are reserved:  *)
(* only the seed makes, holds or attaches them.  Users join, and one who   *)
(* registers by invitation is given the role `client' with nobody calling. *)
(***************************************************************************)
EXTENDS Naturals, FiniteSets

CONSTANTS
    Users, SeedUsers,       \* all there may be, and those of the seed
    Admins,                 \* the seed gives Admins the role `admin'
    RoleIds, AdminRole,     \* ids of roles; the seed's reserved one
    PermissionIds, ManageAll,
    Slugs, Keys,            \* role slugs and permission keys
    RbacKeys,               \* keys that admit a caller to the handlers below
    SeedRoles, SeedPermissions, SeedGrants, SeedHolders,
    Requests,
    Unborn,                 \* a row not inserted yet: ids are cuids, used once
    NoRow                   \* a row that was deleted

ADMIN_ROLE_SLUG == "admin"
CLIENT_ROLE_SLUG == "client"
MANAGE_ALL_PERMISSION_KEY == "manage.all"

VARIABLES
    users,          \* rows of the users table
    joined,         \* ids of all users ever inserted
    roles,          \* id |-> slug, Unborn or NoRow
    permissions,    \* id |-> key, Unborn or NoRow
    grants,         \* role_permissions: <<role, permission>>
    holders,        \* user_roles: <<user, role>>
    request         \* per slot: the call that passed its checks, or Idle

vars == <<users, joined, roles, permissions, grants, holders, request>>

Idle == [op |-> "idle"]

Call ==
    [op : {"createRole"}, slug : Slugs]
    \cup [op : {"updateRole"}, role : RoleIds, slug : Slugs]
    \cup [op : {"deleteRole"}, role : RoleIds]
    \cup [op : {"createPermission"}, key : Keys]
    \cup [op : {"updatePermission"}, permission : PermissionIds, key : Keys]
    \cup [op : {"deletePermission"}, permission : PermissionIds]
    \cup [op : {"attach", "detach"}, role : RoleIds, permission : PermissionIds]
    \cup [op : {"addRole", "removeRole"}, user : Users, role : RoleIds]
    \cup [op : {"deleteUser"}, user : Users]

\* A registration by invitation that has inserted its user.
Onboarding == [op : {"onboard"}, user : Users]

Request == {Idle} \cup Call \cup Onboarding

ASSUME SeedAssumption ==
    /\ Admins \subseteq SeedUsers /\ SeedUsers \subseteq Users
    /\ AdminRole \in RoleIds /\ ManageAll \in PermissionIds
    /\ ADMIN_ROLE_SLUG \in Slugs /\ MANAGE_ALL_PERMISSION_KEY \in Keys
    /\ Unborn \notin Slugs \cup Keys /\ NoRow \notin Slugs \cup Keys /\ Unborn # NoRow
    /\ SeedRoles \in [RoleIds -> Slugs \cup {Unborn}]
    /\ \A x \in RoleIds : SeedRoles[x] = ADMIN_ROLE_SLUG <=> x = AdminRole
    /\ SeedPermissions \in [PermissionIds -> Keys \cup {Unborn}]
    /\ \A p \in PermissionIds :
          SeedPermissions[p] = MANAGE_ALL_PERMISSION_KEY <=> p = ManageAll
    /\ SeedGrants \subseteq RoleIds \X PermissionIds
    /\ \A g \in SeedGrants : g[2] = ManageAll <=> g = <<AdminRole, ManageAll>>
    /\ \A g \in SeedGrants : SeedRoles[g[1]] # Unborn /\ SeedPermissions[g[2]] # Unborn
    /\ <<AdminRole, ManageAll>> \in SeedGrants
    /\ SeedHolders \subseteq SeedUsers \X RoleIds
    /\ \A h \in SeedHolders : SeedRoles[h[2]] # Unborn
    /\ \A u \in Users : <<u, AdminRole>> \in SeedHolders <=> u \in Admins

Init ==
    /\ users = SeedUsers /\ joined = SeedUsers
    /\ roles = SeedRoles
    /\ permissions = SeedPermissions
    /\ grants = SeedGrants
    /\ holders = SeedHolders
    /\ request = [r \in Requests |-> Idle]

Roles == {x \in RoleIds : roles[x] \in Slugs}
Permissions == {p \in PermissionIds : permissions[p] \in Keys}

\* loadContext: the keys a user has through its roles.
Effective(u) ==
    {permissions[g[2]] : g \in {h \in grants : <<u, h[1]>> \in holders}}

\* PoliciesGuard lets the caller through.
admitted(u) == u \in users /\ Effective(u) \cap (RbacKeys \cup {MANAGE_ALL_PERMISSION_KEY}) # {}

-----------------------------------------------------------------------------
(* Lookups before the write: each hides what is reserved.                  *)

findRole(x) == x \in Roles /\ roles[x] # ADMIN_ROLE_SLUG

\* Mutant: the repository finds every permission.
AnyPermission(p) == p \in Permissions

findPermission(p) == p \in Permissions /\ permissions[p] # MANAGE_ALL_PERMISSION_KEY

findUser(u) ==
    /\ u \in users
    /\ \A x \in Roles : <<u, x>> \in holders => roles[x] # ADMIN_ROLE_SLUG

\* `Cannot create reserved role', `Cannot use reserved key' and the like.
namesFree(c) ==
    /\ c.op \in {"createRole", "updateRole"} => c.slug # ADMIN_ROLE_SLUG
    /\ c.op \in {"createPermission", "updatePermission"} => c.key # MANAGE_ALL_PERMISSION_KEY

OnRole == {"updateRole", "deleteRole", "attach", "detach", "addRole", "removeRole"}
OnPermission == {"updatePermission", "deletePermission", "attach", "detach"}
OnUser == {"addRole", "removeRole", "deleteUser"}

findsTargets(c) ==
    /\ c.op \in OnRole => findRole(c.role)
    /\ c.op \in OnPermission => findPermission(c.permission)
    /\ c.op \in OnUser => findUser(c.user)

\* `Cannot assign reserved role', `Cannot remove reserved permission': the
\* services that link two rows look at the name of the one they found.
linksNothingReserved(c) ==
    /\ c.op \in {"addRole", "removeRole"} => roles[c.role] # ADMIN_ROLE_SLUG
    /\ c.op \in {"attach", "detach"} => permissions[c.permission] # MANAGE_ALL_PERMISSION_KEY

\* Mutant: addRole leaves the role to the foreign key.
PassesWithoutRole(c) ==
    IF c.op = "addRole" THEN findUser(c.user)
    ELSE namesFree(c) /\ findsTargets(c) /\ linksNothingReserved(c)

\* The checks of a handler, up to the statement that writes.  Where it reads two
\* rows, both are read here: what makes one reserved never changes.
passes(c) == namesFree(c) /\ findsTargets(c) /\ linksNothingReserved(c)

Arrive(r, u, c) ==
    /\ request[r] = Idle
    /\ admitted(u)
    /\ passes(c)
    /\ request' = [request EXCEPT ![r] = c]
    /\ UNCHANGED <<users, joined, roles, permissions, grants, holders>>

-----------------------------------------------------------------------------
(* New users                                                               *)

\* POST /users, or a registration; one by invitation goes on to its role.
UserCreate(r, u) ==
    /\ request[r] = Idle
    /\ u \in Users \ joined
    /\ users' = users \cup {u} /\ joined' = joined \cup {u}
    /\ request' \in {request, [request EXCEPT ![r] = [op |-> "onboard", user |-> u]]}
    /\ UNCHANGED <<roles, permissions, grants, holders>>

\* addRoleBySlug: the role is found by its name and given as by addRole.
FindClientRole(r, x) ==
    LET c == [op |-> "addRole", user |-> request[r].user, role |-> x]
    IN  /\ request[r].op = "onboard"
        /\ x \in Roles /\ roles[x] = CLIENT_ROLE_SLUG
        /\ passes(c)
        /\ request' = [request EXCEPT ![r] = c]
        /\ UNCHANGED <<users, joined, roles, permissions, grants, holders>>

-----------------------------------------------------------------------------
(* The writes.  A broken constraint (P2002, P2003, P2025) changes nothing. *)

Writing(r, op) == request[r].op = op /\ request' = [request EXCEPT ![r] = Idle]

RoleCreate(r, x) ==
    /\ Writing(r, "createRole")
    /\ roles[x] = Unborn
    /\ \A y \in Roles : roles[y] # request[r].slug
    /\ roles' = [roles EXCEPT ![x] = request[r].slug]
    /\ UNCHANGED <<users, joined, permissions, grants, holders>>

RoleUpdate(r) ==
    LET c == request[r]
    IN  /\ Writing(r, "updateRole")
        /\ c.role \in Roles
        /\ \A y \in Roles \ {c.role} : roles[y] # c.slug
        /\ roles' = [roles EXCEPT ![c.role] = c.slug]
        /\ UNCHANGED <<users, joined, permissions, grants, holders>>

\* Mutant: the role goes, its links stay.
RoleDeleteAlone(r) ==
    /\ Writing(r, "deleteRole")
    /\ request[r].role \in Roles
    /\ roles' = [roles EXCEPT ![request[r].role] = NoRow]
    /\ UNCHANGED <<users, joined, permissions, grants, holders>>

\* role_permissions and user_roles cascade.
RoleDelete(r) ==
    LET x == request[r].role
    IN  /\ Writing(r, "deleteRole")
        /\ x \in Roles
        /\ roles' = [roles EXCEPT ![x] = NoRow]
        /\ grants' = {g \in grants : g[1] # x}
        /\ holders' = {h \in holders : h[2] # x}
        /\ UNCHANGED <<users, joined, permissions>>

PermissionCreate(r, p) ==
    /\ Writing(r, "createPermission")
    /\ permissions[p] = Unborn
    /\ \A q \in Permissions : permissions[q] # request[r].key
    /\ permissions' = [permissions EXCEPT ![p] = request[r].key]
    /\ UNCHANGED <<users, joined, roles, grants, holders>>

PermissionUpdate(r) ==
    LET c == request[r]
    IN  /\ Writing(r, "updatePermission")
        /\ c.permission \in Permissions
        /\ \A q \in Permissions \ {c.permission} : permissions[q] # c.key
        /\ permissions' = [permissions EXCEPT ![c.permission] = c.key]
        /\ UNCHANGED <<users, joined, roles, grants, holders>>

PermissionDelete(r) ==
    LET p == request[r].permission
    IN  /\ Writing(r, "deletePermission")
        /\ p \in Permissions
        /\ permissions' = [permissions EXCEPT ![p] = NoRow]
        /\ grants' = {g \in grants : g[2] # p}
        /\ UNCHANGED <<users, joined, roles, holders>>

Attach(r) ==
    LET c == request[r]
    IN  /\ Writing(r, "attach")
        /\ c.role \in Roles /\ c.permission \in Permissions
        /\ <<c.role, c.permission>> \notin grants
        /\ grants' = grants \cup {<<c.role, c.permission>>}
        /\ UNCHANGED <<users, joined, roles, permissions, holders>>

Detach(r) ==
    LET c == request[r]
    IN  /\ Writing(r, "detach")
        /\ <<c.role, c.permission>> \in grants
        /\ grants' = grants \ {<<c.role, c.permission>>}
        /\ UNCHANGED <<users, joined, roles, permissions, holders>>

AddRole(r) ==
    LET c == request[r]
    IN  /\ Writing(r, "addRole")
        /\ c.user \in users /\ c.role \in Roles
        /\ <<c.user, c.role>> \notin holders
        /\ holders' = holders \cup {<<c.user, c.role>>}
        /\ UNCHANGED <<users, joined, roles, permissions, grants>>

RemoveRole(r) ==
    LET c == request[r]
    IN  /\ Writing(r, "removeRole")
        /\ <<c.user, c.role>> \in holders
        /\ holders' = holders \ {<<c.user, c.role>>}
        /\ UNCHANGED <<users, joined, roles, permissions, grants>>

\* user_roles cascade.
UserDelete(r) ==
    LET u == request[r].user
    IN  /\ Writing(r, "deleteUser")
        /\ u \in users
        /\ users' = users \ {u}
        /\ holders' = {h \in holders : h[1] # u}
        /\ UNCHANGED <<joined, roles, permissions, grants>>

\* The statement breaks a constraint or finds no row; a registration finds no
\* role `client', and gives none.
Fails(r) ==
    /\ request[r] # Idle
    /\ request' = [request EXCEPT ![r] = Idle]
    /\ UNCHANGED <<users, joined, roles, permissions, grants, holders>>

\* The process stops: the handlers in flight are gone, and nothing else.
Stop ==
    /\ request' = [r \in Requests |-> Idle]
    /\ UNCHANGED <<users, joined, roles, permissions, grants, holders>>

Next ==
    \/ \E r \in Requests :
          \/ \E u \in Users, c \in Call : Arrive(r, u, c)
          \/ \E u \in Users : UserCreate(r, u)
          \/ \E x \in RoleIds : RoleCreate(r, x) \/ FindClientRole(r, x)
          \/ \E p \in PermissionIds : PermissionCreate(r, p)
          \/ RoleUpdate(r) \/ RoleDelete(r)
          \/ PermissionUpdate(r) \/ PermissionDelete(r)
          \/ Attach(r) \/ Detach(r)
          \/ AddRole(r) \/ RemoveRole(r)
          \/ UserDelete(r)
          \/ Fails(r)
    \/ Stop

Spec == Init /\ [][Next]_vars

-----------------------------------------------------------------------------
\* The tables and the calls in flight keep their shapes, and no link outlives
\* the rows it joins.
TypeOK ==
    /\ users \in SUBSET joined /\ joined \in SUBSET Users
    /\ roles \in [RoleIds -> Slugs \cup {Unborn, NoRow}]
    /\ permissions \in [PermissionIds -> Keys \cup {Unborn, NoRow}]
    /\ grants \in SUBSET (Roles \X Permissions)
    /\ holders \in SUBSET (users \X Roles)
    /\ request \in [Requests -> Request]

\* No sequence of calls, by anybody, gives `manage.all' to a user the seed did
\* not make an administrator, or lets a role other than the seed's carry it.
NobodyGainsManageAll ==
    \A u \in Users : MANAGE_ALL_PERMISSION_KEY \in Effective(u) => u \in Admins

\* No sequence of calls locks an administrator out: each keeps its account and
\* `manage.all', whatever roles and permissions are renamed, detached or deleted.
AdminsKeepManageAll ==
    \A u \in Admins : u \in users /\ MANAGE_ALL_PERMISSION_KEY \in Effective(u)

\* What makes the two inductive: the reserved rows are where the seed put them,
\* nothing else bears their names, and no call in flight is about them.
Reserved ==
    /\ \A x \in RoleIds : roles[x] = ADMIN_ROLE_SLUG <=> x = AdminRole
    /\ \A p \in PermissionIds : permissions[p] = MANAGE_ALL_PERMISSION_KEY <=> p = ManageAll
    /\ \A x \in RoleIds : <<x, ManageAll>> \in grants <=> x = AdminRole
    /\ \A u \in Users : <<u, AdminRole>> \in holders <=> u \in Admins
    /\ Admins \subseteq users

CallsSpareReserved ==
    \A r \in Requests :
        LET c == request[r]
        IN  /\ namesFree(c)
            /\ c.op \in OnRole => c.role # AdminRole
            /\ c.op \in OnPermission => c.permission # ManageAll
            /\ c.op \in OnUser => c.user \notin Admins

IInv == TypeOK /\ Reserved /\ CallsSpareReserved
=============================================================================
