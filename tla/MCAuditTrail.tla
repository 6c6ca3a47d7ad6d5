---------------------------- MODULE MCAuditTrail ----------------------------
EXTENDS AuditTrail, TLC

CONSTANTS client, manageRoles

\* The seed: `admin' with manage.all, and `client', which may manage roles here.
MCSeedRoles ==
    [x \in RoleIds |-> IF x = AdminRole THEN "admin" ELSE IF x = client THEN "client" ELSE Unborn]
MCSeedPermissions ==
    [p \in PermissionIds |->
        IF p = ManageAll THEN "manage.all" ELSE IF p = manageRoles THEN "roles.update" ELSE Unborn]
MCSeedGrants == {<<AdminRole, ManageAll>>, <<client, manageRoles>>}
MCSeedHolders == Admins \X {AdminRole}
=============================================================================
