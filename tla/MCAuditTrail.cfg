SPECIFICATION FairAuditSpec
CONSTANTS
    client = client
    manageRoles = manageRoles
    Users = {root, ann}
    SeedUsers = {root}
    Admins = {root}
    RoleIds = {admin, client, other}
    AdminRole = admin
    PermissionIds = {manageAll, manageRoles, readAll}
    ManageAll = manageAll
    Slugs = {"admin", "client"}
    Keys = {"manage.all", "roles.update"}
    RbacKeys = {"roles.update"}
    SeedRoles <- MCSeedRoles
    SeedPermissions <- MCSeedPermissions
    SeedGrants <- MCSeedGrants
    SeedHolders <- MCSeedHolders
    Requests = {r1, r2}
    Unborn = Unborn
    NoRow = NoRow
    MaxEntries = 2
    Nobody = Nobody
INVARIANTS TypeOK AuditTypeOK NobodyGainsManageAll AdminsKeepManageAll LinksAccountedFor
PROPERTY EntriesSettle
CHECK_DEADLOCK FALSE
