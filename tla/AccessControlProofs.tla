------------------------- MODULE AccessControlProofs -------------------------
(***************************************************************************)
(* Theorems about AccessControl and AuditTrail, for every set of users,    *)
(* roles, permissions and concurrent requests and every seed that meets    *)
(* SeedAssumption.                                                         *)
(***************************************************************************)
EXTENDS AuditTrail, FiniteSetTheorems, TLAPS

-----------------------------------------------------------------------------
(* IInv is inductive.                                                      *)

\* Where the fields of a call in flight lie, by what the call does.
LEMMA CallFields ==
    ASSUME NEW c \in Request
    PROVE  /\ c.op \in OnRole => c.role \in RoleIds
           /\ c.op \in OnPermission => c.permission \in PermissionIds
           /\ c.op \in OnUser => c.user \in Users
           /\ c.op \in {"createRole", "updateRole"} => c.slug \in Slugs
           /\ c.op \in {"createPermission", "updatePermission"} => c.key \in Keys
  BY DEF Request, Call, Onboarding, Idle, OnRole, OnPermission, OnUser

LEMMA IInvInit == Init => IInv
<1> SUFFICES ASSUME Init PROVE IInv
  OBVIOUS
<1>1. TypeOK
  BY SeedAssumption DEF Init, TypeOK, Roles, Permissions, Request
<1>2. Reserved
  <2>1. \A x \in RoleIds : <<x, ManageAll>> \in grants <=> x = AdminRole
    <3> TAKE x \in RoleIds
    <3>1. ASSUME <<x, ManageAll>> \in SeedGrants PROVE x = AdminRole
      <4>1. <<x, ManageAll>>[2] = ManageAll
        OBVIOUS
      <4>2. <<x, ManageAll>> = <<AdminRole, ManageAll>>
        BY <3>1, <4>1, SeedAssumption
      <4> QED
        BY <4>2
    <3> QED
      BY <3>1, SeedAssumption DEF Init
  <2> QED
    BY <2>1, SeedAssumption DEF Init, Reserved
<1>3. CallsSpareReserved
  BY DEF Init, CallsSpareReserved, namesFree, Idle, OnRole, OnPermission, OnUser
<1> QED
  BY <1>1, <1>2, <1>3 DEF IInv

\* A call gets past its checks only if it spares what is reserved.
LEMMA PassedCallsSpareReserved ==
    ASSUME TypeOK, Reserved, NEW c \in Call, passes(c)
    PROVE  /\ namesFree(c)
           /\ c.op \in OnRole => c.role # AdminRole
           /\ c.op \in OnPermission => c.permission # ManageAll
           /\ c.op \in OnUser => c.user \notin Admins
<1>1. AdminRole \in Roles
  BY SeedAssumption DEF Reserved, Roles
<1>2. c.op \in OnUser => c.user \notin Admins
  BY <1>1, SeedAssumption DEF passes, findsTargets, findUser, Reserved
<1> QED
  BY <1>2, SeedAssumption
  DEF passes, findsTargets, findRole, findPermission, Reserved

\* A write ends its call; the calls left in flight still spare what is reserved.
LEMMA WritingKeepsCalls ==
    ASSUME IInv, NEW r \in Requests, request' = [request EXCEPT ![r] = Idle]
    PROVE  request' \in [Requests -> Request] /\ CallsSpareReserved'
<1>1. request' \in [Requests -> Request]
  BY DEF IInv, TypeOK, Request
<1>2. ASSUME NEW q \in Requests PROVE request'[q] = Idle \/ request'[q] = request[q]
  BY DEF IInv, TypeOK
<1>3. CallsSpareReserved'
  BY <1>2 DEF IInv, CallsSpareReserved, namesFree, Idle, OnRole, OnPermission, OnUser
<1> QED
  BY <1>1, <1>3

LEMMA IInvNext == IInv /\ [Next]_vars => IInv'
<1> SUFFICES ASSUME IInv, [Next]_vars PROVE IInv'
  OBVIOUS
<1> USE DEF Roles, Permissions
<1>1. ASSUME NEW r \in Requests, NEW u \in Users, NEW c \in Call, Arrive(r, u, c)
      PROVE IInv'
  <2>1. request' \in [Requests -> Request]
    BY <1>1 DEF Arrive, IInv, TypeOK, Request
  <2>2. TypeOK'
    BY <1>1, <2>1 DEF Arrive, IInv, TypeOK
  <2>3. Reserved'
    BY <1>1 DEF Arrive, IInv, Reserved
  <2>4. ASSUME NEW q \in Requests PROVE request'[q] = request[q] \/ request'[q] = c
    BY <1>1 DEF Arrive, IInv, TypeOK
  <2>5. CallsSpareReserved'
    BY <1>1, <2>4, PassedCallsSpareReserved
    DEF Arrive, IInv, CallsSpareReserved, namesFree
  <2> QED
    BY <2>2, <2>3, <2>5 DEF IInv
<1>2. ASSUME NEW r \in Requests, NEW x \in RoleIds, RoleCreate(r, x)
      PROVE IInv'
  <2>1. request[r].slug \in Slugs /\ request[r].slug # ADMIN_ROLE_SLUG
    BY <1>2, CallFields DEF RoleCreate, Writing, IInv, TypeOK, CallsSpareReserved, namesFree
  <2>2. x # AdminRole
    BY <1>2, SeedAssumption DEF RoleCreate, IInv, Reserved
  <2>3. TypeOK'
    BY <1>2, <2>1, WritingKeepsCalls DEF RoleCreate, Writing, IInv, TypeOK
  <2>4. Reserved'
    BY <1>2, <2>1, <2>2 DEF RoleCreate, IInv, TypeOK, Reserved
  <2> QED
    BY <1>2, <2>3, <2>4, WritingKeepsCalls DEF RoleCreate, Writing, IInv
<1>3. ASSUME NEW r \in Requests, NEW p \in PermissionIds, PermissionCreate(r, p)
      PROVE IInv'
  <2>1. request[r].key \in Keys /\ request[r].key # MANAGE_ALL_PERMISSION_KEY
    BY <1>3, CallFields DEF PermissionCreate, Writing, IInv, TypeOK, CallsSpareReserved, namesFree
  <2>2. p # ManageAll
    BY <1>3, SeedAssumption DEF PermissionCreate, IInv, Reserved
  <2>3. TypeOK'
    BY <1>3, <2>1, WritingKeepsCalls DEF PermissionCreate, Writing, IInv, TypeOK
  <2>4. Reserved'
    BY <1>3, <2>1, <2>2 DEF PermissionCreate, IInv, TypeOK, Reserved
  <2> QED
    BY <1>3, <2>3, <2>4, WritingKeepsCalls DEF PermissionCreate, Writing, IInv
<1>4. ASSUME NEW r \in Requests, RoleUpdate(r) PROVE IInv'
  <2>1. /\ request[r].role \in RoleIds /\ request[r].role # AdminRole
        /\ request[r].slug \in Slugs /\ request[r].slug # ADMIN_ROLE_SLUG
    BY <1>4, CallFields
    DEF RoleUpdate, Writing, IInv, TypeOK, CallsSpareReserved, namesFree, OnRole
  <2>2. TypeOK'
    BY <1>4, <2>1, WritingKeepsCalls DEF RoleUpdate, Writing, IInv, TypeOK
  <2>3. Reserved'
    BY <1>4, <2>1 DEF RoleUpdate, IInv, TypeOK, Reserved
  <2> QED
    BY <1>4, <2>2, <2>3, WritingKeepsCalls DEF RoleUpdate, Writing, IInv
<1>5. ASSUME NEW r \in Requests, RoleDelete(r) PROVE IInv'
  <2>1. request[r].role \in RoleIds /\ request[r].role # AdminRole
    BY <1>5, CallFields DEF RoleDelete, Writing, IInv, TypeOK, CallsSpareReserved, OnRole
  <2>2. TypeOK'
    BY <1>5, <2>1, WritingKeepsCalls DEF RoleDelete, Writing, IInv, TypeOK
  <2>3. Reserved'
    BY <1>5, <2>1, SeedAssumption DEF RoleDelete, IInv, TypeOK, Reserved
  <2> QED
    BY <1>5, <2>2, <2>3, WritingKeepsCalls DEF RoleDelete, Writing, IInv
<1>6. ASSUME NEW r \in Requests, PermissionUpdate(r) PROVE IInv'
  <2>1. /\ request[r].permission \in PermissionIds /\ request[r].permission # ManageAll
        /\ request[r].key \in Keys /\ request[r].key # MANAGE_ALL_PERMISSION_KEY
    BY <1>6, CallFields
    DEF PermissionUpdate, Writing, IInv, TypeOK, CallsSpareReserved, namesFree, OnPermission
  <2>2. TypeOK'
    BY <1>6, <2>1, WritingKeepsCalls DEF PermissionUpdate, Writing, IInv, TypeOK
  <2>3. Reserved'
    BY <1>6, <2>1 DEF PermissionUpdate, IInv, TypeOK, Reserved
  <2> QED
    BY <1>6, <2>2, <2>3, WritingKeepsCalls DEF PermissionUpdate, Writing, IInv
<1>7. ASSUME NEW r \in Requests, PermissionDelete(r) PROVE IInv'
  <2>1. request[r].permission \in PermissionIds /\ request[r].permission # ManageAll
    BY <1>7, CallFields
    DEF PermissionDelete, Writing, IInv, TypeOK, CallsSpareReserved, OnPermission
  <2>2. TypeOK'
    BY <1>7, <2>1, WritingKeepsCalls DEF PermissionDelete, Writing, IInv, TypeOK
  <2>3. Reserved'
    BY <1>7, <2>1, SeedAssumption DEF PermissionDelete, IInv, TypeOK, Reserved
  <2> QED
    BY <1>7, <2>2, <2>3, WritingKeepsCalls DEF PermissionDelete, Writing, IInv
<1>8. ASSUME NEW r \in Requests, Attach(r) \/ Detach(r) PROVE IInv'
  <2>1. request[r].permission # ManageAll
    BY <1>8 DEF Attach, Detach, Writing, IInv, CallsSpareReserved, OnPermission
  <2>2. TypeOK'
    BY <1>8, WritingKeepsCalls DEF Attach, Detach, Writing, IInv, TypeOK
  <2>3. Reserved'
    BY <1>8, <2>1 DEF Attach, Detach, IInv, Reserved
  <2> QED
    BY <1>8, <2>2, <2>3, WritingKeepsCalls DEF Attach, Detach, Writing, IInv
<1>9. ASSUME NEW r \in Requests, AddRole(r) \/ RemoveRole(r) PROVE IInv'
  <2>1. request[r].role # AdminRole
    BY <1>9 DEF AddRole, RemoveRole, Writing, IInv, CallsSpareReserved, OnRole
  <2>2. TypeOK'
    BY <1>9, WritingKeepsCalls DEF AddRole, RemoveRole, Writing, IInv, TypeOK
  <2>3. Reserved'
    BY <1>9, <2>1 DEF AddRole, RemoveRole, IInv, Reserved
  <2> QED
    BY <1>9, <2>2, <2>3, WritingKeepsCalls DEF AddRole, RemoveRole, Writing, IInv
<1>10. ASSUME NEW r \in Requests, UserDelete(r) PROVE IInv'
  <2>1. request[r].user \notin Admins
    BY <1>10 DEF UserDelete, Writing, IInv, CallsSpareReserved, OnUser
  <2>2. TypeOK'
    BY <1>10, WritingKeepsCalls DEF UserDelete, Writing, IInv, TypeOK
  <2>3. Reserved'
    BY <1>10, <2>1 DEF UserDelete, IInv, Reserved
  <2> QED
    BY <1>10, <2>2, <2>3, WritingKeepsCalls DEF UserDelete, Writing, IInv
<1>11. ASSUME NEW r \in Requests, Fails(r) PROVE IInv'
  BY <1>11, WritingKeepsCalls DEF Fails, IInv, TypeOK, Reserved
<1>12. CASE UNCHANGED vars
  BY <1>12
  DEF vars, IInv, TypeOK, Reserved, CallsSpareReserved, namesFree
<1>14. ASSUME NEW r \in Requests, NEW u \in Users, UserCreate(r, u) PROVE IInv'
  <2> PICK c : c = [op |-> "onboard", user |-> u]
    OBVIOUS
  <2>1. /\ request' = request \/ request' = [request EXCEPT ![r] = c]
        /\ c \in Request /\ c.op = "onboard"
    BY <1>14 DEF UserCreate, Request, Onboarding
  <2>2. TypeOK'
    BY <1>14, <2>1 DEF UserCreate, IInv, TypeOK
  <2>3. Reserved'
    BY <1>14 DEF UserCreate, IInv, Reserved
  <2>4. CallsSpareReserved'
    BY <2>1 DEF IInv, TypeOK, CallsSpareReserved, namesFree, OnRole, OnPermission, OnUser
  <2> QED
    BY <2>2, <2>3, <2>4 DEF IInv
<1>15. ASSUME NEW r \in Requests, NEW x \in RoleIds, FindClientRole(r, x) PROVE IInv'
  <2> PICK u : u = request[r].user
    OBVIOUS
  <2> PICK c : c = [op |-> "addRole", user |-> u, role |-> x]
    OBVIOUS
  <2>1. passes(c) /\ request' = [request EXCEPT ![r] = c] /\ request[r].op = "onboard"
        /\ UNCHANGED <<users, joined, roles, permissions, grants, holders>>
    BY <1>15 DEF FindClientRole
  <2>2. u \in Users
    BY <2>1 DEF IInv, TypeOK, Request, Call, Idle, Onboarding
  <2>3. c \in Call
    BY <2>2 DEF Call
  <2>4. TypeOK' /\ Reserved'
    BY <2>1, <2>3 DEF IInv, TypeOK, Request, Reserved
  <2>5. CallsSpareReserved'
    <3>1. ASSUME NEW q \in Requests PROVE request'[q] = request[q] \/ request'[q] = c
      BY <2>1 DEF IInv, TypeOK
    <3> QED
      BY <2>1, <2>3, <3>1, PassedCallsSpareReserved DEF IInv, CallsSpareReserved, namesFree
  <2> QED
    BY <2>4, <2>5 DEF IInv
<1>13. CASE Stop
  <2>1. /\ request' = [r \in Requests |-> Idle]
        /\ UNCHANGED <<users, joined, roles, permissions, grants, holders>>
    BY <1>13 DEF Stop
  <2>2. TypeOK'
    BY <2>1 DEF IInv, TypeOK, Request
  <2>3. Reserved'
    BY <2>1 DEF IInv, Reserved
  <2>4. CallsSpareReserved'
    BY <2>1 DEF CallsSpareReserved, namesFree, Idle, OnRole, OnPermission, OnUser
  <2> QED
    BY <2>2, <2>3, <2>4 DEF IInv
<1> QED
  BY <1>1, <1>2, <1>3, <1>4, <1>5, <1>6, <1>7, <1>8, <1>9, <1>10, <1>11, <1>12, <1>13,
     <1>14, <1>15 DEF Next

LEMMA Invariant == Spec => []IInv
  BY IInvInit, IInvNext, PTL DEF Spec

-----------------------------------------------------------------------------
(* What the invariant gives.                                               *)

\* The tables keep their shapes, and no link outlives the rows it joins.
THEOREM LinksHaveBothEnds == Spec => []TypeOK
<1>1. IInv => TypeOK
  BY DEF IInv
<1> QED
  BY <1>1, Invariant, PTL

LEMMA ManageAllOnlyToAdmins == IInv => NobodyGainsManageAll
<1> SUFFICES ASSUME IInv, NEW u \in Users, MANAGE_ALL_PERMISSION_KEY \in Effective(u)
             PROVE u \in Admins
  BY DEF NobodyGainsManageAll
<1>1. PICK g \in grants :
          <<u, g[1]>> \in holders /\ permissions[g[2]] = MANAGE_ALL_PERMISSION_KEY
  BY DEF Effective
<1>2. g = <<g[1], g[2]>> /\ g[1] \in RoleIds /\ g[2] \in PermissionIds
  BY DEF IInv, TypeOK, Roles, Permissions
<1>3. g[1] = AdminRole
  BY <1>1, <1>2 DEF IInv, Reserved
<1> QED
  BY <1>1, <1>3 DEF IInv, Reserved

\* No sequence of calls makes an administrator: `manage.all' is reached through
\* the seed's role alone, and only the seed's holders hold that role.
THEOREM NoNewAdministrators == Spec => []NobodyGainsManageAll
  BY ManageAllOnlyToAdmins, Invariant, PTL

LEMMA ManageAllToEveryAdmin == IInv => AdminsKeepManageAll
<1> SUFFICES ASSUME IInv, NEW u \in Admins
             PROVE u \in users /\ MANAGE_ALL_PERMISSION_KEY \in Effective(u)
  BY DEF AdminsKeepManageAll
<1>1. <<AdminRole, ManageAll>> \in grants /\ <<u, AdminRole>> \in holders
  BY SeedAssumption DEF IInv, Reserved
<1>2. permissions[ManageAll] = MANAGE_ALL_PERMISSION_KEY
  BY SeedAssumption DEF IInv, Reserved
<1> QED
  BY <1>1, <1>2 DEF IInv, Reserved, Effective

\* No sequence of calls removes one: the seed's administrators keep their account,
\* their role, and the role its permission.
THEOREM NoAdministratorLost == Spec => []AdminsKeepManageAll
  BY ManageAllToEveryAdmin, Invariant, PTL

-----------------------------------------------------------------------------
(* The audit log.  The writes about a link are counted; an entry goes from  *)
(* the handler's memory to the log, or is lost, and nothing else about it   *)
(* changes.                                                                 *)

\* An entry is put behind the others.
LEMMA Appended ==
    ASSUME NEW S, NEW s \in Seq(S), NEW e \in S
    PROVE  /\ Append(s, e) \in Seq(S)
           /\ DOMAIN s = 1 .. Len(s) /\ Len(s) \in Nat
           /\ DOMAIN Append(s, e) = 1 .. Len(s) + 1
           /\ \A n \in DOMAIN s : Append(s, e)[n] = s[n]
           /\ Append(s, e)[Len(s) + 1] = e
  OBVIOUS

LEMMA Rewrites ==
    ASSUME NEW S, NEW s \in Seq(S), NEW t, t = [n \in DOMAIN s |-> t[n]],
           \A n \in DOMAIN s : t[n] \in S
    PROVE  t \in Seq(S) /\ DOMAIN t = DOMAIN s /\ Len(t) = Len(s)
<1>1. DOMAIN s = 1 .. Len(s) /\ Len(s) \in Nat
  OBVIOUS
<1>2. t \in [1 .. Len(s) -> S]
  BY <1>1
<1> QED
  BY <1>1, <1>2

\* The entries go on saying what was written.
SameEntries ==
    /\ DOMAIN trail' = DOMAIN trail
    /\ \A n \in DOMAIN trail : /\ trail'[n].op = trail[n].op
                               /\ trail'[n].context = trail[n].context

\* One is added behind them.
OneMore(op, link) ==
    /\ Len(trail) \in Nat /\ DOMAIN trail = 1 .. Len(trail)
    /\ DOMAIN trail' = 1 .. Len(trail) + 1
    /\ \A n \in DOMAIN trail : /\ trail'[n].op = trail[n].op
                               /\ trail'[n].context = trail[n].context
    /\ trail'[Len(trail) + 1].op = op /\ trail'[Len(trail) + 1].context = link

LEMMA WritesFinite ==
    ASSUME AuditTypeOK, NEW link, NEW op
    PROVE  IsFiniteSet(Writes(link, op)) /\ Cardinality(Writes(link, op)) \in Nat
<1>1. Writes(link, op) \subseteq 1 .. Len(trail) /\ Len(trail) \in Nat
  BY DEF Writes, AuditTypeOK
<1>2. IsFiniteSet(1 .. Len(trail))
  BY <1>1, FS_Interval
<1> QED
  BY <1>1, <1>2, FS_Subset, FS_CardinalityType

LEMMA SameWrites ==
    ASSUME SameEntries, NEW link, NEW op
    PROVE  Writes(link, op)' = Writes(link, op)
  BY DEF SameEntries, Writes

\* The entry just added is one more about its link, and about no other.
LEMMA OneMoreWrite ==
    ASSUME AuditTypeOK, NEW op, NEW link, OneMore(op, link), NEW about, NEW o
    PROVE  Cardinality(Writes(about, o)') =
               Cardinality(Writes(about, o)) + One(o = op /\ about = link)
<1> PICK k, W : k = Len(trail) + 1 /\ W = Writes(about, o)
  OBVIOUS
<1>1. IsFiniteSet(W) /\ Cardinality(W) \in Nat
  BY WritesFinite
<1>2. k \notin W /\ k \notin 1 .. Len(trail) /\ 1 .. k = (1 .. Len(trail)) \cup {k}
  BY DEF OneMore, Writes
<1>3. CASE o = op /\ about = link
  <2>1. Writes(about, o)' = W \cup {k}
    BY <1>2, <1>3 DEF OneMore, Writes
  <2>2. Cardinality(W \cup {k}) = Cardinality(W) + 1
    BY <1>1, <1>2, FS_AddElement
  <2> QED
    BY <1>3, <2>1, <2>2 DEF One
<1>4. CASE ~ (o = op /\ about = link)
  <2>1. Writes(about, o)' = W
    BY <1>2, <1>4 DEF OneMore, Writes
  <2> QED
    BY <1>1, <1>4, <2>1 DEF One
<1> QED
  BY <1>3, <1>4

-----------------------------------------------------------------------------
(* The inductive invariant of the log: all writes about a link, logged or   *)
(* not, count up to it.  It speaks of the rows there are and of those there *)
(* may still be, about which nothing has been written: a row that is gone   *)
(* takes its links along without an entry.                                  *)

Linking == {"addRole", "removeRole"}
Granting == {"attach", "detach"}

UsersToBe == users \cup (Users \ joined)
RolesToBe == {x \in RoleIds : roles[x] # NoRow}
PermissionsToBe == {p \in PermissionIds : permissions[p] # NoRow}

Counts(link, add, remove, seeded, linked) ==
    linked + Cardinality(Writes(link, remove)) = seeded + Cardinality(Writes(link, add))

LinkCounts(u, x) ==
    Counts({u, x}, "addRole", "removeRole",
           One(<<u, x>> \in SeedHolders), One(<<u, x>> \in holders))

GrantCounts(x, p) ==
    Counts({x, p}, "attach", "detach", One(<<x, p>> \in SeedGrants), One(<<x, p>> \in grants))

WritesGiveLinks ==
    /\ \A u \in UsersToBe, x \in RolesToBe : LinkCounts(u, x)
    /\ \A x \in RolesToBe, p \in PermissionsToBe : GrantCounts(x, p)

AuditInv ==
    /\ IInv
    /\ AuditTypeOK
    /\ WritesGiveLinks

\* Two rows of different tables make a link of one kind only.
LEMMA LinksDiffer ==
    /\ \A u, v \in Users, x, y \in RoleIds : {u, x} = {v, y} => u = v /\ x = y
    /\ \A x, y \in RoleIds, p, q \in PermissionIds : {x, p} = {y, q} => x = y /\ p = q
  BY AuditAssumption

\* Rows go and do not come back.
Ageing ==
    /\ UsersToBe' \subseteq UsersToBe
    /\ RolesToBe' \subseteq RolesToBe
    /\ PermissionsToBe' \subseteq PermissionsToBe

\* The link an entry is about is made or removed, the others are as they were.
Follows(about, add, remove, op, link, was, is) ==
    is + One(op = remove /\ link = about) = was + One(op = add /\ link = about)

LinksFollow(op, link) ==
    /\ \A u \in UsersToBe', x \in RolesToBe' :
          Follows({u, x}, "addRole", "removeRole", op, link,
                  One(<<u, x>> \in holders), One(<<u, x>> \in holders'))
    /\ \A x \in RolesToBe', p \in PermissionsToBe' :
          Follows({x, p}, "attach", "detach", op, link,
                  One(<<x, p>> \in grants), One(<<x, p>> \in grants'))

\* Counting goes on.
LEMMA CountsFollow ==
    ASSUME AuditTypeOK, NEW op, NEW link, OneMore(op, link), NEW about, NEW add, NEW remove,
           NEW seeded \in Nat, NEW was \in Nat, NEW is \in Nat,
           Counts(about, add, remove, seeded, was),
           Follows(about, add, remove, op, link, was, is)
    PROVE  is + Cardinality(Writes(about, remove)') = seeded + Cardinality(Writes(about, add)')
<1> PICK a, b, c, d : /\ a = Cardinality(Writes(about, add)) /\ b = Cardinality(Writes(about, remove))
                      /\ c = Cardinality(Writes(about, add)') /\ d = Cardinality(Writes(about, remove)')
  OBVIOUS
<1> PICK i, j : i = One(op = add /\ link = about) /\ j = One(op = remove /\ link = about)
  OBVIOUS
<1>1. a \in Nat /\ b \in Nat /\ i \in Nat /\ j \in Nat
  BY WritesFinite DEF One
<1>2. c = a + i /\ d = b + j
  BY OneMoreWrite DEF One
<1>3. was + b = seeded + a /\ is + j = was + i
  BY DEF Counts, Follows
<1> QED
  BY <1>1, <1>2, <1>3

LEMMA LogGrows ==
    ASSUME AuditInv, Ageing, NEW op, NEW link, OneMore(op, link), LinksFollow(op, link)
    PROVE  WritesGiveLinks'
<1>t. AuditTypeOK
  BY DEF AuditInv
<1>1. ASSUME NEW u \in UsersToBe', NEW x \in RolesToBe' PROVE LinkCounts(u, x)'
  <2> PICK seeded, was, is : /\ seeded = One(<<u, x>> \in SeedHolders)
                             /\ was = One(<<u, x>> \in holders) /\ is = One(<<u, x>> \in holders')
    OBVIOUS
  <2>1. Counts({u, x}, "addRole", "removeRole", seeded, was)
    BY <1>1 DEF AuditInv, WritesGiveLinks, Ageing, LinkCounts
  <2>2. Follows({u, x}, "addRole", "removeRole", op, link, was, is)
    BY <1>1 DEF LinksFollow
  <2>3. seeded \in Nat /\ was \in Nat /\ is \in Nat
    BY DEF One
  <2>4. is + Cardinality(Writes({u, x}, "removeRole")') =
            seeded + Cardinality(Writes({u, x}, "addRole")')
    BY <1>t, <2>1, <2>2, <2>3, CountsFollow
  <2> QED
    BY <2>4 DEF LinkCounts, Counts, One
<1>2. ASSUME NEW x \in RolesToBe', NEW p \in PermissionsToBe' PROVE GrantCounts(x, p)'
  <2> PICK seeded, was, is : /\ seeded = One(<<x, p>> \in SeedGrants)
                             /\ was = One(<<x, p>> \in grants) /\ is = One(<<x, p>> \in grants')
    OBVIOUS
  <2>1. Counts({x, p}, "attach", "detach", seeded, was)
    BY <1>2 DEF AuditInv, WritesGiveLinks, Ageing, GrantCounts
  <2>2. Follows({x, p}, "attach", "detach", op, link, was, is)
    BY <1>2 DEF LinksFollow
  <2>3. seeded \in Nat /\ was \in Nat /\ is \in Nat
    BY DEF One
  <2>4. is + Cardinality(Writes({x, p}, "detach")') = seeded + Cardinality(Writes({x, p}, "attach")')
    BY <1>t, <2>1, <2>2, <2>3, CountsFollow
  <2> QED
    BY <2>4 DEF GrantCounts, Counts, One
<1> QED
  BY <1>1, <1>2 DEF WritesGiveLinks

\* Links as they are, and entries that go on saying the same.
LEMMA LogStays ==
    ASSUME AuditInv, SameEntries, Ageing, UNCHANGED <<grants, holders>>
    PROVE  WritesGiveLinks'
<1>1. \A link, op : Writes(link, op)' = Writes(link, op)
  BY SameWrites
<1>3. \A u, x : LinkCounts(u, x) => LinkCounts(u, x)'
  BY <1>1 DEF LinkCounts, Counts, One
<1>4. \A x, p : GrantCounts(x, p) => GrantCounts(x, p)'
  BY <1>1 DEF GrantCounts, Counts, One
<1> QED
  BY <1>3, <1>4 DEF AuditInv, WritesGiveLinks, Ageing

-----------------------------------------------------------------------------
(* What an audited write leaves behind.                                     *)

\* The rows the entry about a call names: for a link, its two ends.
LEMMA ContextOf ==
    ASSUME NEW c \in Call
    PROVE  /\ context(c) \in SUBSET (Users \cup RoleIds \cup PermissionIds)
           /\ c.op \in Linking =>
                 c.user \in Users /\ c.role \in RoleIds /\ context(c) = {c.user, c.role}
           /\ c.op \in Granting =>
                 /\ c.role \in RoleIds /\ c.permission \in PermissionIds
                 /\ context(c) = {c.role, c.permission}
<1>1. ASSUME NEW u \in Users, NEW x \in RoleIds, NEW op,
             c = [op |-> op, user |-> u, role |-> x]
      PROVE  context(c) = {u, x}
  <2>1. DOMAIN c = {"op", "user", "role"}
    BY <1>1
  <2>2. DOMAIN c \cap {"user", "role", "permission"} = {"user", "role"}
    BY <2>1
  <2> QED
    BY <1>1, <2>2 DEF context
<1>2. ASSUME NEW x \in RoleIds, NEW p \in PermissionIds, NEW op,
             c = [op |-> op, role |-> x, permission |-> p]
      PROVE  context(c) = {x, p}
  <2>1. DOMAIN c = {"op", "role", "permission"}
    BY <1>2
  <2>2. DOMAIN c \cap {"user", "role", "permission"} = {"role", "permission"}
    BY <2>1
  <2> QED
    BY <1>2, <2>2 DEF context
<1>3. /\ "user" \in DOMAIN c => c.user \in Users
      /\ "role" \in DOMAIN c => c.role \in RoleIds
      /\ "permission" \in DOMAIN c => c.permission \in PermissionIds
  BY DEF Call
<1>4. context(c) \in SUBSET (Users \cup RoleIds \cup PermissionIds)
  <2> SUFFICES ASSUME NEW f \in DOMAIN c \cap {"user", "role", "permission"}
               PROVE  c[f] \in Users \cup RoleIds \cup PermissionIds
    BY DEF context
  <2> QED
    BY <1>3
<1>5. c.op \in Linking =>
         c \in [op : {"addRole", "removeRole"}, user : Users, role : RoleIds]
  BY DEF Call, Linking
<1>6. c.op \in Granting =>
         c \in [op : {"attach", "detach"}, role : RoleIds, permission : PermissionIds]
  BY DEF Call, Granting
<1>7. c.op \in Linking => c = [op |-> c.op, user |-> c.user, role |-> c.role]
                          /\ c.user \in Users /\ c.role \in RoleIds
  BY <1>5
<1>8. c.op \in Granting => c = [op |-> c.op, role |-> c.role, permission |-> c.permission]
                           /\ c.role \in RoleIds /\ c.permission \in PermissionIds
  BY <1>6
<1> QED
  BY <1>1, <1>2, <1>4, <1>7, <1>8

\* The entry is put behind the others, and who called is forgotten.
LEMMA Enqueued ==
    ASSUME AuditInv, NEW r \in Requests, request[r] \in Call,
           NEW new \in SUBSET (Users \cup RoleIds \cup PermissionIds),
           NEW entries \in Seq(Entry), DOMAIN entries = DOMAIN trail,
           \A n \in DOMAIN trail : /\ entries[n].op = trail[n].op
                                   /\ entries[n].context = trail[n].context
                                   /\ entries[n].actor \in users' \cup {Nobody},
           Enqueue(r, entries, new)
    PROVE  /\ OneMore(request[r].op, context(request[r]) \cup new)
           /\ AuditTypeOK'
<1> DEFINE e == [op |-> request[r].op, context |-> context(request[r]) \cup new,
                 by |-> actorUserId[r], actor |-> Nobody,
                 state |-> IF silent(r) THEN "silent" ELSE "pending"]
<1>2. actorUserId[r] \in Users \cup {Nobody}
  BY DEF AuditInv, AuditTypeOK
<1>3. context(request[r]) \cup new \in SUBSET (Users \cup RoleIds \cup PermissionIds)
  BY ContextOf
<1>4. e \in Entry
  BY <1>2, <1>3 DEF Entry
<1>5. trail' = Append(entries, e)
  BY DEF Enqueue
<1>6. trail \in Seq(Entry)
  BY DEF AuditInv, AuditTypeOK
<1>7. Len(trail) = Len(entries) /\ Len(trail) \in Nat /\ DOMAIN trail = 1 .. Len(trail)
  BY <1>6
<1>8. /\ trail' \in Seq(Entry)
      /\ DOMAIN trail' = 1 .. Len(trail) + 1
      /\ \A n \in DOMAIN trail : trail'[n] = entries[n]
      /\ trail'[Len(trail) + 1] = e
  <2> HIDE DEF e
  <2> QED
    BY <1>4, <1>5, <1>7, Appended
<1>9. OneMore(request[r].op, context(request[r]) \cup new)
  BY <1>7, <1>8 DEF OneMore
<1>10. \A n \in DOMAIN trail' : trail'[n].actor \in users' \cup {Nobody}
  <2>1. \A n \in DOMAIN trail' : n \in DOMAIN trail \/ n = Len(trail) + 1
    BY <1>7, <1>8
  <2> QED
    BY <1>8, <2>1
<1>11. actorUserId' = [actorUserId EXCEPT ![r] = Nobody]
  BY DEF Enqueue
<1>12. actorUserId' \in [Requests -> Users \cup {Nobody}]
  BY <1>11 DEF AuditInv, AuditTypeOK
<1> QED
  BY <1>8, <1>9, <1>10, <1>12 DEF AuditTypeOK

\* The writes go on giving the links after each that is audited.
LEMMA AuditedWrite ==
    ASSUME AuditInv, IInv', NEW r \in Requests, request[r] \in Call,
           NEW new \in SUBSET (Users \cup RoleIds \cup PermissionIds),
           NEW entries \in Seq(Entry), DOMAIN entries = DOMAIN trail,
           \A n \in DOMAIN trail : /\ entries[n].op = trail[n].op
                                   /\ entries[n].context = trail[n].context
                                   /\ entries[n].actor \in users' \cup {Nobody},
           Enqueue(r, entries, new), Ageing,
           NEW op, op = request[r].op, NEW link, link = context(request[r]) \cup new,
           LinksFollow(op, link)
    PROVE  AuditInv'
<1>1. OneMore(op, link) /\ AuditTypeOK'
  BY Enqueued
<1>2. WritesGiveLinks'
  BY <1>1, LogGrows
<1> QED
  BY <1>1, <1>2 DEF AuditInv

LEMMA TrailAsItWas ==
    ASSUME AuditInv, users \subseteq users'
    PROVE  /\ trail \in Seq(Entry)
           /\ \A n \in DOMAIN trail : trail[n].actor \in users' \cup {Nobody}
  BY DEF AuditInv, AuditTypeOK

\* A call that writes no link: those of the rows that stay are as they were.
LEMMA RowsFollow ==
    ASSUME NEW op, op \notin Linking, op \notin Granting, NEW link,
           \A u \in UsersToBe', x \in RolesToBe' : <<u, x>> \in holders' <=> <<u, x>> \in holders,
           \A x \in RolesToBe', p \in PermissionsToBe' :
               <<x, p>> \in grants' <=> <<x, p>> \in grants
    PROVE  LinksFollow(op, link)
  BY DEF LinksFollow, Follows, Linking, Granting, One

LEMMA CreateKeepsAudit ==
    ASSUME AuditInv, IInv', NEW r \in Requests, CreateAudited(r)
    PROVE  AuditInv'
<1>1. ASSUME NEW x \in RoleIds, RoleCreate(r, x), Enqueue(r, trail, {x}) PROVE AuditInv'
  <2>1. /\ request[r].op = "createRole" /\ request[r] \in Call
        /\ UNCHANGED <<users, joined, permissions, grants, holders>>
        /\ roles[x] = Unborn /\ roles' = [roles EXCEPT ![x] = request[r].slug]
    BY <1>1 DEF RoleCreate, Writing, AuditInv, IInv, TypeOK, Request, Onboarding, Idle
  <2>2. Ageing
    BY <2>1, SeedAssumption
    DEF Ageing, UsersToBe, RolesToBe, PermissionsToBe, AuditInv, IInv, TypeOK
  <2>3. {x} \in SUBSET (Users \cup RoleIds \cup PermissionIds)
    OBVIOUS
  <2> PICK op, link : op = request[r].op /\ link = context(request[r]) \cup {x}
    OBVIOUS
  <2>4. LinksFollow(op, link)
    BY <2>1, RowsFollow DEF Linking, Granting
  <2> QED
    BY <1>1, <2>1, <2>2, <2>3, <2>4, TrailAsItWas, AuditedWrite
<1>2. ASSUME NEW p \in PermissionIds, PermissionCreate(r, p), Enqueue(r, trail, {p})
      PROVE  AuditInv'
  <2>1. /\ request[r].op = "createPermission" /\ request[r] \in Call
        /\ UNCHANGED <<users, joined, roles, grants, holders>>
        /\ permissions[p] = Unborn /\ permissions' = [permissions EXCEPT ![p] = request[r].key]
    BY <1>2 DEF PermissionCreate, Writing, AuditInv, IInv, TypeOK, Request, Onboarding, Idle
  <2>2. Ageing
    BY <2>1, SeedAssumption
    DEF Ageing, UsersToBe, RolesToBe, PermissionsToBe, AuditInv, IInv, TypeOK
  <2>3. {p} \in SUBSET (Users \cup RoleIds \cup PermissionIds)
    OBVIOUS
  <2> PICK op, link : op = request[r].op /\ link = context(request[r]) \cup {p}
    OBVIOUS
  <2>4. LinksFollow(op, link)
    BY <2>1, RowsFollow DEF Linking, Granting
  <2> QED
    BY <1>2, <2>1, <2>2, <2>3, <2>4, TrailAsItWas, AuditedWrite
<1> QED
  BY <1>1, <1>2 DEF CreateAudited

LEMMA LinkKeepsAudit ==
    ASSUME AuditInv, IInv', NEW r \in Requests, AddRole(r) \/ RemoveRole(r),
           Enqueue(r, trail, {})
    PROVE  AuditInv'
<1>1. request[r].op \in Linking /\ request[r] \in Call
  BY DEF AddRole, RemoveRole, Writing, AuditInv, IInv, TypeOK, Request, Onboarding, Idle, Linking
<1>2. UNCHANGED <<users, joined, roles, permissions, grants>>
  BY DEF AddRole, RemoveRole
<1>3. Ageing
  BY <1>2 DEF Ageing, UsersToBe, RolesToBe, PermissionsToBe
<1> PICK op, u, x : op = request[r].op /\ u = request[r].user /\ x = request[r].role
  OBVIOUS
<1>4. /\ u \in Users /\ x \in RoleIds /\ context(request[r]) \cup {} = {u, x}
      /\ op \in {"addRole", "removeRole"}
  BY <1>1, ContextOf DEF Linking
<1>5. /\ op = "addRole" => <<u, x>> \notin holders /\ holders' = holders \cup {<<u, x>>}
      /\ op = "removeRole" => <<u, x>> \in holders /\ holders' = holders \ {<<u, x>>}
  BY DEF AddRole, RemoveRole, Writing
<1>6. ASSUME NEW v \in UsersToBe', NEW y \in RolesToBe'
      PROVE  Follows({v, y}, "addRole", "removeRole", op, {u, x},
                     One(<<v, y>> \in holders), One(<<v, y>> \in holders'))
  <2>1. v \in Users /\ y \in RoleIds
    BY <1>2 DEF UsersToBe, RolesToBe, AuditInv, IInv, TypeOK
  <2>2. {u, x} = {v, y} <=> u = v /\ x = y
    BY <1>4, <2>1, LinksDiffer
  <2> QED
    BY <1>4, <1>5, <2>2 DEF Follows, One
<1>7. LinksFollow(op, {u, x})
  BY <1>2, <1>4, <1>6 DEF LinksFollow, Follows, One
<1>8. {} \in SUBSET (Users \cup RoleIds \cup PermissionIds)
  OBVIOUS
<1> QED
  BY <1>1, <1>2, <1>3, <1>4, <1>7, <1>8, TrailAsItWas, AuditedWrite

LEMMA GrantKeepsAudit ==
    ASSUME AuditInv, IInv', NEW r \in Requests, Attach(r) \/ Detach(r), Enqueue(r, trail, {})
    PROVE  AuditInv'
<1>1. request[r].op \in Granting /\ request[r] \in Call
  BY DEF Attach, Detach, Writing, AuditInv, IInv, TypeOK, Request, Onboarding, Idle, Granting
<1>2. UNCHANGED <<users, joined, roles, permissions, holders>>
  BY DEF Attach, Detach
<1>3. Ageing
  BY <1>2 DEF Ageing, UsersToBe, RolesToBe, PermissionsToBe
<1> PICK op, x, p : op = request[r].op /\ x = request[r].role /\ p = request[r].permission
  OBVIOUS
<1>4. /\ x \in RoleIds /\ p \in PermissionIds /\ context(request[r]) \cup {} = {x, p}
      /\ op \in {"attach", "detach"}
  BY <1>1, ContextOf DEF Granting
<1>5. /\ op = "attach" => <<x, p>> \notin grants /\ grants' = grants \cup {<<x, p>>}
      /\ op = "detach" => <<x, p>> \in grants /\ grants' = grants \ {<<x, p>>}
  BY DEF Attach, Detach, Writing
<1>6. ASSUME NEW y \in RolesToBe', NEW q \in PermissionsToBe'
      PROVE  Follows({y, q}, "attach", "detach", op, {x, p},
                     One(<<y, q>> \in grants), One(<<y, q>> \in grants'))
  <2>1. y \in RoleIds /\ q \in PermissionIds
    BY DEF RolesToBe, PermissionsToBe
  <2>2. {x, p} = {y, q} <=> x = y /\ p = q
    BY <1>4, <2>1, LinksDiffer
  <2> QED
    BY <1>4, <1>5, <2>2 DEF Follows, One
<1>7. LinksFollow(op, {x, p})
  BY <1>2, <1>4, <1>6 DEF LinksFollow, Follows, One
<1>8. {} \in SUBSET (Users \cup RoleIds \cup PermissionIds)
  OBVIOUS
<1> QED
  BY <1>1, <1>2, <1>3, <1>4, <1>7, <1>8, TrailAsItWas, AuditedWrite

\* A role or a permission is renamed, or goes with its links.
LEMMA RowKeepsAudit ==
    ASSUME AuditInv, IInv', NEW r \in Requests,
           RoleUpdate(r) \/ RoleDelete(r) \/ PermissionUpdate(r) \/ PermissionDelete(r),
           Enqueue(r, trail, {})
    PROVE  AuditInv'
<1>1. request[r] \in Call /\ request[r].op \notin Linking /\ request[r].op \notin Granting
  BY DEF RoleUpdate, RoleDelete, PermissionUpdate, PermissionDelete, Writing,
         AuditInv, IInv, TypeOK, Request, Onboarding, Idle, Linking, Granting
<1>2. UNCHANGED <<users, joined>>
  BY DEF RoleUpdate, RoleDelete, PermissionUpdate, PermissionDelete
<1>3. RolesToBe' \subseteq RolesToBe /\ PermissionsToBe' \subseteq PermissionsToBe
  <2>1. CASE RoleUpdate(r) \/ RoleDelete(r)
    BY <2>1, SeedAssumption DEF RoleUpdate, RoleDelete, RolesToBe, PermissionsToBe, Roles,
                                AuditInv, IInv, TypeOK
  <2>2. CASE PermissionUpdate(r) \/ PermissionDelete(r)
    BY <2>2, SeedAssumption DEF PermissionUpdate, PermissionDelete, RolesToBe, PermissionsToBe,
                                Permissions, AuditInv, IInv, TypeOK
  <2> QED
    BY <2>1, <2>2
<1>4. /\ \A u \in UsersToBe', x \in RolesToBe' : <<u, x>> \in holders' <=> <<u, x>> \in holders
      /\ \A x \in RolesToBe', p \in PermissionsToBe' :
            <<x, p>> \in grants' <=> <<x, p>> \in grants
  <2>1. CASE RoleUpdate(r) \/ PermissionUpdate(r)
    BY <2>1 DEF RoleUpdate, PermissionUpdate
  <2>2. CASE RoleDelete(r)
    <3>1. request[r].role \notin RolesToBe'
      BY <2>2 DEF RoleDelete, RolesToBe, AuditInv, IInv, TypeOK
    <3> QED
      BY <2>2, <3>1 DEF RoleDelete
  <2>3. CASE PermissionDelete(r)
    <3>1. request[r].permission \notin PermissionsToBe'
      BY <2>3 DEF PermissionDelete, PermissionsToBe, AuditInv, IInv, TypeOK
    <3> QED
      BY <2>3, <3>1 DEF PermissionDelete
  <2> QED
    BY <2>1, <2>2, <2>3
<1> PICK op, link : op = request[r].op /\ link = context(request[r]) \cup {}
  OBVIOUS
<1>5. LinksFollow(op, link)
  BY <1>1, <1>4, RowsFollow
<1>6. Ageing
  BY <1>2, <1>3 DEF Ageing, UsersToBe
<1>7. {} \in SUBSET (Users \cup RoleIds \cup PermissionIds)
  OBVIOUS
<1> QED
  BY <1>1, <1>2, <1>5, <1>6, <1>7, TrailAsItWas, AuditedWrite

\* Rows of the log that named a deleted user name nobody; the user's links go, and
\* no entry is about them.
LEMMA UserDeleteKeepsAudit ==
    ASSUME AuditInv, IInv', NEW r \in Requests, UserDeleteAudited(r)
    PROVE  AuditInv'
<1> PICK u, entries : u = request[r].user /\ entries = WithoutActor(u)
  OBVIOUS
<1>1. /\ request[r] \in Call
      /\ request[r].op \notin Linking /\ request[r].op \notin Granting
      /\ u \in users /\ users' = users \ {u}
      /\ holders' = {h \in holders : h[1] # u}
      /\ UNCHANGED <<joined, roles, permissions, grants>>
      /\ Enqueue(r, entries, {})
  BY DEF UserDeleteAudited, UserDelete, Writing, AuditInv, IInv, TypeOK, Request, Onboarding,
         Idle, Linking, Granting
<1>2. users \subseteq joined /\ trail \in Seq(Entry)
  BY DEF AuditInv, IInv, TypeOK, AuditTypeOK
<1>3. Ageing /\ u \notin UsersToBe'
  BY <1>1, <1>2 DEF Ageing, UsersToBe, RolesToBe, PermissionsToBe
<1>4. /\ entries = [n \in DOMAIN trail |-> entries[n]]
      /\ \A n \in DOMAIN trail :
            entries[n] = IF trail[n].actor = u THEN [trail[n] EXCEPT !.actor = Nobody]
                         ELSE trail[n]
  BY DEF WithoutActor
<1>5. ASSUME NEW n \in DOMAIN trail
      PROVE  /\ entries[n] \in Entry
             /\ entries[n].op = trail[n].op /\ entries[n].context = trail[n].context
             /\ entries[n].actor \in users' \cup {Nobody}
  <2>1. trail[n].actor \in users \cup {Nobody} /\ trail[n] \in Entry
    BY <1>2 DEF AuditInv, AuditTypeOK
  <2>2. [trail[n] EXCEPT !.actor = Nobody] \in Entry
        /\ [trail[n] EXCEPT !.actor = Nobody].op = trail[n].op
        /\ [trail[n] EXCEPT !.actor = Nobody].context = trail[n].context
        /\ [trail[n] EXCEPT !.actor = Nobody].actor = Nobody
    BY <2>1 DEF Entry
  <2> QED
    BY <1>1, <1>4, <2>1, <2>2
<1>6. entries \in Seq(Entry) /\ DOMAIN entries = DOMAIN trail
  BY <1>2, <1>4, <1>5, Rewrites
<1> PICK op, link : op = request[r].op /\ link = context(request[r]) \cup {}
  OBVIOUS
<1>7. LinksFollow(op, link)
  <2>1. \A v \in UsersToBe', x \in RolesToBe' : <<v, x>> \in holders' <=> <<v, x>> \in holders
    BY <1>1, <1>3
  <2> QED
    BY <1>1, <2>1, RowsFollow
<1>8. {} \in SUBSET (Users \cup RoleIds \cup PermissionIds)
  OBVIOUS
<1> QED
  BY <1>1, <1>3, <1>5, <1>6, <1>7, <1>8, AuditedWrite

LEMMA EntriesAre ==
    ASSUME AuditInv
    PROVE  /\ trail \in Seq(Entry)
           /\ \A n \in DOMAIN trail : trail[n] \in Entry
           /\ \A n \in DOMAIN trail : trail[n].actor \in users \cup {Nobody}
  BY DEF AuditInv, AuditTypeOK

\* A step that writes no link, the writer's own and a restart among them, changes
\* at most where entries are.
LEMMA MovedEntries ==
    ASSUME AuditInv, IInv', Ageing, users \subseteq users', UNCHANGED <<grants, holders>>,
           trail' = [n \in DOMAIN trail |-> trail'[n]],
           \A n \in DOMAIN trail :
               \/ trail'[n] = trail[n]
               \/ \E s \in {"logged", "failed", "cut"}, a \in users \cup {Nobody} :
                     trail'[n] = [trail[n] EXCEPT !.state = s, !.actor = a],
           actorUserId' \in [Requests -> Users \cup {Nobody}]
    PROVE  AuditInv'
<1>1. /\ trail \in Seq(Entry)
      /\ \A n \in DOMAIN trail : trail[n] \in Entry /\ trail[n].actor \in users \cup {Nobody}
  BY EntriesAre
<1>2. users \subseteq Users
  BY DEF AuditInv, IInv, TypeOK
<1>3. ASSUME NEW n \in DOMAIN trail
      PROVE  /\ trail'[n] \in Entry
             /\ trail'[n].op = trail[n].op /\ trail'[n].context = trail[n].context
             /\ trail'[n].actor \in users \cup {Nobody}
  <2>1. CASE trail'[n] = trail[n]
    BY <1>1, <2>1
  <2>2. ASSUME NEW s \in {"logged", "failed", "cut"}, NEW a \in users \cup {Nobody},
               trail'[n] = [trail[n] EXCEPT !.state = s, !.actor = a]
        PROVE  /\ trail'[n] \in Entry
               /\ trail'[n].op = trail[n].op /\ trail'[n].context = trail[n].context
               /\ trail'[n].actor \in users \cup {Nobody}
    <3>1. a \in Users \cup {Nobody} /\ trail[n] \in Entry
      BY <1>1, <1>2
    <3> QED
      BY <2>2, <3>1 DEF Entry
  <2> QED
    BY <2>1, <2>2
<1>4. trail' \in Seq(Entry) /\ DOMAIN trail' = DOMAIN trail
  BY <1>1, <1>3, Rewrites
<1>5. SameEntries
  BY <1>3, <1>4 DEF SameEntries
<1>6. AuditTypeOK'
  BY <1>3, <1>4 DEF AuditTypeOK
<1>7. WritesGiveLinks'
  BY <1>5, LogStays
<1> QED
  BY <1>6, <1>7 DEF AuditInv

\* One that leaves the tables and the trail alone.
LEMMA NothingMoves ==
    ASSUME AuditInv, IInv', trail' = trail,
           UNCHANGED <<users, joined, roles, permissions, grants, holders>>,
           actorUserId' \in [Requests -> Users \cup {Nobody}]
    PROVE  AuditInv'
<1>1. Ageing
  BY DEF Ageing, UsersToBe, RolesToBe, PermissionsToBe
<1>2. trail' = [n \in DOMAIN trail |-> trail'[n]]
  BY DEF AuditInv, AuditTypeOK
<1> QED
  BY <1>1, <1>2, MovedEntries

-----------------------------------------------------------------------------
(* AuditInv is inductive.                                                  *)

LEMMA AuditInvInit == AuditInit => AuditInv
<1> SUFFICES ASSUME AuditInit PROVE AuditInv
  OBVIOUS
<1>1. IInv
  BY IInvInit DEF AuditInit
<1>2. AuditTypeOK
  BY DEF AuditInit, Init, AuditTypeOK
<1>3. \A link, op : Writes(link, op) = {}
  BY DEF AuditInit, Writes
<1>4. Cardinality({}) = 0
  BY FS_EmptySet
<1>5. WritesGiveLinks
  BY <1>3, <1>4 DEF WritesGiveLinks, LinkCounts, GrantCounts, Counts, One, AuditInit, Init
<1> QED
  BY <1>1, <1>2, <1>5 DEF AuditInv

LEMMA AuditInvNext == AuditInv /\ [AuditNext]_auditVars => AuditInv'
<1> SUFFICES ASSUME AuditInv, [AuditNext]_auditVars PROVE AuditInv'
  OBVIOUS
<1>1. ASSUME [Next]_vars PROVE IInv'
  BY <1>1, IInvNext DEF AuditInv
<1>2. ASSUME NEW r \in Requests, NEW u \in Users, NEW c \in Call, Called(r, u, c)
      PROVE AuditInv'
  <2>1. IInv'
    BY <1>1, <1>2 DEF Next, Called
  <2>2. /\ trail' = trail /\ actorUserId' = [actorUserId EXCEPT ![r] = u]
        /\ UNCHANGED <<users, joined, roles, permissions, grants, holders>>
    BY <1>2 DEF Called, Arrive
  <2>3. actorUserId' \in [Requests -> Users \cup {Nobody}]
    BY <2>2 DEF AuditInv, AuditTypeOK
  <2> QED
    BY <2>1, <2>2, <2>3, NothingMoves
<1>3. ASSUME NEW r \in Requests, CreateAudited(r) PROVE AuditInv'
  BY <1>1, <1>3, CreateKeepsAudit DEF Next, CreateAudited
<1>4. ASSUME NEW r \in Requests, ChangeAudited(r) PROVE AuditInv'
  <2>1. IInv'
    BY <1>1, <1>4 DEF Next, ChangeAudited
  <2> QED
    BY <1>4, <2>1, LinkKeepsAudit, GrantKeepsAudit, RowKeepsAudit DEF ChangeAudited
<1>5. ASSUME NEW r \in Requests, UserDeleteAudited(r) PROVE AuditInv'
  BY <1>1, <1>5, UserDeleteKeepsAudit DEF Next, UserDeleteAudited
<1>6. ASSUME NEW r \in Requests, Unaudited(r) PROVE AuditInv'
  <2>1. IInv'
    BY <1>1, <1>6 DEF Next, Unaudited
  <2>2. /\ trail' = trail /\ actorUserId' = [actorUserId EXCEPT ![r] = Nobody]
        /\ UNCHANGED <<users, joined, roles, permissions, grants, holders>>
    BY <1>6 DEF Unaudited, Fails
  <2>3. actorUserId' \in [Requests -> Users \cup {Nobody}]
    BY <2>2 DEF AuditInv, AuditTypeOK
  <2> QED
    BY <2>1, <2>2, <2>3, NothingMoves
<1>7. ASSUME NEW m, Persist(m) PROVE AuditInv'
  <2>1. IInv'
    BY <1>1, <1>7 DEF Persist
  <2>2. /\ UNCHANGED <<users, joined, roles, permissions, grants, holders, actorUserId>>
        /\ m \in DOMAIN trail
        /\ \/ trail[m].by \in users /\ trail' = Inserted(m)
           \/ trail' = [trail EXCEPT ![m].state = "failed"]
    BY <1>7 DEF Persist, vars, Pending
  <2>3. trail' = [n \in DOMAIN trail |-> trail'[n]]
    BY <2>2 DEF Inserted
  <2>4. ASSUME NEW n \in DOMAIN trail
        PROVE  \/ trail'[n] = trail[n]
               \/ \E s \in {"logged", "failed", "cut"}, a \in users \cup {Nobody} :
                     trail'[n] = [trail[n] EXCEPT !.state = s, !.actor = a]
    <3>1. CASE n # m
      BY <2>2, <3>1 DEF Inserted
    <3>2. CASE n = m /\ trail[m].by \in users /\ trail' = Inserted(m)
      <4>1. trail'[n] = [trail[n] EXCEPT !.state = "logged", !.actor = trail[n].by]
        BY <3>2 DEF Inserted
      <4> QED
        BY <3>2, <4>1
    <3>3. CASE n = m /\ trail' = [trail EXCEPT ![m].state = "failed"]
      <4>1. trail'[n] = [trail[n] EXCEPT !.state = "failed"]
        BY <3>3
      <4>2. trail[n] \in Entry /\ trail[n].actor \in users \cup {Nobody}
        BY EntriesAre
      <4>3. trail'[n] = [trail[n] EXCEPT !.state = "failed", !.actor = trail[n].actor]
        BY <4>1, <4>2 DEF Entry
      <4> QED
        BY <4>2, <4>3
    <3> QED
      BY <2>2, <3>1, <3>2, <3>3
  <2>5. actorUserId' \in [Requests -> Users \cup {Nobody}]
    BY <2>2 DEF AuditInv, AuditTypeOK
  <2>6. Ageing
    BY <2>2 DEF Ageing, UsersToBe, RolesToBe, PermissionsToBe
  <2> QED
    BY <2>1, <2>2, <2>3, <2>4, <2>5, <2>6, MovedEntries
<1>8. CASE Restart
  <2>1. /\ actorUserId' = [r \in Requests |-> Nobody]
        /\ UNCHANGED <<users, joined, roles, permissions, grants, holders>>
        /\ trail' = [n \in DOMAIN trail |->
                        IF n \in Pending THEN [trail[n] EXCEPT !.state = "cut"] ELSE trail[n]]
    BY <1>8 DEF Restart, Stop
  <2>2. IInv'
    BY <1>1, <1>8 DEF Restart, Next
  <2>3. ASSUME NEW n \in DOMAIN trail
        PROVE  \/ trail'[n] = trail[n]
               \/ \E s \in {"logged", "failed", "cut"}, a \in users \cup {Nobody} :
                     trail'[n] = [trail[n] EXCEPT !.state = s, !.actor = a]
    <3>1. CASE n \notin Pending
      BY <2>1, <3>1
    <3>2. CASE n \in Pending
      <4>1. trail'[n] = [trail[n] EXCEPT !.state = "cut"]
        BY <2>1, <3>2
      <4>2. trail[n] \in Entry /\ trail[n].actor \in users \cup {Nobody}
        BY EntriesAre
      <4>3. trail'[n] = [trail[n] EXCEPT !.state = "cut", !.actor = trail[n].actor]
        BY <4>1, <4>2 DEF Entry
      <4> QED
        BY <4>2, <4>3
    <3> QED
      BY <3>1, <3>2
  <2>4. trail' = [n \in DOMAIN trail |-> trail'[n]]
    BY <2>1
  <2>5. actorUserId' \in [Requests -> Users \cup {Nobody}]
    BY <2>1
  <2>6. Ageing
    BY <2>1 DEF Ageing, UsersToBe, RolesToBe, PermissionsToBe
  <2> QED
    BY <2>1, <2>2, <2>3, <2>4, <2>5, <2>6, MovedEntries
<1>9. CASE UNCHANGED auditVars
  <2>1. IInv' /\ UNCHANGED <<users, joined, roles, permissions, grants, holders, actorUserId>>
        /\ trail' = trail
    BY <1>1, <1>9 DEF auditVars, vars
  <2>2. actorUserId' \in [Requests -> Users \cup {Nobody}]
    BY <2>1 DEF AuditInv, AuditTypeOK
  <2> QED
    BY <2>1, <2>2, NothingMoves
<1>10. ASSUME NEW r \in Requests, NEW u \in Users, UserCreate(r, u),
              UNCHANGED <<actorUserId, trail>>
       PROVE AuditInv'
  <2>1. IInv'
    BY <1>1, <1>10 DEF Next
  <2>2. /\ users' = users \cup {u} /\ joined' = joined \cup {u} /\ u \in Users \ joined
        /\ UNCHANGED <<roles, permissions, grants, holders>>
    BY <1>10 DEF UserCreate
  <2>3. Ageing
    BY <2>2 DEF Ageing, UsersToBe, RolesToBe, PermissionsToBe
  <2>4. trail' = [n \in DOMAIN trail |-> trail'[n]]
        /\ actorUserId' \in [Requests -> Users \cup {Nobody}]
    BY <1>10 DEF AuditInv, AuditTypeOK
  <2> QED
    BY <1>10, <2>1, <2>2, <2>3, <2>4, MovedEntries
<1>11. ASSUME NEW r \in Requests, NEW x \in RoleIds, FindClientRole(r, x),
              UNCHANGED <<actorUserId, trail>>
       PROVE AuditInv'
  <2>1. IInv'
    BY <1>1, <1>11 DEF Next
  <2>2. UNCHANGED <<users, joined, roles, permissions, grants, holders>>
    BY <1>11 DEF FindClientRole
  <2>3. actorUserId' \in [Requests -> Users \cup {Nobody}]
    BY <1>11 DEF AuditInv, AuditTypeOK
  <2> QED
    BY <1>11, <2>1, <2>2, <2>3, NothingMoves
<1> QED
  BY <1>2, <1>3, <1>4, <1>5, <1>6, <1>7, <1>8, <1>9, <1>10, <1>11 DEF AuditNext, Joining

LEMMA AuditInvariant == AuditSpec => []AuditInv
  BY AuditInvInit, AuditInvNext, PTL DEF AuditSpec

\* The trail keeps its shape, and the log names no account that is gone.
THEOREM LogNamesAccounts == AuditSpec => []AuditTypeOK
<1>1. AuditInv => AuditTypeOK
  BY DEF AuditInv
<1> QED
  BY <1>1, AuditInvariant, PTL

\* Where no entry about a link is missing from the log, its rows are the writes.
LEMMA LogTellsLinks == AuditInv => LinksAccountedFor
<1> SUFFICES ASSUME AuditInv PROVE LinksAccountedFor
  OBVIOUS
<1>1. users \subseteq UsersToBe /\ Roles \subseteq RolesToBe /\ Permissions \subseteq PermissionsToBe
  BY SeedAssumption DEF UsersToBe, RolesToBe, PermissionsToBe, Roles, Permissions
<1>2. ASSUME NEW u \in users, NEW x \in Roles, Complete({u, x}, "addRole", "removeRole")
      PROVE  LogCounts({u, x}, "addRole", "removeRole",
                       <<u, x>> \in SeedHolders, <<u, x>> \in holders)
  <2>1. LinkCounts(u, x)
    BY <1>1 DEF AuditInv, WritesGiveLinks
  <2> QED
    BY <1>2, <2>1 DEF LinkCounts, Counts, Complete, LogCounts
<1>3. ASSUME NEW x \in Roles, NEW p \in Permissions, Complete({x, p}, "attach", "detach")
      PROVE  LogCounts({x, p}, "attach", "detach", <<x, p>> \in SeedGrants, <<x, p>> \in grants)
  <2>1. GrantCounts(x, p)
    BY <1>1 DEF AuditInv, WritesGiveLinks
  <2> QED
    BY <1>3, <2>1 DEF GrantCounts, Counts, Complete, LogCounts
<1> QED
  BY <1>2, <1>3 DEF LinksAccountedFor

\* The rows of the log tell who holds which role and which role carries which
\* permission, in whatever order they were inserted: where they are wrong about a
\* link, an entry about that very link is missing, because it is on its way, failed
\* or was cut, or because a registration gave the role and made none.
THEOREM LogAccountsForLinks == AuditSpec => []LinksAccountedFor
  BY LogTellsLinks, AuditInvariant, PTL

-----------------------------------------------------------------------------
(* The log beside the roles and permissions                                *)

\* A step of the log is one of the roles and permissions, or leaves them alone.
LEMMA AuditStepRefines == [AuditNext]_auditVars => [Next]_vars
<1> SUFFICES ASSUME AuditNext \/ UNCHANGED auditVars PROVE Next \/ UNCHANGED vars
  OBVIOUS
<1>1. ASSUME NEW r \in Requests, NEW u \in Users, NEW c \in Call, Called(r, u, c)
      PROVE  Next
  BY <1>1 DEF Called, Next
<1>2. ASSUME NEW r \in Requests,
             CreateAudited(r) \/ ChangeAudited(r) \/ UserDeleteAudited(r) \/ Unaudited(r)
      PROVE  Next
  BY <1>2 DEF CreateAudited, ChangeAudited, UserDeleteAudited, Unaudited, Next
<1>6. ASSUME NEW r \in Requests, Joining(r)
      PROVE  Next
  BY <1>6 DEF Joining, Next
<1>3. ASSUME NEW n, Persist(n)
      PROVE  UNCHANGED vars
  BY <1>3 DEF Persist
<1>4. CASE Restart
  BY <1>4 DEF Restart, Next
<1>5. CASE UNCHANGED auditVars
  BY <1>5 DEF auditVars
<1> QED
  BY <1>1, <1>2, <1>3, <1>4, <1>5, <1>6 DEF AuditNext

\* The log changes nothing in the roles and permissions: whatever is written to
\* it, late, out of order or never, AccessControl is what the tables do.
THEOREM ImplementsAccessControl == AuditSpec => Spec
<1>1. AuditInit => Init
  BY DEF AuditInit
<1> QED
  BY <1>1, AuditStepRefines, PTL DEF AuditSpec, Spec

\* With the log and with restarts of the process, as without: no link outlives its
\* rows, the administrators are those of the seed, and each stays one.
THEOREM AdministratorsOutlastRestarts ==
    AuditSpec => [](TypeOK /\ NobodyGainsManageAll /\ AdminsKeepManageAll)
  BY ImplementsAccessControl, LinksHaveBothEnds, NoNewAdministrators, NoAdministratorLost, PTL
=============================================================================
