------------------------------ MODULE AuditTrail ------------------------------
(***************************************************************************)
(* The admin audit log over AccessControl.  A handler whose write was      *)
(* committed hands an entry to the writer and answers its caller; the      *)
(* writer inserts the entry in the background and swallows what goes       *)
(* wrong.  The log is therefore neither in the order of the writes nor     *)
(* complete: an entry is lost when the process stops before the insert,    *)
(* or when the insert fails, and the role a registration gives its user    *)
(* has none.                                                               *)
(***************************************************************************)
EXTENDS AccessControl, Sequences

CONSTANTS
    MaxEntries,     \* bound on the entries handed over
    Nobody          \* actor_user_id is null

ASSUME AuditAssumption ==
    /\ MaxEntries \in Nat /\ Nobody \notin Users
    /\ Users \cap RoleIds = {} /\ RoleIds \cap PermissionIds = {}

VARIABLES
    actorUserId,    \* per slot: who called, as the handler was told
    trail           \* all committed writes, in their order, with their entries

auditVars == <<vars, actorUserId, trail>>

\* Where an entry may be in the trail: each user is registered once.
Places == 1 .. MaxEntries + Cardinality(Users)

(* An entry is pending until its insert has been tried: whether it is      *)
(* still in the handler or already with the writer, it is in the memory of *)
(* the process.  Then it is a row of admin_audit_logs, which names its     *)
(* actor, or it has failed; or it was cut with the process.  A write is    *)
(* silent when its handler gives the writer no entry.                      *)
Entry ==
    [op : {c.op : c \in Call}, context : SUBSET (Users \cup RoleIds \cup PermissionIds),
     by : Users \cup {Nobody}, state : {"pending", "logged", "failed", "cut", "silent"},
     actor : Users \cup {Nobody}]

AuditInit ==
    /\ Init
    /\ actorUserId = [r \in Requests |-> Nobody]
    /\ trail = <<>>

-----------------------------------------------------------------------------
\* Mutant: the entry about a link names the role alone.
RoleOnly(c) == {c[f] : f \in DOMAIN c \cap {"role"}}

\* The rows an entry names; how the new ones are called is left out.
context(c) == {c[f] : f \in DOMAIN c \cap {"user", "role", "permission"}}

\* Mutant: the rows go on naming a user who is gone.
KeepActor(u) == trail

\* ON DELETE SET NULL, of the rows that name u.
WithoutActor(u) ==
    [n \in DOMAIN trail |->
        IF trail[n].actor = u THEN [trail[n] EXCEPT !.actor = Nobody] ELSE trail[n]]

\* `if (actorUserId)': only the two handlers of a user's roles ask.
silent(r) == request[r].op \in {"addRole", "removeRole"} /\ actorUserId[r] = Nobody

HandedOver == {n \in DOMAIN trail : trail[n].state # "silent"}

\* The write of r is committed: its entry is on its way, if it has one.
Enqueue(r, entries, new) ==
    /\ silent(r) \/ Cardinality(HandedOver) < MaxEntries
    /\ trail' = Append(entries, [op |-> request[r].op, context |-> context(request[r]) \cup new,
                                 by |-> actorUserId[r], actor |-> Nobody,
                                 state |-> IF silent(r) THEN "silent" ELSE "pending"])
    /\ actorUserId' = [actorUserId EXCEPT ![r] = Nobody]

Called(r, u, c) ==
    /\ Arrive(r, u, c)
    /\ actorUserId' = [actorUserId EXCEPT ![r] = u]
    /\ UNCHANGED trail

\* With no caller.  The entry about the new user names no role and is left out.
Joining(r) ==
    /\ (\E u \in Users : UserCreate(r, u)) \/ (\E x \in RoleIds : FindClientRole(r, x))
    /\ UNCHANGED <<actorUserId, trail>>

CreateAudited(r) ==
    \/ \E x \in RoleIds : RoleCreate(r, x) /\ Enqueue(r, trail, {x})
    \/ \E p \in PermissionIds : PermissionCreate(r, p) /\ Enqueue(r, trail, {p})

ChangeAudited(r) ==
    /\ \/ RoleUpdate(r) \/ RoleDelete(r)
       \/ PermissionUpdate(r) \/ PermissionDelete(r)
       \/ Attach(r) \/ Detach(r)
       \/ AddRole(r) \/ RemoveRole(r)
    /\ Enqueue(r, trail, {})

UserDeleteAudited(r) == UserDelete(r) /\ Enqueue(r, WithoutActor(request[r].user), {})

Unaudited(r) ==
    /\ Fails(r)
    /\ actorUserId' = [actorUserId EXCEPT ![r] = Nobody]
    /\ UNCHANGED trail

-----------------------------------------------------------------------------
(* The writer                                                              *)

Pending == {n \in DOMAIN trail : trail[n].state = "pending"}

Inserted(n) == [trail EXCEPT ![n].state = "logged", ![n].actor = trail[n].by]

\* Mutant: one insert after the other, and a refused one is tried again.
PersistInTurn(n) ==
    /\ n \in Pending /\ \A m \in Pending : n <= m
    /\ trail[n].by \in users
    /\ trail' = Inserted(n)
    /\ UNCHANGED <<vars, actorUserId>>

\* The insert; or any error of it, which is swallowed: the actor's account is
\* gone (P2003), or the database could not be reached.
Persist(n) ==
    /\ n \in Pending
    /\ \/ trail[n].by \in users /\ trail' = Inserted(n)
       \/ trail' = [trail EXCEPT ![n].state = "failed"]
    /\ UNCHANGED <<vars, actorUserId>>

\* What was in memory is gone; what was committed stays.
Restart ==
    /\ Stop
    /\ trail' = [n \in DOMAIN trail |->
           IF n \in Pending THEN [trail[n] EXCEPT !.state = "cut"] ELSE trail[n]]
    /\ actorUserId' = [r \in Requests |-> Nobody]

AuditNext ==
    \/ \E r \in Requests :
          \/ \E u \in Users, c \in Call : Called(r, u, c)
          \/ Joining(r) \/ CreateAudited(r) \/ ChangeAudited(r) \/ UserDeleteAudited(r) \/ Unaudited(r)
    \/ \E n \in Places : Persist(n)
    \/ Restart

AuditSpec == AuditInit /\ [][AuditNext]_auditVars

\* A query settles, with a row or with an error, and its promise is continued;
\* callers owe nothing.
FairAuditSpec == AuditSpec /\ \A n \in Places : WF_auditVars(Persist(n))

-----------------------------------------------------------------------------
\* The trail keeps its shape, and a row of the log names an actor who still has
\* an account, or nobody.
AuditTypeOK ==
    /\ actorUserId \in [Requests -> Users \cup {Nobody}]
    /\ trail \in Seq(Entry)
    /\ \A n \in DOMAIN trail : trail[n].actor \in users \cup {Nobody}

\* The writes about a link, and the rows of the log among them.
Writes(link, op) == {n \in DOMAIN trail : trail[n].op = op /\ trail[n].context = link}
Logged(link, op) == {n \in Writes(link, op) : trail[n].state = "logged"}

One(condition) == IF condition THEN 1 ELSE 0

\* No entry about the link is missing from the log: none is on its way, failed,
\* cut or never given.
Complete(link, add, remove) ==
    Logged(link, add) = Writes(link, add) /\ Logged(link, remove) = Writes(link, remove)

\* The rows of the log have no order that could be trusted (an insert may overtake
\* another), but they can be counted: the link is there if it has been added once
\* more often than removed, the seed's own counted as added.
LogCounts(link, add, remove, seeded, linked) ==
    One(linked) + Cardinality(Logged(link, remove)) =
        One(seeded) + Cardinality(Logged(link, add))

\* Between rows that exist, the rows of the log, in whatever order they arrived,
\* tell who holds which role and which role carries which permission; where they
\* are wrong about a link, an entry about that very link is missing.  A role that
\* goes, or a user, takes its links along and leaves no other link unexplained.
LinksAccountedFor ==
    /\ \A u \in users, x \in Roles :
          Complete({u, x}, "addRole", "removeRole") =>
              LogCounts({u, x}, "addRole", "removeRole",
                        <<u, x>> \in SeedHolders, <<u, x>> \in holders)
    /\ \A x \in Roles, p \in Permissions :
          Complete({x, p}, "attach", "detach") =>
              LogCounts({x, p}, "attach", "detach",
                        <<x, p>> \in SeedGrants, <<x, p>> \in grants)

\* Every entry handed over is in the log in the end, or was given up with an error,
\* or cut with the process: none waits for good, whichever others fail and whatever
\* becomes of whoever made it.
EntriesSettle ==
    \A n \in Places : [](n \in Pending => <>(n \notin Pending))
=============================================================================
