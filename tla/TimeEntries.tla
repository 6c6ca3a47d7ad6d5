----------------------------- MODULE TimeEntries -----------------------------
(***************************************************************************)
(* Time tracking: timers that callers start, stop, edit and delete by      *)
(* concurrent requests, and the tasks and projects they are booked on.     *)
(* A running timer is a row whose endedAt is null.  Both dates of an entry *)
(* come from the caller; nothing compares them with the server's clock.    *)
(***************************************************************************)
EXTENDS Naturals, FiniteSets

CONSTANTS
    Users, Admins,      \* Admins hold manage.all and reach every row
    EntryIds, Projects, Tasks,
    ProjectOf,          \* task |-> its project, which never changes
    UserOf,             \* project |-> its owner, task |-> its assignee: they never change
    CanRead,            \* user |-> projects (with their tasks) it may read
    MaxDate,            \* bound on the dates a caller may give
    Requests,
    Null,               \* null: no end, no project, no task
    Absent,             \* a field the body does not have
    NoRow

Date == 0 .. MaxDate

Entry == [userId : Users, projectId : Projects \cup {Null}, taskId : Tasks \cup {Null},
          startedAt : Date, endedAt : Date \cup {Null}]

ASSUME TimerAssumption ==
    /\ Admins \subseteq Users
    /\ ProjectOf \in [Tasks -> Projects]
    /\ UserOf \in [Projects \cup Tasks -> Users]
    /\ CanRead \in [Users -> SUBSET Projects]
    /\ MaxDate \in Nat
    /\ Null \notin Projects \cup Tasks \cup Date
    /\ Absent \notin Projects \cup Tasks \cup Date \cup {Null}
    /\ NoRow \notin Entry \cup Users

VARIABLES
    users,      \* rows of the users table
    entries,    \* the time_entries table: id |-> row or NoRow
    used,       \* ids of all entries ever inserted
    projects,   \* rows of the projects table
    tasks,      \* rows of the tasks table
    request     \* per slot: where the handler is and what it holds

vars == <<users, entries, used, projects, tasks, request>>

Idle == [pc |-> "idle"]

Link == [projectId : Projects \cup {Null}, taskId : Tasks \cup {Null}]

(* `alone' is a history variable of a handler: its caller had at most one  *)
(* running timer when the handler looked, and has had no timer started by  *)
(* another handler since.                                                  *)
Request ==
    [pc : {"idle"}]
    \cup [pc : {"close", "insert"}, user : Users, row : Entry, alone : BOOLEAN]
    \cup [pc : {"closeFirst", "write"}, user : Users, id : EntryIds, at : Date,
          startedAt : Date \cup {Absent}, endedAt : Date \cup {Null, Absent},
          link : Link \cup {Absent}, alone : BOOLEAN]

Rows == {e \in EntryIds : entries[e] # NoRow}
Running(u) == {e \in Rows : entries[e].userId = u /\ entries[e].endedAt = Null}

Become(r, state) == request' = [request EXCEPT ![r] = state]

Init ==
    /\ users = Users
    /\ entries = [e \in EntryIds |-> NoRow]
    /\ used = {}
    /\ projects = Projects /\ tasks = Tasks
    /\ request = [r \in Requests |-> Idle]

-----------------------------------------------------------------------------
\* What an ability lets a user read or change.
mayReach(u, e) == u \in Admins \/ entries[e].userId = u

readable(u, p) == p \in projects /\ (u \in Admins \/ p \in CanRead[u])

\* A task without a project brings its own.
projectFor(p, t) == IF t # Null /\ p = Null THEN ProjectOf[t] ELSE p

\* The resolved pair, or nothing when the handler answers 400 or 404.  The two
\* reads are one here: a task's project is fixed, and the foreign keys decide
\* again when the row is written.
resolveProjectAndTask(u, p, t) ==
    {link \in {[projectId |-> projectFor(p, t), taskId |-> t]} :
        /\ t # Null => /\ t \in tasks /\ readable(u, ProjectOf[t])
                       /\ link.projectId = ProjectOf[t]
        /\ link.projectId # Null => readable(u, link.projectId)}

\* Mutant: every user's running timers are closed.
CloseEveryone(u, at) ==
    entries' = [e \in EntryIds |->
        IF e \in Rows /\ entries[e].endedAt = Null
        THEN [entries[e] EXCEPT !.endedAt = at] ELSE entries[e]]

\* One UPDATE: the caller's running timers end when the new one starts.
closeRunningForUser(u, at) ==
    entries' = [e \in EntryIds |->
        IF e \in Running(u) THEN [entries[e] EXCEPT !.endedAt = at] ELSE entries[e]]

\* `endedAt must be on or after startedAt'.
inOrder(start, end) == end # Null => end >= start

\* The rows an entry refers to are still there.
ForeignKeys(link) ==
    /\ link.projectId \in projects \cup {Null}
    /\ link.taskId \in tasks \cup {Null}

\* The handler in r ends, having started a timer of u or not: any other one
\* at work for u has been overtaken.
Finish(r, u, started) ==
    request' = [q \in Requests |->
        IF q = r THEN Idle
        ELSE IF started /\ request[q].pc # "idle" /\ request[q].user = u
             THEN [request[q] EXCEPT !.alone = FALSE] ELSE request[q]]

-----------------------------------------------------------------------------
(* POST /time-entries                                                      *)

CreateResolve(r, u, row) ==
    /\ request[r].pc = "idle"
    /\ u \in users
    /\ row.userId = u
    /\ inOrder(row.startedAt, row.endedAt)
    /\ \E link \in resolveProjectAndTask(u, row.projectId, row.taskId) :
          Become(r, [pc |-> IF row.endedAt = Null THEN "close" ELSE "insert",
                     user |-> u, alone |-> FALSE,
                     row |-> [row EXCEPT !.projectId = link.projectId]])
    /\ UNCHANGED <<users, entries, used, projects, tasks>>

CreateClose(r) ==
    LET q == request[r]
    IN  /\ q.pc = "close"
        /\ closeRunningForUser(q.user, q.row.startedAt)
        /\ Become(r, [q EXCEPT !.pc = "insert", !.alone = TRUE])
        /\ UNCHANGED <<users, used, projects, tasks>>

CreateInsert(r, e) ==
    LET q == request[r]
    IN  /\ q.pc = "insert"
        /\ q.row.userId \in users /\ ForeignKeys(q.row)
        /\ e \notin used
        /\ entries' = [entries EXCEPT ![e] = q.row]
        /\ used' = used \cup {e}
        /\ Finish(r, q.user, q.row.endedAt = Null)
        /\ UNCHANGED <<users, projects, tasks>>

\* P2003: the caller, the project or the task was deleted meanwhile.
CreateOrphaned(r) ==
    /\ request[r].pc = "insert"
    /\ ~ (request[r].row.userId \in users /\ ForeignKeys(request[r].row))
    /\ Become(r, Idle)
    /\ UNCHANGED <<users, entries, used, projects, tasks>>

-----------------------------------------------------------------------------
(* PATCH /time-entries/:id                                                 *)

\* Mutant: a stopped timer is reopened without closing the running one.
ReopenOnly(before, after) == FALSE

\* The entry was stopped when it was read and is to run again.
reopens(before, after) == after = Null /\ before # Null

\* The field of the body if it has one, else the row's.
Given(field, current) == IF field = Absent THEN current ELSE field

UpdateRead(r, u, e, startedAt, endedAt, p, t) ==
    LET row == entries[e]
        start == Given(startedAt, row.startedAt)
        end == Given(endedAt, row.endedAt)
        links == IF p = Absent /\ t = Absent THEN {Absent}
                 ELSE resolveProjectAndTask(u, Given(p, row.projectId), Given(t, row.taskId))
    IN  /\ request[r].pc = "idle"
        /\ u \in users /\ e \in Rows
        /\ mayReach(u, e)
        /\ inOrder(start, end)
        /\ \E link \in links :
              Become(r, [pc |-> IF reopens(row.endedAt, end) THEN "closeFirst" ELSE "write",
                         user |-> u, id |-> e, at |-> start, startedAt |-> startedAt,
                         endedAt |-> endedAt, link |-> link,
                         alone |-> Cardinality(Running(u)) <= 1])
        /\ UNCHANGED <<users, entries, used, projects, tasks>>

UpdateClose(r) ==
    LET q == request[r]
    IN  /\ q.pc = "closeFirst"
        /\ closeRunningForUser(q.user, q.at)
        /\ Become(r, [q EXCEPT !.pc = "write", !.alone = TRUE])
        /\ UNCHANGED <<users, used, projects, tasks>>

\* Mutant: the patch has the project only when the body has it.
PatchTaskOnly(row, q) ==
    [row EXCEPT !.startedAt = Given(q.startedAt, @),
                !.endedAt   = Given(q.endedAt, @),
                !.taskId    = IF q.link = Absent THEN @ ELSE q.link.taskId]

\* Mutant: the patch names the caller, as the row of a new entry does.
PatchTakesOver(row, q) ==
    [row EXCEPT !.userId    = q.user,
                !.startedAt = Given(q.startedAt, @),
                !.endedAt   = Given(q.endedAt, @),
                !.projectId = IF q.link = Absent THEN @ ELSE q.link.projectId,
                !.taskId    = IF q.link = Absent THEN @ ELSE q.link.taskId]

\* Mutant: a date the body does not have is written all the same.
PatchEveryDate(row, q) == [row EXCEPT !.startedAt = q.startedAt, !.endedAt = q.endedAt]

\* The patch: the fields of the body; project and task together or not at all.
patched(row, q) ==
    [row EXCEPT !.startedAt = Given(q.startedAt, @),
                !.endedAt   = Given(q.endedAt, @),
                !.projectId = IF q.link = Absent THEN @ ELSE q.link.projectId,
                !.taskId    = IF q.link = Absent THEN @ ELSE q.link.taskId]

UpdateWrite(r) ==
    LET q == request[r]
        row == entries[q.id]
    IN  /\ q.pc = "write"
        /\ q.id \in Rows
        /\ q.link # Absent => ForeignKeys(q.link)
        /\ entries' = [entries EXCEPT ![q.id] = patched(row, q)]
        /\ Finish(r, row.userId, row.endedAt # Null /\ q.endedAt = Null)
        /\ UNCHANGED <<users, used, projects, tasks>>

\* P2025 or P2003.
UpdateFails(r) ==
    LET q == request[r]
    IN  /\ q.pc = "write"
        /\ q.id \notin Rows \/ (q.link # Absent /\ ~ ForeignKeys(q.link))
        /\ Become(r, Idle)
        /\ UNCHANGED <<users, entries, used, projects, tasks>>

-----------------------------------------------------------------------------
(* DELETE /time-entries/:id.  Who owns a row never changes, so the lookup  *)
(* and the delete are one step.                                            *)
Delete(u, e) ==
    /\ u \in users /\ e \in Rows
    /\ mayReach(u, e)
    /\ entries' = [entries EXCEPT ![e] = NoRow]
    /\ UNCHANGED <<users, used, projects, tasks, request>>

\* A deleted task or project is set to null in the entries booked on it.
Detached(goneProjects, goneTasks) ==
    [e \in EntryIds |->
        IF e \notin Rows THEN NoRow
        ELSE [entries[e] EXCEPT !.projectId = IF @ \in goneProjects THEN Null ELSE @,
                                !.taskId = IF @ \in goneTasks THEN Null ELSE @]]

\* DELETE /tasks/:id.
DeleteTask(t) ==
    /\ t \in tasks
    /\ tasks' = tasks \ {t}
    /\ entries' = Detached({}, {t})
    /\ UNCHANGED <<users, used, projects, request>>

\* DELETE /projects/:id, one transaction: its tasks, then the project.
DeleteProject(p) ==
    LET gone == {t \in tasks : ProjectOf[t] = p}
    IN  /\ p \in projects
        /\ projects' = projects \ {p}
        /\ tasks' = tasks \ gone
        /\ entries' = Detached({p}, gone)
        /\ UNCHANGED <<users, used, request>>

\* DELETE /users/:id, refused while a project or a task refers to the user.
\* The user's entries go too.
DeleteUser(u) ==
    /\ u \in users
    /\ \A x \in projects \cup tasks : UserOf[x] # u
    /\ users' = users \ {u}
    /\ entries' = [e \in EntryIds |->
           IF e \in Rows /\ entries[e].userId = u THEN NoRow ELSE entries[e]]
    /\ UNCHANGED <<used, projects, tasks, request>>

Restart ==
    /\ request' = [r \in Requests |-> Idle]
    /\ UNCHANGED <<users, entries, used, projects, tasks>>

Next ==
    \/ \E r \in Requests, u \in Users, row \in Entry : CreateResolve(r, u, row)
    \/ \E r \in Requests, u \in Users, e \in EntryIds,
          startedAt \in Date \cup {Absent}, endedAt \in Date \cup {Null, Absent},
          p \in Projects \cup {Null, Absent}, t \in Tasks \cup {Null, Absent} :
             UpdateRead(r, u, e, startedAt, endedAt, p, t)
    \/ \E r \in Requests, e \in EntryIds : CreateInsert(r, e)
    \/ \E r \in Requests :
          \/ CreateClose(r) \/ CreateOrphaned(r)
          \/ UpdateClose(r) \/ UpdateWrite(r) \/ UpdateFails(r)
    \/ \E u \in Users, e \in EntryIds : Delete(u, e)
    \/ \E t \in Tasks : DeleteTask(t)
    \/ \E p \in Projects : DeleteProject(p)
    \/ \E u \in Users : DeleteUser(u)
    \/ Restart

Spec == Init /\ [][Next]_vars

-----------------------------------------------------------------------------
\* The tables and the requests in flight keep their shapes, and every entry
\* refers to rows that exist.
TypeOK ==
    /\ users \in SUBSET Users
    /\ entries \in [EntryIds -> Entry \cup {NoRow}]
    /\ used \in SUBSET EntryIds /\ Rows \subseteq used
    /\ projects \in SUBSET Projects /\ tasks \in SUBSET Tasks
    /\ request \in [Requests -> Request]
    /\ \A e \in Rows : entries[e].userId \in users /\ ForeignKeys(entries[e])

\* `taskId does not belong to the given projectId' can never be said of a row:
\* an entry booked on a task is booked on that task's project, whatever edits
\* and deletions interleave.
TaskWithinProject ==
    \A e \in Rows : entries[e].taskId # Null => entries[e].projectId = ProjectOf[entries[e].taskId]

\* A handler that was not overtaken by another one of the same caller, and
\* starts a timer of that caller, leaves it with that single running timer.
StartedAlone ==
    [][\A r \in Requests, u \in Users, e \in EntryIds :
          /\ request[r].pc \in {"insert", "write"} /\ request'[r].pc = "idle"
          /\ request[r].user = u /\ request[r].alone
          /\ e \notin Running(u) /\ e \in Running(u)'
          => Running(u)' = {e}]_vars

\* The timers of a user that is not an administrator are stopped only on
\* behalf of that user or of an administrator.
TimersStoppedByOwner ==
    [][\A u \in Users, e \in EntryIds :
          e \in Running(u) /\ e \in Rows' /\ e \notin Running(u)'
          => \E r \in Requests :
                /\ request'[r] # request[r]
                /\ request[r].user \in {u} \cup Admins]_vars

\* Whose each row is.
Owner == [e \in EntryIds |-> IF e \in Rows THEN entries[e].userId ELSE NoRow]

Owned ==
    INSTANCE OwnedRows WITH Ids <- EntryIds, NoUser <- NoRow,
        members <- users, joined <- Users, born <- used, owner <- Owner

\* Entries are rows of their users: none is taken over by the administrator who
\* edits it, comes back after it was deleted, or is left behind, or inserted
\* late, when its owner's account goes.
RefinesOwnedRows == Owned!Spec

\* The rule POST /time-entries is tested for (`create closes other running
\* timers when starting a new one'): nobody has two running timers.
OneRunningTimer == \A u \in Users : Cardinality(Running(u)) <= 1

\* `endedAt must be on or after startedAt', of every row.
EndsAfterStart ==
    \A e \in Rows : entries[e].endedAt # Null => entries[e].endedAt >= entries[e].startedAt
=============================================================================
