------------------------------ MODULE Workspace ------------------------------
(***************************************************************************)
(* Companies, projects and tasks: who may reach a row, and what is left of *)
(* it when the rows around it are deleted by concurrent requests.  A task  *)
(* carries copies of its project's owner and company, taken when it was    *)
(* created and never refreshed; the abilities on tasks use the copies, the *)
(* abilities on projects the project itself.                               *)
(***************************************************************************)
EXTENDS FiniteSets

CONSTANTS
    UserIds,
    Held,               \* what the roles of a user may permit in a request
    CompanyIds, ProjectIds, TaskIds,
    Requests,
    NoCompany,          \* a project of its owner alone
    NoRow

Project == [ownerId : UserIds, companyId : CompanyIds \cup {NoCompany}]

Task == [projectId : ProjectIds, assigneeId : UserIds,
         projectOwnerId : UserIds, projectCompanyId : CompanyIds \cup {NoCompany}]

(* The permissions that decide here.  AccessControl says how users come by *)
(* them: they are loaded for each request, and a user may make one with    *)
(* some and the next with others.                                          *)
MANAGE_ALL == "manage.all"
PROJECT_READS == {"projects.read", "projects.update", "projects.delete"}
TASK_READS == {"tasks.read", "tasks.update", "tasks.delete"}

Key == {MANAGE_ALL, "companies.delete", "projects.create", "projects.read.all",
        "tasks.create", "tasks.read.all"} \cup PROJECT_READS \cup TASK_READS

ASSUME WorkspaceAssumption ==
    /\ Held \in [UserIds -> SUBSET SUBSET Key]
    /\ NoCompany \notin CompanyIds
    /\ NoRow \notin Project \cup Task

VARIABLES
    users,      \* rows of the users table
    companies,  \* rows of the companies table
    members,    \* rows of company_members: <<user, company>>
    projects,   \* the projects table: id |-> row or NoRow
    tasks,      \* the tasks table: id |-> row or NoRow
    used,       \* ids of all users, companies, projects and tasks ever inserted
    request     \* per slot: where the handler is and what it holds

tables == <<users, companies, members, projects, tasks, used>>
vars == <<tables, request>>

Idle == [pc |-> "idle"]

Request ==
    [pc : {"idle"}]
    \cup [pc : {"createTask"}, task : Task]
    \cup [pc : {"deleteTask"}, id : TaskIds]
    \cup [pc : {"deleteProject"}, id : ProjectIds]
    \cup [pc : {"deleteCompany"}, id : CompanyIds]

ProjectRows == {p \in ProjectIds : projects[p] # NoRow}
TaskRows == {t \in TaskIds : tasks[t] # NoRow}

Become(r, state) == request' = [request EXCEPT ![r] = state]

\* One user has registered; everything else is made by the operations.
Init ==
    /\ users \in {{u} : u \in UserIds} /\ used = users
    /\ companies = {} /\ members = {}
    /\ projects = [p \in ProjectIds |-> NoRow]
    /\ tasks = [t \in TaskIds |-> NoRow]
    /\ request = [r \in Requests |-> Idle]

-----------------------------------------------------------------------------
(* The abilities a request is given: its user with the keys it holds now,  *)
(* and the companies the user is a member of.                              *)

memberOf(u, c) == <<u, c>> \in members

\* A key opens all rows, or those of the user and of its companies.
opens(u, keys, all, own, ownerId, companyId) ==
    \/ keys \cap all # {}
    \/ keys \cap own # {} /\ (ownerId = u \/ memberOf(u, companyId))

\* To update or to delete a project is to read it.
reachesProject(u, keys, p) ==
    opens(u, keys, {MANAGE_ALL, "projects.read.all"}, PROJECT_READS,
          projects[p].ownerId, projects[p].companyId)

deletesProject(u, keys, p) ==
    opens(u, keys, {MANAGE_ALL}, {"projects.delete"}, projects[p].ownerId, projects[p].companyId)

\* The copies in the task decide, not its project.
reachesTask(u, keys, t) ==
    opens(u, keys, {MANAGE_ALL, "tasks.read.all"}, TASK_READS,
          tasks[t].projectOwnerId, tasks[t].projectCompanyId)

deletesTask(u, keys, t) ==
    opens(u, keys, {MANAGE_ALL}, {"tasks.delete"},
          tasks[t].projectOwnerId, tasks[t].projectCompanyId)

\* What asks for no row: CheckPolicies alone.
mayCreate(keys, key) == keys \cap {MANAGE_ALL, key} # {}

-----------------------------------------------------------------------------
(* Users.  Registration says how one signs up; an account is deleted only  *)
(* when no project and no task refers to it, and takes its client profile  *)
(* with its memberships along.                                             *)

Register(u) ==
    /\ u \in UserIds \ used
    /\ users' = users \cup {u} /\ used' = used \cup {u}
    /\ UNCHANGED <<companies, members, projects, tasks, request>>

DeleteUser(u) ==
    /\ u \in users
    /\ \A p \in ProjectRows : projects[p].ownerId # u
    /\ \A t \in TaskRows : tasks[t].assigneeId # u
    /\ users' = users \ {u}
    /\ members' = {m \in members : m[1] # u}
    /\ UNCHANGED <<companies, projects, tasks, used, request>>

-----------------------------------------------------------------------------
(* Companies.  Who may create one is in Registration: here it has a slug   *)
(* of its own and its creator as a member, in one transaction.             *)

CompanyInsert(u, c) ==
    /\ u \in users
    /\ c \in CompanyIds \ used
    /\ companies' = companies \cup {c} /\ used' = used \cup {c}
    /\ members' = members \cup {<<u, c>>}
    /\ UNCHANGED <<users, projects, tasks, request>>

\* Unlike other rows, a company is deleted by its members only: `manage.all' alone is
\* not enough.
CompanyDeleteRead(r, u, c) ==
    /\ request[r].pc = "idle"
    /\ memberOf(u, c) /\ \E keys \in Held[u] : keys \cap {MANAGE_ALL, "companies.delete"} # {}
    /\ Become(r, [pc |-> "deleteCompany", id |-> c])
    /\ UNCHANGED tables

\* ON DELETE SET NULL.
WithoutCompany(c) ==
    [p \in ProjectIds |->
        IF p \in ProjectRows /\ projects[p].companyId = c
        THEN [projects[p] EXCEPT !.companyId = NoCompany] ELSE projects[p]]

\* One transaction: the members, then the company.
CompanyDelete(r) ==
    LET c == request[r].id
    IN  /\ request[r].pc = "deleteCompany"
        /\ c \in companies
        /\ companies' = companies \ {c}
        /\ members' = {m \in members : m[2] # c}
        /\ projects' = WithoutCompany(c)
        /\ Become(r, Idle)
        /\ UNCHANGED <<users, tasks, used>>

-----------------------------------------------------------------------------
(* Projects                                                                *)

\* Any company will do: nothing asks whether the owner is a member.
ProjectCreate(u, p, c) ==
    /\ u \in users /\ \E keys \in Held[u] : mayCreate(keys, "projects.create")
    /\ c \in companies \cup {NoCompany}
    /\ p \in ProjectIds \ used
    /\ projects' = [projects EXCEPT ![p] = [ownerId |-> u, companyId |-> c]]
    /\ used' = used \cup {p}
    /\ UNCHANGED <<users, companies, members, tasks, request>>

ProjectDeleteRead(r, u, p) ==
    /\ request[r].pc = "idle"
    /\ u \in users /\ p \in ProjectRows
    /\ \E keys \in Held[u] : reachesProject(u, keys, p) /\ deletesProject(u, keys, p)
    /\ Become(r, [pc |-> "deleteProject", id |-> p])
    /\ UNCHANGED tables

\* Mutant: the tasks stay behind.
KeepTasks(p) == tasks

WithoutTasksOf(p) ==
    [t \in TaskIds |-> IF t \in TaskRows /\ tasks[t].projectId = p THEN NoRow ELSE tasks[t]]

\* One transaction: its tasks, then the project.
ProjectDelete(r) ==
    LET p == request[r].id
    IN  /\ request[r].pc = "deleteProject"
        /\ p \in ProjectRows
        /\ tasks' = WithoutTasksOf(p)
        /\ projects' = [projects EXCEPT ![p] = NoRow]
        /\ Become(r, Idle)
        /\ UNCHANGED <<users, companies, members, used>>

-----------------------------------------------------------------------------
(* Tasks                                                                   *)

\* Mutant: the copies are those of the caller, not of the project.
OwnTask(u, p) == [projectId |-> p, assigneeId |-> u, projectOwnerId |-> u,
                  projectCompanyId |-> projects[p].companyId]

\* Mutant: the company is not copied.
TaskOfOwner(u, p) == [projectId |-> p, assigneeId |-> u,
                      projectOwnerId |-> projects[p].ownerId, projectCompanyId |-> NoCompany]

newTask(u, p) ==
    [projectId |-> p, assigneeId |-> u,
     projectOwnerId |-> projects[p].ownerId,
     projectCompanyId |-> projects[p].companyId]

TaskCreateRead(r, u, p) ==
    /\ request[r].pc = "idle"
    /\ u \in users /\ p \in ProjectRows
    /\ \E keys \in Held[u] : reachesProject(u, keys, p) /\ mayCreate(keys, "tasks.create")
    /\ Become(r, [pc |-> "createTask", task |-> newTask(u, p)])
    /\ UNCHANGED tables

\* The copies were taken when the project was read; the foreign keys ask only
\* whether the project and the assignee are still there.
TaskInsert(r, t) ==
    LET row == request[r].task
    IN  /\ request[r].pc = "createTask"
        /\ row.projectId \in ProjectRows /\ row.assigneeId \in users
        /\ t \in TaskIds \ used
        /\ tasks' = [tasks EXCEPT ![t] = row]
        /\ used' = used \cup {t}
        /\ Become(r, Idle)
        /\ UNCHANGED <<users, companies, members, projects>>

TaskDeleteRead(r, u, t) ==
    /\ request[r].pc = "idle"
    /\ u \in users /\ t \in TaskRows
    /\ \E keys \in Held[u] : reachesTask(u, keys, t) /\ deletesTask(u, keys, t)
    /\ Become(r, [pc |-> "deleteTask", id |-> t])
    /\ UNCHANGED tables

TaskDelete(r) ==
    /\ request[r].pc = "deleteTask"
    /\ request[r].id \in TaskRows
    /\ tasks' = [tasks EXCEPT ![request[r].id] = NoRow]
    /\ Become(r, Idle)
    /\ UNCHANGED <<users, companies, members, projects, used>>

\* P2025 or P2003: the row to write, or one it refers to, went meanwhile; or a
\* task was inserted between the two statements that delete its project, whose
\* transaction then rolls back.
Gone(r) ==
    LET q == request[r]
    IN  /\ \/ q.pc = "deleteTask" /\ q.id \notin TaskRows
           \/ q.pc = "deleteProject"
           \/ q.pc = "deleteCompany" /\ q.id \notin companies
           \/ q.pc = "createTask" /\ (q.task.projectId \notin ProjectRows
                                      \/ q.task.assigneeId \notin users)
        /\ Become(r, Idle)
        /\ UNCHANGED tables

Restart ==
    /\ request' = [r \in Requests |-> Idle]
    /\ UNCHANGED tables

Work ==
    \/ \E u \in UserIds : Register(u) \/ DeleteUser(u)
    \/ \E u \in UserIds, c \in CompanyIds : CompanyInsert(u, c)
    \/ \E u \in UserIds, p \in ProjectIds, c \in CompanyIds \cup {NoCompany} : ProjectCreate(u, p, c)
    \/ \E r \in Requests, u \in UserIds :
          \/ \E c \in CompanyIds : CompanyDeleteRead(r, u, c)
          \/ \E p \in ProjectIds : ProjectDeleteRead(r, u, p) \/ TaskCreateRead(r, u, p)
          \/ \E t \in TaskIds : TaskDeleteRead(r, u, t)
    \/ \E r \in Requests :
          \/ CompanyDelete(r) \/ ProjectDelete(r) \/ TaskDelete(r) \/ Gone(r)
          \/ \E t \in TaskIds : TaskInsert(r, t)

Next == Work \/ Restart

Spec == Init /\ [][Next]_vars

-----------------------------------------------------------------------------
\* The tables and the requests in flight keep their shapes, and no row refers
\* to one that is gone, however deletions and insertions interleave.
TypeOK ==
    /\ users \subseteq UserIds /\ companies \subseteq CompanyIds
    /\ members \subseteq users \X companies
    /\ projects \in [ProjectIds -> Project \cup {NoRow}]
    /\ tasks \in [TaskIds -> Task \cup {NoRow}]
    /\ used \subseteq UserIds \cup CompanyIds \cup ProjectIds \cup TaskIds
    /\ users \cup companies \cup ProjectRows \cup TaskRows \subseteq used
    /\ request \in [Requests -> Request]
    /\ \A p \in ProjectRows : /\ projects[p].ownerId \in users
                              /\ projects[p].companyId \in companies \cup {NoCompany}
    /\ \A t \in TaskRows : tasks[t].projectId \in ProjectRows /\ tasks[t].assigneeId \in users

\* What a copy of a project's owner and company may differ in: the company, and
\* only when the project has lost it because the company was deleted.
Matches(task) ==
    LET project == projects[task.projectId]
    IN  /\ task.projectOwnerId = project.ownerId
        /\ \/ task.projectCompanyId = project.companyId
           \/ task.projectCompanyId \notin companies /\ project.companyId = NoCompany

\* The copies a task was given are never refreshed, and yet are stale only
\* about a company that no longer exists.
CopiesMatch == \A t \in TaskRows : Matches(tasks[t])

\* The keys open as much of the tasks as of the projects: all, what is the user's
\* or its companies', or nothing.
OnEqualTerms(keys) ==
    \/ MANAGE_ALL \in keys
    \/ /\ "projects.read.all" \in keys <=> "tasks.read.all" \in keys
       /\ keys \cap PROJECT_READS # {} <=> keys \cap TASK_READS # {}

\* Whoever holds permissions on projects and tasks on equal terms reaches a task
\* exactly if it reaches the project, although the two are decided from different
\* rows, one of them a copy that is never refreshed.
TaskAccessFollowsProject ==
    \A u \in users, t \in TaskRows :
        \A keys \in {k \in Held[u] : OnEqualTerms(k)} :
            reachesTask(u, keys, t) <=> reachesProject(u, keys, tasks[t].projectId)
=============================================================================
