---------------------------- MODULE RecordsProofs ----------------------------
(***************************************************************************)
(* Theorems about Workspace and about Records, which is built on it.       *)
(* First the workspace: no dangling row, and copies that are never         *)
(* refreshed and yet decide as the project does.  Then Records implements  *)
(* Workspace, so that this holds beside the records too; and the records   *)
(* themselves stay with their owners and link to what these can reach.     *)
(***************************************************************************)
EXTENDS Records, TLAPS

-----------------------------------------------------------------------------
(* The workspace                                                           *)

\* What holds of the copies in a task from when they are read, whether the task
\* is inserted already or not.  That their ids have been used keeps the company
\* from coming back to life, and the project from being made anew.
CopiesHold(task) ==
    /\ task.projectId \in used
    /\ task.projectCompanyId \in used \cup {NoCompany}
    /\ task.projectId \in ProjectRows => Matches(task)

RowsHold == \A t \in TaskRows : CopiesHold(tasks[t])

CallsHold == \A r \in Requests : request[r].pc = "createTask" => CopiesHold(request[r].task)

IInv == TypeOK /\ RowsHold /\ CallsHold

-----------------------------------------------------------------------------
(* IInv is inductive.                                                      *)

LEMMA IInvInit == Init => IInv
<1> SUFFICES ASSUME Init PROVE IInv
  OBVIOUS
<1>1. TypeOK
  BY DEF Init, TypeOK, ProjectRows, TaskRows, Request, Idle
<1>2. RowsHold /\ CallsHold
  BY DEF Init, RowsHold, CallsHold, TaskRows, Idle
<1> QED
  BY <1>1, <1>2 DEF IInv

\* A call in flight carries a task only to create it.
LEMMA CallFields ==
    ASSUME NEW c \in Request
    PROVE  /\ c.pc = "createTask" => c.task \in Task
           /\ c.pc = "deleteTask" => c.id \in TaskIds
           /\ c.pc = "deleteProject" => c.id \in ProjectIds
           /\ c.pc = "deleteCompany" => c.id \in CompanyIds
  BY DEF Request

LEMMA IdleCall == Idle \in Request /\ Idle.pc = "idle"
  BY DEF Idle, Request

\* A step that ends one call or all, or starts one that creates no task, leaves
\* the tasks still in flight as they were.
CallsKept ==
    /\ request' \in [Requests -> Request]
    /\ \A q \in Requests : request'[q].pc = "createTask" => request'[q] = request[q]

LEMMA EndingKeepsCalls ==
    ASSUME TypeOK, NEW r \in Requests, NEW c \in Request,
           request' = [request EXCEPT ![r] = c], c.pc # "createTask"
    PROVE  CallsKept
<1>1. request \in [Requests -> Request]
  BY DEF TypeOK
<1>2. \A q \in Requests : request'[q] = IF q = r THEN c ELSE request[q]
  BY <1>1
<1> QED
  BY <1>1, <1>2 DEF CallsKept

\* What the parts of the workspace do to copies that hold: nothing, as long as
\* no id is used twice.
TablesGrowFresh ==
    /\ used \subseteq used'
    /\ (companies' \ companies) \cap (used \cup {NoCompany}) = {}
    /\ \A p \in ProjectIds :
          /\ p \in used /\ projects'[p] # NoRow => projects[p] # NoRow
          /\ p \in ProjectRows /\ projects'[p] # NoRow =>
                /\ projects'[p].ownerId = projects[p].ownerId
                /\ \/ projects'[p].companyId = projects[p].companyId
                   \/ projects[p].companyId \notin companies' /\ projects'[p].companyId = NoCompany

LEMMA CopiesKeepHolding ==
    ASSUME NEW task \in Task, CopiesHold(task), TablesGrowFresh, TypeOK
    PROVE  CopiesHold(task)'
<1>1. task.projectId \in ProjectIds
  BY DEF Task
<1>2. ASSUME task.projectId \in ProjectRows' PROVE Matches(task)'
  <2>1. task.projectId \in ProjectRows /\ Matches(task)
    BY <1>1, <1>2 DEF CopiesHold, TablesGrowFresh, ProjectRows
  <2>2. task.projectCompanyId \in companies' => task.projectCompanyId \in companies
    BY <2>1 DEF CopiesHold, TablesGrowFresh
  <2> QED
    BY <1>1, <1>2, <2>1, <2>2 DEF Matches, TablesGrowFresh, ProjectRows
<1> QED
  BY <1>2 DEF CopiesHold, TablesGrowFresh

\* A step that makes no new copies keeps those there are.
LEMMA CopiesKept ==
    ASSUME IInv, TypeOK', TablesGrowFresh, CallsKept,
           \A t \in TaskRows' : t \in TaskRows /\ tasks'[t] = tasks[t]
    PROVE  IInv'
<1>1. RowsHold'
  <2> SUFFICES ASSUME NEW t \in TaskRows' PROVE CopiesHold(tasks[t])'
    BY DEF RowsHold
  <2>1. PICK task \in Task : task = tasks[t] /\ task = tasks'[t] /\ t \in TaskRows
    BY DEF IInv, TypeOK, TaskRows
  <2>2. CopiesHold(task)
    BY <2>1 DEF IInv, RowsHold
  <2>3. CopiesHold(task)'
    BY <2>2, CopiesKeepHolding DEF IInv
  <2> QED
    BY <2>1, <2>3
<1>2. CallsHold'
  <2> SUFFICES ASSUME NEW r \in Requests, request'[r].pc = "createTask"
               PROVE  CopiesHold(request[r].task)'
    BY DEF CallsHold
  <2>1. PICK task \in Task : task = request[r].task /\ task = request'[r].task
    BY CallFields DEF IInv, TypeOK, CallsKept
  <2>2. CopiesHold(task)
    BY <2>1 DEF IInv, CallsHold, CallsKept
  <2>3. CopiesHold(task)'
    BY <2>2, CopiesKeepHolding DEF IInv
  <2> QED
    BY <2>1, <2>3
<1> QED
  BY <1>1, <1>2 DEF IInv

LEMMA WaitingKeepsCalls ==
    ASSUME TypeOK, UNCHANGED request
    PROVE  CallsKept
  BY DEF TypeOK, CallsKept

\* Steps that only start a call, or end one, leave every table alone.
LEMMA TablesKept ==
    ASSUME IInv, UNCHANGED tables, CallsKept
    PROVE  IInv'
<1>1. TypeOK'
  BY DEF IInv, TypeOK, tables, CallsKept, ProjectRows, TaskRows
<1>2. TablesGrowFresh
  BY DEF TablesGrowFresh, tables
<1>3. \A t \in TaskRows' : t \in TaskRows /\ tasks'[t] = tasks[t]
  BY DEF TaskRows, tables
<1> QED
  BY <1>1, <1>2, <1>3, CopiesKept

LEMMA UsersKeepIInv ==
    ASSUME IInv, NEW u \in UserIds, Register(u) \/ DeleteUser(u)
    PROVE  IInv'
<1>1. CallsKept
  BY WaitingKeepsCalls DEF IInv, Register, DeleteUser
<1>2. TablesGrowFresh
  BY DEF TablesGrowFresh, Register, DeleteUser
<1>3. \A t \in TaskRows' : t \in TaskRows /\ tasks'[t] = tasks[t]
  BY DEF TaskRows, Register, DeleteUser
<1>4. TypeOK'
  <2>1. CASE Register(u)
    BY <2>1 DEF IInv, TypeOK, Register, ProjectRows, TaskRows
  <2>2. CASE DeleteUser(u)
    <3>1. members' \subseteq users' \X companies'
      BY <2>2 DEF IInv, TypeOK, DeleteUser
    <3> QED
      BY <2>2, <3>1 DEF IInv, TypeOK, DeleteUser, ProjectRows, TaskRows
  <2> QED
    BY <2>1, <2>2
<1> QED
  BY <1>1, <1>2, <1>3, <1>4, CopiesKept

LEMMA InsertsKeepIInv ==
    ASSUME IInv, NEW u \in UserIds,
           \/ \E c \in CompanyIds : CompanyInsert(u, c)
           \/ \E p \in ProjectIds, c \in CompanyIds \cup {NoCompany} : ProjectCreate(u, p, c)
    PROVE  IInv'
<1>1. CASE \E c \in CompanyIds : CompanyInsert(u, c)
  <2> PICK c \in CompanyIds : CompanyInsert(u, c)
    BY <1>1
  <2>1. CallsKept
    BY WaitingKeepsCalls DEF IInv, CompanyInsert
  <2>2. TablesGrowFresh
    BY WorkspaceAssumption DEF TablesGrowFresh, CompanyInsert
  <2>3. \A t \in TaskRows' : t \in TaskRows /\ tasks'[t] = tasks[t]
    BY DEF TaskRows, CompanyInsert
  <2>4. TypeOK'
    BY DEF IInv, TypeOK, CompanyInsert, ProjectRows, TaskRows
  <2> QED
    BY <2>1, <2>2, <2>3, <2>4, CopiesKept
<1>2. CASE \E p \in ProjectIds, c \in CompanyIds \cup {NoCompany} : ProjectCreate(u, p, c)
  <2> PICK p \in ProjectIds, c \in CompanyIds \cup {NoCompany} : ProjectCreate(u, p, c)
    BY <1>2
  <2> DEFINE row == [ownerId |-> u, companyId |-> c]
  <2>1. CallsKept
    BY WaitingKeepsCalls DEF IInv, ProjectCreate
  <2>2. \A q \in ProjectIds : projects'[q] = IF q = p THEN row ELSE projects[q]
    BY DEF IInv, TypeOK, ProjectCreate
  <2>3. p \notin used /\ p \notin ProjectRows
    BY DEF IInv, TypeOK, ProjectCreate
  <2>4. TablesGrowFresh
    BY <2>2, <2>3 DEF TablesGrowFresh, ProjectCreate
  <2>5. \A t \in TaskRows' : t \in TaskRows /\ tasks'[t] = tasks[t]
    BY DEF TaskRows, ProjectCreate
  <2>6. row \in Project /\ row # NoRow /\ row.ownerId = u /\ row.companyId = c
    BY WorkspaceAssumption DEF Project
  <2> HIDE DEF row
  <2>7. ProjectRows' = ProjectRows \cup {p}
    BY <2>2, <2>6 DEF ProjectRows
  <2>8. projects' \in [ProjectIds -> Project \cup {NoRow}]
    BY <2>6 DEF IInv, TypeOK, ProjectCreate, row
  <2>9. \A q \in ProjectRows' : projects'[q].ownerId \in users' /\ projects'[q].companyId \in companies' \cup {NoCompany}
    BY <2>2, <2>6, <2>7 DEF IInv, TypeOK, ProjectCreate, ProjectRows
  <2>10. TypeOK'
    BY <2>7, <2>8, <2>9 DEF IInv, TypeOK, ProjectCreate, TaskRows
  <2> QED
    BY <2>1, <2>4, <2>5, <2>10, CopiesKept
<1> QED
  BY <1>1, <1>2

LEMMA CompanyDeleteKeepsIInv ==
    ASSUME IInv, NEW r \in Requests, CompanyDelete(r)
    PROVE  IInv'
<1> DEFINE c == request[r].id
<1>1. c \in companies /\ c \in CompanyIds /\ c # NoCompany
  BY WorkspaceAssumption DEF CompanyDelete, IInv, TypeOK
<1>2. CallsKept
  BY EndingKeepsCalls, IdleCall DEF CompanyDelete, Become, IInv
<1>3. \A p \in ProjectIds :
         projects'[p] = IF p \in ProjectRows /\ projects[p].companyId = c
                        THEN [projects[p] EXCEPT !.companyId = NoCompany] ELSE projects[p]
  BY DEF CompanyDelete, WithoutCompany
<1>4. \A p \in ProjectRows :
         /\ projects'[p] \in Project
         /\ projects'[p].ownerId = projects[p].ownerId
         /\ projects'[p].companyId = IF projects[p].companyId = c THEN NoCompany
                                     ELSE projects[p].companyId
  <2> TAKE p \in ProjectRows
  <2>1. p \in ProjectIds /\ projects[p] \in Project
    BY DEF IInv, TypeOK, ProjectRows
  <2>2. CASE projects[p].companyId = c
    <3>1. projects'[p] = [projects[p] EXCEPT !.companyId = NoCompany]
      BY <1>3, <2>1, <2>2
    <3> QED
      BY <2>1, <2>2, <3>1 DEF Project
  <2>3. CASE projects[p].companyId # c
    BY <1>3, <2>1, <2>3 DEF Project
  <2> QED
    BY <2>2, <2>3
<1>5. ProjectRows' = ProjectRows
  <2>1. \A p \in ProjectIds : projects'[p] # NoRow <=> projects[p] # NoRow
    BY <1>3, <1>4, WorkspaceAssumption DEF ProjectRows
  <2> QED
    BY <2>1 DEF ProjectRows
<1>6. TablesGrowFresh
  BY <1>3, <1>4, <1>5 DEF TablesGrowFresh, ProjectRows, CompanyDelete
<1>7. \A t \in TaskRows' : t \in TaskRows /\ tasks'[t] = tasks[t]
  BY DEF TaskRows, CompanyDelete
<1>8. projects' \in [ProjectIds -> Project \cup {NoRow}]
  <2>1. \A p \in ProjectIds : projects'[p] \in Project \cup {NoRow}
    BY <1>3, <1>4 DEF IInv, TypeOK, ProjectRows
  <2> QED
    BY <2>1 DEF CompanyDelete, WithoutCompany
<1>9. \A p \in ProjectRows' : projects'[p].ownerId \in users' /\ projects'[p].companyId \in companies' \cup {NoCompany}
  BY <1>4, <1>5 DEF IInv, TypeOK, CompanyDelete
<1>10. members' \subseteq users' \X companies'
  BY DEF IInv, TypeOK, CompanyDelete
<1>11. TypeOK'
  BY <1>2, <1>5, <1>8, <1>9, <1>10 DEF IInv, TypeOK, CompanyDelete, TaskRows, CallsKept
<1> QED
  BY <1>2, <1>6, <1>7, <1>11, CopiesKept

LEMMA ProjectDeleteKeepsIInv ==
    ASSUME IInv, NEW r \in Requests, ProjectDelete(r)
    PROVE  IInv'
<1> DEFINE p == request[r].id
<1>1. p \in ProjectRows
  BY DEF ProjectDelete
<1>2. CallsKept
  BY EndingKeepsCalls, IdleCall DEF ProjectDelete, Become, IInv
<1>3. ProjectRows' = ProjectRows \ {p} /\ \A q \in ProjectRows' : projects'[q] = projects[q]
  BY <1>1 DEF ProjectDelete, ProjectRows, IInv, TypeOK
<1>4. TablesGrowFresh
  BY <1>3 DEF TablesGrowFresh, ProjectRows, ProjectDelete
<1>5. \A t \in TaskRows' : t \in TaskRows /\ tasks'[t] = tasks[t] /\ tasks[t].projectId # p
  BY DEF TaskRows, ProjectDelete, WithoutTasksOf
<1>6. tasks' \in [TaskIds -> Task \cup {NoRow}]
  BY DEF ProjectDelete, WithoutTasksOf, IInv, TypeOK
<1>7. TypeOK'
  <2>1. \A t \in TaskRows' : tasks'[t].projectId \in ProjectRows' /\ tasks'[t].assigneeId \in users'
    BY <1>3, <1>5 DEF IInv, TypeOK, ProjectDelete
  <2>2. \A q \in ProjectRows' : projects'[q].ownerId \in users' /\ projects'[q].companyId \in companies' \cup {NoCompany}
    BY <1>3 DEF IInv, TypeOK, ProjectDelete
  <2>3. projects' \in [ProjectIds -> Project \cup {NoRow}]
    BY <1>1 DEF IInv, TypeOK, ProjectDelete, ProjectRows
  <2>4. users' \cup companies' \cup ProjectRows' \cup TaskRows' \subseteq used'
    BY <1>3, <1>5 DEF IInv, TypeOK, ProjectDelete
  <2> QED
    BY <1>2, <1>6, <2>1, <2>2, <2>3, <2>4 DEF IInv, TypeOK, ProjectDelete, CallsKept
<1> QED
  BY <1>2, <1>4, <1>5, <1>7, CopiesKept

LEMMA TaskDeleteKeepsIInv ==
    ASSUME IInv, NEW r \in Requests, TaskDelete(r)
    PROVE  IInv'
<1>1. CallsKept
  BY EndingKeepsCalls, IdleCall DEF TaskDelete, Become, IInv
<1>2. TablesGrowFresh
  BY DEF TablesGrowFresh, TaskDelete
<1>3. \A t \in TaskRows' : t \in TaskRows /\ tasks'[t] = tasks[t]
  BY DEF TaskRows, TaskDelete, IInv, TypeOK
<1>4. TypeOK'
  <2>1. tasks' \in [TaskIds -> Task \cup {NoRow}]
    BY DEF IInv, TypeOK, TaskDelete
  <2>2. ProjectRows' = ProjectRows
    BY DEF ProjectRows, TaskDelete
  <2>3. \A t \in TaskRows' : tasks'[t].projectId \in ProjectRows' /\ tasks'[t].assigneeId \in users'
    BY <1>3, <2>2 DEF IInv, TypeOK, TaskDelete
  <2> QED
    BY <1>1, <1>3, <2>1, <2>2, <2>3 DEF IInv, TypeOK, TaskDelete, CallsKept
<1> QED
  BY <1>1, <1>2, <1>3, <1>4, CopiesKept

\* The copies are right when they are taken.
LEMMA TaskCreateReadKeepsIInv ==
    ASSUME IInv, NEW r \in Requests, NEW u \in UserIds, NEW p \in ProjectIds,
           TaskCreateRead(r, u, p)
    PROVE  IInv'
<1>1. PICK task \in Task : task = newTask(u, p)
  BY DEF TaskCreateRead, newTask, Task, IInv, TypeOK, ProjectRows, Project
<1>2. CopiesHold(task)
  BY <1>1 DEF CopiesHold, Matches, newTask, TaskCreateRead, IInv, TypeOK, ProjectRows
<1>3. CopiesHold(task)'
  BY <1>2 DEF CopiesHold, Matches, ProjectRows, TaskCreateRead, tables
<1> DEFINE c == [pc |-> "createTask", task |-> task]
<1>4. c \in Request
  BY DEF Request
<1>5. \A q \in Requests : request'[q] = IF q = r THEN c ELSE request[q]
  BY <1>1 DEF TaskCreateRead, Become, IInv, TypeOK
<1>6. TypeOK'
  <2>1. request' \in [Requests -> Request]
    BY <1>1, <1>4 DEF TaskCreateRead, Become, IInv, TypeOK
  <2> QED
    BY <2>1 DEF TaskCreateRead, tables, IInv, TypeOK, ProjectRows, TaskRows
<1>7. RowsHold'
  BY DEF TaskCreateRead, tables, IInv, RowsHold, CopiesHold, Matches, ProjectRows, TaskRows
<1>8. CallsHold'
  <2> SUFFICES ASSUME NEW q \in Requests, request'[q].pc = "createTask"
               PROVE  CopiesHold(request[q].task)'
    BY DEF CallsHold
  <2>1. CASE q = r
    BY <1>3, <1>5, <2>1
  <2>2. CASE q # r
    BY <1>5, <2>2
    DEF TaskCreateRead, tables, IInv, CallsHold, CopiesHold, Matches, ProjectRows
  <2> QED
    BY <2>1, <2>2
<1> QED
  BY <1>6, <1>7, <1>8 DEF IInv

\* They are still right when the task is inserted.
LEMMA TaskInsertKeepsIInv ==
    ASSUME IInv, NEW r \in Requests, NEW t \in TaskIds, TaskInsert(r, t)
    PROVE  IInv'
<1>1. PICK row \in Task : row = request[r].task
  BY CallFields DEF TaskInsert, IInv, TypeOK
<1>2. CallsKept
  BY EndingKeepsCalls, IdleCall DEF TaskInsert, Become, IInv
<1>3. TablesGrowFresh
  BY DEF TablesGrowFresh, TaskInsert
<1>4. \A s \in TaskIds : tasks'[s] = IF s = t THEN row ELSE tasks[s]
  BY <1>1 DEF TaskInsert, IInv, TypeOK
<1>5. row # NoRow /\ t \notin used
  BY WorkspaceAssumption DEF TaskInsert
<1>6. TaskRows' = TaskRows \cup {t}
  BY <1>4, <1>5 DEF TaskRows
<1>7. TypeOK'
  <2>1. tasks' \in [TaskIds -> Task \cup {NoRow}]
    BY <1>1 DEF TaskInsert, IInv, TypeOK
  <2>2. \A s \in TaskRows' : tasks'[s].projectId \in ProjectRows' /\ tasks'[s].assigneeId \in users'
    BY <1>1, <1>4, <1>6 DEF TaskInsert, IInv, TypeOK, ProjectRows
  <2> QED
    BY <1>2, <1>6, <2>1, <2>2 DEF TaskInsert, IInv, TypeOK, CallsKept, ProjectRows
<1>8. CopiesHold(row)
  BY <1>1 DEF TaskInsert, IInv, CallsHold
<1>9. RowsHold'
  <2> SUFFICES ASSUME NEW s \in TaskRows' PROVE CopiesHold(tasks[s])'
    BY DEF RowsHold
  <2>1. PICK task \in Task : task = tasks'[s] /\ CopiesHold(task)
    BY <1>4, <1>6, <1>8 DEF IInv, TypeOK, RowsHold, TaskRows
  <2>2. CopiesHold(task)'
    BY <1>3, <2>1, CopiesKeepHolding DEF IInv
  <2> QED
    BY <2>1, <2>2
<1>10. CallsHold'
  <2> SUFFICES ASSUME NEW q \in Requests, request'[q].pc = "createTask"
               PROVE  CopiesHold(request[q].task)'
    BY DEF CallsHold
  <2>1. PICK task \in Task : task = request[q].task /\ task = request'[q].task
    BY <1>2, CallFields DEF IInv, TypeOK, CallsKept
  <2>2. CopiesHold(task)
    BY <1>2, <2>1 DEF IInv, CallsHold, CallsKept
  <2>3. CopiesHold(task)'
    BY <1>3, <2>2, CopiesKeepHolding DEF IInv
  <2> QED
    BY <2>1, <2>3
<1> QED
  BY <1>7, <1>9, <1>10 DEF IInv

LEMMA IInvNext == IInv /\ [Next]_vars => IInv'
<1> SUFFICES ASSUME IInv, [Next]_vars PROVE IInv'
  OBVIOUS
<1>1. ASSUME NEW r \in Requests, NEW c \in Request,
             Become(r, c), c.pc # "createTask", UNCHANGED tables
      PROVE  IInv'
  BY <1>1, EndingKeepsCalls, TablesKept DEF Become, IInv
<1>2. ASSUME NEW r \in Requests, NEW u \in UserIds,
             \/ \E c \in CompanyIds : CompanyDeleteRead(r, u, c)
             \/ \E p \in ProjectIds : ProjectDeleteRead(r, u, p)
             \/ \E t \in TaskIds : TaskDeleteRead(r, u, t)
      PROVE  IInv'
  <2>1. CASE \E c \in CompanyIds : CompanyDeleteRead(r, u, c)
    <3> PICK c \in CompanyIds : CompanyDeleteRead(r, u, c)
      BY <2>1
    <3>1. [pc |-> "deleteCompany", id |-> c] \in Request
      BY DEF Request
    <3> QED
      BY <1>1, <3>1 DEF CompanyDeleteRead
  <2>2. CASE \E p \in ProjectIds : ProjectDeleteRead(r, u, p)
    <3> PICK p \in ProjectIds : ProjectDeleteRead(r, u, p)
      BY <2>2
    <3>1. [pc |-> "deleteProject", id |-> p] \in Request
      BY DEF Request
    <3> QED
      BY <1>1, <3>1 DEF ProjectDeleteRead
  <2>3. CASE \E t \in TaskIds : TaskDeleteRead(r, u, t)
    <3> PICK t \in TaskIds : TaskDeleteRead(r, u, t)
      BY <2>3
    <3>1. [pc |-> "deleteTask", id |-> t] \in Request
      BY DEF Request
    <3> QED
      BY <1>1, <3>1 DEF TaskDeleteRead
  <2> QED
    BY <1>2, <2>1, <2>2, <2>3
<1>3. ASSUME NEW r \in Requests, Gone(r) PROVE IInv'
  BY <1>1, <1>3, IdleCall DEF Gone
<1>4. CASE Restart
  <2>1. CallsKept
    BY <1>4, IdleCall DEF Restart, CallsKept
  <2> QED
    BY <1>4, <2>1, TablesKept DEF Restart
<1>5. CASE UNCHANGED vars
  <2>1. CallsKept
    BY <1>5, WaitingKeepsCalls DEF vars, IInv
  <2> QED
    BY <1>5, <2>1, TablesKept DEF vars
<1>6. ASSUME NEW u \in UserIds, Register(u) \/ DeleteUser(u) PROVE IInv'
  BY <1>6, UsersKeepIInv
<1>7. ASSUME NEW u \in UserIds, NEW c \in CompanyIds, CompanyInsert(u, c) PROVE IInv'
  BY <1>7, InsertsKeepIInv
<1>8. ASSUME NEW u \in UserIds, NEW p \in ProjectIds,
             NEW c \in CompanyIds \cup {NoCompany}, ProjectCreate(u, p, c)
      PROVE  IInv'
  BY <1>8, InsertsKeepIInv
<1> QED
  BY <1>2, <1>3, <1>4, <1>5, <1>6, <1>7, <1>8, CompanyDeleteKeepsIInv, ProjectDeleteKeepsIInv,
     TaskDeleteKeepsIInv, TaskCreateReadKeepsIInv, TaskInsertKeepsIInv
  DEF Next, Work

THEOREM Invariant == Spec => []IInv
  BY IInvInit, IInvNext, PTL DEF Spec

-----------------------------------------------------------------------------
(* What it is for.                                                         *)

\* No row ever refers to one that is gone.
THEOREM NoDanglingRows == Spec => []TypeOK
<1>1. IInv => TypeOK
  BY DEF IInv
<1> QED
  BY <1>1, Invariant, PTL

\* A task's copies of its project's owner and company are stale only about a
\* company that no longer exists.
THEOREM CopiesStayRight == Spec => []CopiesMatch
<1>1. IInv => CopiesMatch
  BY DEF IInv, TypeOK, RowsHold, CopiesHold, CopiesMatch
<1> QED
  BY <1>1, Invariant, PTL

\* Tasks and their projects are reached by the same users, those who hold the
\* permissions on both on equal terms, though the two are decided from different
\* rows.
THEOREM SameReach == Spec => []TaskAccessFollowsProject
<1>1. ASSUME IInv PROVE TaskAccessFollowsProject
  <2> SUFFICES ASSUME NEW u \in users, NEW t \in TaskRows, NEW keys \in Held[u],
                      OnEqualTerms(keys)
               PROVE  reachesTask(u, keys, t) <=> reachesProject(u, keys, tasks[t].projectId)
    BY DEF TaskAccessFollowsProject
  <2> DEFINE task == tasks[t]
             project == projects[task.projectId]
  <2>1. task.projectId \in ProjectRows /\ Matches(task)
    BY <1>1 DEF IInv, TypeOK, RowsHold, CopiesHold
  <2>2. \A c : memberOf(u, c) => c \in companies /\ c # NoCompany
    BY <1>1, WorkspaceAssumption DEF IInv, TypeOK, memberOf
  <2>3. /\ task.projectOwnerId = u <=> project.ownerId = u
        /\ memberOf(u, task.projectCompanyId) <=> memberOf(u, project.companyId)
    BY <2>1, <2>2 DEF Matches
  <2>4. CASE MANAGE_ALL \in keys
    BY <2>4 DEF reachesTask, reachesProject, opens
  <2>5. CASE MANAGE_ALL \notin keys
    <3>1. /\ keys \cap {MANAGE_ALL, "projects.read.all"} # {} <=> "projects.read.all" \in keys
          /\ keys \cap {MANAGE_ALL, "tasks.read.all"} # {} <=> "tasks.read.all" \in keys
      BY <2>5
    <3>2. /\ "projects.read.all" \in keys <=> "tasks.read.all" \in keys
          /\ keys \cap PROJECT_READS # {} <=> keys \cap TASK_READS # {}
      BY <2>5 DEF OnEqualTerms
    <3> QED
      BY <2>3, <3>1, <3>2 DEF reachesTask, reachesProject, opens
  <2> QED
    BY <2>4, <2>5
<1> QED
  BY <1>1, Invariant, PTL

-----------------------------------------------------------------------------
(* The records beside the workspace                                        *)

\* Every step is one of the workspace or leaves it alone.
LEMMA StepRefines == [RecordsNext]_allVars => [Next]_vars
<1> SUFFICES ASSUME RecordsNext \/ UNCHANGED allVars PROVE Next \/ UNCHANGED vars
  OBVIOUS
<1>1. CASE WorkspaceStep
  BY <1>1 DEF WorkspaceStep, Next
<1>2. CASE RestartAll
  BY <1>2 DEF RestartAll, Next
<1>3. ASSUME NEW q \in Calls, NEW u, NEW keys, NEW i,
             \/ Ask(q, u, keys) \/ CreateInsert(q, i)
             \/ UpdateWrite(q) \/ Delete(q) \/ WriteFails(q)
      PROVE UNCHANGED vars
  BY <1>3 DEF Ask, CreateResolve, UpdateResolve, DeleteFind, CreateInsert, UpdateWrite, Delete,
              WriteFails
<1>4. CASE UNCHANGED allVars
  BY <1>4 DEF allVars
<1> QED
  BY <1>1, <1>2, <1>3, <1>4 DEF RecordsNext

\* The records change nothing in the workspace.
THEOREM ImplementsWorkspace == RecordsSpec => Spec
<1>1. RecordsInit => Init
  BY DEF RecordsInit
<1> QED
  BY <1>1, StepRefines, PTL DEF RecordsSpec, Spec

-----------------------------------------------------------------------------
(* The rows and the calls about them.                                      *)

\* A call in flight carries a link that fits the kind of its row, and speaks of
\* a row that was once inserted.
CallFits(c) ==
    /\ c.pc = "insert" => c.row.link \in LinkableTo(c.row.kind) \cup {NoLink}
    /\ c.pc \in {"update", "delete"} => c.id \in usedIds
    /\ c.pc = "update" /\ c.id \in RecordRows =>
          c.link \in LinkableTo(records[c.id].kind) \cup {NoLink}

RecordsInv == RecordsTypeOK /\ \A q \in Calls : CallFits(call[q])

LEMMA RecordCallFields ==
    ASSUME NEW c \in Call
    PROVE  /\ c.pc = "insert" => c.row \in Record
           /\ c.pc = "update" => /\ c.by \in Linker /\ c.id \in RecordIds
                                 /\ c.link \in TaskIds \cup ProjectIds \cup {NoLink}
           /\ c.pc = "delete" => c.id \in RecordIds
  BY DEF Call

LEMMA LinkableToType == \A kind : LinkableTo(kind) \subseteq TaskIds \cup ProjectIds
  BY DEF LinkableTo

\* What a step of the workspace makes of a row: it goes with its owner, loses a
\* link that is gone, or stays as it is.
LEMMA CascadedRow ==
    ASSUME RecordsTypeOK, records' = Cascaded, NEW i \in RecordIds
    PROVE  \/ records'[i] = NoRow
           \/ /\ i \in RecordRows /\ records[i].userId \in users'
              /\ \/ records'[i] = records[i] /\ records[i].link \in Linkable'
                 \/ /\ records'[i] = Unlinked(records[i])
                    /\ records[i].link \notin Linkable'
  BY DEF Cascaded, RecordsTypeOK

\* What it means to lose a link.
LEMMA UnlinkedRow ==
    ASSUME NEW row \in Record
    PROVE  /\ Unlinked(row) \in Record /\ Unlinked(row) # NoRow
           /\ Unlinked(row).kind = row.kind /\ Unlinked(row).userId = row.userId
           /\ Unlinked(row).link = NoLink
<1>1. Unlinked(row) \in Record
  BY DEF Record, Unlinked
<1> QED
  BY <1>1, RecordsAssumption DEF Record, Unlinked

LEMMA CascadeKeepsRecords ==
    ASSUME RecordsInv, records' = Cascaded, UNCHANGED usedIds,
           \A q \in Calls : call'[q] = call[q] \/ call'[q] = Idle,
           call' \in [Calls -> Call]
    PROVE  RecordsInv'
<1> USE DEF RecordsInv
<1>1. \A i \in RecordIds : records'[i] \in Record \cup {NoRow}
  <2> SUFFICES ASSUME NEW i \in RecordIds, records'[i] # NoRow PROVE records'[i] \in Record
    OBVIOUS
  <2>1. records[i] \in Record
    BY CascadedRow DEF RecordsTypeOK, RecordRows
  <2> QED
    BY <2>1, CascadedRow, UnlinkedRow
<1>2. records' \in [RecordIds -> Record \cup {NoRow}]
  BY <1>1 DEF Cascaded
<1>3. ASSUME NEW i \in RecordRows'
      PROVE  /\ i \in RecordRows /\ records'[i].kind = records[i].kind
             /\ records'[i].userId \in users'
             /\ records'[i].link \in Linkable'
             /\ records'[i].link \in LinkableTo(records'[i].kind) \cup {NoLink}
  <2>1. i \in RecordIds /\ records'[i] # NoRow
    BY DEF RecordRows
  <2>2. i \in RecordRows /\ records[i] \in Record
    BY <2>1, CascadedRow DEF RecordsTypeOK, RecordRows
  <2>3. NoLink \in Linkable'
    BY DEF Linkable
  <2> QED
    BY <2>1, <2>2, <2>3, CascadedRow, UnlinkedRow DEF RecordsTypeOK
<1>4. RecordsTypeOK'
  BY <1>2, <1>3 DEF RecordsTypeOK, RecordRows
<1>5. ASSUME NEW q \in Calls PROVE CallFits(call[q])'
  <2>1. CASE call'[q] = Idle
    BY <2>1 DEF CallFits, Idle
  <2>2. CASE call'[q] = call[q]
    BY <2>2, <1>3 DEF CallFits
  <2> QED
    BY <2>1, <2>2
<1> QED
  BY <1>4, <1>5

\* A user who sees a task or project as a member of its company sees it through one.
LEMMA MembersLink ==
    ASSUME TypeOK, NEW u \in UserIds, NEW keys \in SUBSET Key, NEW x
    PROVE  linker(u, keys, x) \in Linker
<1>1. memberOf(u, companyOf(x)) => companyOf(x) \in CompanyIds
  BY DEF TypeOK, memberOf
<1> QED
  BY <1>1 DEF linker, Linker

LEMMA CallsKeepRecords ==
    ASSUME RecordsInv, TypeOK, NEW q \in Calls, UNCHANGED vars,
           \/ \E u \in UserIds : \E keys \in Held[u] : Ask(q, u, keys)
           \/ \E i \in RecordIds : CreateInsert(q, i)
           \/ UpdateWrite(q) \/ Delete(q) \/ WriteFails(q)
    PROVE  RecordsInv'
<1> USE DEF RecordsInv
<1>l. Linkable' = Linkable /\ users' = users
  BY DEF vars, tables, Linkable, ProjectRows, TaskRows
<1>n. NoRow \notin Record
  BY RecordsAssumption
<1>i. Idle \in Call /\ Idle.pc = "idle"
  BY DEF Idle, Call
\* A call that ends leaves the others as they are.
<1>e. ASSUME Goes(q, Idle), RecordsTypeOK', usedIds \subseteq usedIds',
             \A i \in RecordRows' \cap usedIds :
                i \in RecordRows /\ records'[i].kind = records[i].kind
      PROVE  RecordsInv'
  <2>1. ASSUME NEW p \in Calls PROVE CallFits(call[p])'
    <3>1. CASE p = q
      BY <1>e, <3>1 DEF Goes, CallFits, RecordsTypeOK, Idle
    <3>2. CASE p # q
      BY <1>e, <3>2 DEF Goes, CallFits, RecordsTypeOK
    <3> QED
      BY <3>1, <3>2
  <2> QED
    BY <1>e, <2>1
\* A call that starts changes no row.
<1>s. ASSUME NEW c \in Call, Goes(q, c), CallFits(c), UNCHANGED <<records, usedIds>>
      PROVE  RecordsInv'
  <2>1. RecordsTypeOK'
    BY <1>s, <1>l DEF RecordsTypeOK, Goes, RecordRows
  <2>2. ASSUME NEW p \in Calls PROVE CallFits(call[p])'
    BY <1>s DEF Goes, CallFits, RecordsTypeOK, RecordRows
  <2> QED
    BY <2>1, <2>2
<1>k. ASSUME NEW u \in UserIds, NEW keys \in Held[u], NEW x
      PROVE  keys \in SUBSET Key /\ linker(u, keys, x) \in Linker
  BY MembersLink, WorkspaceAssumption
<1>1. ASSUME NEW u \in UserIds, NEW keys \in Held[u], NEW kind \in Kinds,
             NEW x \in TaskIds \cup ProjectIds \cup {NoLink}, CreateResolve(q, u, keys, kind, x)
      PROVE  RecordsInv'
  <2> PICK row : row = [kind |-> kind, userId |-> u, link |-> x,
                        linkedBy |-> linkedBy(linker(u, keys, x), x)]
    OBVIOUS
  <2> PICK c : c = [pc |-> "insert", row |-> row]
    OBVIOUS
  <2>1. row \in Record /\ row.link = x /\ row.kind = kind
    BY <1>k DEF Record, linkedBy
  <2>2. c \in Call /\ c.row = row /\ c.pc = "insert"
    BY <2>1 DEF Call
  <2>3. CallFits(c)
    BY <1>1, <2>1, <2>2 DEF CreateResolve, visible, CallFits
  <2> QED
    BY <1>1, <1>s, <2>2, <2>3 DEF CreateResolve
<1>2. ASSUME NEW u \in UserIds, NEW keys \in Held[u], NEW i \in RecordIds,
             NEW x \in TaskIds \cup ProjectIds \cup {NoLink}, UpdateResolve(q, u, keys, i, x)
      PROVE  RecordsInv'
  <2> PICK c : c = [pc |-> "update", by |-> linker(u, keys, x), id |-> i, link |-> x]
    OBVIOUS
  <2>1. c \in Call /\ c.pc = "update" /\ c.id = i /\ c.link = x
    BY <1>k DEF Call
  <2>2. CallFits(c)
    BY <1>2, <2>1 DEF UpdateResolve, visible, CallFits, RecordsTypeOK
  <2> QED
    BY <1>2, <1>s, <2>1, <2>2 DEF UpdateResolve
<1>3. ASSUME NEW u \in UserIds, NEW keys \in Held[u], NEW i \in RecordIds,
             DeleteFind(q, u, keys, i)
      PROVE  RecordsInv'
  <2> PICK c : c = [pc |-> "delete", by |-> [user |-> u, keys |-> keys], id |-> i]
    OBVIOUS
  <2>1. c \in Call /\ c.pc = "delete" /\ c.id = i
    BY <1>k DEF Call
  <2>2. CallFits(c)
    BY <1>3, <2>1 DEF DeleteFind, CallFits, RecordsTypeOK
  <2> QED
    BY <1>3, <1>s, <2>1, <2>2 DEF DeleteFind
<1>4. ASSUME NEW i \in RecordIds, CreateInsert(q, i)
      PROVE  RecordsInv'
  <2> DEFINE row == call[q].row
  <2>1. row \in Record /\ row.userId \in users /\ row.link \in Linkable
        /\ row.link \in LinkableTo(row.kind) \cup {NoLink}
    BY <1>4, RecordCallFields DEF CreateInsert, RecordsTypeOK, CallFits
  <2>2. /\ records' = [records EXCEPT ![i] = row] /\ usedIds' = usedIds \cup {i}
        /\ Goes(q, Idle) /\ i \notin usedIds
    BY <1>4 DEF CreateInsert
  <2>3. RecordsTypeOK'
    BY <2>1, <2>2, <1>l, <1>i DEF RecordsTypeOK, RecordRows, Goes
  <2> QED
    BY <2>2, <2>3, <1>e DEF RecordsTypeOK, RecordRows
<1>5. CASE UpdateWrite(q)
  <2> DEFINE c == call[q]
             row == [records[c.id] EXCEPT !.link = c.link, !.linkedBy = linkedBy(c.by, c.link)]
  <2>1. /\ c.id \in RecordRows /\ c.link \in Linkable
        /\ c.link \in LinkableTo(records[c.id].kind) \cup {NoLink}
    BY <1>5 DEF UpdateWrite, CallFits
  <2>2. records[c.id] \in Record /\ c.by \in Linker
        /\ c.link \in TaskIds \cup ProjectIds \cup {NoLink}
    BY <1>5, <2>1, RecordCallFields DEF UpdateWrite, RecordsTypeOK, RecordRows
  <2>3. /\ row \in Record /\ row.kind = records[c.id].kind
        /\ row.userId = records[c.id].userId /\ row.link = c.link
    BY <2>2 DEF Record, linkedBy
  <2>4. records' = [records EXCEPT ![c.id] = row] /\ usedIds' = usedIds /\ Goes(q, Idle)
    BY <1>5, <2>1 DEF UpdateWrite
  <2>5. RecordsTypeOK'
    BY <2>1, <2>3, <2>4, <1>l, <1>i DEF RecordsTypeOK, RecordRows, Goes
  <2> QED
    BY <2>3, <2>4, <2>5, <1>e, <1>n, <2>2 DEF RecordsTypeOK, RecordRows
<1>6. CASE Delete(q)
  <2>1. /\ records' = [records EXCEPT ![call[q].id] = NoRow] /\ usedIds' = usedIds
        /\ Goes(q, Idle)
    BY <1>6 DEF Delete
  <2>2. RecordsTypeOK'
    BY <2>1, <1>l, <1>i DEF RecordsTypeOK, RecordRows, Goes
  <2> QED
    BY <2>1, <2>2, <1>e DEF RecordsTypeOK, RecordRows
<1>7. CASE WriteFails(q)
  BY <1>7, <1>s, <1>i DEF WriteFails, CallFits, Idle
<1> QED
  BY <1>1, <1>2, <1>3, <1>4, <1>5, <1>6, <1>7 DEF Ask

LEMMA RecordsInvInit == RecordsInit => RecordsInv
  BY DEF RecordsInit, RecordsInv, RecordsTypeOK, CallFits, RecordRows, Call, Idle

LEMMA RecordsInvNext == TypeOK /\ RecordsInv /\ [RecordsNext]_allVars => RecordsInv'
<1> SUFFICES ASSUME TypeOK, RecordsInv, RecordsNext \/ UNCHANGED allVars PROVE RecordsInv'
  OBVIOUS
<1>i. Idle \in Call
  BY DEF Idle, Call
<1>1. CASE WorkspaceStep
  BY <1>1, CascadeKeepsRecords DEF WorkspaceStep, RecordsInv, RecordsTypeOK
<1>2. CASE RestartAll
  <2>1. UNCHANGED tables /\ UNCHANGED <<records, usedIds>> /\ call' = [q \in Calls |-> Idle]
    BY <1>2 DEF RestartAll, Restart
  <2>2. RecordsTypeOK'
    BY <2>1, <1>i DEF RecordsInv, RecordsTypeOK, RecordRows, Linkable, ProjectRows, TaskRows, tables
  <2> QED
    BY <2>1, <2>2 DEF RecordsInv, CallFits, Idle
<1>3. CASE UNCHANGED allVars
  BY <1>3 DEF allVars, recordVars, vars, tables, RecordsInv, RecordsTypeOK, CallFits,
              RecordRows, Linkable, ProjectRows, TaskRows
<1>4. ASSUME NEW q \in Calls,
           \/ \E u \in UserIds : \E keys \in Held[u] : Ask(q, u, keys)
           \/ \E i \in RecordIds : CreateInsert(q, i)
           \/ UpdateWrite(q) \/ Delete(q) \/ WriteFails(q)
      PROVE RecordsInv'
  <2>1. UNCHANGED vars
    BY <1>4 DEF Ask, CreateResolve, UpdateResolve, DeleteFind, CreateInsert, UpdateWrite, Delete,
                WriteFails
  <2> QED
    BY <1>4, <2>1, CallsKeepRecords
<1> QED
  BY <1>1, <1>2, <1>3, <1>4 DEF RecordsNext

LEMMA RecordsInvariant == RecordsSpec => []RecordsInv
  BY RecordsInvInit, RecordsInvNext, ImplementsWorkspace, NoDanglingRows, PTL DEF RecordsSpec

\* No row outlives its owner, or keeps a link to what is gone.
THEOREM NoOrphanedRecords == RecordsSpec => []RecordsTypeOK
<1>1. RecordsInv => RecordsTypeOK
  BY DEF RecordsInv
<1> QED
  BY <1>1, RecordsInvariant, PTL

-----------------------------------------------------------------------------
(* What a row links to stays within the reach of whoever linked it.        *)

\* A step of the workspace brings nothing back, moves no task or project, and
\* takes a member from a company only together with one of the two.
NothingComesBack ==
    /\ used \subseteq used'
    /\ (users' \ users) \cap used = {} /\ (companies' \ companies) \cap used = {}
    /\ \A t \in TaskIds \cap used : tasks'[t] # NoRow => tasks'[t] = tasks[t]
    /\ \A p \in ProjectIds \cap used :
          projects'[p] # NoRow =>
              /\ projects[p] # NoRow
              /\ projects'[p].ownerId = projects[p].ownerId
              /\ \/ projects'[p].companyId = projects[p].companyId
                 \/ projects[p].companyId \notin companies'
    /\ \A u, c : <<u, c>> \in members /\ u \in users' /\ c \in companies' => <<u, c>> \in members'

LEMMA StepBringsNothingBack == IInv /\ [Next]_vars => NothingComesBack
<1> SUFFICES ASSUME IInv, [Next]_vars PROVE NothingComesBack
  OBVIOUS
<1>t. /\ projects \in [ProjectIds -> Project \cup {NoRow}]
      /\ tasks \in [TaskIds -> Task \cup {NoRow}]
      /\ members \subseteq users \X companies
  BY DEF IInv, TypeOK
<1>1. CASE UNCHANGED tables
  BY <1>1 DEF NothingComesBack, tables
<1>2. ASSUME NEW u \in UserIds, Register(u) PROVE NothingComesBack
  BY <1>2 DEF NothingComesBack, Register
<1>3. ASSUME NEW u \in UserIds, DeleteUser(u) PROVE NothingComesBack
  BY <1>3, <1>t DEF NothingComesBack, DeleteUser
<1>4. ASSUME NEW u \in UserIds, NEW c \in CompanyIds, CompanyInsert(u, c)
      PROVE  NothingComesBack
  BY <1>4 DEF NothingComesBack, CompanyInsert
<1>5. ASSUME NEW u \in UserIds, NEW p \in ProjectIds, NEW c \in CompanyIds \cup {NoCompany},
             ProjectCreate(u, p, c)
      PROVE  NothingComesBack
  BY <1>5, <1>t DEF NothingComesBack, ProjectCreate
<1>6. ASSUME NEW r \in Requests, CompanyDelete(r) PROVE NothingComesBack
  <2> DEFINE c == request[r].id
  <2>1. \A p \in ProjectIds :
           \/ projects'[p] = projects[p]
           \/ /\ p \in ProjectRows /\ projects[p].companyId \notin companies'
              /\ projects'[p] = [projects[p] EXCEPT !.companyId = NoCompany]
    BY <1>6, <1>t DEF CompanyDelete, WithoutCompany
  <2>2. ASSUME NEW p \in ProjectIds, projects'[p] # NoRow
        PROVE  /\ projects[p] # NoRow
               /\ projects'[p].ownerId = projects[p].ownerId
               /\ \/ projects'[p].companyId = projects[p].companyId
                  \/ projects[p].companyId \notin companies'
    <3>1. CASE projects'[p] = projects[p]
      BY <2>2, <3>1
    <3>2. CASE /\ p \in ProjectRows /\ projects[p].companyId \notin companies'
               /\ projects'[p] = [projects[p] EXCEPT !.companyId = NoCompany]
      BY <3>2, <1>t DEF ProjectRows, Project
    <3> QED
      BY <2>1, <3>1, <3>2
  <2>3. \A u, d : <<u, d>> \in members /\ d \in companies' => <<u, d>> \in members'
    BY <1>6, <1>t DEF CompanyDelete
  <2> QED
    BY <1>6, <2>2, <2>3 DEF NothingComesBack, CompanyDelete
<1>7. ASSUME NEW r \in Requests, ProjectDelete(r) PROVE NothingComesBack
  BY <1>7, <1>t DEF NothingComesBack, ProjectDelete, WithoutTasksOf
<1>8. ASSUME NEW r \in Requests, TaskDelete(r) PROVE NothingComesBack
  BY <1>8, <1>t DEF NothingComesBack, TaskDelete
<1>9. ASSUME NEW r \in Requests, NEW t \in TaskIds, TaskInsert(r, t) PROVE NothingComesBack
  BY <1>9, <1>t DEF NothingComesBack, TaskInsert
<1>10. ASSUME NEW r, NEW u, NEW c, NEW p, NEW t,
              \/ CompanyDeleteRead(r, u, c) \/ ProjectDeleteRead(r, u, p)
              \/ TaskCreateRead(r, u, p) \/ TaskDeleteRead(r, u, t) \/ Gone(r) \/ Restart
       PROVE  UNCHANGED tables
  BY <1>10 DEF CompanyDeleteRead, ProjectDeleteRead, TaskCreateRead, TaskDeleteRead, Gone, Restart
<1>11. CASE Next
  BY <1>1, <1>2, <1>3, <1>4, <1>5, <1>6, <1>7, <1>8, <1>9, <1>10, <1>11 DEF Next, Work
<1>12. CASE UNCHANGED vars
  BY <1>1, <1>12 DEF vars
<1> QED
  BY <1>11, <1>12

\* How somebody who linked to a row with this owner and company goes on seeing it:
\* by a key that opens all, as the owner, or as a member, until the company goes.
Sees(by, all, own, ownerId, companyId) ==
    \/ by.keys \cap all # {}
    \/ /\ by.keys \cap own # {}
       /\ ownerId = by.user \/ (companyId = by.through /\ memberOf(by.user, companyId))
    \/ LostItsCompany(by)

SeesProject(by, p) ==
    Sees(by, {MANAGE_ALL, "projects.read.all"}, PROJECT_READS,
         projects[p].ownerId, projects[p].companyId)

SeesTask(by, t) ==
    Sees(by, {MANAGE_ALL, "tasks.read.all"}, TASK_READS,
         tasks[t].projectOwnerId, tasks[t].projectCompanyId)

\* What is true of x for as long as x is there.
Within(by, x) ==
    x # NoLink =>
        /\ x \in used /\ by.through \in used \cup {NoCompany}
        /\ x \in TaskRows => SeesTask(by, x)
        /\ x \in ProjectRows => SeesProject(by, x)

\* It stays seen: the owner is the same, and the company is, or is gone.
LEMMA SeesKept ==
    ASSUME TypeOK, NothingComesBack, NEW by,
           MANAGE_ALL \in by.keys \/ by.user \in users \cap users',
           by.through \in used \cup {NoCompany}, NEW all, MANAGE_ALL \in all, NEW own, NEW o, NEW c,
           Sees(by, all, own, o, c), NEW d, d = c \/ c \notin companies'
    PROVE  Sees(by, all, own, o, d)'
<1>1. CASE by.keys \cap all # {}
  BY <1>1 DEF Sees
<1>2. CASE by.keys \cap own # {} /\ o = by.user
  BY <1>2 DEF Sees
<1>3. CASE LostItsCompany(by)
  BY <1>3 DEF Sees, LostItsCompany, NothingComesBack
<1>4. CASE /\ by.keys \cap all = {} /\ by.keys \cap own # {}
           /\ c = by.through /\ memberOf(by.user, c)
  <2>1. c \in companies /\ c # NoCompany
    BY <1>4, WorkspaceAssumption DEF memberOf, TypeOK
  <2>2. CASE c \in companies'
    <3>1. memberOf(by.user, c)' /\ d = c
      BY <1>4, <2>2 DEF NothingComesBack, memberOf
    <3> QED
      BY <1>4, <3>1 DEF Sees
  <2>3. CASE c \notin companies'
    BY <1>4, <2>1, <2>3 DEF Sees, LostItsCompany
  <2> QED
    BY <2>2, <2>3
<1> QED
  BY <1>1, <1>2, <1>3, <1>4 DEF Sees

LEMMA WithinKept ==
    ASSUME IInv, IInv', [Next]_vars, NEW by,
           MANAGE_ALL \in by.keys \/ by.user \in users \cap users', NEW x, Within(by, x)
    PROVE  Within(by, x)'
<1> USE DEF IInv
<1>1. NothingComesBack
  BY StepBringsNothingBack
<1>2. ASSUME x # NoLink PROVE x \in used' /\ by.through \in used' \cup {NoCompany}
  BY <1>1, <1>2 DEF Within, NothingComesBack
<1>3. ASSUME x # NoLink, x \in TaskRows' PROVE SeesTask(by, x)'
  <2>1. x \in TaskIds /\ x \in used /\ tasks'[x] = tasks[x] /\ x \in TaskRows
    BY <1>1, <1>3 DEF Within, NothingComesBack, TaskRows
  <2> PICK o, c : o = tasks[x].projectOwnerId /\ c = tasks[x].projectCompanyId
    OBVIOUS
  <2>2. Sees(by, {MANAGE_ALL, "tasks.read.all"}, TASK_READS, o, c)
    BY <1>3, <2>1 DEF Within, SeesTask
  <2>3. Sees(by, {MANAGE_ALL, "tasks.read.all"}, TASK_READS, o, c)'
    BY <1>1, <1>3, <2>2, SeesKept DEF Within
  <2> QED
    BY <2>1, <2>3 DEF SeesTask
<1>4. ASSUME x # NoLink, x \in ProjectRows' PROVE SeesProject(by, x)'
  <2> PICK o, c, d : /\ o = projects[x].ownerId /\ c = projects[x].companyId
                     /\ d = projects'[x].companyId
    OBVIOUS
  <2>1. /\ x \in ProjectIds /\ x \in used /\ x \in ProjectRows
        /\ projects'[x].ownerId = o
        /\ d = c \/ c \notin companies'
    BY <1>1, <1>4 DEF Within, NothingComesBack, ProjectRows
  <2>2. Sees(by, {MANAGE_ALL, "projects.read.all"}, PROJECT_READS, o, c)
    BY <1>4, <2>1 DEF Within, SeesProject
  <2>3. Sees(by, {MANAGE_ALL, "projects.read.all"}, PROJECT_READS, o, d)'
    BY <1>1, <1>4, <2>1, <2>2, SeesKept DEF Within
  <2> QED
    BY <2>1, <2>3 DEF SeesProject
<1> QED
  BY <1>2, <1>3, <1>4 DEF Within

LEMMA WithinStays ==
    ASSUME UNCHANGED tables, NEW by, NEW x
    PROVE  Within(by, x)' <=> Within(by, x)
  BY DEF tables, Within, TaskRows, ProjectRows, SeesTask, SeesProject, Sees, LostItsCompany, memberOf

\* Whoever finds a row has a key for it, or is in its company, which is noted.
LEMMA VisibleIsWithin ==
    ASSUME IInv, NEW u, NEW keys, NEW kind, NEW x, x = NoLink \/ visible(u, keys, kind, x)
    PROVE  Within(linker(u, keys, x), x)
<1> PICK by : by = linker(u, keys, x)
  OBVIOUS
<1>0. /\ by.user = u /\ by.keys = keys
      /\ memberOf(u, companyOf(x)) => by.through = companyOf(x)
      /\ ~ memberOf(u, companyOf(x)) => by.through = NoCompany
  BY DEF linker
<1>t. by.through \in used \cup {NoCompany}
  BY <1>0 DEF memberOf, IInv, TypeOK
<1>1. CASE x = NoLink
  BY <1>1 DEF Within
<1>2. CASE x \in ProjectRows /\ reachesProject(u, keys, x)
  <2>1. x \in used /\ x \notin TaskRows
    BY <1>2, RecordsAssumption DEF IInv, TypeOK, TaskRows, ProjectRows
  <2>2. companyOf(x) = projects[x].companyId
    BY <1>2, <2>1 DEF companyOf
  <2>3. SeesProject(by, x)
    BY <1>0, <1>2, <2>2 DEF SeesProject, Sees, reachesProject, opens
  <2> QED
    BY <1>t, <2>1, <2>3 DEF Within
<1>3. CASE x \in TaskRows /\ reachesTask(u, keys, x)
  <2>1. x \in used /\ x \notin ProjectRows
    BY <1>3, RecordsAssumption DEF IInv, TypeOK, TaskRows, ProjectRows
  <2>2. companyOf(x) = tasks[x].projectCompanyId
    BY <1>3, <2>1 DEF companyOf
  <2>3. SeesTask(by, x)
    BY <1>0, <1>3, <2>2 DEF SeesTask, Sees, reachesTask, opens
  <2> QED
    BY <1>t, <2>1, <2>3 DEF Within
<1> QED
  BY <1>1, <1>2, <1>3 DEF visible

\* On behalf of the user, or with the key to everything.
Entitled(by, userId) == MANAGE_ALL \in by.keys \/ by.user = userId

\* A row was linked by its owner or with `manage.all', by one who could see the link.
RowReach(row) ==
    row.link # NoLink => Entitled(row.linkedBy, row.userId) /\ Within(row.linkedBy, row.link)

\* So will be the one a call in flight is about to write, if its caller is still
\* there.
CallReach(c) ==
    /\ c.pc = "insert" /\ c.row.link # NoLink =>
          /\ c.row.linkedBy.user = c.row.userId /\ c.row.userId \in used
          /\ c.row.userId \in users => Within(c.row.linkedBy, c.row.link)
    /\ c.pc \in {"update", "delete"} /\ c.id \in RecordRows =>
          Entitled(c.by, records[c.id].userId)
    /\ c.pc = "update" /\ c.id \in RecordRows => Within(c.by, c.link)

ReachInv ==
    /\ IInv /\ RecordsInv
    /\ \A i \in RecordRows : RowReach(records[i])
    /\ \A q \in Calls : CallReach(call[q])

LEMMA ReachInvInit == RecordsInit => ReachInv
  BY IInvInit, RecordsInvInit DEF RecordsInit, ReachInv, RecordRows, CallReach, Idle

\* What the rows and calls link to stays within reach over a step of the
\* workspace, which takes the rows of a deleted user along.
LEMMA CascadeKeepsReach ==
    ASSUME ReachInv, IInv', RecordsInv', Work, records' = Cascaded, UNCHANGED call
    PROVE  ReachInv'
<1> USE DEF ReachInv
<1>0. [Next]_vars
  BY DEF Next
<1>u. users \subseteq used /\ NothingComesBack
  BY <1>0, StepBringsNothingBack DEF IInv, TypeOK
<1>1. ASSUME NEW i \in RecordRows'
      PROVE  /\ i \in RecordRows /\ records'[i].userId = records[i].userId
             /\ records[i].userId \in users \cap users'
             /\ records'[i].link = NoLink \/ records'[i] = records[i]
  <2>1. i \in RecordIds /\ records'[i] # NoRow
    BY DEF RecordRows
  <2>2. i \in RecordRows /\ records[i] \in Record
    BY <2>1, CascadedRow DEF RecordsInv, RecordsTypeOK, RecordRows
  <2> QED
    BY <2>1, <2>2, CascadedRow, UnlinkedRow DEF RecordsInv, RecordsTypeOK
<1>2. ASSUME NEW i \in RecordRows' PROVE RowReach(records[i])'
  <2>1. RowReach(records[i])
    BY <1>1
  <2>2. CASE records'[i].link = NoLink
    BY <2>2 DEF RowReach
  <2>3. CASE records'[i] = records[i] /\ records[i].link # NoLink
    <3> PICK by, x, owner :
            /\ by = records[i].linkedBy /\ x = records[i].link /\ owner = records[i].userId
      OBVIOUS
    <3>1. Entitled(by, owner) /\ Within(by, x)
      BY <2>1, <2>3 DEF RowReach
    <3>2. Within(by, x)'
      BY <1>0, <1>1, <3>1, WithinKept DEF Entitled
    <3> QED
      BY <2>3, <3>1, <3>2 DEF RowReach, Entitled
  <2> QED
    BY <1>1, <2>2, <2>3
<1>3. ASSUME NEW q \in Calls PROVE CallReach(call[q])'
  <2> PICK c : c = call[q]
    OBVIOUS
  <2>1. CallReach(c) /\ call'[q] = c
    OBVIOUS
  <2>2. ASSUME c.pc = "insert", c.row.link # NoLink, c.row.userId \in users'
        PROVE  Within(c.row.linkedBy, c.row.link)'
    <3>1. c.row.userId \in users \cap users' /\ c.row.linkedBy.user = c.row.userId
      BY <1>u, <2>1, <2>2 DEF CallReach, NothingComesBack
    <3>2. Within(c.row.linkedBy, c.row.link)
      BY <2>1, <2>2, <3>1 DEF CallReach
    <3> QED
      BY <1>0, <3>1, <3>2, WithinKept
  <2>3. ASSUME c.pc = "update", c.id \in RecordRows' PROVE Within(c.by, c.link)'
    <3>1. Entitled(c.by, records[c.id].userId) /\ Within(c.by, c.link)
          /\ records[c.id].userId \in users \cap users'
      BY <1>1, <2>1, <2>3 DEF CallReach
    <3> QED
      BY <1>0, <3>1, WithinKept DEF Entitled
  <2>4. c.pc \in {"update", "delete"} /\ c.id \in RecordRows' =>
            Entitled(c.by, records'[c.id].userId)
    BY <1>1, <2>1 DEF CallReach
  <2>5. CallReach(c)'
    BY <1>u, <2>1, <2>2, <2>3, <2>4 DEF CallReach, NothingComesBack, Entitled
  <2> QED
    BY <2>1, <2>5
<1> QED
  BY <1>2, <1>3

LEMMA CallsKeepReach ==
    ASSUME ReachInv, IInv', RecordsInv', NEW q \in Calls, UNCHANGED vars,
           \/ \E u \in UserIds : \E keys \in Held[u] : Ask(q, u, keys)
           \/ \E i \in RecordIds : CreateInsert(q, i)
           \/ UpdateWrite(q) \/ Delete(q) \/ WriteFails(q)
    PROVE  ReachInv'
<1> USE DEF ReachInv
<1>n. NoRow \notin Record
  BY RecordsAssumption
<1>t. /\ records \in [RecordIds -> Record \cup {NoRow}] /\ call \in [Calls -> Call]
      /\ RecordRows \subseteq usedIds /\ users \subseteq used
      /\ UNCHANGED tables
  BY DEF RecordsInv, RecordsTypeOK, IInv, TypeOK, vars
<1>w. /\ \A by, x : Within(by, x)' <=> Within(by, x)
      /\ users' = users /\ used' = used
  BY <1>t, WithinStays DEF tables
\* A call that ends, or starts, leaves the others as they are; the rows only lose
\* one, or gain one that no call can speak of yet, or get a new link.
<1>e. ASSUME NEW c, Goes(q, c), CallReach(c)',
             \A i \in RecordRows' \cap usedIds :
                i \in RecordRows /\ records'[i].userId = records[i].userId,
             \A i \in RecordRows' : RowReach(records[i])'
      PROVE  ReachInv'
  <2>1. ASSUME NEW p \in Calls PROVE CallReach(call[p])'
    <3>1. CASE p = q
      BY <1>e, <1>t, <3>1 DEF Goes
    <3>2. CASE p # q
      <4>1. call'[p] = call[p] /\ CallReach(call[p]) /\ CallFits(call[p])
        BY <1>e, <1>t, <3>2 DEF Goes, RecordsInv
      <4> QED
        BY <1>e, <1>w, <4>1 DEF CallReach, CallFits, Entitled
    <3> QED
      BY <3>1, <3>2
  <2> QED
    BY <1>e, <2>1
\* A call that starts changes no row.
<1>s. ASSUME NEW c, Goes(q, c), CallReach(c)', UNCHANGED <<records, usedIds>>
      PROVE  ReachInv'
  <2>1. \A i \in RecordRows' : RowReach(records[i])'
    BY <1>s, <1>w DEF RowReach, Entitled, RecordRows
  <2> QED
    BY <1>s, <1>e, <2>1 DEF RecordRows
<1>i. CallReach(Idle)'
  BY DEF CallReach, Idle
<1>1. ASSUME NEW u \in UserIds, NEW keys \in Held[u], NEW kind \in Kinds,
             NEW x \in TaskIds \cup ProjectIds \cup {NoLink}, CreateResolve(q, u, keys, kind, x)
      PROVE  ReachInv'
  <2> PICK by : by = linker(u, keys, x)
    OBVIOUS
  <2> PICK row : row = [kind |-> kind, userId |-> u, link |-> x, linkedBy |-> linkedBy(by, x)]
    OBVIOUS
  <2> PICK c : c = [pc |-> "insert", row |-> row]
    OBVIOUS
  <2>1. Within(by, x) /\ u \in used
    BY <1>1, <1>t, VisibleIsWithin DEF CreateResolve
  <2>2. /\ c.pc = "insert" /\ c.row = row /\ row.link = x /\ row.userId = u
        /\ row.link # NoLink => row.linkedBy = by
        /\ by.user = u
    BY DEF linkedBy, linker
  <2>3. CallReach(c)'
    BY <2>1, <2>2, <1>w DEF CallReach
  <2> QED
    BY <1>1, <1>s, <2>3 DEF CreateResolve
<1>2. ASSUME NEW u \in UserIds, NEW keys \in Held[u], NEW i \in RecordIds,
             NEW x \in TaskIds \cup ProjectIds \cup {NoLink}, UpdateResolve(q, u, keys, i, x)
      PROVE  ReachInv'
  <2> PICK by : by = linker(u, keys, x)
    OBVIOUS
  <2> PICK c : c = [pc |-> "update", by |-> by, id |-> i, link |-> x]
    OBVIOUS
  <2>1. Within(by, x) /\ reachesRecord(u, keys, i) /\ records' = records
    BY <1>2, VisibleIsWithin DEF UpdateResolve
  <2>2. /\ c.pc = "update" /\ c.by = by /\ c.id = i /\ c.link = x
        /\ by.user = u /\ by.keys = keys
    BY DEF linker
  <2>3. CallReach(c)'
    BY <2>1, <2>2, <1>w DEF CallReach, reachesRecord, Entitled, RecordRows
  <2> QED
    BY <1>2, <1>s, <2>3 DEF UpdateResolve
<1>3. ASSUME NEW u \in UserIds, NEW keys \in Held[u], NEW i \in RecordIds,
             DeleteFind(q, u, keys, i)
      PROVE  ReachInv'
  <2> PICK c : c = [pc |-> "delete", by |-> [user |-> u, keys |-> keys], id |-> i]
    OBVIOUS
  <2>1. reachesRecord(u, keys, i) /\ records' = records
    BY <1>3 DEF DeleteFind
  <2>2. CallReach(c)'
    BY <2>1 DEF CallReach, reachesRecord, Entitled
  <2> QED
    BY <1>3, <1>s, <2>2 DEF DeleteFind
<1>4. ASSUME NEW i \in RecordIds, CreateInsert(q, i)
      PROVE  ReachInv'
  <2> DEFINE row == call[q].row
  <2>1. /\ records' = [records EXCEPT ![i] = row] /\ Goes(q, Idle) /\ i \notin usedIds
        /\ call[q].pc = "insert" /\ row.userId \in users
    BY <1>4 DEF CreateInsert
  <2>2. RowReach(row)
    BY <2>1 DEF CallReach, RowReach, Entitled
  <2>3. \A j \in RecordRows' : RowReach(records[j])'
    BY <2>1, <2>2, <1>t, <1>w DEF RowReach, Entitled, RecordRows
  <2> QED
    BY <2>1, <2>3, <1>e, <1>i, <1>t DEF RecordRows
<1>5. CASE UpdateWrite(q)
  <2> DEFINE c == call[q]
             row == [records[c.id] EXCEPT !.link = c.link, !.linkedBy = linkedBy(c.by, c.link)]
  <2>1. c.pc = "update" /\ c.id \in RecordRows /\ Goes(q, Idle)
    BY <1>5 DEF UpdateWrite
  <2>2. records[c.id] \in Record
    BY <2>1, <1>t DEF RecordRows
  <2>3. /\ row.linkedBy = linkedBy(c.by, c.link) /\ row.userId = records[c.id].userId /\ row.link = c.link
        /\ records' = [records EXCEPT ![c.id] = row]
    BY <1>5, <2>2 DEF UpdateWrite, Record
  <2>4. RowReach(row)
    BY <2>1, <2>3 DEF CallReach, RowReach, linkedBy
  <2>5. \A j \in RecordRows' : RowReach(records[j])'
    BY <2>3, <2>4, <1>t, <1>w DEF RowReach, Entitled, RecordRows
  <2> QED
    BY <2>1, <2>3, <2>5, <1>e, <1>i, <1>t DEF RecordRows
<1>6. CASE Delete(q)
  <2>1. records' = [records EXCEPT ![call[q].id] = NoRow] /\ Goes(q, Idle)
    BY <1>6 DEF Delete
  <2>2. \A j \in RecordRows' : j \in RecordRows /\ records'[j] = records[j]
    BY <2>1, <1>t DEF RecordRows
  <2>3. \A j \in RecordRows' : RowReach(records[j])'
    BY <2>2, <1>w DEF RowReach, Entitled
  <2> QED
    BY <2>1, <2>2, <2>3, <1>e, <1>i
<1>7. CASE WriteFails(q)
  BY <1>7, <1>s, <1>i DEF WriteFails
<1> QED
  BY <1>1, <1>2, <1>3, <1>4, <1>5, <1>6, <1>7 DEF Ask

LEMMA ReachInvNext == ReachInv /\ [RecordsNext]_allVars => ReachInv'
<1> SUFFICES ASSUME ReachInv, [RecordsNext]_allVars PROVE ReachInv'
  OBVIOUS
<1>i. IInv' /\ RecordsInv'
  BY StepRefines, IInvNext, RecordsInvNext DEF ReachInv, IInv
<1>1. CASE WorkspaceStep
  BY <1>1, <1>i, CascadeKeepsReach DEF WorkspaceStep
<1>2. CASE RestartAll
  <2>1. UNCHANGED tables /\ UNCHANGED <<records, usedIds>> /\ call' = [q \in Calls |-> Idle]
    BY <1>2 DEF RestartAll, Restart
  <2>2. \A i \in RecordRows' : RowReach(records[i])'
    BY <2>1, WithinStays DEF ReachInv, RowReach, Entitled, RecordRows
  <2>3. \A q \in Calls : CallReach(call[q])'
    BY <2>1 DEF CallReach, Idle
  <2> QED
    BY <1>i, <2>2, <2>3 DEF ReachInv
<1>3. CASE UNCHANGED allVars
  <2>1. UNCHANGED tables /\ UNCHANGED <<records, usedIds, call>>
    BY <1>3 DEF allVars, recordVars, vars
  <2>2. \A by, x : Within(by, x)' <=> Within(by, x)
    BY <2>1, WithinStays
  <2>3. \A i \in RecordRows' : RowReach(records[i])'
    BY <2>1, <2>2 DEF ReachInv, RowReach, Entitled, RecordRows
  <2>4. \A q \in Calls : CallReach(call[q])'
    BY <2>1, <2>2 DEF ReachInv, CallReach, Entitled, RecordRows, tables
  <2> QED
    BY <1>i, <2>3, <2>4 DEF ReachInv
<1>4. ASSUME NEW q \in Calls,
           \/ \E u \in UserIds : \E keys \in Held[u] : Ask(q, u, keys)
           \/ \E i \in RecordIds : CreateInsert(q, i)
           \/ UpdateWrite(q) \/ Delete(q) \/ WriteFails(q)
      PROVE ReachInv'
  <2>1. UNCHANGED vars
    BY <1>4 DEF Ask, CreateResolve, UpdateResolve, DeleteFind, CreateInsert, UpdateWrite, Delete,
                WriteFails
  <2> QED
    BY <1>4, <1>i, <2>1, CallsKeepReach
<1> QED
  BY <1>1, <1>2, <1>3, <1>4 DEF RecordsNext

LEMMA ReachInvariant == RecordsSpec => []ReachInv
  BY ReachInvInit, ReachInvNext, PTL DEF RecordsSpec

\* Looking a link up before the row is written suffices, although the two are
\* apart: with the keys it was found by, what a row links to stays within reach,
\* or, of those who saw it as members, until their company is deleted.
THEOREM LinksStayWithinReach == RecordsSpec => []LinksWithinReach
<1>1. ReachInv => LinksWithinReach
  <2> SUFFICES ASSUME ReachInv, NEW i \in RecordRows, records[i].link # NoLink
               PROVE  LET x == records[i].link
                          by == records[i].linkedBy
                      IN  \/ x \in TaskRows /\ reachesTask(by.user, by.keys, x)
                          \/ x \in ProjectRows /\ reachesProject(by.user, by.keys, x)
                          \/ LostItsCompany(by)
    BY DEF LinksWithinReach
  <2> PICK x, by : x = records[i].link /\ by = records[i].linkedBy
    OBVIOUS
  <2>1. x \in ProjectRows \cup TaskRows
    BY DEF ReachInv, RecordsInv, RecordsTypeOK, Linkable
  <2>2. Within(by, x)
    BY DEF ReachInv, RowReach
  <2>3. CASE x \in TaskRows
    BY <2>2, <2>3 DEF Within, SeesTask, Sees, reachesTask, opens
  <2>4. CASE x \in ProjectRows
    BY <2>2, <2>4 DEF Within, SeesProject, Sees, reachesProject, opens
  <2> QED
    BY <2>1, <2>3, <2>4
<1> QED
  BY <1>1, ReachInvariant, PTL

\* The row is written by its id alone, after the check: it is still the caller's.
THEOREM OnlyOwnersTouchRecords == RecordsSpec => RecordsTouchedByOwner
<1> DEFINE Touched(i) ==
       records'[i] # records[i] =>
           \/ \E q \in Calls :
                 /\ call[q].pc \in {"update", "delete"} /\ call[q].id = i
                 /\ records[i].userId = call[q].by.user \/ MANAGE_ALL \in call[q].by.keys
                 /\ call'[q] = Idle
                 /\ records'[i] # NoRow => records'[i].userId = records[i].userId
           \/ records'[i] = NoRow /\ records[i].userId \notin users'
           \/ records'[i] = Unlinked(records[i])
              /\ records[i].link \notin Linkable'
<1>1. ASSUME ReachInv, RecordsNext, NEW i \in RecordRows PROVE Touched(i)
  <2>t. /\ records \in [RecordIds -> Record \cup {NoRow}] /\ call \in [Calls -> Call]
        /\ RecordRows \subseteq usedIds /\ i \in RecordIds /\ records[i] \in Record
    BY <1>1 DEF ReachInv, RecordsInv, RecordsTypeOK, RecordRows
  <2>r. \A q \in Calls : CallReach(call[q])
    BY <1>1 DEF ReachInv
  <2>1. CASE WorkspaceStep
    BY <1>1, <2>1, <2>t DEF WorkspaceStep, Cascaded
  <2>2. ASSUME NEW q \in Calls, NEW j \in RecordIds, CreateInsert(q, j) PROVE Touched(i)
    BY <2>2, <2>t DEF CreateInsert
  <2>3. ASSUME NEW q \in Calls, UpdateWrite(q) PROVE Touched(i)
    <3>1. /\ call[q].pc = "update" /\ call'[q] = Idle
          /\ records' = [records EXCEPT ![call[q].id] =
                            [@ EXCEPT !.link = call[q].link,
                                      !.linkedBy = linkedBy(call[q].by, call[q].link)]]
      BY <2>3, <2>t DEF UpdateWrite, Goes
    <3> QED
      BY <3>1, <2>t, <2>r DEF CallReach, Entitled, Record
  <2>4. ASSUME NEW q \in Calls, Delete(q) PROVE Touched(i)
    <3>1. /\ call[q].pc = "delete" /\ call'[q] = Idle
          /\ records' = [records EXCEPT ![call[q].id] = NoRow]
      BY <2>4, <2>t DEF Delete, Goes
    <3> QED
      BY <3>1, <2>t, <2>r DEF CallReach, Entitled
  <2>5. ASSUME NEW q, NEW u, NEW keys, Ask(q, u, keys) \/ WriteFails(q) \/ RestartAll
        PROVE  Touched(i)
    BY <2>5 DEF Ask, CreateResolve, UpdateResolve, DeleteFind, WriteFails, RestartAll
  <2> QED
    BY <1>1, <2>1, <2>2, <2>3, <2>4, <2>5 DEF RecordsNext
<1>2. ReachInv /\ [RecordsNext]_allVars => [\A i \in RecordRows : Touched(i)]_allVars
  BY <1>1
<1> QED
  BY <1>2, ReachInvariant, PTL DEF RecordsSpec, RecordsTouchedByOwner

-----------------------------------------------------------------------------
(* The records are rows of their users: a step inserts one, removes one,   *)
(* takes those of a user along, signs a user up, or leaves all where they  *)
(* are.                                                                    *)

\* After a step of the workspace a row is still its user's, or gone with it.
LEMMA CascadedOwner ==
    ASSUME RecordsTypeOK, records' = Cascaded
    PROVE  Owner' = [i \in RecordIds |-> IF Owner[i] \in users' THEN Owner[i] ELSE NoRow]
<1>1. ASSUME NEW i \in RecordIds
      PROVE  Owner'[i] = IF Owner[i] \in users' THEN Owner[i] ELSE NoRow
  <2>1. CASE i \notin RecordRows
    BY <2>1 DEF Cascaded, Owner, RecordRows
  <2>2. CASE i \in RecordRows /\ records[i].userId \notin users'
    BY <2>2 DEF Cascaded, Owner, RecordRows
  <2>3. CASE i \in RecordRows /\ records[i].userId \in users'
    <3>1. records[i] \in Record
      BY <2>3 DEF RecordsTypeOK, RecordRows
    <3>3. records'[i] \in {records[i], Unlinked(records[i])}
      BY <2>3 DEF Cascaded
    <3>4. records'[i] # NoRow /\ records'[i].userId = records[i].userId
      BY <3>1, <3>3, UnlinkedRow, RecordsAssumption
    <3> QED
      BY <2>3, <3>4 DEF Owner, RecordRows
  <2> QED
    BY <2>1, <2>2, <2>3
<1> QED
  BY <1>1 DEF Owner

\* An owner is a user, so that nothing goes unless its user does.
LEMMA OwnersExist ==
    ASSUME RecordsTypeOK
    PROVE  /\ \A i \in RecordIds : Owner[i] \in users \cup {NoRow}
           /\ Owner = [i \in RecordIds |-> Owner[i]]
  BY DEF RecordsTypeOK, Owner, RecordRows

LEMMA WorkspaceRefines ==
    ASSUME RecordsTypeOK, TypeOK, WorkspaceStep
    PROVE  \/ \E u \in UserIds : Owned!Enlist(u) \/ Owned!Expel(u)
           \/ UNCHANGED Owned!vars
<1>1. /\ Work /\ usedIds' = usedIds
      /\ Owner' = [i \in RecordIds |-> IF Owner[i] \in users' THEN Owner[i] ELSE NoRow]
  BY CascadedOwner DEF WorkspaceStep
<1>2. ASSUME NEW u \in UserIds, Register(u) PROVE Owned!Enlist(u)
  <2>1. users' = users \cup {u} /\ used' = used \cup {u} /\ u \notin used
    BY <1>2 DEF Register
  <2>2. Owner' = Owner
    BY <1>1, <2>1, OwnersExist
  <2> QED
    BY <1>1, <2>1, <2>2 DEF Owned!Enlist
<1>3. ASSUME NEW u \in UserIds, DeleteUser(u) PROVE Owned!Expel(u)
  <2>1. users' = users \ {u} /\ used' = used /\ u \in users
    BY <1>3 DEF DeleteUser
  <2>2. Owner' = [i \in RecordIds |-> IF Owner[i] = u THEN NoRow ELSE Owner[i]]
    BY <1>1, <2>1, OwnersExist, RecordsAssumption
  <2> QED
    BY <1>1, <2>1, <2>2 DEF Owned!Expel
<1>4. ASSUME users' = users, used' \cap UserIds = used \cap UserIds
      PROVE  UNCHANGED Owned!vars
  <2>1. Owner' = Owner
    BY <1>1, <1>4, OwnersExist
  <2> QED
    BY <1>1, <1>4, <2>1 DEF Owned!vars
\* The ids of users are nobody else's.
<1>5. ASSUME \/ \E u \in UserIds, c \in CompanyIds : CompanyInsert(u, c)
             \/ \E u \in UserIds, p \in ProjectIds, c \in CompanyIds \cup {NoCompany} :
                   ProjectCreate(u, p, c)
             \/ \E r \in Requests, t \in TaskIds : TaskInsert(r, t)
      PROVE  UNCHANGED Owned!vars
  <2>1. PICK x \in CompanyIds \cup ProjectIds \cup TaskIds : users' = users /\ used' = used \cup {x}
    BY <1>5 DEF CompanyInsert, ProjectCreate, TaskInsert
  <2>2. x \notin UserIds
    BY <2>1, RecordsAssumption
  <2> QED
    BY <1>4, <2>1, <2>2
<1>6. ASSUME \/ \E r \in Requests, u \in UserIds :
                   \/ \E c \in CompanyIds : CompanyDeleteRead(r, u, c)
                   \/ \E p \in ProjectIds : ProjectDeleteRead(r, u, p) \/ TaskCreateRead(r, u, p)
                   \/ \E t \in TaskIds : TaskDeleteRead(r, u, t)
             \/ \E r \in Requests : CompanyDelete(r) \/ ProjectDelete(r) \/ TaskDelete(r) \/ Gone(r)
      PROVE  UNCHANGED Owned!vars
  <2>1. users' = users /\ used' = used
    BY <1>6 DEF CompanyDeleteRead, ProjectDeleteRead, TaskCreateRead, TaskDeleteRead,
                CompanyDelete, ProjectDelete, TaskDelete, Gone, tables
  <2> QED
    BY <1>4, <2>1
<1> QED
  BY <1>1, <1>2, <1>3, <1>5, <1>6 DEF Work

LEMMA CallRefines ==
    ASSUME RecordsInv, NEW q \in Calls, UNCHANGED vars,
           (\E i \in RecordIds : CreateInsert(q, i)) \/ UpdateWrite(q) \/ Delete(q)
    PROVE  \/ \E i \in RecordIds, u \in UserIds : Owned!Insert(i, u)
           \/ \E i \in RecordIds : Owned!Remove(i)
           \/ UNCHANGED Owned!vars
<1>t. records \in [RecordIds -> Record \cup {NoRow}] /\ NoRow \notin Record
  BY RecordsAssumption DEF RecordsInv, RecordsTypeOK
<1>u. users' = users /\ used' = used
  BY DEF vars, tables
<1> PICK c : c = call[q]
  OBVIOUS
<1>c. c \in Call
  BY DEF RecordsInv, RecordsTypeOK
<1>1. ASSUME NEW i \in RecordIds, CreateInsert(q, i)
      PROVE  \E u \in UserIds : Owned!Insert(i, u)
  <2>1. /\ c.row \in Record /\ c.row.userId \in users /\ c.row.userId \in UserIds
        /\ i \notin usedIds /\ usedIds' = usedIds \cup {i}
        /\ records' = [records EXCEPT ![i] = c.row]
    BY <1>1, <1>c, RecordCallFields DEF CreateInsert, Record
  <2>2. Owner' = [Owner EXCEPT ![i] = c.row.userId]
    BY <1>t, <2>1 DEF Owner
  <2> QED
    BY <1>u, <2>1, <2>2 DEF Owned!Insert
<1>2. ASSUME UpdateWrite(q) PROVE UNCHANGED Owned!vars
  <2> PICK row : row = [records[c.id] EXCEPT !.link = c.link, !.linkedBy = linkedBy(c.by, c.link)]
    OBVIOUS
  <2>1. /\ c.id \in RecordIds /\ records[c.id] # NoRow /\ records[c.id] \in Record
        /\ c.by \in Linker /\ c.link \in TaskIds \cup ProjectIds \cup {NoLink}
        /\ records' = [records EXCEPT ![c.id] = row] /\ usedIds' = usedIds
    BY <1>2, <1>c, <1>t, RecordCallFields DEF UpdateWrite, RecordRows
  <2>2. row \in Record /\ row.userId = records[c.id].userId
    BY <2>1 DEF Record, linkedBy
  <2>3. Owner' = Owner
    BY <1>t, <2>1, <2>2 DEF Owner
  <2> QED
    BY <1>u, <2>1, <2>3 DEF Owned!vars
<1>3. ASSUME Delete(q) PROVE \E i \in RecordIds : Owned!Remove(i)
  <2>1. /\ c.id \in RecordIds /\ records[c.id] # NoRow /\ records[c.id] \in Record
        /\ records' = [records EXCEPT ![c.id] = NoRow] /\ usedIds' = usedIds
    BY <1>3, <1>c, <1>t, RecordCallFields DEF Delete, RecordRows
  <2>2. Owner' = [Owner EXCEPT ![c.id] = NoRow]
    BY <1>t, <2>1 DEF Owner
  <2>3. Owner[c.id] # NoRow
    BY <2>1, RecordsAssumption DEF Owner, Record
  <2> QED
    BY <1>u, <2>1, <2>2, <2>3 DEF Owned!Remove
<1> QED
  BY <1>1, <1>2, <1>3

LEMMA NextRefines ==
    TypeOK /\ RecordsInv /\ [RecordsNext]_allVars => [Owned!Next]_(Owned!vars)
<1> SUFFICES ASSUME TypeOK, RecordsInv, [RecordsNext]_allVars PROVE [Owned!Next]_(Owned!vars)
  OBVIOUS
<1>1. CASE WorkspaceStep
  <2>1. RecordsTypeOK
    BY DEF RecordsInv
  <2> QED
    BY <1>1, <2>1, WorkspaceRefines DEF Owned!Next
<1>2. ASSUME NEW q \in Calls,
             (\E i \in RecordIds : CreateInsert(q, i)) \/ UpdateWrite(q) \/ Delete(q)
      PROVE  [Owned!Next]_(Owned!vars)
  <2>1. UNCHANGED vars
    BY <1>2 DEF CreateInsert, UpdateWrite, Delete
  <2> QED
    BY <1>2, <2>1, CallRefines DEF Owned!Next
<1>3. ASSUME \/ \E q \in Calls :
                   \/ \E u \in UserIds : \E keys \in Held[u] : Ask(q, u, keys)
                   \/ WriteFails(q)
             \/ RestartAll \/ UNCHANGED allVars
      PROVE  UNCHANGED Owned!vars
  <2>1. ASSUME NEW q, NEW u, NEW keys, Ask(q, u, keys)
        PROVE  UNCHANGED <<users, used, records, usedIds>>
    BY <2>1 DEF Ask, CreateResolve, UpdateResolve, DeleteFind, vars, tables
  <2>2. ASSUME (\E q \in Calls : WriteFails(q)) \/ RestartAll \/ UNCHANGED allVars
        PROVE  UNCHANGED <<users, used, records, usedIds>>
    BY <2>2 DEF WriteFails, RestartAll, Restart, allVars, recordVars, vars, tables
  <2>3. UNCHANGED <<users, used, records, usedIds>>
    BY <1>3, <2>1, <2>2
  <2> QED
    BY <2>3 DEF Owned!vars, Owner
<1> QED
  BY <1>1, <1>2, <1>3 DEF RecordsNext

LEMMA InitRefines == RecordsInit => Owned!Init
  BY DEF RecordsInit, Init, Owned!Init, Owner

\* No update or insert that was under way when its row, or its owner's account,
\* was deleted brings a record back or leaves one without a user.
THEOREM Refinement == RecordsSpec => RefinesOwnedRows
<1>1. TypeOK /\ RecordsInv /\ [RecordsNext]_allVars => [Owned!Next]_(Owned!vars)
  BY NextRefines
<1> QED
  BY InitRefines, <1>1, ImplementsWorkspace, NoDanglingRows, RecordsInvariant, PTL
  DEF RecordsSpec, RefinesOwnedRows, Owned!Spec
=============================================================================
