-------------------------- MODULE TaskNoticesProofs --------------------------
(***************************************************************************)
(* Theorems about TaskNotices: the team of a task is told of everything    *)
(* once, nobody empties another's inbox, and a change that nobody raced    *)
(* with is announced as what it was, for every set of users, tasks and     *)
(* concurrent calls.                                                       *)
(***************************************************************************)
EXTENDS TaskNotices, FiniteSetTheorems, TLAPS

Updating == [pc : {"update"}, task : TaskIds, prev : Status, status : Status, alone : BOOLEAN]
Notifying == [pc : {"notify"}, task : TaskIds, news : News, left : SUBSET UserIds]
Marking == [pc : {"markRead"}, user : UserIds, notice : NoticeIds]

LEMMA Requested == Request = [pc : {"idle"}] \cup Updating \cup Notifying \cup Marking
  BY DEF Request, Updating, Notifying, Marking

LEMMA RequestFields ==
    ASSUME NEW q \in Request
    PROVE  /\ q.pc \in {"idle", "update", "notify", "markRead"}
           /\ q.pc = "update" => q \in Updating
           /\ q.pc = "notify" => q \in Notifying
           /\ q.pc = "markRead" => q \in Marking
  BY Requested DEF Updating, Notifying, Marking

LEMMA IdleRequest == Idle \in Request /\ Idle.pc = "idle"
  BY DEF Idle, Request

\* What the calls in flight hold stays of use: tasks and notifications that
\* once existed, whose ids nothing takes again.
CallRight(q) ==
    /\ q.pc \in {"update", "notify"} => q.task \in used
    /\ q.pc = "update" =>
          (q.alone /\ q.task \in TaskRows => q.prev = tasks[q.task].status)
    /\ q.pc = "markRead" =>
          /\ q.notice \in used
          /\ q.notice \in NoticeRows => q.user \in Admins \cup {notices[q.notice].userId}

NewsOfTasks ==
    /\ \A n \in NoticeRows : notices[n].task \in used \cup {NoTask}
    /\ \A t \in TaskIds : t \notin used => told[t] = 0

TypeInv == TypeOK /\ \A r \in Requests : CallRight(request[r])

-----------------------------------------------------------------------------
(* The types, and what the calls hold.                                     *)

LEMMA Holds ==
    ASSUME TypeInv, NEW r \in Requests
    PROVE  request[r] \in Request /\ CallRight(request[r])
  BY DEF TypeInv, TypeOK

LEMMA BecomeRequest ==
    ASSUME TypeInv, NEW r \in Requests, NEW q, Become(r, q)
    PROVE  /\ request'[r] = q /\ \A s \in Requests \ {r} : request'[s] = request[s]
           /\ request' = [s \in Requests |-> request'[s]]
  BY DEF TypeInv, TypeOK, Become

LEMMA TypeInvInit == Init => TypeInv
<1> SUFFICES ASSUME Init PROVE TypeInv
  OBVIOUS
<1>1. TaskRows = {} /\ NoticeRows = {}
  BY DEF Init, TaskRows, NoticeRows
<1>2. request \in [Requests -> Request] /\ \A r \in Requests : CallRight(request[r])
  BY IdleRequest DEF Init, CallRight
<1> QED
  BY <1>1, <1>2, NoticesAssumption DEF Init, TypeInv, TypeOK

\* The rows, as TypeOK has them.
RowsTyped ==
    /\ users \subseteq UserIds
    /\ tasks \in [TaskIds -> Task \cup {NoRow}]
    /\ notices \in [NoticeIds -> Notice \cup {NoRow}]
    /\ used \subseteq TaskIds \cup NoticeIds /\ TaskRows \cup NoticeRows \subseteq used
    /\ told \in [TaskIds -> 0 .. MaxTold]
    /\ missed \subseteq UserIds \X TaskIds
    /\ \A n \in NoticeRows : notices[n].userId \in users

LEMMA TypedNow == TypeInv => RowsTyped
  BY DEF TypeInv, TypeOK, RowsTyped

\* Ids are not taken twice; a row keeps its owner, and the task of a handler
\* that is alone keeps its status.
Lasting ==
    /\ used \subseteq used'
    /\ TaskRows' \cap used \subseteq TaskRows
    /\ NoticeRows' \cap used \subseteq NoticeRows
    /\ \A n \in NoticeRows \cap NoticeRows' : notices'[n].userId = notices[n].userId

LEMMA CallRightStays ==
    ASSUME Lasting, NEW q, CallRight(q),
           q.pc = "update" /\ q.task \in TaskRows /\ q.task \in TaskRows' =>
               tasks'[q.task].status = tasks[q.task].status
    PROVE  CallRight(q)'
<1>1. q.pc \in {"update", "notify"} => q.task \in used'
  BY DEF CallRight, Lasting
<1>2. q.pc = "update" => (q.alone /\ q.task \in TaskRows' => q.prev = tasks'[q.task].status)
  BY DEF CallRight, Lasting
<1>3. q.pc = "markRead" =>
          /\ q.notice \in used'
          /\ q.notice \in NoticeRows' => q.user \in Admins \cup {notices'[q.notice].userId}
  BY DEF CallRight, Lasting
<1> QED
  BY <1>1, <1>2, <1>3 DEF CallRight

LEMMA TypeInvKept ==
    ASSUME TypeInv, RowsTyped', Lasting,
           \A t \in TaskRows \cap TaskRows' : tasks'[t].status = tasks[t].status,
           \A r \in Requests : request'[r] = request[r]
                               \/ (request'[r] \in Request /\ CallRight(request[r])'),
           request' = [r \in Requests |-> request'[r]]
    PROVE  TypeInv'
<1>1. ASSUME NEW r \in Requests PROVE request'[r] \in Request /\ CallRight(request[r])'
  <2>1. CASE request'[r] = request[r]
    <3> PICK q : q = request[r]
      OBVIOUS
    <3>1. q \in Request /\ CallRight(q)
      BY Holds
    <3>2. CallRight(q)'
      BY <3>1, CallRightStays
    <3> QED
      BY <2>1, <3>1, <3>2 DEF CallRight
  <2> QED
    BY <1>1, <2>1
<1>2. request' \in [Requests -> Request]
  BY <1>1
<1> QED
  BY <1>1, <1>2 DEF TypeInv, TypeOK, RowsTyped

\* A step of one call.
LEMMA CallStep ==
    ASSUME TypeInv, NEW r \in Requests, NEW q \in Request, Become(r, q), CallRight(q)',
           RowsTyped', Lasting,
           \A t \in TaskRows \cap TaskRows' : tasks'[t].status = tasks[t].status
    PROVE  TypeInv'
<1>1. /\ request'[r] = q /\ \A s \in Requests \ {r} : request'[s] = request[s]
      /\ request' = [s \in Requests |-> request'[s]]
  BY BecomeRequest
<1>2. CallRight(request[r])'
  BY <1>1 DEF CallRight
<1>3. \A s \in Requests : request'[s] = request[s]
                          \/ (request'[s] \in Request /\ CallRight(request[s])')
  BY <1>1, <1>2
<1> QED
  BY <1>1, <1>3, TypeInvKept

LEMMA DoneStep ==
    ASSUME TypeInv, NEW r \in Requests, Become(r, Idle), RowsTyped', Lasting,
           \A t \in TaskRows \cap TaskRows' : tasks'[t].status = tasks[t].status
    PROVE  TypeInv'
<1>1. CallRight(Idle)'
  BY IdleRequest DEF CallRight
<1> QED
  BY <1>1, CallStep, IdleRequest

LEMMA OtherStep ==
    ASSUME TypeInv, UNCHANGED request, RowsTyped', Lasting,
           \A t \in TaskRows \cap TaskRows' : tasks'[t].status = tasks[t].status
    PROVE  TypeInv'
<1>1. request' = [r \in Requests |-> request'[r]]
  BY DEF TypeInv, TypeOK
<1> QED
  BY <1>1, TypeInvKept

\* What a step that leaves the rows alone gives.
LEMMA RowsStay ==
    ASSUME RowsTyped, UNCHANGED <<users, tasks, notices, used, told>>,
           missed' \subseteq UserIds \X TaskIds
    PROVE  /\ RowsTyped' /\ Lasting
           /\ \A t \in TaskRows \cap TaskRows' : tasks'[t].status = tasks[t].status
  BY DEF RowsTyped, Lasting, TaskRows, NoticeRows

-----------------------------------------------------------------------------
(* The steps.                                                              *)

LEMMA Announced ==
    ASSUME NEW t \in TaskIds, NEW task \in Task, NEW news \in News
    PROVE  /\ announcement(t, task, news) \in Request
           /\ announcement(t, task, news).pc = "notify"
           /\ announcement(t, task, news).task = t
           /\ announcement(t, task, news).left = {task.assigneeId, OwnerOf[t]}
<1>1. recipients(t, task) = {task.assigneeId, OwnerOf[t]}
  BY DEF recipients
<1>2. recipients(t, task) \in SUBSET UserIds
  BY <1>1, NoticesAssumption DEF Task
<1>3. announcement(t, task, news) \in Notifying
  BY <1>2 DEF announcement, Notifying
<1> QED
  BY <1>1, <1>3, Requested DEF announcement

LEMMA TellTyped ==
    ASSUME RowsTyped, NEW t \in TaskIds, Tell(t)
    PROVE  /\ told' \in [TaskIds -> 0 .. MaxTold] /\ told'[t] = told[t] + 1
           /\ \A x \in TaskIds \ {t} : told'[x] = told[x]
  BY NoticesAssumption DEF RowsTyped, Tell

LEMMA TaskCreateStep ==
    ASSUME TypeInv, NEW r \in Requests, NEW u \in UserIds, NEW t \in TaskIds,
           NEW status \in Status, TaskCreate(r, u, t, status)
    PROVE  TypeInv'
<1> PICK task : task = [status |-> status, assigneeId |-> u]
  OBVIOUS
<1> PICK q : q = announcement(t, task, Created)
  OBVIOUS
<1>1. task \in Task /\ task # NoRow
  BY NoticesAssumption DEF Task
<1>2. q \in Request /\ q.pc = "notify" /\ q.task = t
  BY <1>1, Announced DEF News
<1>3. /\ t \notin used /\ used' = used \cup {t} /\ tasks' = [tasks EXCEPT ![t] = task]
      /\ Tell(t) /\ Become(r, q) /\ UNCHANGED <<users, notices, missed>>
  BY DEF TaskCreate
<1>4. TaskRows' = TaskRows \cup {t} /\ NoticeRows' = NoticeRows
  BY <1>1, <1>3, TypedNow DEF RowsTyped, TaskRows, NoticeRows
<1>5. RowsTyped'
  BY <1>1, <1>3, <1>4, TypedNow, TellTyped DEF RowsTyped
<1>6. Lasting /\ \A x \in TaskRows \cap TaskRows' : tasks'[x].status = tasks[x].status
  BY <1>3, <1>4, TypedNow DEF RowsTyped, Lasting, TaskRows
<1>7. CallRight(q)'
  BY <1>2, <1>3 DEF CallRight
<1> QED
  BY <1>2, <1>3, <1>5, <1>6, <1>7, CallStep

LEMMA TaskFields ==
    ASSUME RowsTyped, NEW t \in TaskRows
    PROVE  t \in TaskIds /\ tasks[t] \in Task /\ tasks[t].status \in Status
           /\ tasks[t].assigneeId \in UserIds /\ t \in used
  BY DEF RowsTyped, TaskRows, Task

\* The new row, and what the handler goes on to do.
LEMMA UpdateWritten ==
    ASSUME TypeInv, NEW r \in Requests, UpdateWrite(r)
    PROVE  /\ request[r] \in Updating /\ request[r].task \in TaskRows
           /\ \E task \in Task :
                /\ task.status = request[r].status
                /\ task.assigneeId = tasks[request[r].task].assigneeId
                /\ tasks' = [tasks EXCEPT ![request[r].task] = task]
                /\ isChange(request[r].prev, request[r].status) =>
                      /\ Tell(request[r].task)
                      /\ request'[r] = announcement(request[r].task, task,
                                            <<request[r].prev, request[r].status>>)
                /\ ~ isChange(request[r].prev, request[r].status) =>
                      request'[r] = Idle /\ UNCHANGED told
           /\ TaskRows' = TaskRows
           /\ request' = [s \in Requests |-> request'[s]]
           /\ \A s \in Requests \ {r} :
                 \/ request'[s] = request[s]
                 \/ /\ request[s] \in Updating /\ request[s].task = request[r].task
                    /\ request'[s] = [request[s] EXCEPT !.alone = FALSE]
           /\ \A s \in Requests \ {r} :
                 /\ request[s].pc = "update" /\ request[s].task = request[r].task
                 /\ tasks[request[r].task].status # request[r].status
                 => request'[s].alone = FALSE
<1> PICK q, t : q = request[r] /\ t = q.task
  OBVIOUS
<1>1. q \in Updating /\ t \in TaskRows
  BY Holds, RequestFields DEF UpdateWrite
<1> PICK task : task = [tasks[t] EXCEPT !.status = q.status]
  OBVIOUS
<1>2. task \in Task /\ task.status = q.status /\ task.assigneeId = tasks[t].assigneeId
  BY <1>1, TypedNow, TaskFields DEF Task, Updating
<1>3. tasks' = [tasks EXCEPT ![t] = task]
  BY DEF UpdateWrite
<1>4. task # NoRow
  BY <1>2, NoticesAssumption
<1>5. TaskRows' = TaskRows
  BY <1>1, <1>3, <1>4, TypedNow DEF RowsTyped, TaskRows
<1> PICK rest : rest = IF tasks[t].status = q.status THEN request
                       ELSE Overtake(Requests \ {r}, t)
  OBVIOUS
<1>6. IF isChange(q.prev, q.status)
      THEN /\ Tell(t)
           /\ request' = [rest EXCEPT ![r] = announcement(t, task, <<q.prev, q.status>>)]
      ELSE /\ request' = [rest EXCEPT ![r] = Idle]
           /\ UNCHANGED told
  BY DEF UpdateWrite
<1>7. DOMAIN rest = Requests /\ \E x : request' = [rest EXCEPT ![r] = x]
  BY <1>6 DEF Overtake, TypeInv, TypeOK
<1>8. /\ request' = [s \in Requests |-> request'[s]]
      /\ \A s \in Requests \ {r} : request'[s] = rest[s]
      /\ isChange(q.prev, q.status) => request'[r] = announcement(t, task, <<q.prev, q.status>>)
      /\ ~ isChange(q.prev, q.status) => request'[r] = Idle
  BY <1>6, <1>7
<1>9. \A s \in Requests \ {r} :
         \/ rest[s] = request[s]
         \/ /\ request[s] \in Updating /\ request[s].task = t
            /\ rest[s] = [request[s] EXCEPT !.alone = FALSE]
  BY Holds, RequestFields DEF Overtake
<1>10. \A s \in Requests \ {r} :
         request[s].pc = "update" /\ request[s].task = t /\ tasks[t].status # q.status
         => rest[s].alone = FALSE
  <2> SUFFICES ASSUME NEW s \in Requests \ {r}, request[s].pc = "update",
                      request[s].task = t, tasks[t].status # q.status
               PROVE  rest[s].alone = FALSE
    OBVIOUS
  <2>1. request[s] \in Updating
    BY Holds, RequestFields
  <2>2. rest[s] = [request[s] EXCEPT !.alone = FALSE]
    BY DEF Overtake
  <2> QED
    BY <2>1, <2>2 DEF Updating
<1> QED
  BY <1>1, <1>2, <1>3, <1>5, <1>6, <1>8, <1>9, <1>10

LEMMA UpdateWriteStep ==
    ASSUME TypeInv, NEW r \in Requests, UpdateWrite(r)
    PROVE  TypeInv' /\ Lasting
<1> PICK q, t : q = request[r] /\ t = q.task
  OBVIOUS
<1>1. q \in Updating /\ t \in TaskRows /\ TaskRows' = TaskRows /\ t \in used
  BY UpdateWritten, TypedNow, TaskFields
<1>2. PICK task \in Task :
         /\ task.status = q.status /\ tasks' = [tasks EXCEPT ![t] = task]
         /\ isChange(q.prev, q.status) =>
               /\ Tell(t)
               /\ request'[r] = announcement(t, task, <<q.prev, q.status>>)
         /\ ~ isChange(q.prev, q.status) => request'[r] = Idle /\ UNCHANGED told
  BY UpdateWritten
<1>3. UNCHANGED <<users, notices, used, missed>> /\ NoticeRows' = NoticeRows
  BY DEF UpdateWrite, NoticeRows
<1>4. Lasting
  BY <1>1, <1>3 DEF Lasting
<1>5. RowsTyped'
  <2>1. told' \in [TaskIds -> 0 .. MaxTold]
    BY <1>1, <1>2, TypedNow, TellTyped, TaskFields DEF RowsTyped
  <2>2. tasks' \in [TaskIds -> Task \cup {NoRow}]
    BY <1>2, TypedNow DEF RowsTyped
  <2> QED
    BY <1>1, <1>3, <2>1, <2>2, TypedNow DEF RowsTyped
<1>6. request'[r] \in Request /\ CallRight(request[r])'
  <2>1. CASE isChange(q.prev, q.status)
    <3>1. <<q.prev, q.status>> \in News
      BY <1>1 DEF News, Updating
    <3>2. request'[r] \in Request /\ request'[r].pc = "notify" /\ request'[r].task = t
      BY <1>1, <1>2, <2>1, <3>1, Announced, TypedNow, TaskFields
    <3> QED
      BY <1>1, <1>3, <3>2 DEF CallRight
  <2>2. CASE ~ isChange(q.prev, q.status)
    BY <1>2, <2>2, IdleRequest DEF CallRight
  <2> QED
    BY <2>1, <2>2
<1>7. ASSUME NEW s \in Requests \ {r} PROVE request'[s] \in Request /\ CallRight(request[s])'
  <2> PICK p : p = request[s]
    OBVIOUS
  <2>1. p \in Request /\ CallRight(p)
    BY Holds
  <2>2. CASE request'[s] = p
    <3>1. CASE p.pc = "update" /\ p.task = t /\ tasks[t].status # q.status
      <4>0. /\ request[s].pc = "update" /\ request[s].task = request[r].task
            /\ tasks[request[r].task].status # request[r].status
        BY <3>1
      <4>1. request'[s].alone = FALSE
        BY <4>0, UpdateWritten
      <4>2. p.alone = FALSE
        BY <2>2, <4>1
      <4>3. CallRight(p)'
        BY <1>3, <2>1, <3>1, <4>2 DEF CallRight
      <4> QED
        BY <2>1, <2>2, <4>3 DEF CallRight
    <3>2. CASE ~ (p.pc = "update" /\ p.task = t /\ tasks[t].status # q.status)
      <4>1. p.pc = "update" /\ p.task \in TaskRows =>
               tasks'[p.task].status = tasks[p.task].status
        BY <1>1, <1>2, <3>2, TypedNow DEF RowsTyped, TaskRows
      <4>2. CallRight(p)'
        BY <1>4, <2>1, <4>1, CallRightStays
      <4> QED
        BY <2>1, <2>2, <4>2 DEF CallRight
    <3> QED
      BY <3>1, <3>2
  <2>3. CASE p \in Updating /\ request'[s] = [p EXCEPT !.alone = FALSE]
    <3>1. /\ request'[s] \in Updating /\ request'[s].pc = "update" /\ request'[s].alone = FALSE
          /\ request'[s].task = p.task
      BY <2>3 DEF Updating
    <3>2. p.task \in used
      BY <2>1, <2>3 DEF CallRight, Updating
    <3> QED
      BY <1>3, <3>1, <3>2, Requested DEF CallRight
  <2> QED
    BY <2>2, <2>3, UpdateWritten
<1>8. request' = [s \in Requests |-> request'[s]]
  BY UpdateWritten
<1>9. request' \in [Requests -> Request]
  BY <1>6, <1>7, <1>8
<1> QED
  BY <1>4, <1>5, <1>6, <1>7, <1>9 DEF TypeInv, TypeOK, RowsTyped

LEMMA UpdateReadStep ==
    ASSUME TypeInv, NEW r \in Requests, NEW t \in TaskIds, NEW status \in Status,
           UpdateRead(r, t, status)
    PROVE  TypeInv'
<1> PICK q : q = [pc |-> "update", task |-> t, prev |-> tasks[t].status,
                  status |-> status, alone |-> TRUE]
  OBVIOUS
<1>1. t \in TaskRows /\ Become(r, q) /\ UNCHANGED <<users, tasks, notices, used, told, missed>>
  BY DEF UpdateRead
<1>2. q \in Request /\ t \in used
  BY <1>1, Requested, TypedNow, TaskFields DEF Updating
<1>3. CallRight(q)'
  BY <1>1, <1>2 DEF CallRight
<1> QED
  BY <1>1, <1>2, <1>3, CallStep, RowsStay, TypedNow DEF RowsTyped

LEMMA GoneSteps ==
    ASSUME TypeInv, NEW r \in Requests, UpdateGone(r) \/ MarkReadGone(r)
    PROVE  TypeInv'
  BY DoneStep, RowsStay, TypedNow DEF UpdateGone, MarkReadGone, RowsTyped

\* The announcement that r makes, less u.
LEMMA ToldStep ==
    ASSUME TypeInv, NEW r \in Requests, NEW u, request[r].pc = "notify",
           u \in request[r].left, Told(r, u)
    PROVE  \E q \in Request :
              /\ Become(r, q)
              /\ \/ q.pc = "idle" /\ request[r].left = {u}
                 \/ /\ q.pc = "notify" /\ q.task = request[r].task
                    /\ q.left = request[r].left \ {u}
<1>1. request[r] \in Notifying
  BY Holds, RequestFields
<1>2. CASE request[r].left = {u}
  <2> PICK q : q = Idle
    OBVIOUS
  <2>1. q \in Request /\ q.pc = "idle"
    BY IdleRequest
  <2>2. Become(r, q)
    BY <1>2 DEF Told
  <2> QED
    BY <1>2, <2>1, <2>2
<1>3. CASE request[r].left # {u}
  <2> PICK q : q = [request[r] EXCEPT !.left = request[r].left \ {u}]
    OBVIOUS
  <2>1. /\ q \in Notifying /\ q.pc = "notify" /\ q.task = request[r].task
        /\ q.left = request[r].left \ {u}
    BY <1>1 DEF Notifying
  <2>2. Become(r, q)
    BY <1>3 DEF Told, Become
  <2> QED
    BY <2>1, <2>2, Requested
<1> QED
  BY <1>2, <1>3

\* A new notification.
LEMMA InsertStep ==
    ASSUME RowsTyped, NEW n \in NoticeIds, NEW u \in UserIds, NEW task, NEW news,
           \/ task \in TaskIds /\ news \in News
           \/ task = NoTask /\ news = Written,
           Insert(n, u, task, news), UNCHANGED <<users, tasks, told, missed>>
    PROVE  /\ RowsTyped' /\ Lasting /\ TaskRows' = TaskRows
           /\ NoticeRows' = NoticeRows \cup {n} /\ n \notin used
           /\ notices'[n].userId = u /\ notices'[n].task = task
           /\ \A m \in NoticeRows : notices'[m] = notices[m]
<1> PICK row : row = [userId |-> u, task |-> task, news |-> news, isRead |-> FALSE]
  OBVIOUS
<1>1. row \in Notice
  BY DEF Notice
<1>2. row # NoRow
  BY <1>1, NoticesAssumption
<1>3. /\ u \in users /\ n \notin used /\ used' = used \cup {n}
      /\ notices' = [notices EXCEPT ![n] = row]
  BY DEF Insert
<1>4. TaskRows' = TaskRows /\ NoticeRows' = NoticeRows \cup {n}
  BY <1>2, <1>3 DEF RowsTyped, TaskRows, NoticeRows
<1>5. /\ notices' \in [NoticeIds -> Notice \cup {NoRow}]
      /\ notices'[n] = row /\ \A m \in NoticeIds \ {n} : notices'[m] = notices[m]
  BY <1>1, <1>3 DEF RowsTyped
<1>6. RowsTyped'
  BY <1>3, <1>4, <1>5 DEF RowsTyped, NoticeRows
<1>7. n \notin NoticeRows
  BY <1>3 DEF RowsTyped
<1> QED
  BY <1>3, <1>4, <1>5, <1>6, <1>7 DEF Lasting, NoticeRows

LEMMA NoticeSteps ==
    ASSUME TypeInv, NEW r \in Requests, NEW u \in UserIds,
           (\E n \in NoticeIds : NoticeInsert(r, u, n)) \/ NoticeRefused(r, u)
    PROVE  TypeInv'
<1>0. request[r].pc = "notify" /\ u \in request[r].left /\ Told(r, u)
  BY DEF NoticeInsert, NoticeRefused
<1>1. request[r] \in Notifying /\ request[r].task \in used
  BY <1>0, Holds, RequestFields DEF CallRight
<1>2. PICK q \in Request :
         /\ Become(r, q)
         /\ q.pc = "idle" \/ (q.pc = "notify" /\ q.task = request[r].task)
  BY <1>0, ToldStep
<1>3. used \subseteq used' => CallRight(q)'
  BY <1>1, <1>2 DEF CallRight
<1>4. ASSUME NEW n \in NoticeIds, NoticeInsert(r, u, n) PROVE TypeInv'
  <2>1. /\ RowsTyped' /\ Lasting /\ TaskRows' = TaskRows /\ UNCHANGED tasks
    BY <1>1, <1>4, InsertStep, TypedNow DEF NoticeInsert, Notifying
  <2> QED
    BY <1>2, <1>3, <2>1, CallStep DEF Lasting
<1>5. ASSUME NoticeRefused(r, u) PROVE TypeInv'
  <2>1. missed' \subseteq UserIds \X TaskIds
    BY <1>1, <1>5, TypedNow DEF NoticeRefused, RowsTyped, Notifying
  <2>2. /\ RowsTyped' /\ Lasting
        /\ \A t \in TaskRows \cap TaskRows' : tasks'[t].status = tasks[t].status
    BY <1>5, <2>1, RowsStay, TypedNow DEF NoticeRefused
  <2> QED
    BY <1>2, <1>3, <2>2, CallStep DEF Lasting
<1> QED
  BY <1>4, <1>5

LEMMA NoticeCreateStep ==
    ASSUME TypeInv, NEW u \in UserIds, NEW n \in NoticeIds, NoticeCreate(u, n)
    PROVE  TypeInv'
<1>1. /\ RowsTyped' /\ Lasting /\ TaskRows' = TaskRows /\ UNCHANGED <<tasks, request>>
  BY InsertStep, TypedNow DEF NoticeCreate
<1> QED
  BY <1>1, OtherStep

\* A row as it is once read.
LEMMA ReadRow ==
    ASSUME RowsTyped, NEW n \in NoticeRows
    PROVE  \E row \in Notice :
              /\ row = [notices[n] EXCEPT !.isRead = TRUE] /\ row # NoRow
              /\ row.userId = notices[n].userId /\ row.task = notices[n].task
<1>1. notices[n] \in Notice
  BY DEF RowsTyped, NoticeRows
<1> PICK row : row = [notices[n] EXCEPT !.isRead = TRUE]
  OBVIOUS
<1>2. row \in Notice /\ row.userId = notices[n].userId /\ row.task = notices[n].task
  BY <1>1 DEF Notice
<1> QED
  BY <1>2, NoticesAssumption

\* Steps that mark notifications read, and do no more to them.
OnlyRead ==
    /\ notices' = [n \in NoticeIds |-> notices'[n]]
    /\ \A n \in NoticeIds :
          \/ notices'[n] = notices[n]
          \/ n \in NoticeRows /\ notices'[n] = [notices[n] EXCEPT !.isRead = TRUE]

LEMMA OnlyReadStep ==
    ASSUME RowsTyped, OnlyRead, UNCHANGED <<users, tasks, used, told, missed>>
    PROVE  /\ RowsTyped' /\ Lasting /\ TaskRows' = TaskRows /\ NoticeRows' = NoticeRows
           /\ \A n \in NoticeRows : /\ notices'[n].userId = notices[n].userId
                                    /\ notices'[n].task = notices[n].task
<1>1. \A n \in NoticeIds : notices'[n] \in Notice \cup {NoRow}
                           /\ (notices'[n] # NoRow <=> n \in NoticeRows)
  <2> SUFFICES ASSUME NEW n \in NoticeIds
               PROVE  /\ notices'[n] \in Notice \cup {NoRow}
                      /\ notices'[n] # NoRow <=> n \in NoticeRows
    OBVIOUS
  <2>1. CASE notices'[n] = notices[n]
    BY <2>1 DEF RowsTyped, NoticeRows
  <2>2. CASE n \in NoticeRows /\ notices'[n] = [notices[n] EXCEPT !.isRead = TRUE]
    BY <2>2, ReadRow
  <2> QED
    BY <2>1, <2>2 DEF OnlyRead
<1>2. NoticeRows' = NoticeRows /\ TaskRows' = TaskRows
  BY <1>1 DEF NoticeRows, TaskRows
<1>3. notices' \in [NoticeIds -> Notice \cup {NoRow}]
  BY <1>1 DEF OnlyRead
<1>4. \A n \in NoticeRows : /\ notices'[n].userId = notices[n].userId
                            /\ notices'[n].task = notices[n].task
  BY ReadRow DEF OnlyRead, NoticeRows
<1> QED
  BY <1>2, <1>3, <1>4 DEF RowsTyped, Lasting

LEMMA MarkReadOnly ==
    ASSUME TypeInv, NEW r \in Requests, MarkRead(r)
    PROVE  /\ OnlyRead /\ request[r].notice \in NoticeRows /\ request[r] \in Marking
           /\ \A n \in NoticeIds : n # request[r].notice => notices'[n] = notices[n]
<1> PICK n : n = request[r].notice
  OBVIOUS
<1>1. n \in NoticeRows /\ notices' = [notices EXCEPT ![n].isRead = TRUE]
  BY DEF MarkRead
<1>2. request[r] \in Marking
  BY Holds, RequestFields DEF MarkRead
<1>3. notices \in [NoticeIds -> Notice \cup {NoRow}]
  BY TypedNow DEF RowsTyped
<1> QED
  BY <1>1, <1>2, <1>3 DEF OnlyRead, NoticeRows

LEMMA MarkAllReadOnly ==
    ASSUME TypeInv, NEW u \in UserIds, MarkAllRead(u)
    PROVE  /\ OnlyRead
           /\ \A n \in NoticeIds : n \notin unreadOf(u) => notices'[n] = notices[n]
  BY DEF MarkAllRead, OnlyRead, unreadOf

LEMMA MarkSteps ==
    ASSUME TypeInv,
           \/ \E r \in Requests, u \in UserIds, n \in NoticeIds : MarkReadFind(r, u, n)
           \/ \E r \in Requests : MarkRead(r)
           \/ \E u \in UserIds : MarkAllRead(u)
    PROVE  TypeInv'
<1>1. ASSUME NEW r \in Requests, NEW u \in UserIds, NEW n \in NoticeIds, MarkReadFind(r, u, n)
      PROVE  TypeInv'
  <2> PICK q : q = [pc |-> "markRead", user |-> u, notice |-> n]
    OBVIOUS
  <2>1. q \in Request
    BY Requested DEF Marking
  <2>2. n \in used
    BY <1>1, TypedNow DEF MarkReadFind, RowsTyped
  <2>3. UNCHANGED <<users, tasks, notices, used, told, missed>> /\ Become(r, q)
        /\ u \in Admins \cup {notices[n].userId}
    BY <1>1 DEF MarkReadFind
  <2>4. CallRight(q)'
    BY <2>2, <2>3 DEF CallRight
  <2> QED
    BY <2>1, <2>3, <2>4, CallStep, RowsStay, TypedNow DEF RowsTyped
<1>2. ASSUME NEW r \in Requests, MarkRead(r) PROVE TypeInv'
  <2>1. UNCHANGED <<users, tasks, used, told, missed>> /\ Become(r, Idle)
    BY <1>2 DEF MarkRead
  <2>2. RowsTyped' /\ Lasting
    BY <1>2, <2>1, MarkReadOnly, OnlyReadStep, TypedNow
  <2> QED
    BY <2>1, <2>2, DoneStep
<1>3. ASSUME NEW u \in UserIds, MarkAllRead(u) PROVE TypeInv'
  <2>1. UNCHANGED <<users, tasks, request, used, told, missed>>
    BY <1>3 DEF MarkAllRead
  <2>2. RowsTyped' /\ Lasting
    BY <1>3, <2>1, MarkAllReadOnly, OnlyReadStep, TypedNow
  <2> QED
    BY <2>1, <2>2, OtherStep
<1> QED
  BY <1>1, <1>2, <1>3

LEMMA DeleteSteps ==
    ASSUME TypeInv, (\E t \in TaskIds : DeleteTask(t)) \/ (\E u \in UserIds : DeleteUser(u))
    PROVE  TypeInv'
<1>1. ASSUME NEW t \in TaskIds, DeleteTask(t) PROVE TypeInv'
  <2>1. /\ tasks' = [tasks EXCEPT ![t] = NoRow]
        /\ UNCHANGED <<users, notices, request, used, told, missed>>
    BY <1>1 DEF DeleteTask
  <2>2. TaskRows' \subseteq TaskRows /\ NoticeRows' = NoticeRows
        /\ \A x \in TaskRows' : tasks'[x] = tasks[x]
    BY <2>1, TypedNow DEF RowsTyped, TaskRows, NoticeRows
  <2>3. RowsTyped' /\ Lasting
    BY <2>1, <2>2, TypedNow DEF RowsTyped, Lasting
  <2> QED
    BY <2>1, <2>2, <2>3, OtherStep
<1>2. ASSUME NEW u \in UserIds, DeleteUser(u) PROVE TypeInv'
  <2>1. /\ users' = users \ {u}
        /\ notices' = [n \in NoticeIds |->
               IF n \in NoticeRows /\ notices[n].userId = u THEN NoRow ELSE notices[n]]
        /\ UNCHANGED <<tasks, request, used, told, missed>>
    BY <1>2 DEF DeleteUser
  <2>2. /\ TaskRows' = TaskRows /\ NoticeRows' \subseteq NoticeRows
        /\ \A n \in NoticeRows' : notices'[n] = notices[n] /\ notices[n].userId # u
    BY <2>1 DEF TaskRows, NoticeRows
  <2>3. notices' \in [NoticeIds -> Notice \cup {NoRow}]
    BY <2>1, TypedNow DEF RowsTyped
  <2>4. RowsTyped' /\ Lasting
    BY <2>1, <2>2, <2>3, TypedNow DEF RowsTyped, Lasting
  <2> QED
    BY <2>1, <2>4, OtherStep
<1> QED
  BY <1>1, <1>2

LEMMA RestartStep == TypeInv /\ Restart => TypeInv'
<1> SUFFICES ASSUME TypeInv, Restart PROVE TypeInv'
  OBVIOUS
<1>1. \A r \in Requests : request'[r] = Idle
  BY DEF Restart
<1>2. \A r \in Requests : request'[r] \in Request /\ CallRight(request[r])'
  BY <1>1, IdleRequest DEF CallRight
<1>3. \A r \in Requests : Cut(r) \subseteq UserIds \X TaskIds
  <2> SUFFICES ASSUME NEW r \in Requests, request[r].pc = "notify"
               PROVE  request[r].left \X {request[r].task} \subseteq UserIds \X TaskIds
    BY DEF Cut
  <2>1. request[r] \in Notifying
    BY Holds, RequestFields
  <2> QED
    BY <2>1 DEF Notifying
<1>4. missed' \subseteq UserIds \X TaskIds
  BY <1>3, TypedNow DEF Restart, RowsTyped
<1>5. /\ RowsTyped' /\ Lasting
      /\ \A t \in TaskRows \cap TaskRows' : tasks'[t].status = tasks[t].status
  BY <1>4, RowsStay, TypedNow DEF Restart
<1>6. request' = [r \in Requests |-> request'[r]]
  BY DEF Restart
<1> QED
  BY <1>2, <1>5, <1>6, TypeInvKept

LEMMA TypeInvNext == TypeInv /\ [Next]_vars => TypeInv'
<1>1. ASSUME TypeInv, Next PROVE TypeInv'
  BY <1>1, TaskCreateStep, UpdateReadStep, UpdateWriteStep, GoneSteps, NoticeSteps,
     NoticeCreateStep, MarkSteps, DeleteSteps, RestartStep DEF Next
<1>2. ASSUME TypeInv, UNCHANGED vars PROVE TypeInv'
  BY <1>2, OtherStep, RowsStay, TypedNow DEF vars, RowsTyped
<1> QED
  BY <1>1, <1>2

LEMMA TypeInvAlways == Spec => []TypeInv
  BY TypeInvInit, TypeInvNext, PTL DEF Spec

\* No notification outlives its recipient's account, whatever was still on its
\* way when the account was deleted.
THEOREM NoOrphanedNotices == Spec => []TypeOK
<1>1. TypeInv => TypeOK
  BY DEF TypeInv
<1> QED
  BY <1>1, TypeInvAlways, PTL

-----------------------------------------------------------------------------
(* Every announcement once to each.  What a member has and what is still on *)
(* its way balance with the announcements, one insert at a time; nothing    *)
(* about a task is older than the task, for its id is not taken twice.      *)

CountInv == NewsOfTasks /\ ToldOnceEach

LEMMA Counts ==
    ASSUME NEW u, NEW t
    PROVE  /\ IsFiniteSet(Delivered(u, t)) /\ IsFiniteSet(Pending(u, t))
           /\ Cardinality(Delivered(u, t)) \in Nat /\ Cardinality(Pending(u, t)) \in Nat
<1>1. Delivered(u, t) \subseteq NoticeIds /\ Pending(u, t) \subseteq Requests
  BY DEF Delivered, Pending, NoticeRows
<1>2. IsFiniteSet(Delivered(u, t)) /\ IsFiniteSet(Pending(u, t))
  BY <1>1, FS_Subset, NoticesAssumption
<1> QED
  BY <1>2, FS_CardinalityType

\* A step keeps the balance of u and t.
Balanced(u, t) ==
    \/ /\ Delivered(u, t)' = Delivered(u, t) /\ Pending(u, t)' = Pending(u, t)
       /\ told'[t] = told[t]
    \/ \E r \in Requests :
          /\ r \notin Pending(u, t) /\ Pending(u, t)' = Pending(u, t) \cup {r}
          /\ Delivered(u, t)' = Delivered(u, t)
          /\ told'[t] = told[t] + 1
    \/ \E r \in Pending(u, t), n \in NoticeIds :
          /\ Pending(u, t)' = Pending(u, t) \ {r}
          /\ n \notin Delivered(u, t) /\ Delivered(u, t)' = Delivered(u, t) \cup {n}
          /\ told'[t] = told[t]

LEMMA BalanceKept ==
    ASSUME NEW u, NEW t, Balanced(u, t), told[t] \in Nat,
           Cardinality(Delivered(u, t)) + Cardinality(Pending(u, t)) = told[t]
    PROVE  Cardinality(Delivered(u, t)') + Cardinality(Pending(u, t)') = told'[t]
<1> PICK d, p, e, q : /\ d = Delivered(u, t) /\ e = Delivered(u, t)'
                      /\ p = Pending(u, t) /\ q = Pending(u, t)'
  OBVIOUS
<1>1. /\ IsFiniteSet(d) /\ IsFiniteSet(p)
      /\ Cardinality(d) \in Nat /\ Cardinality(p) \in Nat
  BY Counts
<1>2. Cardinality(d) + Cardinality(p) = told[t]
  OBVIOUS
<1>3. CASE e = d /\ q = p /\ told'[t] = told[t]
  BY <1>2, <1>3
<1>4. ASSUME NEW r, r \notin p, q = p \cup {r}, e = d, told'[t] = told[t] + 1
      PROVE  Cardinality(e) + Cardinality(q) = told'[t]
  <2>1. Cardinality(q) = Cardinality(p) + 1
    BY <1>1, <1>4, FS_AddElement
  <2> QED
    BY <1>1, <1>2, <1>4, <2>1
<1>5. ASSUME NEW r \in p, NEW n, q = p \ {r}, n \notin d, e = d \cup {n}, told'[t] = told[t]
      PROVE  Cardinality(e) + Cardinality(q) = told'[t]
  <2>1. Cardinality(q) = Cardinality(p) - 1
    BY <1>1, <1>5, FS_RemoveElement
  <2>2. Cardinality(e) = Cardinality(d) + 1
    BY <1>1, <1>5, FS_AddElement
  <2> QED
    BY <1>1, <1>2, <1>5, <2>1, <2>2
<1> QED
  BY <1>3, <1>4, <1>5 DEF Balanced

LEMMA CountKept ==
    ASSUME TypeInv, CountInv, NewsOfTasks', missed \subseteq missed', TaskRows' \subseteq TaskRows,
           \A t \in TaskRows' : tasks'[t].assigneeId = tasks[t].assigneeId,
           \A t \in TaskRows' : \A u \in {tasks[t].assigneeId, OwnerOf[t]} :
               <<u, t>> \notin missed' => Balanced(u, t)
    PROVE  CountInv'
<1> SUFFICES ASSUME NEW t \in TaskRows', NEW u \in {tasks'[t].assigneeId, OwnerOf[t]},
                    <<u, t>> \notin missed'
             PROVE  Cardinality(Delivered(u, t)') + Cardinality(Pending(u, t)') = told'[t]
  BY DEF CountInv, ToldOnceEach
<1>1. told[t] \in Nat
  BY TypedNow, NoticesAssumption DEF RowsTyped, TaskRows
<1>2. Cardinality(Delivered(u, t)) + Cardinality(Pending(u, t)) = told[t]
  BY DEF CountInv, ToldOnceEach
<1> QED
  BY <1>1, <1>2, BalanceKept

\* What one call does to those still to be told.
LEMMA PendingOf ==
    ASSUME TypeInv, NEW r \in Requests, NEW q, Become(r, q), NEW u, NEW t
    PROVE  \A s \in Requests : s \in Pending(u, t)' <=>
              IF s = r THEN q.pc = "notify" /\ q.task = t /\ u \in q.left
                       ELSE s \in Pending(u, t)
  BY BecomeRequest DEF Pending

LEMMA PendingUntouched ==
    ASSUME TypeInv, NEW r \in Requests, NEW q, Become(r, q), q.pc # "notify",
           request[r].pc # "notify", NEW u, NEW t
    PROVE  Pending(u, t)' = Pending(u, t)
<1>1. \A s \in Requests : s \in Pending(u, t)' <=> s \in Pending(u, t)
  BY PendingOf DEF Pending
<1> QED
  BY <1>1 DEF Pending

LEMMA DeliveredUntouched ==
    ASSUME NEW u, NEW t, NoticeRows' = NoticeRows,
           \A n \in NoticeRows : /\ notices'[n].userId = notices[n].userId
                                 /\ notices'[n].task = notices[n].task
    PROVE  Delivered(u, t)' = Delivered(u, t)
  BY DEF Delivered

LEMMA CountInvInit == Init => CountInv
  BY DEF Init, CountInv, NewsOfTasks, ToldOnceEach, TaskRows, NoticeRows

LEMMA TaskCreateCounts ==
    ASSUME TypeInv, CountInv, NEW r \in Requests, NEW u \in UserIds, NEW t \in TaskIds,
           NEW status \in Status, TaskCreate(r, u, t, status)
    PROVE  CountInv'
<1> PICK task : task = [status |-> status, assigneeId |-> u]
  OBVIOUS
<1> PICK q : q = announcement(t, task, Created)
  OBVIOUS
<1>1. task \in Task /\ task # NoRow /\ task.assigneeId = u
  BY NoticesAssumption DEF Task
<1>2. q.pc = "notify" /\ q.task = t /\ q.left = {u, OwnerOf[t]}
  BY <1>1, Announced DEF News
<1>3. /\ t \notin used /\ used' = used \cup {t} /\ tasks' = [tasks EXCEPT ![t] = task]
      /\ Tell(t) /\ Become(r, q) /\ UNCHANGED <<users, notices, missed>>
      /\ request[r].pc = "idle"
  BY DEF TaskCreate
<1>4. /\ TaskRows' = TaskRows \cup {t} /\ NoticeRows' = NoticeRows /\ t \notin TaskRows
      /\ \A x \in TaskRows : tasks'[x] = tasks[x]
      /\ tasks'[t] = task
  BY <1>1, <1>3, TypedNow DEF RowsTyped, TaskRows, NoticeRows
<1>5. told'[t] = told[t] + 1 /\ told[t] = 0 /\ \A x \in TaskIds \ {t} : told'[x] = told[x]
  BY <1>3, TellTyped, TypedNow DEF CountInv, NewsOfTasks
<1>6. NewsOfTasks'
  BY <1>3, <1>4, <1>5 DEF CountInv, NewsOfTasks
<1>7. ASSUME NEW v \in {u, OwnerOf[t]}
      PROVE  Cardinality(Delivered(v, t)') + Cardinality(Pending(v, t)') = told'[t]
  <2>1. Delivered(v, t)' = {}
    BY <1>3, <1>4, NoticesAssumption DEF Delivered, CountInv, NewsOfTasks
  <2>2. Pending(v, t)' = {r}
    <3>1. \A s \in Requests : s \notin Pending(v, t)
      BY <1>3, Holds DEF CallRight, Pending
    <3>2. \A s \in Requests : s \in Pending(v, t)' <=> s = r
      BY <1>2, <1>3, <3>1, PendingOf
    <3> QED
      BY <3>2 DEF Pending
  <2>3. Cardinality({}) = 0 /\ Cardinality({r}) = 1
    BY FS_EmptySet, FS_Singleton
  <2> QED
    BY <1>5, <2>1, <2>2, <2>3
<1>8. ASSUME NEW x \in TaskRows, NEW v \in {tasks[x].assigneeId, OwnerOf[x]}, <<v, x>> \notin missed
      PROVE  Cardinality(Delivered(v, x)') + Cardinality(Pending(v, x)') = told'[x]
  <2>1. x # t /\ x \in TaskIds /\ told[x] \in Nat
    BY <1>4, TypedNow, NoticesAssumption DEF RowsTyped, TaskRows
  <2>2. Delivered(v, x)' = Delivered(v, x)
    BY <1>3, <1>4, DeliveredUntouched
  <2>3. Pending(v, x)' = Pending(v, x)
    <3>1. \A s \in Requests : s \in Pending(v, x)' <=> s \in Pending(v, x)
      BY <1>2, <1>3, <2>1, PendingOf DEF Pending
    <3> QED
      BY <3>1 DEF Pending
  <2>4. Balanced(v, x)
    BY <1>5, <2>1, <2>2, <2>3 DEF Balanced
  <2>5. Cardinality(Delivered(v, x)) + Cardinality(Pending(v, x)) = told[x]
    BY <1>8 DEF CountInv, ToldOnceEach
  <2> QED
    BY <2>1, <2>4, <2>5, BalanceKept
<1>9. ToldOnceEach'
  <2> SUFFICES ASSUME NEW x \in TaskRows', NEW v \in {tasks'[x].assigneeId, OwnerOf[x]},
                      <<v, x>> \notin missed'
               PROVE  Cardinality(Delivered(v, x)') + Cardinality(Pending(v, x)') = told'[x]
    BY DEF ToldOnceEach
  <2>1. CASE x = t
    BY <1>1, <1>4, <1>7, <2>1
  <2>2. CASE x # t
    <3>1. x \in TaskRows /\ v \in {tasks[x].assigneeId, OwnerOf[x]} /\ <<v, x>> \notin missed
      BY <1>3, <1>4, <2>2
    <3> QED
      BY <1>8, <3>1
  <2> QED
    BY <2>1, <2>2
<1> QED
  BY <1>6, <1>9 DEF CountInv

\* Steps that leave the rows of tasks, what is delivered and what is pending.
LEMMA NothingCounts ==
    ASSUME TypeInv, CountInv, NewsOfTasks', TaskRows' \subseteq TaskRows, missed \subseteq missed',
           \A t \in TaskRows' : tasks'[t].assigneeId = tasks[t].assigneeId,
           \A t \in TaskRows', u \in UserIds :
               <<u, t>> \notin missed' /\ u \in {tasks[t].assigneeId, OwnerOf[t]} =>
               /\ Delivered(u, t)' = Delivered(u, t) /\ Pending(u, t)' = Pending(u, t),
           UNCHANGED told
    PROVE  CountInv'
<1>1. \A t \in TaskRows' : \A u \in {tasks[t].assigneeId, OwnerOf[t]} : u \in UserIds
  BY TypedNow, TaskFields, NoticesAssumption
<1>2. \A t \in TaskRows' : \A u \in {tasks[t].assigneeId, OwnerOf[t]} :
          <<u, t>> \notin missed' => Balanced(u, t)
  BY <1>1 DEF Balanced
<1> QED
  BY <1>2, CountKept

LEMMA UpdateWriteCounts ==
    ASSUME TypeInv, CountInv, NEW r \in Requests, UpdateWrite(r)
    PROVE  CountInv'
<1> PICK q, t : q = request[r] /\ t = q.task
  OBVIOUS
<1>1. q \in Updating /\ t \in TaskRows /\ TaskRows' = TaskRows /\ t \in used /\ t \in TaskIds
  BY UpdateWritten, TypedNow, TaskFields
<1>2. PICK task \in Task :
         /\ task.assigneeId = tasks[t].assigneeId /\ tasks' = [tasks EXCEPT ![t] = task]
         /\ isChange(q.prev, q.status) =>
               /\ Tell(t)
               /\ request'[r] = announcement(t, task, <<q.prev, q.status>>)
         /\ ~ isChange(q.prev, q.status) => request'[r] = Idle /\ UNCHANGED told
  BY UpdateWritten
<1>3. UNCHANGED <<users, notices, used, missed>> /\ NoticeRows' = NoticeRows
  BY DEF UpdateWrite, NoticeRows
<1>4. \A x \in TaskRows : tasks'[x].assigneeId = tasks[x].assigneeId
  BY <1>1, <1>2, TypedNow DEF RowsTyped, TaskRows
<1>5. ASSUME NEW u, NEW x PROVE Delivered(u, x)' = Delivered(u, x)
  BY <1>3, DeliveredUntouched
<1>6. ASSUME NEW u, NEW x, NEW s \in Requests \ {r}
      PROVE  s \in Pending(u, x)' <=> s \in Pending(u, x)
  <2>1. CASE request'[s] = request[s]
    BY <2>1 DEF Pending
  <2>2. CASE request[s] \in Updating /\ request'[s] = [request[s] EXCEPT !.alone = FALSE]
    <3>1. request[s].pc = "update" /\ request'[s].pc = "update"
      BY <2>2 DEF Updating
    <3> QED
      BY <3>1 DEF Pending
  <2> QED
    BY <2>1, <2>2, UpdateWritten
<1>7. \A u, x : r \notin Pending(u, x)
  BY <1>1 DEF Pending, Updating
<1>8. CASE isChange(q.prev, q.status)
  <2>1. <<q.prev, q.status>> \in News
    BY <1>1 DEF News, Updating
  <2>2. /\ request'[r].pc = "notify" /\ request'[r].task = t
        /\ request'[r].left = {tasks[t].assigneeId, OwnerOf[t]}
    BY <1>1, <1>2, <1>8, <2>1, Announced
  <2>3. told'[t] = told[t] + 1 /\ \A x \in TaskIds \ {t} : told'[x] = told[x]
    BY <1>1, <1>2, <1>8, TellTyped, TypedNow
  <2>4. NewsOfTasks'
    BY <1>1, <1>3, <2>3 DEF CountInv, NewsOfTasks
  <2>5. ASSUME NEW x \in TaskRows, NEW u \in {tasks[x].assigneeId, OwnerOf[x]}
        PROVE  Balanced(u, x)
    <3>1. CASE x = t
      <4>1. Pending(u, x)' = Pending(u, x) \cup {r}
        <5>1. r \in Pending(u, x)'
          BY <2>2, <2>5, <3>1 DEF Pending
        <5>2. \A s \in Requests : s \in Pending(u, x)' <=> s = r \/ s \in Pending(u, x)
          BY <1>6, <5>1
        <5> QED
          BY <5>2 DEF Pending
      <4> QED
        BY <1>5, <1>7, <2>3, <3>1, <4>1 DEF Balanced
    <3>2. CASE x # t
      <4>1. Pending(u, x)' = Pending(u, x)
        <5>1. r \notin Pending(u, x)'
          BY <2>2, <3>2 DEF Pending
        <5>2. \A s \in Requests : s \in Pending(u, x)' <=> s \in Pending(u, x)
          BY <1>6, <1>7, <5>1
        <5> QED
          BY <5>2 DEF Pending
      <4> QED
        BY <1>5, <2>3, <3>2, <4>1 DEF Balanced, TaskRows
    <3> QED
      BY <3>1, <3>2
  <2> QED
    BY <1>1, <1>3, <1>4, <2>4, <2>5, CountKept
<1>9. CASE ~ isChange(q.prev, q.status)
  <2>1. \A u, x : Pending(u, x)' = Pending(u, x)
    BY <1>2, <1>6, <1>7, <1>9, IdleRequest DEF Pending
  <2>2. NewsOfTasks'
    BY <1>2, <1>3, <1>9 DEF CountInv, NewsOfTasks
  <2> QED
    BY <1>1, <1>2, <1>3, <1>4, <1>5, <1>9, <2>1, <2>2, NothingCounts
<1> QED
  BY <1>8, <1>9

LEMMA NewsStay ==
    ASSUME NewsOfTasks, used \subseteq used', UNCHANGED told,
           \A n \in NoticeRows' : n \in NoticeRows /\ notices'[n].task = notices[n].task
    PROVE  NewsOfTasks'
  BY DEF NewsOfTasks

\* Steps of a call that announces nothing.
LEMMA SilentCounts ==
    ASSUME TypeInv, CountInv, NEW r \in Requests, NEW q, Become(r, q),
           request[r].pc # "notify", q.pc # "notify",
           NoticeRows' = NoticeRows, UNCHANGED <<users, tasks, used, told, missed>>,
           \A n \in NoticeRows : /\ notices'[n].userId = notices[n].userId
                                 /\ notices'[n].task = notices[n].task
    PROVE  CountInv'
<1>1. \A u, t : Delivered(u, t)' = Delivered(u, t)
  BY DeliveredUntouched
<1>2. \A u, t : Pending(u, t)' = Pending(u, t)
  BY PendingUntouched
<1>3. NewsOfTasks'
  BY NewsStay DEF CountInv
<1>4. TaskRows' = TaskRows
  BY DEF TaskRows
<1> QED
  BY <1>1, <1>2, <1>3, <1>4, NothingCounts

LEMMA CallCounts ==
    ASSUME TypeInv, CountInv, NEW r \in Requests,
           \/ \E t \in TaskIds, status \in Status : UpdateRead(r, t, status)
           \/ \E u \in UserIds, n \in NoticeIds : MarkReadFind(r, u, n)
           \/ UpdateGone(r) \/ MarkReadGone(r) \/ MarkRead(r)
    PROVE  CountInv'
<1>1. ASSUME NEW t \in TaskIds, NEW status \in Status, UpdateRead(r, t, status) PROVE CountInv'
  <2>1. PICK q : Become(r, q) /\ q.pc = "update"
    BY <1>1 DEF UpdateRead
  <2> QED
    BY <1>1, <2>1, SilentCounts DEF UpdateRead, NoticeRows
<1>2. ASSUME NEW u \in UserIds, NEW n \in NoticeIds, MarkReadFind(r, u, n) PROVE CountInv'
  <2>1. PICK q : Become(r, q) /\ q.pc = "markRead"
    BY <1>2 DEF MarkReadFind
  <2> QED
    BY <1>2, <2>1, SilentCounts DEF MarkReadFind, NoticeRows
<1>3. CASE UpdateGone(r) \/ MarkReadGone(r)
  BY <1>3, SilentCounts, IdleRequest DEF UpdateGone, MarkReadGone, NoticeRows
<1>4. CASE MarkRead(r)
  <2>1. /\ NoticeRows' = NoticeRows
        /\ \A n \in NoticeRows : /\ notices'[n].userId = notices[n].userId
                                 /\ notices'[n].task = notices[n].task
    BY <1>4, MarkReadOnly, OnlyReadStep, TypedNow DEF MarkRead
  <2> QED
    BY <1>4, <2>1, SilentCounts, IdleRequest DEF MarkRead
<1> QED
  BY <1>1, <1>2, <1>3, <1>4

\* A notification the owner of the announcement has been sent, or refused.
LEMMA ToldCounts ==
    ASSUME TypeInv, NEW r \in Requests, NEW u, request[r].pc = "notify",
           u \in request[r].left, Told(r, u), NEW x, x = request[r].task
    PROVE  /\ r \in Pending(u, x) /\ Pending(u, x)' = Pending(u, x) \ {r}
           /\ \A v, t : v # u \/ t # x => Pending(v, t)' = Pending(v, t)
<1>1. PICK q \in Request :
         /\ Become(r, q)
         /\ \/ q.pc = "idle" /\ request[r].left = {u}
            \/ /\ q.pc = "notify" /\ q.task = x
               /\ q.left = request[r].left \ {u}
  BY ToldStep
<1>2. ASSUME NEW v, NEW t
      PROVE  \A s \in Requests : s \in Pending(v, t)' <=>
                s \in Pending(v, t) /\ ~ (s = r /\ v = u /\ t = x)
  <2>1. q.pc = "notify" /\ q.task = t /\ v \in q.left <=>
            r \in Pending(v, t) /\ ~ (v = u /\ t = x)
    BY <1>1 DEF Pending
  <2> QED
    BY <1>1, <2>1, PendingOf
<1>3. r \in Pending(u, x)
  BY DEF Pending
<1>4. Pending(u, x)' = Pending(u, x) \ {r}
  <2>1. \A s \in Requests : s \in Pending(u, x)' <=> s \in Pending(u, x) \ {r}
    BY <1>2
  <2> QED
    BY <2>1 DEF Pending
<1>5. ASSUME NEW v, NEW t, v # u \/ t # x PROVE Pending(v, t)' = Pending(v, t)
  <2>1. \A s \in Requests : s \in Pending(v, t)' <=> s \in Pending(v, t)
    BY <1>2, <1>5
  <2> QED
    BY <2>1 DEF Pending
<1> QED
  BY <1>3, <1>4, <1>5

LEMMA NoticeCounts ==
    ASSUME TypeInv, CountInv, NEW r \in Requests, NEW u \in UserIds,
           (\E n \in NoticeIds : NoticeInsert(r, u, n)) \/ NoticeRefused(r, u)
    PROVE  CountInv'
<1> PICK x : x = request[r].task
  OBVIOUS
<1>0. request[r].pc = "notify" /\ u \in request[r].left /\ Told(r, u)
  BY DEF NoticeInsert, NoticeRefused
<1>1. request[r] \in Notifying /\ x \in used /\ x \in TaskIds
  BY <1>0, Holds, RequestFields DEF CallRight, Notifying
<1>2. /\ r \in Pending(u, x) /\ Pending(u, x)' = Pending(u, x) \ {r}
      /\ \A v, t : v # u \/ t # x => Pending(v, t)' = Pending(v, t)
  BY <1>0, ToldCounts
<1>3. ASSUME NEW n \in NoticeIds, NoticeInsert(r, u, n) PROVE CountInv'
  <2>1. /\ RowsTyped' /\ Lasting /\ TaskRows' = TaskRows
        /\ NoticeRows' = NoticeRows \cup {n} /\ n \notin used
        /\ notices'[n].userId = u /\ notices'[n].task = x
        /\ \A m \in NoticeRows : notices'[m] = notices[m]
        /\ UNCHANGED <<users, tasks, told, missed>>
    BY <1>1, <1>3, InsertStep, TypedNow DEF NoticeInsert, Notifying
  <2>2. NewsOfTasks'
    BY <1>1, <2>1 DEF CountInv, NewsOfTasks, Lasting
  <2>3. n \notin NoticeRows
    BY <2>1, TypedNow DEF RowsTyped
  <2>4. Delivered(u, x)' = Delivered(u, x) \cup {n} /\ n \notin Delivered(u, x)
    BY <2>1, <2>3 DEF Delivered
  <2>5. \A v, t : v # u \/ t # x => Delivered(v, t)' = Delivered(v, t)
    <3> SUFFICES ASSUME NEW v, NEW t, v # u \/ t # x
                 PROVE  Delivered(v, t)' = Delivered(v, t)
      OBVIOUS
    <3> QED
      BY <2>1, <2>3 DEF Delivered
  <2>6. \A v, t : Balanced(v, t)
    <3> SUFFICES ASSUME NEW v, NEW t PROVE Balanced(v, t)
      OBVIOUS
    <3>1. CASE v = u /\ t = x
      BY <1>2, <2>1, <2>4, <3>1 DEF Balanced
    <3>2. CASE v # u \/ t # x
      BY <1>2, <2>1, <2>5, <3>2 DEF Balanced
    <3> QED
      BY <3>1, <3>2
  <2> QED
    BY <2>1, <2>2, <2>6, CountKept
<1>4. ASSUME NoticeRefused(r, u) PROVE CountInv'
  <2>1. UNCHANGED <<users, tasks, notices, used, told>> /\ missed' = missed \cup {<<u, x>>}
    BY <1>4 DEF NoticeRefused
  <2>2. TaskRows' = TaskRows /\ NoticeRows' = NoticeRows
    BY <2>1 DEF TaskRows, NoticeRows
  <2>3. \A v, t : Delivered(v, t)' = Delivered(v, t)
    BY <2>1, <2>2, DeliveredUntouched
  <2>4. \A v, t : <<v, t>> \notin missed' => Pending(v, t)' = Pending(v, t)
    BY <1>2, <2>1
  <2>5. NewsOfTasks'
    BY <2>1, <2>2, NewsStay DEF CountInv
  <2> QED
    BY <2>1, <2>2, <2>3, <2>4, <2>5, NothingCounts
<1> QED
  BY <1>3, <1>4

LEMMA NoticeCreateCounts ==
    ASSUME TypeInv, CountInv, NEW u \in UserIds, NEW n \in NoticeIds, NoticeCreate(u, n)
    PROVE  CountInv'
<1>1. /\ RowsTyped' /\ Lasting /\ TaskRows' = TaskRows
      /\ NoticeRows' = NoticeRows \cup {n} /\ n \notin used
      /\ notices'[n].userId = u /\ notices'[n].task = NoTask
      /\ \A m \in NoticeRows : notices'[m] = notices[m]
      /\ UNCHANGED <<users, tasks, request, told, missed>>
  BY InsertStep, TypedNow DEF NoticeCreate
<1>2. NewsOfTasks'
  BY <1>1 DEF CountInv, NewsOfTasks, Lasting
<1>3. n \notin NoticeRows
  BY <1>1, TypedNow DEF RowsTyped
<1>4. ASSUME NEW v, NEW t \in TaskIds PROVE Delivered(v, t)' = Delivered(v, t)
  BY <1>1, <1>3, NoticesAssumption DEF Delivered
<1>5. \A v, t : Pending(v, t)' = Pending(v, t)
  BY <1>1 DEF Pending
<1> QED
  BY <1>1, <1>2, <1>4, <1>5, NothingCounts DEF TaskRows

LEMMA OtherCounts ==
    ASSUME TypeInv, CountInv,
           \/ \E u \in UserIds : MarkAllRead(u) \/ DeleteUser(u)
           \/ \E t \in TaskIds : DeleteTask(t)
    PROVE  CountInv'
<1>0. ASSUME UNCHANGED request PROVE \A v, t : Pending(v, t)' = Pending(v, t)
  BY <1>0 DEF Pending
<1>1. ASSUME NEW u \in UserIds, MarkAllRead(u) PROVE CountInv'
  <2>1. UNCHANGED <<users, tasks, request, used, told, missed>>
    BY <1>1 DEF MarkAllRead
  <2>2. /\ TaskRows' = TaskRows /\ NoticeRows' = NoticeRows
        /\ \A n \in NoticeRows : /\ notices'[n].userId = notices[n].userId
                                 /\ notices'[n].task = notices[n].task
    BY <1>1, <2>1, MarkAllReadOnly, OnlyReadStep, TypedNow
  <2>3. \A v, t : Delivered(v, t)' = Delivered(v, t)
    BY <2>2, DeliveredUntouched
  <2>4. NewsOfTasks'
    BY <2>1, <2>2, NewsStay DEF CountInv
  <2> QED
    BY <1>0, <2>1, <2>2, <2>3, <2>4, NothingCounts
<1>2. ASSUME NEW u \in UserIds, DeleteUser(u) PROVE CountInv'
  <2>1. /\ notices' = [n \in NoticeIds |->
               IF n \in NoticeRows /\ notices[n].userId = u THEN NoRow ELSE notices[n]]
        /\ UNCHANGED <<tasks, request, used, told, missed>>
        /\ \A t \in TaskRows : u \notin {tasks[t].assigneeId, OwnerOf[t]}
    BY <1>2 DEF DeleteUser, recipients
  <2>2. /\ TaskRows' = TaskRows
        /\ NoticeRows' = {n \in NoticeRows : notices[n].userId # u}
        /\ \A n \in NoticeRows' : notices'[n] = notices[n]
    BY <2>1 DEF TaskRows, NoticeRows
  <2>3. \A v, t : v # u => Delivered(v, t)' = Delivered(v, t)
    BY <2>2 DEF Delivered
  <2>4. NewsOfTasks'
    BY <2>1, <2>2, NewsStay DEF CountInv
  <2>5. \A t \in TaskRows', v \in UserIds :
            v \in {tasks[t].assigneeId, OwnerOf[t]} => v # u
    BY <2>1, <2>2
  <2> QED
    BY <1>0, <2>1, <2>2, <2>3, <2>4, <2>5, NothingCounts
<1>3. ASSUME NEW t \in TaskIds, DeleteTask(t) PROVE CountInv'
  <2>1. /\ tasks' = [tasks EXCEPT ![t] = NoRow]
        /\ UNCHANGED <<users, notices, request, used, told, missed>>
    BY <1>3 DEF DeleteTask
  <2>2. TaskRows' \subseteq TaskRows /\ NoticeRows' = NoticeRows
        /\ \A x \in TaskRows' : tasks'[x] = tasks[x]
    BY <2>1, TypedNow DEF RowsTyped, TaskRows, NoticeRows
  <2>3. \A v, x : Delivered(v, x)' = Delivered(v, x)
    BY <2>1, <2>2, DeliveredUntouched
  <2>4. NewsOfTasks'
    BY <2>1, <2>2, NewsStay DEF CountInv
  <2> QED
    BY <1>0, <2>1, <2>2, <2>3, <2>4, NothingCounts
<1> QED
  BY <1>1, <1>2, <1>3

\* What was still on its way is missed.
LEMMA RestartCounts == TypeInv /\ CountInv /\ Restart => CountInv'
<1> SUFFICES ASSUME TypeInv, CountInv, Restart PROVE CountInv'
  OBVIOUS
<1>1. /\ \A r \in Requests : request'[r] = Idle
      /\ UNCHANGED <<users, tasks, notices, used, told>>
      /\ missed' = missed \cup UNION {Cut(r) : r \in Requests}
  BY DEF Restart
<1>2. \A v, t : Pending(v, t)' = {}
  BY <1>1, IdleRequest DEF Pending
<1>3. ASSUME NEW v, NEW t, <<v, t>> \notin missed' PROVE Pending(v, t) = {}
  <2> SUFFICES ASSUME NEW r \in Pending(v, t) PROVE FALSE
    OBVIOUS
  <2>1. <<v, t>> \in Cut(r) /\ r \in Requests
    BY DEF Pending, Cut
  <2> QED
    BY <1>1, <1>3, <2>1
<1>4. TaskRows' = TaskRows /\ NoticeRows' = NoticeRows
  BY <1>1 DEF TaskRows, NoticeRows
<1>5. \A v, t : Delivered(v, t)' = Delivered(v, t)
  BY <1>1, <1>4, DeliveredUntouched
<1>6. NewsOfTasks'
  BY <1>1, <1>4, NewsStay DEF CountInv
<1> QED
  BY <1>1, <1>2, <1>3, <1>4, <1>5, <1>6, NothingCounts

LEMMA CountInvNext == TypeInv /\ CountInv /\ [Next]_vars => CountInv'
<1>1. ASSUME TypeInv, CountInv, Next PROVE CountInv'
  BY <1>1, TaskCreateCounts, UpdateWriteCounts, CallCounts, NoticeCounts,
     NoticeCreateCounts, OtherCounts, RestartCounts DEF Next
<1>2. ASSUME TypeInv, CountInv, UNCHANGED vars PROVE CountInv'
  BY <1>2 DEF vars, CountInv, NewsOfTasks, ToldOnceEach, TaskRows, NoticeRows,
     Delivered, Pending
<1> QED
  BY <1>1, <1>2

\* The assignee and the owner of a task are told of every announcement once,
\* whatever is read, deleted or announced meanwhile.
THEOREM TeamToldOnce == Spec => []ToldOnceEach
<1>1. Spec => []CountInv
  BY TypeInvInit, CountInvInit, TypeInvNext, CountInvNext, PTL DEF Spec
<1>2. CountInv => ToldOnceEach
  BY DEF CountInv
<1> QED
  BY <1>1, <1>2, PTL

-----------------------------------------------------------------------------
(* What a step may do.                                                     *)

\* The news are what the handler read and what it wrote.
LEMMA WrittenNews ==
    ASSUME TypeInv, NEW r \in Requests, UpdateWrite(r)
    PROVE  /\ request[r] \in Updating /\ request[r].task \in TaskRows
           /\ tasks'[request[r].task].status = request[r].status
           /\ request[r].status # request[r].prev =>
                 /\ request'[r].pc = "notify"
                 /\ request'[r].news = <<request[r].prev, request[r].status>>
           /\ request[r].status = request[r].prev => request'[r] = Idle
<1> PICK q, t : q = request[r] /\ t = q.task
  OBVIOUS
<1>1. q \in Updating /\ t \in TaskRows
  BY UpdateWritten
<1>2. PICK task \in Task :
         /\ task.status = q.status /\ tasks' = [tasks EXCEPT ![t] = task]
         /\ isChange(q.prev, q.status) =>
               /\ Tell(t)
               /\ request'[r] = announcement(t, task, <<q.prev, q.status>>)
         /\ ~ isChange(q.prev, q.status) => request'[r] = Idle /\ UNCHANGED told
  BY UpdateWritten
<1>3. tasks'[t].status = q.status
  BY <1>1, <1>2, TypedNow DEF RowsTyped, TaskRows
<1> QED
  BY <1>1, <1>2, <1>3 DEF isChange, announcement

LEMMA AnnouncedAsItWas ==
    ASSUME TypeInv, NEW r \in Requests, request[r].alone = TRUE, UpdateWrite(r)
    PROVE  LET t == request[r].task IN
           IF tasks'[t].status = tasks[t].status THEN request'[r] = Idle
           ELSE /\ request'[r].pc = "notify"
                /\ request'[r].news = <<tasks[t].status, tasks'[t].status>>
<1>1. request[r] \in Updating /\ request[r].task \in TaskRows
  BY WrittenNews
<1>2. request[r].prev = tasks[request[r].task].status
  BY <1>1, Holds DEF CallRight, Updating
<1> QED
  BY <1>2, WrittenNews

\* A change of status that nobody raced with is announced as what it was, and a
\* write that changes nothing is not announced.
THEOREM AnnouncedWhenAlone == Spec => ChangesAnnouncedWhenAlone
<1>1. TypeInv /\ [Next]_vars =>
        [\A r \in Requests :
            request[r].pc = "update" /\ request[r].alone /\ UpdateWrite(r) =>
              LET t == request[r].task IN
              IF tasks'[t].status = tasks[t].status THEN request'[r] = Idle
              ELSE /\ request'[r].pc = "notify"
                   /\ request'[r].news = <<tasks[t].status, tasks'[t].status>>]_vars
  BY AnnouncedAsItWas
<1> QED
  BY <1>1, TypeInvAlways, PTL DEF Spec, ChangesAnnouncedWhenAlone

\* How a notification came to be read.
ReadRightly(n) ==
    \/ \E r \in Requests :
          /\ request[r].pc = "markRead" /\ request'[r] = Idle
          /\ request[r].notice = n
          /\ request[r].user \in Admins \cup {notices[n].userId}
    \/ \A m \in NoticeRows : notices'[m] # notices[m] =>
          notices[m].userId = notices[n].userId

LEMMA ReadStepRight ==
    ASSUME TypeInv, Next, NEW n \in NoticeRows, n \in NoticeRows',
           notices'[n].isRead # notices[n].isRead
    PROVE  ReadRightly(n)
<1>0. n \in NoticeIds /\ n \in used /\ notices'[n] # notices[n]
  BY TypedNow DEF NoticeRows, RowsTyped
<1>1. ASSUME NEW r \in Requests, MarkRead(r) PROVE ReadRightly(n)
  <2>1. request[r].notice = n
    BY <1>0, <1>1, MarkReadOnly
  <2>2. request[r].pc = "markRead" /\ Become(r, Idle)
    BY <1>1 DEF MarkRead
  <2>3. request[r].user \in Admins \cup {notices[n].userId}
    BY <2>1, <2>2, Holds DEF CallRight
  <2>4. request'[r] = Idle
    BY <2>2, BecomeRequest
  <2> QED
    BY <2>1, <2>2, <2>3, <2>4 DEF ReadRightly
<1>2. ASSUME NEW u \in UserIds, MarkAllRead(u) PROVE ReadRightly(n)
  <2>1. \A m \in NoticeRows : notices'[m] # notices[m] => notices[m].userId = u
    BY <1>2, MarkAllReadOnly DEF unreadOf, NoticeRows
  <2> QED
    BY <1>0, <2>1 DEF ReadRightly
<1>3. ASSUME NEW u \in UserIds, DeleteUser(u) PROVE FALSE
  <2>1. notices'[n] \in {NoRow, notices[n]}
    BY <1>0, <1>3 DEF DeleteUser
  <2> QED
    BY <1>0, <2>1 DEF NoticeRows
<1>4. ASSUME NEW u, NEW m \in NoticeIds, NEW task, NEW news, Insert(m, u, task, news)
      PROVE  FALSE
  <2>1. m # n
    BY <1>0, <1>4 DEF Insert
  <2> QED
    BY <1>0, <1>4, <2>1, TypedNow DEF Insert, RowsTyped
<1>5. CASE UNCHANGED notices
  BY <1>0, <1>5
<1> QED
  BY <1>1, <1>2, <1>3, <1>4, <1>5 DEF Next, TaskCreate, UpdateRead, UpdateWrite, UpdateGone,
     NoticeInsert, NoticeRefused, NoticeCreate, MarkReadFind, MarkReadGone, DeleteTask, Restart

\* Nobody empties the inbox of another: a notification becomes read by its
\* recipient, or singly by an administrator, even when the call was under way
\* while accounts and notifications came and went.
THEOREM ReadByOnesOwn == Spec => ReadByRecipient
<1>1. TypeInv /\ [Next]_vars =>
        [\A n \in NoticeRows :
            n \in NoticeRows' /\ notices'[n].isRead # notices[n].isRead => ReadRightly(n)]_vars
  BY ReadStepRight
<1>2. TypeInv /\ [Next]_vars =>
        [\A n \in NoticeRows :
            n \in NoticeRows' /\ notices'[n].isRead # notices[n].isRead =>
              \/ \E r \in Requests :
                    /\ request[r].pc = "markRead" /\ request'[r] = Idle
                    /\ request[r].notice = n
                    /\ request[r].user \in Admins \cup {notices[n].userId}
              \/ \A m \in NoticeRows : notices'[m] # notices[m] =>
                    notices[m].userId = notices[n].userId]_vars
  BY <1>1 DEF ReadRightly
<1> QED
  BY <1>2, TypeInvAlways, PTL DEF Spec, ReadByRecipient

-----------------------------------------------------------------------------
(* The notifications are rows of their recipients: a step inserts one,     *)
(* takes those of a user along, or leaves all where they are.              *)

OwnersStay == \A n \in NoticeIds : Owner'[n] = Owner[n]

LEMMA InvisibleStep ==
    ASSUME UNCHANGED users, used' \cap NoticeIds = used \cap NoticeIds, OwnersStay
    PROVE  UNCHANGED Owned!vars
<1>1. Owner' = Owner
  BY DEF OwnersStay, Owner
<1> QED
  BY <1>1 DEF Owned!vars

LEMMA NoticesUntouched ==
    ASSUME UNCHANGED <<users, notices>>, used' \cap NoticeIds = used \cap NoticeIds
    PROVE  UNCHANGED Owned!vars
  BY InvisibleStep DEF OwnersStay, Owner

LEMMA InsertRefines ==
    ASSUME RowsTyped, NEW u \in UserIds, NEW n \in NoticeIds, NEW task, NEW news,
           \/ task \in TaskIds /\ news \in News
           \/ task = NoTask /\ news = Written,
           Insert(n, u, task, news), UNCHANGED <<users, tasks, told, missed>>
    PROVE  Owned!Insert(n, u)
<1>1. /\ NoticeRows' = NoticeRows \cup {n} /\ n \notin used /\ u \in users
      /\ notices'[n].userId = u /\ \A m \in NoticeRows : notices'[m] = notices[m]
      /\ used' = used \cup {n}
  BY InsertStep DEF Insert
<1>2. Owner' = [Owner EXCEPT ![n] = u]
  BY <1>1 DEF Owner, NoticeRows
<1> QED
  BY <1>1, <1>2 DEF Owned!Insert

LEMMA ReadsInvisible ==
    ASSUME RowsTyped, OnlyRead, UNCHANGED <<users, tasks, used, told, missed>>
    PROVE  UNCHANGED Owned!vars
<1>1. OwnersStay
  BY OnlyReadStep DEF OwnersStay, Owner, NoticeRows
<1> QED
  BY <1>1, InvisibleStep

LEMMA DeleteUserRefines ==
    ASSUME RowsTyped, NEW u \in UserIds, DeleteUser(u)
    PROVE  Owned!Expel(u)
<1>1. \A n \in NoticeIds : Owner[n] = u <=> n \in NoticeRows /\ notices[n].userId = u
  BY NoticesAssumption DEF Owner, NoticeRows
<1>2. \A n \in NoticeIds : notices'[n] = IF Owner[n] = u THEN NoRow ELSE notices[n]
  BY <1>1 DEF DeleteUser
<1>3. Owner' = [n \in NoticeIds |-> IF Owner[n] = u THEN NoRow ELSE Owner[n]]
  BY <1>2 DEF Owner
<1> QED
  BY <1>3 DEF Owned!Expel, DeleteUser

LEMMA NextRefines == TypeInv /\ [Next]_vars => [Owned!Next]_(Owned!vars)
<1> SUFFICES ASSUME TypeInv, [Next]_vars PROVE [Owned!Next]_(Owned!vars)
  OBVIOUS
<1>t. RowsTyped
  BY TypedNow
<1>1. ASSUME NEW r \in Requests, NEW u \in UserIds, NEW t \in TaskIds, NEW s \in Status,
             TaskCreate(r, u, t, s)
      PROVE  UNCHANGED Owned!vars
  BY <1>1, NoticesUntouched, NoticesAssumption DEF TaskCreate
<1>2. ASSUME NEW r \in Requests, NEW u \in UserIds, NEW n \in NoticeIds, NoticeInsert(r, u, n)
      PROVE  Owned!Insert(n, u)
  <2>1. request[r] \in Notifying
    BY <1>2, Holds, RequestFields DEF NoticeInsert
  <2> QED
    BY <1>2, <1>t, <2>1, InsertRefines DEF NoticeInsert, Notifying
<1>3. ASSUME NEW u \in UserIds, NEW n \in NoticeIds, NoticeCreate(u, n)
      PROVE  Owned!Insert(n, u)
  BY <1>3, <1>t, InsertRefines DEF NoticeCreate
<1>4. ASSUME (\E r \in Requests : MarkRead(r)) \/ (\E u \in UserIds : MarkAllRead(u))
      PROVE  UNCHANGED Owned!vars
  BY <1>4, <1>t, MarkReadOnly, MarkAllReadOnly, ReadsInvisible DEF MarkRead, MarkAllRead
<1>5. ASSUME NEW u \in UserIds, DeleteUser(u)
      PROVE  Owned!Expel(u)
  BY <1>5, <1>t, DeleteUserRefines
<1>6. ASSUME \/ \E r \in Requests :
                   \/ UpdateWrite(r) \/ UpdateGone(r) \/ MarkReadGone(r)
                   \/ \E t \in TaskIds, s \in Status : UpdateRead(r, t, s)
                   \/ \E u \in UserIds : NoticeRefused(r, u)
                   \/ \E u \in UserIds, n \in NoticeIds : MarkReadFind(r, u, n)
             \/ \E t \in TaskIds : DeleteTask(t)
             \/ Restart \/ UNCHANGED vars
      PROVE  UNCHANGED Owned!vars
  <2>1. UNCHANGED <<users, notices, used>>
    BY <1>6 DEF UpdateWrite, UpdateGone, MarkReadGone, UpdateRead, NoticeRefused, MarkReadFind,
                DeleteTask, Restart, vars
  <2> QED
    BY <2>1, NoticesUntouched
<1>7. (\E u \in UserIds, n \in NoticeIds : Owned!Insert(n, u)) \/ (\E u \in UserIds : Owned!Expel(u))
         => Owned!Next
  BY DEF Owned!Next
<1> QED
  BY <1>1, <1>2, <1>3, <1>4, <1>5, <1>6, <1>7 DEF Next

LEMMA InitRefines == Init => Owned!Init
  BY DEF Init, Owned!Init, Owner

\* A notification belongs to its recipient and goes with the recipient's account,
\* whatever was on its way, or being marked read, when the account was deleted.
THEOREM Refinement == Spec => RefinesOwnedRows
<1>1. TypeInv /\ [Next]_vars => [Owned!Next]_(Owned!vars)
  BY NextRefines
<1> QED
  BY InitRefines, <1>1, TypeInvAlways, PTL DEF Spec, RefinesOwnedRows, Owned!Spec
=============================================================================
