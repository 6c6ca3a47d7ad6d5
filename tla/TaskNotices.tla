----------------------------- MODULE TaskNotices -----------------------------
(***************************************************************************)
(* The inboxes of the users.  Creating a task and changing its status each *)
(* write a notification to the task's assignee and to the owner of its     *)
(* project, by inserts of their own after the task's write; administrators *)
(* write to whom they like.  The recipients read their notifications, one  *)
(* by one or all at once.  Who may reach a task is in Workspace.           *)
(***************************************************************************)
EXTENDS Naturals, FiniteSets

CONSTANTS
    UserIds, Admins,    \* Admins hold manage.all and reach every row
    TaskIds,
    OwnerOf,            \* task |-> owner of its project, copied into the task
    Status,
    NoticeIds,          \* bound on the notifications ever written
    LetterIds,          \* bound on those that administrators write
    MaxTold,            \* bound on the announcements about one task
    Requests,
    Created,            \* the kind of notification a new task gives
    NoTask,             \* the task of a notification an administrator writes
    Written,            \* and its kind
    NoRow

Task == [status : Status, assigneeId : UserIds]

\* What a notification says of a task: it was created, or changed status.
News == {Created} \cup Status \X Status

Notice ==
    [userId : UserIds, task : TaskIds, news : News, isRead : BOOLEAN]
    \cup [userId : UserIds, task : {NoTask}, news : {Written}, isRead : BOOLEAN]

ASSUME NoticesAssumption ==
    /\ Admins \subseteq UserIds
    /\ OwnerOf \in [TaskIds -> UserIds]
    /\ MaxTold \in Nat
    /\ LetterIds \subseteq NoticeIds
    /\ IsFiniteSet(NoticeIds) /\ IsFiniteSet(Requests)
    /\ Created \notin Status \X Status
    /\ NoTask \notin TaskIds
    /\ TaskIds \cap NoticeIds = {}
    /\ NoRow \notin Task \cup Notice \cup UserIds

VARIABLES
    users,      \* rows of the users table
    tasks,      \* the tasks table: id |-> row or NoRow
    notices,    \* the notifications table: id |-> row or NoRow
    request,    \* per slot: where the handler is and what it holds
    used,       \* ids of all tasks and notifications ever inserted
    told,       \* history: task |-> announcements ever begun
    missed      \* history: <<user, task>> of inserts that failed or were cut

vars == <<users, tasks, notices, request, used, told, missed>>

Idle == [pc |-> "idle"]

(* `alone' is a history variable of a handler: nobody has changed the      *)
(* task's status since the handler read it.                                *)
Request ==
    [pc : {"idle"}]
    \cup [pc : {"update"}, task : TaskIds, prev : Status, status : Status, alone : BOOLEAN]
    \cup [pc : {"notify"}, task : TaskIds, news : News, left : SUBSET UserIds]
    \cup [pc : {"markRead"}, user : UserIds, notice : NoticeIds]

TaskRows == {t \in TaskIds : tasks[t] # NoRow}
NoticeRows == {n \in NoticeIds : notices[n] # NoRow}

Become(r, state) == request' = [request EXCEPT ![r] = state]

Init ==
    /\ users = UserIds
    /\ tasks = [t \in TaskIds |-> NoRow]
    /\ notices = [n \in NoticeIds |-> NoRow]
    /\ request = [r \in Requests |-> Idle]
    /\ used = {} /\ told = [t \in TaskIds |-> 0] /\ missed = {}

-----------------------------------------------------------------------------
\* Mutant: the project's owner alone.
OwnerOnly(t, task) == {OwnerOf[t]}

\* The assignee and the owner, once each.
recipients(t, task) == {task.assigneeId, OwnerOf[t]}

\* The handler goes on to tell the team of t the news.
announcement(t, task, news) ==
    [pc |-> "notify", task |-> t, news |-> news, left |-> recipients(t, task)]

Tell(t) == told[t] < MaxTold /\ told' = [told EXCEPT ![t] = @ + 1]

\* POST /tasks: the project was found, and its owner copied.
TaskCreate(r, u, t, status) ==
    LET task == [status |-> status, assigneeId |-> u]
    IN  /\ request[r].pc = "idle"
        /\ t \in TaskIds \ used
        /\ {u, OwnerOf[t]} \subseteq users
        /\ tasks' = [tasks EXCEPT ![t] = task]
        /\ used' = used \cup {t}
        /\ Tell(t)
        /\ Become(r, announcement(t, task, Created))
        /\ UNCHANGED <<users, notices, missed>>

\* PATCH /tasks/:id with a status.
UpdateRead(r, t, status) ==
    /\ request[r].pc = "idle"
    /\ t \in TaskRows
    /\ Become(r, [pc |-> "update", task |-> t, prev |-> tasks[t].status,
                  status |-> status, alone |-> TRUE])
    /\ UNCHANGED <<users, tasks, notices, used, told, missed>>

\* Mutant: any status in the body is announced.
AnyStatus(prev, status) == TRUE

isChange(prev, status) == status # prev

\* The other handlers that have read the task's status hold a stale one now.
Overtake(others, t) ==
    [q \in Requests |->
        IF q \in others /\ request[q].pc = "update" /\ request[q].task = t
        THEN [request[q] EXCEPT !.alone = FALSE] ELSE request[q]]

\* The write gives back the row, so the team told is the row's.
UpdateWrite(r) ==
    LET q == request[r]
        t == q.task
        task == [tasks[t] EXCEPT !.status = q.status]
        rest == IF tasks[t].status = q.status THEN request ELSE Overtake(Requests \ {r}, t)
    IN  /\ q.pc = "update"
        /\ t \in TaskRows
        /\ tasks' = [tasks EXCEPT ![t] = task]
        /\ IF isChange(q.prev, q.status)
           THEN /\ Tell(t)
                /\ request' = [rest EXCEPT ![r] = announcement(t, task, <<q.prev, q.status>>)]
           ELSE /\ request' = [rest EXCEPT ![r] = Idle]
                /\ UNCHANGED told
        /\ UNCHANGED <<users, notices, used, missed>>

\* P2025: the task was deleted meanwhile.
UpdateGone(r) ==
    /\ request[r].pc = "update"
    /\ request[r].task \notin TaskRows
    /\ Become(r, Idle)
    /\ UNCHANGED <<users, tasks, notices, used, told, missed>>

-----------------------------------------------------------------------------
(* The inserts of one announcement run side by side.  They do not ask      *)
(* whether the task is still there, and one that fails stops no other.     *)

Told(r, u) ==
    IF request[r].left = {u} THEN Become(r, Idle)
    ELSE request' = [request EXCEPT ![r].left = @ \ {u}]

Insert(n, u, task, news) ==
    /\ u \in users
    /\ n \in NoticeIds \ used
    /\ notices' = [notices EXCEPT ![n] =
           [userId |-> u, task |-> task, news |-> news, isRead |-> FALSE]]
    /\ used' = used \cup {n}

NoticeInsert(r, u, n) ==
    /\ request[r].pc = "notify"
    /\ u \in request[r].left
    /\ n \notin LetterIds
    /\ Insert(n, u, request[r].task, request[r].news)
    /\ Told(r, u)
    /\ UNCHANGED <<users, tasks, told, missed>>

\* P2003: the recipient's account was deleted.
NoticeRefused(r, u) ==
    /\ request[r].pc = "notify"
    /\ u \in request[r].left \ users
    /\ missed' = missed \cup {<<u, request[r].task>>}
    /\ Told(r, u)
    /\ UNCHANGED <<users, tasks, notices, used, told>>

-----------------------------------------------------------------------------
(* POST /notifications, PATCH /notifications/:id/read and                  *)
(* /notifications/read-all                                                 *)

\* An administrator writes to any account; one that is gone is P2003.
NoticeCreate(u, n) ==
    /\ Admins \cap users # {}
    /\ n \in LetterIds
    /\ Insert(n, u, NoTask, Written)
    /\ UNCHANGED <<users, tasks, request, told, missed>>

MarkReadFind(r, u, n) ==
    /\ request[r].pc = "idle"
    /\ u \in users
    /\ n \in NoticeRows
    /\ u \in Admins \/ notices[n].userId = u
    /\ ~ notices[n].isRead
    /\ Become(r, [pc |-> "markRead", user |-> u, notice |-> n])
    /\ UNCHANGED <<users, tasks, notices, used, told, missed>>

MarkRead(r) ==
    LET n == request[r].notice
    IN  /\ request[r].pc = "markRead"
        /\ n \in NoticeRows
        /\ notices' = [notices EXCEPT ![n].isRead = TRUE]
        /\ Become(r, Idle)
        /\ UNCHANGED <<users, tasks, used, told, missed>>

\* P2025: the notice went with its recipient.
MarkReadGone(r) ==
    /\ request[r].pc = "markRead"
    /\ request[r].notice \notin NoticeRows
    /\ Become(r, Idle)
    /\ UNCHANGED <<users, tasks, notices, used, told, missed>>

\* Mutant: the ability alone decides, and an administrator's reaches all.
WithinAbility(u) == {n \in NoticeRows : u \in Admins \/ notices[n].userId = u}

\* The ability and the caller: an administrator's own, too.
unreadOf(u) == {n \in NoticeRows : notices[n].userId = u}

MarkAllRead(u) ==
    /\ u \in users
    /\ \E n \in unreadOf(u) : ~ notices[n].isRead
    /\ notices' = [n \in NoticeIds |->
           IF n \in unreadOf(u) THEN [notices[n] EXCEPT !.isRead = TRUE] ELSE notices[n]]
    /\ UNCHANGED <<users, tasks, request, used, told, missed>>

-----------------------------------------------------------------------------
\* The notifications about a deleted task stay.
DeleteTask(t) ==
    /\ t \in TaskRows
    /\ tasks' = [tasks EXCEPT ![t] = NoRow]
    /\ UNCHANGED <<users, notices, request, used, told, missed>>

\* Mutant: the account goes, the notifications stay.
DeleteAccountOnly(u) ==
    /\ u \in users
    /\ \A t \in TaskRows : u \notin recipients(t, tasks[t])
    /\ users' = users \ {u}
    /\ UNCHANGED <<tasks, notices, request, used, told, missed>>

\* Refused while a task refers to the user, or the project the user owns has
\* one; the user's notifications go too.
DeleteUser(u) ==
    /\ u \in users
    /\ \A t \in TaskRows : u \notin recipients(t, tasks[t])
    /\ users' = users \ {u}
    /\ notices' = [n \in NoticeIds |->
           IF n \in NoticeRows /\ notices[n].userId = u THEN NoRow ELSE notices[n]]
    /\ UNCHANGED <<tasks, request, used, told, missed>>

Cut(r) == IF request[r].pc = "notify" THEN request[r].left \X {request[r].task} ELSE {}

Restart ==
    /\ request' = [r \in Requests |-> Idle]
    /\ missed' = missed \cup UNION {Cut(r) : r \in Requests}
    /\ UNCHANGED <<users, tasks, notices, used, told>>

Next ==
    \/ \E r \in Requests, u \in UserIds, t \in TaskIds, s \in Status : TaskCreate(r, u, t, s)
    \/ \E r \in Requests, t \in TaskIds, s \in Status : UpdateRead(r, t, s)
    \/ \E r \in Requests :
          \/ UpdateWrite(r) \/ UpdateGone(r) \/ MarkRead(r) \/ MarkReadGone(r)
    \/ \E r \in Requests, u \in UserIds :
          \/ NoticeRefused(r, u)
          \/ \E n \in NoticeIds : NoticeInsert(r, u, n) \/ MarkReadFind(r, u, n)
    \/ \E u \in UserIds, n \in NoticeIds : NoticeCreate(u, n)
    \/ \E u \in UserIds : MarkAllRead(u) \/ DeleteUser(u)
    \/ \E t \in TaskIds : DeleteTask(t)
    \/ Restart

Spec == Init /\ [][Next]_vars

-----------------------------------------------------------------------------
\* The tables and the requests in flight keep their shapes, and a notification
\* belongs to an account that exists.
TypeOK ==
    /\ users \subseteq UserIds
    /\ tasks \in [TaskIds -> Task \cup {NoRow}]
    /\ notices \in [NoticeIds -> Notice \cup {NoRow}]
    /\ request \in [Requests -> Request]
    /\ used \subseteq TaskIds \cup NoticeIds /\ TaskRows \cup NoticeRows \subseteq used
    /\ told \in [TaskIds -> 0 .. MaxTold]
    /\ missed \subseteq UserIds \X TaskIds
    /\ \A n \in NoticeRows : notices[n].userId \in users

Delivered(u, t) == {n \in NoticeRows : notices[n].userId = u /\ notices[n].task = t}
Pending(u, t) == {r \in Requests : /\ request[r].pc = "notify"
                                   /\ request[r].task = t /\ u \in request[r].left}

\* Every announcement about a task reaches each of its team exactly once: the
\* notifications a member has and those still on their way are as many as the
\* announcements, except after a crash or a failed insert.
ToldOnceEach ==
    \A t \in TaskRows : \A u \in {tasks[t].assigneeId, OwnerOf[t]} :
        <<u, t>> \notin missed =>
            Cardinality(Delivered(u, t)) + Cardinality(Pending(u, t)) = told[t]

\* A status change that nobody raced with is announced as what it was; a write
\* that changes nothing is not announced.
ChangesAnnouncedWhenAlone ==
    [][\A r \in Requests :
          request[r].pc = "update" /\ request[r].alone /\ UpdateWrite(r) =>
              LET t == request[r].task IN
              IF tasks'[t].status = tasks[t].status THEN request'[r] = Idle
              ELSE /\ request'[r].pc = "notify"
                   /\ request'[r].news = <<tasks[t].status, tasks'[t].status>>]_vars

\* A notification becomes read by a request of its recipient, or singly by one
\* of an administrator: nobody empties the inbox of another.
ReadByRecipient ==
    [][\A n \in NoticeRows :
          n \in NoticeRows' /\ notices'[n].isRead # notices[n].isRead =>
              \/ \E r \in Requests :
                    /\ request[r].pc = "markRead" /\ request'[r] = Idle
                    /\ request[r].notice = n
                    /\ request[r].user \in Admins \cup {notices[n].userId}
              \/ \A m \in NoticeRows : notices'[m] # notices[m] =>
                    notices[m].userId = notices[n].userId]_vars

\* Whose each row is.
Owner == [n \in NoticeIds |-> IF notices[n] = NoRow THEN NoRow ELSE notices[n].userId]

Owned ==
    INSTANCE OwnedRows WITH Users <- UserIds, Ids <- NoticeIds, NoUser <- NoRow,
        members <- users, joined <- UserIds, born <- used \cap NoticeIds, owner <- Owner

\* Notifications are rows of their recipients: an insert of an announcement that
\* runs while its recipient is deleted leaves none behind, and marking one read
\* that is gone does not bring it back.
RefinesOwnedRows == Owned!Spec
=============================================================================
