-------------------------- MODULE TimeEntriesProofs --------------------------
(***************************************************************************)
(* Theorems about TimeEntries: entries stay within the project of their    *)
(* task, timers are started and stopped only as their owners may expect,   *)
(* for every set of users, rows and concurrent calls.                      *)
(***************************************************************************)
EXTENDS TimeEntries, FiniteSetTheorems, TLAPS

LEMMA RequestFields ==
    ASSUME NEW q \in Request
    PROVE  /\ q.pc \in {"close", "insert"} =>
                 q.user \in Users /\ q.row \in Entry /\ q.alone \in BOOLEAN
           /\ q.pc \in {"closeFirst", "write"} =>
                 /\ q.user \in Users /\ q.id \in EntryIds /\ q.at \in Date
                 /\ q.startedAt \in Date \cup {Absent} /\ q.endedAt \in Date \cup {Null, Absent}
                 /\ q.link \in Link \cup {Absent} /\ q.alone \in BOOLEAN
           /\ q.pc \in {"idle", "close", "insert", "closeFirst", "write"}
  BY DEF Request

LEMMA IdleRequest == Idle \in Request /\ Idle.pc = "idle"
  BY DEF Idle, Request

\* What a call becomes that is overtaken, or has closed the running timers.
LEMMA RequestUpdates ==
    ASSUME NEW q \in Request, q.pc # "idle", NEW b \in BOOLEAN
    PROVE  /\ [q EXCEPT !.alone = b] \in Request
           /\ q.pc = "close" => [q EXCEPT !.pc = "insert", !.alone = b] \in Request
           /\ q.pc = "closeFirst" => [q EXCEPT !.pc = "write", !.alone = b] \in Request
  BY DEF Request

\* A task and a project that go together.
LinkRight(link) == link.taskId # Null => link.projectId = ProjectOf[link.taskId]

LEMMA ResolvedLink ==
    ASSUME NEW u \in Users, NEW p \in Projects \cup {Null}, NEW t \in Tasks \cup {Null},
           NEW link \in resolveProjectAndTask(u, p, t)
    PROVE  link \in Link /\ LinkRight(link) /\ link.taskId = t
  BY TimerAssumption DEF resolveProjectAndTask, projectFor, Link, LinkRight

-----------------------------------------------------------------------------
(* TypeOK is inductive.                                                    *)

LEMMA TypeOKInit == Init => TypeOK
  BY DEF Init, TypeOK, Rows, Request, Idle

LEMMA TablesKeepType ==
    ASSUME TypeOK, UNCHANGED <<users, entries, used, projects, tasks>>,
           request' \in [Requests -> Request]
    PROVE  TypeOK'
  BY DEF TypeOK, Rows, ForeignKeys

LEMMA BecomeType ==
    ASSUME TypeOK, NEW r \in Requests, NEW q \in Request, Become(r, q)
    PROVE  request' \in [Requests -> Request]
  BY DEF TypeOK, Become

LEMMA FinishType ==
    ASSUME TypeOK, NEW r \in Requests, NEW u, NEW started, Finish(r, u, started)
    PROVE  request' \in [Requests -> Request]
<1>1. ASSUME NEW s \in Requests, s # r, request[s].pc # "idle"
      PROVE  [request[s] EXCEPT !.alone = FALSE] \in Request
  BY <1>1, RequestUpdates DEF TypeOK
<1> QED
  BY <1>1, IdleRequest DEF Finish, TypeOK

LEMMA ReadsKeepType ==
    ASSUME TypeOK, NEW r \in Requests,
           \/ \E u \in Users, row \in Entry : CreateResolve(r, u, row)
           \/ \E u \in Users, e \in EntryIds,
                 startedAt \in Date \cup {Absent}, endedAt \in Date \cup {Null, Absent},
                 p \in Projects \cup {Null, Absent}, t \in Tasks \cup {Null, Absent} :
                    UpdateRead(r, u, e, startedAt, endedAt, p, t)
           \/ CreateOrphaned(r) \/ UpdateFails(r)
    PROVE  TypeOK'
<1> SUFFICES \E q \in Request : Become(r, q) /\ UNCHANGED <<users, entries, used, projects, tasks>>
  BY BecomeType, TablesKeepType
<1>1. ASSUME NEW u \in Users, NEW row \in Entry, CreateResolve(r, u, row)
      PROVE  \E q \in Request : Become(r, q) /\ UNCHANGED <<users, entries, used, projects, tasks>>
  <2>1. PICK link \in resolveProjectAndTask(u, row.projectId, row.taskId) :
           Become(r, [pc |-> IF row.endedAt = Null THEN "close" ELSE "insert",
                      user |-> u, alone |-> FALSE,
                      row |-> [row EXCEPT !.projectId = link.projectId]])
    BY <1>1 DEF CreateResolve
  <2>2. [row EXCEPT !.projectId = link.projectId] \in Entry
    BY ResolvedLink DEF Entry, Link
  <2>3. [pc |-> IF row.endedAt = Null THEN "close" ELSE "insert", user |-> u, alone |-> FALSE,
         row |-> [row EXCEPT !.projectId = link.projectId]] \in Request
    BY <2>2 DEF Request
  <2> QED
    BY <1>1, <2>1, <2>3 DEF CreateResolve
<1>2. ASSUME NEW u \in Users, NEW e \in EntryIds,
             NEW startedAt \in Date \cup {Absent}, NEW endedAt \in Date \cup {Null, Absent},
             NEW p \in Projects \cup {Null, Absent}, NEW t \in Tasks \cup {Null, Absent},
             UpdateRead(r, u, e, startedAt, endedAt, p, t)
      PROVE  \E q \in Request : Become(r, q) /\ UNCHANGED <<users, entries, used, projects, tasks>>
  <2> DEFINE row == entries[e]
             start == Given(startedAt, row.startedAt)
             end == Given(endedAt, row.endedAt)
             links == IF p = Absent /\ t = Absent THEN {Absent}
                      ELSE resolveProjectAndTask(u, Given(p, row.projectId), Given(t, row.taskId))
             q(link) == [pc |-> IF reopens(row.endedAt, end) THEN "closeFirst" ELSE "write",
                         user |-> u, id |-> e, at |-> start, startedAt |-> startedAt,
                         endedAt |-> endedAt, link |-> link,
                         alone |-> Cardinality(Running(u)) <= 1]
  <2>1. PICK link \in links : Become(r, q(link))
    BY <1>2 DEF UpdateRead
  <2>2. row \in Entry
    BY <1>2 DEF UpdateRead, TypeOK, Rows
  <2>3. start \in Date /\ link \in Link \cup {Absent}
    BY <2>2, ResolvedLink DEF Given, Entry
  <2>4. q(link) \in Request
    <3> HIDE DEF start, end
    <3> QED
      BY <2>3 DEF Request
  <2> QED
    BY <1>2, <2>1, <2>4 DEF UpdateRead
<1>3. CASE CreateOrphaned(r) \/ UpdateFails(r)
  BY <1>3, IdleRequest DEF CreateOrphaned, UpdateFails
<1> QED
  BY <1>1, <1>2, <1>3

\* Ending the running timers of a caller is all that the update of many rows
\* does.
LEMMA ClosedRow ==
    ASSUME TypeOK, NEW u \in Users, NEW at \in Date, closeRunningForUser(u, at)
    PROVE  /\ entries' \in [EntryIds -> Entry \cup {NoRow}] /\ Rows' = Rows
           /\ \A e \in Rows :
                 /\ entries'[e].userId = entries[e].userId
                 /\ entries'[e].projectId = entries[e].projectId
                 /\ entries'[e].taskId = entries[e].taskId
                 /\ entries'[e].endedAt = IF e \in Running(u) THEN at ELSE entries[e].endedAt
           /\ Running(u)' = {}
<1>1. ASSUME NEW e \in EntryIds
      PROVE  \/ e \in Running(u) /\ e \in Rows /\ entries[e] \in Entry
                /\ entries'[e] = [entries[e] EXCEPT !.endedAt = at]
             \/ e \notin Running(u) /\ entries'[e] = entries[e] /\ entries[e] \in Entry \cup {NoRow}
  BY DEF closeRunningForUser, Running, Rows, TypeOK
<1>2. \A row \in Entry : [row EXCEPT !.endedAt = at] \in Entry
  BY DEF Entry
<1>3. entries' \in [EntryIds -> Entry \cup {NoRow}]
  BY <1>1, <1>2 DEF closeRunningForUser
<1>4. Rows' = Rows
  <2>1. NoRow \notin Entry
    BY TimerAssumption
  <2>2. ASSUME NEW e \in EntryIds PROVE entries'[e] # NoRow <=> entries[e] # NoRow
    BY <1>1, <1>2, <2>1
  <2> QED
    BY <2>2 DEF Rows
<1>5. \A e \in Rows :
         /\ entries'[e].userId = entries[e].userId
         /\ entries'[e].projectId = entries[e].projectId
         /\ entries'[e].taskId = entries[e].taskId
         /\ entries'[e].endedAt = IF e \in Running(u) THEN at ELSE entries[e].endedAt
  BY <1>1 DEF Entry, Rows
<1>6. at # Null
  BY TimerAssumption
<1>7. Running(u)' = {}
  BY <1>4, <1>5, <1>6 DEF Running
<1> QED
  BY <1>3, <1>4, <1>5, <1>7

LEMMA ClosesKeepType ==
    ASSUME TypeOK, NEW r \in Requests, CreateClose(r) \/ UpdateClose(r)
    PROVE  TypeOK'
<1> DEFINE q == request[r]
<1>1. PICK at \in Date : closeRunningForUser(q.user, at)
  BY RequestFields DEF CreateClose, UpdateClose, TypeOK, Entry
<1>2. q.user \in Users /\ q \in Request
  BY RequestFields DEF CreateClose, UpdateClose, TypeOK
<1>3. request' \in [Requests -> Request]
  BY <1>2, RequestUpdates, BecomeType DEF CreateClose, UpdateClose
<1>4. UNCHANGED <<users, used, projects, tasks>>
  BY DEF CreateClose, UpdateClose
<1> QED
  BY <1>1, <1>2, <1>3, <1>4, ClosedRow DEF TypeOK, ForeignKeys

LEMMA PatchedRow ==
    ASSUME NEW row \in Entry, NEW q \in Request, q.pc = "write"
    PROVE  /\ patched(row, q) \in Entry
           /\ patched(row, q).userId = row.userId
           /\ patched(row, q).endedAt = Given(q.endedAt, row.endedAt)
           /\ q.link = Absent => /\ patched(row, q).projectId = row.projectId
                                 /\ patched(row, q).taskId = row.taskId
           /\ q.link # Absent => /\ patched(row, q).projectId = q.link.projectId
                                 /\ patched(row, q).taskId = q.link.taskId
<1>1. /\ q.startedAt \in Date \cup {Absent} /\ q.endedAt \in Date \cup {Null, Absent}
      /\ q.link # Absent => q.link.projectId \in Projects \cup {Null}
                            /\ q.link.taskId \in Tasks \cup {Null}
  BY RequestFields DEF Link
<1> QED
  BY <1>1 DEF patched, Given, Entry

LEMMA WritesKeepType ==
    ASSUME TypeOK, NEW r \in Requests, UpdateWrite(r) \/ \E e \in EntryIds : CreateInsert(r, e)
    PROVE  TypeOK'
<1> DEFINE q == request[r]
<1>1. ASSUME NEW e \in EntryIds, NEW row \in Entry, ForeignKeys(row),
             entries' = [entries EXCEPT ![e] = row], used' = used \cup {e},
             row.userId \in users, UNCHANGED <<users, projects, tasks>>, request' \in [Requests -> Request]
      PROVE  TypeOK'
  BY <1>1, TimerAssumption DEF TypeOK, Rows, ForeignKeys
<1>2. ASSUME NEW e \in EntryIds, CreateInsert(r, e) PROVE TypeOK'
  <2>1. q.row \in Entry /\ q.row.userId \in users /\ request' \in [Requests -> Request]
    BY <1>2, RequestFields, FinishType DEF CreateInsert, TypeOK
  <2> QED
    BY <1>1, <1>2, <2>1 DEF CreateInsert
<1>3. CASE UpdateWrite(r)
  <2>1. q \in Request /\ q.pc = "write" /\ q.id \in Rows /\ entries[q.id] \in Entry
    BY <1>3 DEF UpdateWrite, TypeOK, Rows
  <2>2. /\ patched(entries[q.id], q) \in Entry /\ ForeignKeys(patched(entries[q.id], q))
        /\ patched(entries[q.id], q).userId \in users
    BY <1>3, <2>1, PatchedRow DEF UpdateWrite, ForeignKeys, TypeOK
  <2>3. request' \in [Requests -> Request]
    BY <1>3, FinishType DEF UpdateWrite
  <2>4. used' = used \cup {q.id} /\ q.id \in EntryIds
    BY <1>3, <2>1 DEF UpdateWrite, TypeOK, Rows
  <2> QED
    BY <1>1, <1>3, <2>2, <2>3, <2>4 DEF UpdateWrite
<1> QED
  BY <1>2, <1>3

\* ON DELETE SET NULL.
LEMMA DetachedRow ==
    ASSUME TypeOK, NEW goneProjects, NEW goneTasks, entries' = Detached(goneProjects, goneTasks)
    PROVE  /\ entries' \in [EntryIds -> Entry \cup {NoRow}] /\ Rows' = Rows
           /\ \A e \in Rows :
                 /\ entries'[e].userId = entries[e].userId
                 /\ entries'[e].endedAt = entries[e].endedAt
                 /\ entries'[e].projectId =
                       IF entries[e].projectId \in goneProjects THEN Null ELSE entries[e].projectId
                 /\ entries'[e].taskId =
                       IF entries[e].taskId \in goneTasks THEN Null ELSE entries[e].taskId
<1> DEFINE row(e) == [entries[e] EXCEPT !.projectId = IF @ \in goneProjects THEN Null ELSE @,
                                        !.taskId = IF @ \in goneTasks THEN Null ELSE @]
<1>1. ASSUME NEW e \in Rows
      PROVE  /\ row(e) \in Entry
             /\ row(e).userId = entries[e].userId /\ row(e).endedAt = entries[e].endedAt
             /\ row(e).projectId =
                   IF entries[e].projectId \in goneProjects THEN Null ELSE entries[e].projectId
             /\ row(e).taskId = IF entries[e].taskId \in goneTasks THEN Null ELSE entries[e].taskId
  BY DEF TypeOK, Rows, Entry
<1>2. \A e \in EntryIds : entries'[e] = IF e \in Rows THEN row(e) ELSE NoRow
  BY DEF Detached
<1> HIDE DEF row
<1>3. entries' \in [EntryIds -> Entry \cup {NoRow}]
  BY <1>1, <1>2 DEF Detached
<1>4. Rows' = Rows
  BY <1>1, <1>2, TimerAssumption DEF Rows
<1> QED
  BY <1>1, <1>2, <1>3, <1>4 DEF Rows

\* ON DELETE CASCADE.
LEMMA DeletedRows ==
    ASSUME entries \in [EntryIds -> Entry \cup {NoRow}], NEW u, DeleteUser(u)
    PROVE  /\ Rows' = {e \in Rows : entries[e].userId # u}
           /\ \A e \in Rows' : entries'[e] = entries[e]
           /\ entries' \in [EntryIds -> Entry \cup {NoRow}]
<1>1. \A e \in EntryIds :
         entries'[e] = IF e \in Rows /\ entries[e].userId = u THEN NoRow ELSE entries[e]
  BY DEF DeleteUser
<1>2. entries' \in [EntryIds -> Entry \cup {NoRow}]
  BY DEF DeleteUser
<1> QED
  BY <1>1, <1>2 DEF Rows

LEMMA DeletesKeepType ==
    ASSUME TypeOK,
           \/ \E u \in Users, e \in EntryIds : Delete(u, e)
           \/ \E t \in Tasks : DeleteTask(t)
           \/ \E p \in Projects : DeleteProject(p)
           \/ \E u \in Users : DeleteUser(u)
    PROVE  TypeOK'
<1>1. ASSUME NEW u \in Users, NEW e \in EntryIds, Delete(u, e) PROVE TypeOK'
  BY <1>1 DEF Delete, TypeOK, Rows, ForeignKeys
<1>2. ASSUME NEW goneProjects, NEW goneTasks, entries' = Detached(goneProjects, goneTasks),
             projects' = projects \ goneProjects, tasks' = tasks \ goneTasks,
             UNCHANGED <<users, used, request>>
      PROVE  TypeOK'
  BY <1>2, DetachedRow DEF TypeOK, ForeignKeys
<1>3. ASSUME NEW t \in Tasks, DeleteTask(t) PROVE TypeOK'
  <2>1. projects' = projects \ {}
    BY <1>3 DEF DeleteTask
  <2> QED
    BY <1>2, <1>3, <2>1 DEF DeleteTask
<1>4. ASSUME NEW p \in Projects, DeleteProject(p) PROVE TypeOK'
  BY <1>2, <1>4 DEF DeleteProject
<1>5. ASSUME NEW u \in Users, DeleteUser(u) PROVE TypeOK'
  <2>1. /\ Rows' = {e \in Rows : entries[e].userId # u}
        /\ \A e \in Rows' : entries'[e] = entries[e]
        /\ entries' \in [EntryIds -> Entry \cup {NoRow}]
    BY <1>5, DeletedRows DEF TypeOK
  <2> QED
    BY <1>5, <2>1 DEF DeleteUser, TypeOK, ForeignKeys
<1> QED
  BY <1>1, <1>3, <1>4, <1>5

LEMMA TypeOKNext == TypeOK /\ [Next]_vars => TypeOK'
<1> SUFFICES ASSUME TypeOK, [Next]_vars PROVE TypeOK'
  OBVIOUS
<1>1. CASE Restart
  BY <1>1, IdleRequest, TablesKeepType DEF Restart
<1>2. CASE UNCHANGED vars
  BY <1>2, TablesKeepType DEF vars, TypeOK
<1> QED
  BY <1>1, <1>2, ReadsKeepType, ClosesKeepType, WritesKeepType, DeletesKeepType DEF Next

\* No entry refers to a project or a task that is gone.
THEOREM NoDanglingEntries == Spec => []TypeOK
  BY TypeOKInit, TypeOKNext, PTL DEF Spec

-----------------------------------------------------------------------------
(* Entries stay within the project of their task.                          *)

\* What a call is about to write goes together, and is written for the owner of
\* the row or by an administrator.
CallRight(q) ==
    /\ q.pc \in {"close", "insert"} => q.row.userId = q.user /\ LinkRight(q.row)
    /\ q.pc \in {"closeFirst", "write"} =>
          /\ q.id \in used
          /\ q.id \in Rows => q.user \in Admins \cup {entries[q.id].userId}
          /\ q.link # Absent => LinkRight(q.link)

BookedInv ==
    /\ TypeOK
    /\ \A e \in Rows : LinkRight(entries[e])
    /\ \A r \in Requests : CallRight(request[r])

\* Ids are not used again, and rows do not change hands.
OwnersKept ==
    /\ used \subseteq used'
    /\ \A e \in Rows' \cap used : e \in Rows /\ entries'[e].userId = entries[e].userId

LEMMA CallKept ==
    ASSUME OwnersKept, NEW q \in Request, CallRight(q)
    PROVE  /\ CallRight(q)'
           /\ q.pc # "idle" => CallRight([q EXCEPT !.alone = FALSE])'
<1>1. CallRight(q)'
  BY DEF CallRight, OwnersKept
<1>2. ASSUME q.pc # "idle" PROVE CallRight([q EXCEPT !.alone = FALSE])'
  <2> DEFINE p == [q EXCEPT !.alone = FALSE]
  <2>1. /\ p.pc = q.pc
        /\ q.pc \in {"close", "insert"} => p.row = q.row /\ p.user = q.user
        /\ q.pc \in {"closeFirst", "write"} => p.id = q.id /\ p.user = q.user /\ p.link = q.link
    BY <1>2 DEF Request
  <2> HIDE DEF p
  <2> QED
    BY <1>1, <2>1 DEF CallRight
<1> QED
  BY <1>1, <1>2

LEMMA BookedKept ==
    ASSUME BookedInv, TypeOK', OwnersKept, \A e \in Rows' : LinkRight(entries[e])',
           \A r \in Requests :
              \/ request'[r] = request[r]
              \/ request[r].pc # "idle" /\ request'[r] = [request[r] EXCEPT !.alone = FALSE]
              \/ CallRight(request[r])'
    PROVE  BookedInv'
<1>1. ASSUME NEW r \in Requests PROVE CallRight(request[r])'
  <2>1. request[r] \in Request /\ CallRight(request[r])
    BY DEF BookedInv, TypeOK
  <2> PICK q \in Request : q = request[r] /\ CallRight(q)
    BY <2>1
  <2> QED
    BY CallKept
<1> QED
  BY <1>1 DEF BookedInv

LEMMA BookedInit == Init => BookedInv
  BY TypeOKInit DEF Init, BookedInv, Rows, CallRight, Idle

\* A call that ends, having started a timer or not, at most overtakes others.
LEMMA FinishedCalls ==
    ASSUME NEW r \in Requests, NEW u, NEW started, Finish(r, u, started)
    PROVE  \A s \in Requests :
              \/ request'[s] = request[s]
              \/ request[s].pc # "idle" /\ request'[s] = [request[s] EXCEPT !.alone = FALSE]
              \/ CallRight(request[s])'
  BY DEF Finish, CallRight, Idle

LEMMA BookedNext == BookedInv /\ [Next]_vars => BookedInv'
<1> SUFFICES ASSUME BookedInv, [Next]_vars PROVE BookedInv'
  OBVIOUS
<1>t. TypeOK /\ TypeOK'
  BY TypeOKNext DEF BookedInv
<1>u. UNCHANGED <<entries, used>> => OwnersKept /\ \A e \in Rows' : LinkRight(entries[e])'
  BY DEF OwnersKept, Rows, BookedInv, LinkRight
\* A call that goes on or ends, over the same rows.
<1>c. ASSUME NEW r \in Requests, NEW q, Become(r, q), CallRight(q)', OwnersKept,
             \A e \in Rows' : LinkRight(entries[e])'
      PROVE  BookedInv'
  <2>1. \A s \in Requests : request'[s] = request[s] \/ CallRight(request[s])'
    BY <1>c, <1>t DEF Become, TypeOK
  <2> QED
    BY <1>c, <1>t, <2>1, BookedKept
<1>1. ASSUME NEW r \in Requests, NEW u \in Users, NEW row \in Entry, CreateResolve(r, u, row)
      PROVE  BookedInv'
  <2>1. PICK link \in resolveProjectAndTask(u, row.projectId, row.taskId) :
           Become(r, [pc |-> IF row.endedAt = Null THEN "close" ELSE "insert",
                      user |-> u, alone |-> FALSE,
                      row |-> [row EXCEPT !.projectId = link.projectId]])
    BY <1>1 DEF CreateResolve
  <2> PICK q : q = [pc |-> IF row.endedAt = Null THEN "close" ELSE "insert",
                    user |-> u, alone |-> FALSE,
                    row |-> [row EXCEPT !.projectId = link.projectId]]
    OBVIOUS
  <2>2. q.row.userId = u /\ LinkRight(q.row)
    BY <1>1, ResolvedLink DEF CreateResolve, Entry, LinkRight
  <2>3. CallRight(q)'
    BY <2>2 DEF CallRight
  <2> QED
    BY <1>1, <1>c, <1>u, <2>1, <2>3 DEF CreateResolve
<1>2. ASSUME NEW r \in Requests, NEW u \in Users, NEW e \in EntryIds,
             NEW startedAt \in Date \cup {Absent}, NEW endedAt \in Date \cup {Null, Absent},
             NEW p \in Projects \cup {Null, Absent}, NEW t \in Tasks \cup {Null, Absent},
             UpdateRead(r, u, e, startedAt, endedAt, p, t)
      PROVE  BookedInv'
  <2> DEFINE row == entries[e]
             links == IF p = Absent /\ t = Absent THEN {Absent}
                      ELSE resolveProjectAndTask(u, Given(p, row.projectId), Given(t, row.taskId))
  <2>1. PICK q : /\ Become(r, q) /\ q.pc \in {"closeFirst", "write"}
                 /\ q.user = u /\ q.id = e /\ q.link \in links
    BY <1>2 DEF UpdateRead
  <2>2. e \in Rows /\ e \in used /\ row \in Entry /\ u \in Admins \cup {row.userId}
    BY <1>2, <1>t DEF UpdateRead, mayReach, TypeOK, Rows
  <2>3. q.link # Absent => LinkRight(q.link)
    BY <2>1, <2>2, ResolvedLink DEF Given, Entry
  <2>4. UNCHANGED <<entries, used>>
    BY <1>2 DEF UpdateRead
  <2>5. CallRight(q)'
    BY <2>1, <2>2, <2>3, <2>4 DEF CallRight
  <2> QED
    BY <1>c, <1>u, <2>1, <2>4, <2>5
<1>3. ASSUME NEW r \in Requests, CreateOrphaned(r) \/ UpdateFails(r) PROVE BookedInv'
  <2>1. Become(r, Idle) /\ UNCHANGED <<entries, used>>
    BY <1>3 DEF CreateOrphaned, UpdateFails
  <2>2. CallRight(Idle)'
    BY DEF CallRight, Idle
  <2> QED
    BY <1>c, <1>u, <2>1, <2>2
<1>4. ASSUME NEW r \in Requests, CreateClose(r) \/ UpdateClose(r) PROVE BookedInv'
  <2>0. request[r] \in Request /\ request[r].pc \in {"close", "closeFirst"} /\ CallRight(request[r])
    BY <1>4, <1>t DEF CreateClose, UpdateClose, TypeOK, BookedInv
  <2> PICK q \in Request : q = request[r] /\ CallRight(q) /\ q.pc \in {"close", "closeFirst"}
    BY <2>0
  <2> DEFINE p == [q EXCEPT !.pc = IF q.pc = "close" THEN "insert" ELSE "write", !.alone = TRUE]
  <2>1. Become(r, p) /\ used' = used
    BY <1>4 DEF CreateClose, UpdateClose
  <2>2. PICK at \in Date : closeRunningForUser(q.user, at)
    BY <1>4, <1>t, RequestFields DEF CreateClose, UpdateClose, TypeOK, Entry
  <2>3. q.user \in Users
    BY RequestFields
  <2>4. OwnersKept /\ \A e \in Rows' : LinkRight(entries[e])'
    BY <1>t, <2>1, <2>2, <2>3, ClosedRow DEF OwnersKept, LinkRight, BookedInv
  <2>5. CallRight(q)'
    BY <2>4, CallKept
  <2>6. /\ q.pc = "close" => p.pc = "insert" /\ p.row = q.row /\ p.user = q.user
        /\ q.pc = "closeFirst" => /\ p.pc = "write" /\ p.id = q.id
                                  /\ p.user = q.user /\ p.link = q.link
    BY DEF Request
  <2>7. CallRight(p)'
    <3> HIDE DEF p
    <3> QED
      BY <2>5, <2>6 DEF CallRight
  <2> QED
    BY <1>c, <2>1, <2>4, <2>7
<1>5. ASSUME NEW r \in Requests, NEW e \in EntryIds, CreateInsert(r, e) PROVE BookedInv'
  <2>1. OwnersKept
    BY <1>5, <1>t DEF CreateInsert, OwnersKept, Rows, TypeOK
  <2>2. LinkRight(request[r].row)
    BY <1>5 DEF CreateInsert, BookedInv, CallRight
  <2>3. \A d \in Rows' : LinkRight(entries[d])'
    BY <1>5, <1>t, <2>2 DEF CreateInsert, BookedInv, Rows, TypeOK, LinkRight
  <2> QED
    BY <1>5, <1>t, <2>1, <2>3, FinishedCalls, BookedKept DEF CreateInsert
<1>6. ASSUME NEW r \in Requests, UpdateWrite(r) PROVE BookedInv'
  <2> DEFINE q == request[r]
             row == patched(entries[q.id], q)
  <2>1. /\ q \in Request /\ q.pc = "write" /\ q.id \in Rows /\ entries[q.id] \in Entry
        /\ entries' = [entries EXCEPT ![q.id] = row] /\ used' = used
    BY <1>6, <1>t DEF UpdateWrite, TypeOK, Rows
  <2>2. row.userId = entries[q.id].userId /\ LinkRight(row)
    BY <2>1, PatchedRow DEF LinkRight, BookedInv, CallRight
  <2> HIDE DEF row
  <2>3. OwnersKept /\ \A d \in Rows' : LinkRight(entries[d])'
    BY <1>t, <2>1, <2>2 DEF OwnersKept, BookedInv, Rows, TypeOK, LinkRight
  <2> QED
    BY <1>6, <1>t, <2>3, FinishedCalls, BookedKept DEF UpdateWrite
<1>7. ASSUME NEW u \in Users, NEW e \in EntryIds, Delete(u, e) PROVE BookedInv'
  <2>1. /\ Rows' = Rows \ {e} /\ \A d \in Rows' : entries'[d] = entries[d]
        /\ UNCHANGED <<used, request>>
    BY <1>7, <1>t DEF Delete, Rows, TypeOK
  <2>2. OwnersKept /\ \A d \in Rows' : LinkRight(entries[d])'
    BY <2>1 DEF OwnersKept, LinkRight, BookedInv
  <2> QED
    BY <1>t, <2>1, <2>2, BookedKept
\* A project goes with all its tasks.
<1>8. ASSUME NEW goneProjects, NEW goneTasks, entries' = Detached(goneProjects, goneTasks),
             \A t \in tasks : ProjectOf[t] \in goneProjects => t \in goneTasks,
             UNCHANGED <<used, request>>
      PROVE  BookedInv'
  <2>1. OwnersKept
    BY <1>8, <1>t, DetachedRow DEF OwnersKept
  <2>2. ASSUME NEW e \in Rows' PROVE LinkRight(entries[e])'
    <3>1. e \in Rows /\ entries[e].taskId \in tasks \cup {Null} /\ LinkRight(entries[e])
      BY <1>8, <1>t, DetachedRow DEF BookedInv, TypeOK, ForeignKeys
    <3> QED
      BY <1>8, <1>t, <3>1, DetachedRow DEF LinkRight
  <2> QED
    BY <1>8, <1>t, <2>1, <2>2, BookedKept
<1>9. ASSUME NEW t \in Tasks, DeleteTask(t) PROVE BookedInv'
  BY <1>8, <1>9 DEF DeleteTask
<1>10. ASSUME NEW p \in Projects, DeleteProject(p) PROVE BookedInv'
  BY <1>8, <1>10 DEF DeleteProject
<1>13. ASSUME NEW u \in Users, DeleteUser(u) PROVE BookedInv'
  <2>1. /\ Rows' \subseteq Rows /\ \A d \in Rows' : entries'[d] = entries[d]
        /\ UNCHANGED <<used, request>>
    BY <1>13, <1>t, DeletedRows DEF DeleteUser, TypeOK
  <2>2. OwnersKept /\ \A d \in Rows' : LinkRight(entries[d])'
    BY <2>1 DEF OwnersKept, LinkRight, BookedInv
  <2> QED
    BY <1>t, <2>1, <2>2, BookedKept
<1>11. CASE Restart
  <2>1. \A s \in Requests : CallRight(request[s])'
    BY <1>11 DEF Restart, CallRight, Idle
  <2> QED
    BY <1>11, <1>t, <1>u, <2>1, BookedKept DEF Restart
<1>12. CASE UNCHANGED vars
  BY <1>12, <1>t, <1>u, BookedKept DEF vars
<1> QED
  BY <1>1, <1>2, <1>3, <1>4, <1>5, <1>6, <1>7, <1>9, <1>10, <1>11, <1>12, <1>13 DEF Next

LEMMA BookedInvariant == Spec => []BookedInv
  BY BookedInit, BookedNext, PTL DEF Spec

\* No interleaving of edits and deletions books an entry on a task and on the
\* project of another.
THEOREM BookedWithinProject == Spec => []TaskWithinProject
<1>1. BookedInv => TaskWithinProject
  BY DEF BookedInv, LinkRight, TaskWithinProject
<1> QED
  BY <1>1, BookedInvariant, PTL

-----------------------------------------------------------------------------
(* Timers are stopped on behalf of their owners.                           *)

LEMMA RunningSame ==
    ASSUME NEW u, Rows' = Rows,
           \A e \in Rows : entries'[e].userId = entries[e].userId
                           /\ entries'[e].endedAt = entries[e].endedAt
    PROVE  Running(u)' = Running(u)
  BY DEF Running

\* The update of many rows names the caller alone, and a row is edited by its
\* owner or by an administrator, though it was looked up long before.
THEOREM StoppedByOwner == Spec => TimersStoppedByOwner
<1> DEFINE Stopped(u, e) ==
       e \in Running(u) /\ e \in Rows' /\ e \notin Running(u)'
       => \E r \in Requests : /\ request'[r] # request[r]
                              /\ request[r].user \in {u} \cup Admins
<1>1. ASSUME BookedInv, Next, NEW u \in Users, NEW e \in EntryIds PROVE Stopped(u, e)
  <2>t. TypeOK
    BY <1>1 DEF BookedInv
  <2>1. ASSUME NEW r \in Requests, CreateClose(r) \/ UpdateClose(r) PROVE Stopped(u, e)
    <3>1. PICK at \in Date : closeRunningForUser(request[r].user, at)
      BY <2>1, <2>t, RequestFields DEF CreateClose, UpdateClose, TypeOK, Entry
    <3>2. request[r].user \in Users
      BY <2>1, <2>t, RequestFields DEF CreateClose, UpdateClose, TypeOK
    <3>3. request[r].user # u => Running(u)' = Running(u)
      BY <2>t, <3>1, <3>2, ClosedRow DEF Running
    <3>4. request'[r].pc # request[r].pc
      <4> PICK q \in Request : q = request[r]
        BY <2>t DEF TypeOK
      <4>1. /\ q.pc = "close" => [q EXCEPT !.pc = "insert", !.alone = TRUE].pc = "insert"
            /\ q.pc = "closeFirst" => [q EXCEPT !.pc = "write", !.alone = TRUE].pc = "write"
        BY DEF Request
      <4> QED
        BY <2>1, <2>t, <4>1 DEF CreateClose, UpdateClose, Become, TypeOK
    <3> QED
      BY <3>3, <3>4
  <2>2. ASSUME NEW r \in Requests, UpdateWrite(r) PROVE Stopped(u, e)
    <3>1. /\ request[r].id \in Rows
          /\ request[r].user \in Admins \cup {entries[request[r].id].userId}
      BY <1>1, <2>2 DEF UpdateWrite, BookedInv, CallRight
    <3>2. request'[r] # request[r]
      BY <2>2 DEF UpdateWrite, Finish, Idle
    <3>3. e # request[r].id => entries'[e] = entries[e]
      BY <2>2, <2>t DEF UpdateWrite, TypeOK
    <3> QED
      BY <3>1, <3>2, <3>3 DEF Running
  <2>3. ASSUME NEW r \in Requests, NEW d \in EntryIds, CreateInsert(r, d) PROVE Stopped(u, e)
    <3>1. e \in Rows => entries'[e] = entries[e]
      BY <2>3, <2>t DEF CreateInsert, TypeOK, Rows
    <3> QED
      BY <3>1 DEF Running
  <2>4. ASSUME NEW v \in Users, NEW d \in EntryIds, Delete(v, d) PROVE Stopped(u, e)
    <3>1. e \in Rows' => entries'[e] = entries[e]
      BY <2>4, <2>t DEF Delete, TypeOK, Rows
    <3> QED
      BY <3>1 DEF Running
  <2>5. ASSUME NEW goneProjects, NEW goneTasks, entries' = Detached(goneProjects, goneTasks)
        PROVE  Stopped(u, e)
    BY <2>5, <2>t, DetachedRow, RunningSame
  <2>6. ASSUME UNCHANGED entries PROVE Stopped(u, e)
    BY <2>6 DEF Running, Rows
  <2>7. ASSUME NEW r, \/ \E v, row : CreateResolve(r, v, row)
                      \/ \E v, d, startedAt, endedAt, p, t :
                            UpdateRead(r, v, d, startedAt, endedAt, p, t)
                      \/ CreateOrphaned(r) \/ UpdateFails(r) \/ Restart
        PROVE  UNCHANGED entries
    BY <2>7 DEF CreateResolve, UpdateRead, CreateOrphaned, UpdateFails, Restart
  <2>8. ASSUME (\E t \in Tasks : DeleteTask(t)) \/ (\E p \in Projects : DeleteProject(p))
        PROVE  Stopped(u, e)
    BY <2>5, <2>8 DEF DeleteTask, DeleteProject
  <2>9. ASSUME NEW v \in Users, DeleteUser(v) PROVE Stopped(u, e)
    BY <2>9, <2>t, DeletedRows DEF TypeOK, Running
  <2> HIDE DEF Stopped
  <2> QED
    BY <1>1, <2>1, <2>2, <2>3, <2>4, <2>6, <2>7, <2>8, <2>9 DEF Next
<1>2. BookedInv /\ [Next]_vars => [\A u \in Users, e \in EntryIds : Stopped(u, e)]_vars
  BY <1>1
<1> QED
  BY <1>2, BookedInvariant, PTL DEF Spec, TimersStoppedByOwner

-----------------------------------------------------------------------------
(* A timer started alone is the only one.                                  *)

\* A call that nobody has overtaken since it looked finds at most the timer it
\* writes running.
AloneRight(q) ==
    /\ q.pc = "insert" /\ q.alone => Running(q.user) = {}
    /\ /\ q.pc = "write" /\ q.alone /\ q.endedAt = Null
       /\ q.id \in Rows /\ entries[q.id].userId = q.user
       => Running(q.user) \subseteq {q.id}

AloneInv ==
    /\ BookedInv /\ IsFiniteSet(Rows)
    /\ \A r \in Requests : AloneRight(request[r])

Overtaken(q) == [q EXCEPT !.alone = FALSE]

LEMMA AloneKept ==
    ASSUME AloneInv, BookedInv', IsFiniteSet(Rows)', OwnersKept,
           \A r \in Requests :
              \/ /\ request'[r] = request[r]
                 /\ request[r].pc # "idle" => Running(request[r].user)' \subseteq Running(request[r].user)
              \/ request[r].pc # "idle" /\ request'[r] = Overtaken(request[r])
              \/ AloneRight(request[r])'
    PROVE  AloneInv'
<1>1. ASSUME NEW r \in Requests PROVE AloneRight(request[r])'
  <2>0. request[r] \in Request /\ CallRight(request[r]) /\ AloneRight(request[r])
    BY DEF AloneInv, BookedInv, TypeOK
  <2> PICK q \in Request : q = request[r] /\ CallRight(q) /\ AloneRight(q)
    BY <2>0
  <2>1. CASE request'[r] = q /\ q.pc # "idle" /\ Running(q.user)' \subseteq Running(q.user)
    BY <2>1 DEF AloneRight, OwnersKept, CallRight
  <2>2. CASE q.pc # "idle" /\ request'[r] = Overtaken(q)
    <3>1. Overtaken(q).alone = FALSE
      BY <2>2 DEF Overtaken, Request
    <3> QED
      BY <2>2, <3>1 DEF AloneRight
  <2>3. CASE request'[r] = q /\ q.pc = "idle"
    BY <2>3 DEF AloneRight
  <2> QED
    BY <2>1, <2>2, <2>3
<1> QED
  BY <1>1 DEF AloneInv

LEMMA AloneInit == Init => AloneInv
<1> SUFFICES ASSUME Init PROVE AloneInv
  OBVIOUS
<1>1. Rows = {}
  BY DEF Init, Rows
<1> QED
  BY <1>1, BookedInit, FS_EmptySet DEF Init, AloneInv, AloneRight, Idle

LEMMA FinishedAlone ==
    ASSUME NEW r \in Requests, NEW u, NEW started \in BOOLEAN, Finish(r, u, started)
    PROVE  \A s \in Requests :
              \/ request'[s] = request[s]
                 /\ (started /\ request[s].pc # "idle" => request[s].user # u)
              \/ request[s].pc # "idle" /\ request'[s] = Overtaken(request[s])
              \/ AloneRight(request[s])'
  BY DEF Finish, Overtaken, AloneRight, Idle

\* At most one row of a finite set is that row alone.
LEMMA AtMostOne ==
    ASSUME NEW S, IsFiniteSet(S), Cardinality(S) <= 1, NEW x \in S
    PROVE  S \subseteq {x}
<1>1. IsFiniteSet({x}) /\ Cardinality({x}) = 1
  BY FS_Singleton
<1>2. Cardinality({x}) <= Cardinality(S) /\ Cardinality(S) \in Nat
  BY FS_Subset, FS_CardinalityType
<1>3. Cardinality(S) = Cardinality({x})
  BY <1>1, <1>2
<1> QED
  BY <1>3, FS_Subset

LEMMA AloneNext == AloneInv /\ [Next]_vars => AloneInv'
<1> SUFFICES ASSUME AloneInv, [Next]_vars PROVE AloneInv'
  OBVIOUS
<1>t. BookedInv /\ BookedInv' /\ TypeOK /\ TypeOK'
  BY BookedNext DEF AloneInv, BookedInv
\* A call that goes on or ends, and starts no timer.
<1>c. ASSUME NEW r \in Requests, NEW q, Become(r, q), AloneRight(q)', used' = used,
             OwnersKept, Rows' = Rows, \A u : Running(u)' \subseteq Running(u)
      PROVE  AloneInv'
  <2>1. \A s \in Requests : request'[s] = request[s] \/ AloneRight(request[s])'
    BY <1>c, <1>t DEF Become, TypeOK
  <2> QED
    BY <1>c, <1>t, <2>1, AloneKept DEF AloneInv
<1>u. UNCHANGED <<entries, used>> =>
         OwnersKept /\ Rows' = Rows /\ \A u : Running(u)' = Running(u)
  BY DEF OwnersKept, Rows, Running
<1>1. ASSUME NEW r \in Requests, NEW u \in Users, NEW row \in Entry, CreateResolve(r, u, row)
      PROVE  AloneInv'
  <2>1. PICK q : Become(r, q) /\ q.alone = FALSE
    BY <1>1 DEF CreateResolve
  <2>2. AloneRight(q)'
    BY <2>1 DEF AloneRight
  <2> QED
    BY <1>1, <1>c, <1>u, <2>1, <2>2 DEF CreateResolve
<1>2. ASSUME NEW r \in Requests, NEW u \in Users, NEW e \in EntryIds,
             NEW startedAt \in Date \cup {Absent}, NEW endedAt \in Date \cup {Null, Absent},
             NEW p \in Projects \cup {Null, Absent}, NEW t \in Tasks \cup {Null, Absent},
             UpdateRead(r, u, e, startedAt, endedAt, p, t)
      PROVE  AloneInv'
  <2> DEFINE before == entries[e].endedAt
             after == Given(endedAt, before)
  <2>1. PICK q : /\ Become(r, q)
                 /\ q.pc = IF reopens(before, after) THEN "closeFirst" ELSE "write"
                 /\ q.user = u /\ q.id = e /\ q.endedAt = endedAt
                 /\ q.alone = (Cardinality(Running(u)) <= 1)
    BY <1>2 DEF UpdateRead
  <2>2. UNCHANGED <<entries, used>> /\ e \in Rows
    BY <1>2 DEF UpdateRead
  <2>3. ASSUME q.pc = "write", q.alone, endedAt = Null, entries[e].userId = u
        PROVE  Running(u) \subseteq {e}
    <3>1. before = Null
      BY <2>1, <2>3, TimerAssumption DEF reopens, Given
    <3>2. e \in Running(u)
      BY <2>2, <2>3, <3>1 DEF Running
    <3>3. IsFiniteSet(Running(u))
      <4>1. Running(u) \subseteq Rows
        BY DEF Running
      <4> QED
        BY <4>1, FS_Subset DEF AloneInv
    <3> QED
      BY <2>1, <2>3, <3>2, <3>3, AtMostOne
  <2>4. AloneRight(q)'
    BY <1>u, <2>1, <2>2, <2>3 DEF AloneRight
  <2> QED
    BY <1>c, <1>u, <2>1, <2>2, <2>4
<1>3. ASSUME NEW r \in Requests, CreateOrphaned(r) \/ UpdateFails(r) PROVE AloneInv'
  <2>1. Become(r, Idle) /\ UNCHANGED <<entries, used>>
    BY <1>3 DEF CreateOrphaned, UpdateFails
  <2>2. AloneRight(Idle)'
    BY DEF AloneRight, Idle
  <2> QED
    BY <1>c, <1>u, <2>1, <2>2
<1>4. ASSUME NEW r \in Requests, CreateClose(r) \/ UpdateClose(r) PROVE AloneInv'
  <2>0. request[r] \in Request /\ request[r].pc \in {"close", "closeFirst"}
    BY <1>4, <1>t DEF CreateClose, UpdateClose, TypeOK
  <2> PICK q \in Request : q = request[r] /\ q.pc \in {"close", "closeFirst"}
    BY <2>0
  <2> DEFINE p == [q EXCEPT !.pc = IF q.pc = "close" THEN "insert" ELSE "write", !.alone = TRUE]
  <2>1. Become(r, p) /\ used' = used
    BY <1>4 DEF CreateClose, UpdateClose
  <2>2. PICK at \in Date : closeRunningForUser(q.user, at)
    BY <1>4, <1>t, RequestFields DEF CreateClose, UpdateClose, TypeOK, Entry
  <2>3. q.user \in Users /\ p.user = q.user
    BY RequestFields DEF Request
  <2>4. /\ OwnersKept /\ Rows' = Rows /\ Running(q.user)' = {}
        /\ \A u : Running(u)' \subseteq Running(u)
    <3>1. at # Null
      BY TimerAssumption
    <3> QED
      BY <1>t, <2>1, <2>2, <2>3, <3>1, ClosedRow DEF OwnersKept, Running
  <2>5. AloneRight(p)'
    <3> HIDE DEF p
    <3> QED
      BY <2>3, <2>4 DEF AloneRight
  <2> QED
    BY <1>c, <2>1, <2>4, <2>5
\* A call that ends by starting a timer of u overtakes the others at work for u.
<1>f. ASSUME NEW r \in Requests, NEW u, NEW started \in BOOLEAN, Finish(r, u, started),
             OwnersKept, IsFiniteSet(Rows)',
             \A v : (started => v # u) => Running(v)' \subseteq Running(v)
      PROVE  AloneInv'
  BY <1>f, <1>t, FinishedAlone, AloneKept
<1>5. ASSUME NEW r \in Requests, NEW e \in EntryIds, CreateInsert(r, e) PROVE AloneInv'
  <2> PICK q : q = request[r]
    OBVIOUS
  <2>1. /\ q.row.userId = q.user /\ e \notin Rows /\ NoRow # q.row
        /\ entries' = [entries EXCEPT ![e] = q.row] /\ used' = used \cup {e} /\ e \notin used
    BY <1>5, <1>t, RequestFields, TimerAssumption
    DEF CreateInsert, BookedInv, CallRight, TypeOK
  <2>2. /\ Rows' = Rows \cup {e} /\ entries'[e] = q.row
        /\ \A d \in Rows : entries'[d] = entries[d]
    BY <1>t, <2>1 DEF Rows, TypeOK
  <2>3. OwnersKept
    BY <2>1, <2>2 DEF OwnersKept
  <2>4. IsFiniteSet(Rows)'
    BY <2>2, FS_AddElement DEF AloneInv
  <2>5. \A v : (q.row.endedAt = Null => v # q.user) => Running(v)' \subseteq Running(v)
    BY <2>1, <2>2 DEF Running
  <2> QED
    BY <1>5, <1>f, <2>3, <2>4, <2>5 DEF CreateInsert
<1>6. ASSUME NEW r \in Requests, UpdateWrite(r) PROVE AloneInv'
  <2> PICK q : q = request[r]
    OBVIOUS
  <2> PICK row : row = entries[q.id]
    OBVIOUS
  <2>1. /\ q \in Request /\ q.pc = "write" /\ q.id \in Rows /\ row \in Entry
        /\ entries' = [entries EXCEPT ![q.id] = patched(row, q)] /\ used' = used
        /\ Finish(r, row.userId, row.endedAt # Null /\ q.endedAt = Null)
    BY <1>6, <1>t DEF UpdateWrite, TypeOK, Rows
  <2>2. /\ patched(row, q) \in Entry /\ patched(row, q).userId = row.userId
        /\ patched(row, q).endedAt = Given(q.endedAt, row.endedAt)
    BY <2>1, PatchedRow
  <2>3. /\ Rows' = Rows /\ entries'[q.id] = patched(row, q)
        /\ \A d \in Rows \ {q.id} : entries'[d] = entries[d]
    BY <1>t, <2>1, <2>2, TimerAssumption DEF Rows, TypeOK
  <2>4. OwnersKept
    BY <2>1, <2>2, <2>3 DEF OwnersKept
  <2>5. \A v : (row.endedAt # Null /\ q.endedAt = Null => v # row.userId)
               => Running(v)' \subseteq Running(v)
    BY <2>2, <2>3 DEF Running, Given
  <2>6. IsFiniteSet(Rows)'
    BY <2>3 DEF AloneInv
  <2> QED
    BY <1>f, <2>1, <2>4, <2>5, <2>6
\* Deletions start no timer.
<1>d. ASSUME Rows' \subseteq Rows, UNCHANGED <<used, request>>,
             \A e \in Rows' : entries'[e].userId = entries[e].userId
                              /\ entries'[e].endedAt = entries[e].endedAt
      PROVE  AloneInv'
  <2>1. OwnersKept /\ \A u : Running(u)' \subseteq Running(u)
    BY <1>d DEF OwnersKept, Running
  <2>2. IsFiniteSet(Rows)'
    BY <1>d, FS_Subset DEF AloneInv
  <2> QED
    BY <1>d, <1>t, <2>1, <2>2, AloneKept
<1>7. ASSUME NEW u \in Users, NEW e \in EntryIds, Delete(u, e) PROVE AloneInv'
  <2>1. Rows' \subseteq Rows /\ \A d \in Rows' : entries'[d] = entries[d]
    BY <1>7, <1>t DEF Delete, Rows, TypeOK
  <2> QED
    BY <1>7, <1>d, <2>1 DEF Delete
<1>8. ASSUME NEW goneProjects, NEW goneTasks, entries' = Detached(goneProjects, goneTasks),
             UNCHANGED <<used, request>>
      PROVE  AloneInv'
  BY <1>8, <1>d, <1>t, DetachedRow
<1>9. ASSUME (\E t \in Tasks : DeleteTask(t)) \/ (\E p \in Projects : DeleteProject(p))
      PROVE  AloneInv'
  BY <1>8, <1>9 DEF DeleteTask, DeleteProject
<1>12. ASSUME NEW u \in Users, DeleteUser(u) PROVE AloneInv'
  <2>1. Rows' \subseteq Rows /\ \A d \in Rows' : entries'[d] = entries[d]
    BY <1>12, <1>t, DeletedRows DEF TypeOK
  <2> QED
    BY <1>12, <1>d, <2>1 DEF DeleteUser
<1>10. CASE Restart
  <2>1. \A s \in Requests : AloneRight(request[s])'
    BY <1>10 DEF Restart, AloneRight, Idle
  <2>2. UNCHANGED <<entries, used>>
    BY <1>10 DEF Restart
  <2> QED
    BY <1>t, <1>u, <2>1, <2>2, AloneKept DEF AloneInv
<1>11. CASE UNCHANGED vars
  <2>1. UNCHANGED <<entries, used, request>>
    BY <1>11 DEF vars
  <2> QED
    BY <1>d, <1>u, <2>1
<1> QED
  BY <1>1, <1>2, <1>3, <1>4, <1>5, <1>6, <1>7, <1>9, <1>10, <1>11, <1>12 DEF Next

LEMMA AloneInvariant == Spec => []AloneInv
  BY AloneInit, AloneNext, PTL DEF Spec

\* The timers are closed before the new one is written, not together with it:
\* unless another call starts one in between, the new one is alone.
THEOREM StartsAlone == Spec => StartedAlone
<1> DEFINE Alone(r, u, e) ==
       /\ request[r].pc \in {"insert", "write"} /\ request'[r].pc = "idle"
       /\ request[r].user = u /\ request[r].alone
       /\ e \notin Running(u) /\ e \in Running(u)'
       => Running(u)' = {e}
<1>1. ASSUME AloneInv, Next, NEW r \in Requests, NEW u \in Users, NEW e \in EntryIds,
             request[r].pc \in {"insert", "write"}, request'[r].pc = "idle",
             request[r].user = u, request[r].alone,
             e \notin Running(u), e \in Running(u)'
      PROVE  Running(u)' = {e}
  <2> PICK q : q = request[r]
    OBVIOUS
  <2>t. TypeOK /\ q \in Request /\ CallRight(q) /\ AloneRight(q)
    BY <1>1 DEF AloneInv, BookedInv, TypeOK
  \* No other call ends this one.
  <2>o. ASSUME NEW s \in Requests, NEW v, NEW started, Finish(s, v, started) PROVE s = r
    <3>1. q.pc # "idle" => [q EXCEPT !.alone = FALSE].pc = q.pc
      BY <2>t DEF Request
    <3> QED
      BY <1>1, <2>o, <3>1 DEF Finish
  <2>1. ASSUME NEW s \in Requests, NEW d \in EntryIds, CreateInsert(s, d)
        PROVE  Running(u)' = {e}
    <3>1. s = r
      BY <2>1, <2>o DEF CreateInsert
    <3>2. Running(u) = {}
      BY <1>1, <2>1, <2>t, <3>1 DEF CreateInsert, AloneRight
    <3>3. \A x \in EntryIds : x # d => entries'[x] = entries[x]
      BY <2>1, <2>t DEF CreateInsert, TypeOK
    <3>4. Running(u)' \subseteq {d}
      BY <3>2, <3>3 DEF Running, Rows
    <3> QED
      BY <1>1, <3>4
  <2>2. ASSUME NEW s \in Requests, UpdateWrite(s) PROVE Running(u)' = {e}
    <3>1. s = r
      BY <2>2, <2>o DEF UpdateWrite
    <3> PICK row : row = entries[q.id]
      OBVIOUS
    <3>2. /\ q.pc = "write" /\ q.id \in Rows /\ row \in Entry
          /\ entries' = [entries EXCEPT ![q.id] = patched(row, q)]
      BY <2>2, <2>t, <3>1 DEF UpdateWrite, TypeOK, Rows
    <3>3. \A x \in EntryIds : x # q.id => entries'[x] = entries[x]
      BY <2>t, <3>2 DEF TypeOK
    <3>4. e = q.id
      BY <1>1, <3>3 DEF Running, Rows
    <3>5. /\ patched(row, q).userId = row.userId
          /\ patched(row, q).endedAt = Given(q.endedAt, row.endedAt)
          /\ entries'[e] = patched(row, q)
      BY <2>t, <3>2, <3>4, PatchedRow DEF TypeOK, Rows
    <3>6. row.userId = u /\ q.endedAt = Null
      BY <1>1, <3>2, <3>4, <3>5 DEF Running, Given
    <3>7. Running(u) \subseteq {e}
      BY <1>1, <2>t, <3>2, <3>4, <3>6 DEF AloneRight
    <3>8. Running(u)' \subseteq {e}
      BY <3>3, <3>4, <3>7 DEF Running, Rows
    <3> QED
      BY <1>1, <3>8
  <2>3. ASSUME NEW s \in Requests, CreateClose(s) \/ UpdateClose(s) PROVE FALSE
    <3>1. PICK at \in Date : closeRunningForUser(request[s].user, at)
      BY <2>3, <2>t, RequestFields DEF CreateClose, UpdateClose, TypeOK, Entry
    <3>2. request[s].user \in Users /\ at # Null
      BY <2>3, <2>t, RequestFields, TimerAssumption DEF CreateClose, UpdateClose, TypeOK
    <3> QED
      BY <1>1, <2>t, <3>1, <3>2, ClosedRow DEF Running
  <2>4. ASSUME NEW v \in Users, NEW d \in EntryIds, Delete(v, d) PROVE FALSE
    <3>1. \A x \in Rows' : x \in Rows /\ entries'[x] = entries[x]
      BY <2>4, <2>t DEF Delete, TypeOK, Rows
    <3> QED
      BY <1>1, <3>1 DEF Running
  <2>5. ASSUME NEW goneProjects, NEW goneTasks, entries' = Detached(goneProjects, goneTasks)
        PROVE  FALSE
    BY <1>1, <2>5, <2>t, DetachedRow, RunningSame
  <2>6. ASSUME UNCHANGED entries PROVE FALSE
    BY <1>1, <2>6 DEF Running, Rows
  <2>7. ASSUME NEW s, \/ \E v, row : CreateResolve(s, v, row)
                      \/ \E v, d, startedAt, endedAt, p, t :
                            UpdateRead(s, v, d, startedAt, endedAt, p, t)
                      \/ CreateOrphaned(s) \/ UpdateFails(s) \/ Restart
        PROVE  UNCHANGED entries
    BY <2>7 DEF CreateResolve, UpdateRead, CreateOrphaned, UpdateFails, Restart
  <2>8. ASSUME (\E t \in Tasks : DeleteTask(t)) \/ (\E p \in Projects : DeleteProject(p))
        PROVE  FALSE
    BY <2>5, <2>8 DEF DeleteTask, DeleteProject
  <2>9. ASSUME NEW v \in Users, DeleteUser(v) PROVE FALSE
    <3>1. \A x \in Rows' : x \in Rows /\ entries'[x] = entries[x]
      BY <2>9, <2>t, DeletedRows DEF TypeOK
    <3> QED
      BY <1>1, <3>1 DEF Running
  <2> QED
    BY <1>1, <2>1, <2>2, <2>3, <2>4, <2>6, <2>7, <2>8, <2>9 DEF Next
<1>2. AloneInv /\ [Next]_vars
      => [\A r \in Requests, u \in Users, e \in EntryIds : Alone(r, u, e)]_vars
  BY <1>1
<1> QED
  BY <1>2, AloneInvariant, PTL DEF Spec, StartedAlone

-----------------------------------------------------------------------------
(* Entries are rows of their users.                                        *)

\* Nothing that leaves the owners alone is seen.
LEMMA UnseenStep ==
    ASSUME Rows' = Rows, \A e \in Rows : entries'[e].userId = entries[e].userId,
           UNCHANGED <<users, used>>
    PROVE  UNCHANGED Owned!vars
<1>1. Owner' = Owner
  BY DEF Owner
<1> QED
  BY <1>1 DEF Owned!vars

LEMMA InsertRefines ==
    ASSUME BookedInv, NEW r \in Requests, NEW e \in EntryIds, CreateInsert(r, e)
    PROVE  \E u \in Users : Owned!Insert(e, u)
<1> PICK q : q = request[r]
  OBVIOUS
<1>1. /\ TypeOK /\ q.row \in Entry /\ q.row.userId \in users /\ e \notin used /\ e \notin Rows
      /\ entries' = [entries EXCEPT ![e] = q.row] /\ used' = used \cup {e} /\ users' = users
  BY RequestFields DEF CreateInsert, BookedInv, TypeOK
<1>2. /\ Rows' = Rows \cup {e} /\ entries'[e] = q.row
      /\ \A d \in EntryIds \ {e} : entries'[d] = entries[d]
  BY <1>1, TimerAssumption DEF Rows, TypeOK
<1> PICK u : u = q.row.userId
  OBVIOUS
<1>a. \A d \in EntryIds : d # e => (d \in Rows' <=> d \in Rows)
  BY <1>2
<1>b. \A d \in EntryIds :
         (IF d \in Rows' THEN entries'[d].userId ELSE NoRow)
            = IF d = e THEN u ELSE IF d \in Rows THEN entries[d].userId ELSE NoRow
  BY <1>1, <1>2, <1>a
<1>3. Owner' = [Owner EXCEPT ![e] = q.row.userId]
  BY <1>b DEF Owner
<1>4. Owned!Insert(e, q.row.userId)
  BY <1>1, <1>3 DEF Owned!Insert
<1> QED
  BY <1>1, <1>4 DEF Entry

LEMMA RemoveRefines ==
    ASSUME TypeOK, NEW u \in Users, NEW e \in EntryIds, Delete(u, e)
    PROVE  Owned!Remove(e)
<1>1. /\ Rows' = Rows \ {e} /\ \A d \in Rows' : entries'[d] = entries[d]
      /\ e \in Rows /\ UNCHANGED <<users, used>>
  BY DEF Delete, Rows, TypeOK
<1>2. entries[e].userId # NoRow
  BY <1>1, TimerAssumption DEF TypeOK, Rows, Entry
<1>3. Owner' = [Owner EXCEPT ![e] = NoRow]
  BY <1>1 DEF Owner
<1> QED
  BY <1>1, <1>2, <1>3 DEF Owned!Remove, Owner

LEMMA DeleteUserRefines ==
    ASSUME TypeOK, NEW u \in Users, DeleteUser(u)
    PROVE  Owned!Expel(u)
<1>1. /\ Rows' = {e \in Rows : entries[e].userId # u}
      /\ \A e \in Rows' : entries'[e] = entries[e]
  BY DeletedRows DEF TypeOK
<1>2. NoRow # u
  BY TimerAssumption
<1>3. Owner' = [e \in EntryIds |-> IF Owner[e] = u THEN NoRow ELSE Owner[e]]
  BY <1>1, <1>2 DEF Owner
<1> QED
  BY <1>3 DEF Owned!Expel, DeleteUser

LEMMA NextRefines == BookedInv /\ [Next]_vars => [Owned!Next]_(Owned!vars)
<1> SUFFICES ASSUME BookedInv, [Next]_vars PROVE [Owned!Next]_(Owned!vars)
  OBVIOUS
<1>t. TypeOK
  BY DEF BookedInv
<1>1. ASSUME UNCHANGED <<users, entries, used>> PROVE UNCHANGED Owned!vars
  BY <1>1, UnseenStep DEF Rows
<1>2. ASSUME NEW r,
             \/ \E u, row : CreateResolve(r, u, row)
             \/ \E u, d, startedAt, endedAt, p, t : UpdateRead(r, u, d, startedAt, endedAt, p, t)
             \/ CreateOrphaned(r) \/ UpdateFails(r) \/ Restart
      PROVE  UNCHANGED <<users, entries, used>>
  BY <1>2 DEF CreateResolve, UpdateRead, CreateOrphaned, UpdateFails, Restart
<1>3. ASSUME NEW r \in Requests, CreateClose(r) \/ UpdateClose(r) PROVE UNCHANGED Owned!vars
  <2>1. PICK at \in Date : closeRunningForUser(request[r].user, at)
    BY <1>3, <1>t, RequestFields DEF CreateClose, UpdateClose, TypeOK, Entry
  <2>2. request[r].user \in Users /\ UNCHANGED <<users, used>>
    BY <1>3, <1>t, RequestFields DEF CreateClose, UpdateClose, TypeOK
  <2> QED
    BY <1>t, <2>1, <2>2, ClosedRow, UnseenStep
<1>4. ASSUME NEW r \in Requests, UpdateWrite(r) PROVE UNCHANGED Owned!vars
  <2> PICK q : q = request[r]
    OBVIOUS
  <2> PICK row : row = entries[q.id]
    OBVIOUS
  <2>1. /\ q \in Request /\ q.pc = "write" /\ q.id \in Rows /\ row \in Entry
        /\ entries' = [entries EXCEPT ![q.id] = patched(row, q)] /\ UNCHANGED <<users, used>>
    BY <1>4, <1>t DEF UpdateWrite, TypeOK, Rows
  <2>2. patched(row, q) \in Entry /\ patched(row, q).userId = row.userId
    BY <2>1, PatchedRow
  <2>3. /\ Rows' = Rows /\ entries'[q.id] = patched(row, q)
        /\ \A d \in Rows \ {q.id} : entries'[d] = entries[d]
    BY <1>t, <2>1, <2>2, TimerAssumption DEF Rows, TypeOK
  <2> QED
    BY <2>1, <2>2, <2>3, UnseenStep
<1>5. ASSUME NEW r \in Requests, NEW e \in EntryIds, CreateInsert(r, e) PROVE Owned!Next
  BY <1>5, InsertRefines DEF Owned!Next
<1>6. ASSUME NEW u \in Users, NEW e \in EntryIds, Delete(u, e) PROVE Owned!Next
  BY <1>6, <1>t, RemoveRefines DEF Owned!Next
<1>7. ASSUME NEW u \in Users, DeleteUser(u) PROVE Owned!Next
  BY <1>7, <1>t, DeleteUserRefines DEF Owned!Next
<1>8. ASSUME NEW goneProjects, NEW goneTasks, entries' = Detached(goneProjects, goneTasks),
             UNCHANGED <<users, used>>
      PROVE  UNCHANGED Owned!vars
  BY <1>8, <1>t, DetachedRow, UnseenStep
<1>9. ASSUME (\E t \in Tasks : DeleteTask(t)) \/ (\E p \in Projects : DeleteProject(p))
      PROVE  UNCHANGED Owned!vars
  BY <1>8, <1>9 DEF DeleteTask, DeleteProject
<1>10. CASE UNCHANGED vars
  BY <1>1, <1>10 DEF vars
<1> QED
  BY <1>1, <1>2, <1>3, <1>4, <1>5, <1>6, <1>7, <1>9, <1>10 DEF Next

LEMMA InitRefines == Init => Owned!Init
  BY DEF Init, Owned!Init, Owner, Rows

\* An entry stays its owner's whoever edits it, and goes with the owner's
\* account, however late a call about it arrives.
THEOREM Refinement == Spec => RefinesOwnedRows
<1>1. BookedInv /\ [Next]_vars => [Owned!Next]_(Owned!vars)
  BY NextRefines
<1> QED
  BY InitRefines, <1>1, BookedInvariant, PTL DEF Spec, RefinesOwnedRows, Owned!Spec
=============================================================================
