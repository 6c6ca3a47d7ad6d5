---------------------------- MODULE PlanningProofs ----------------------------
(***************************************************************************)
(* Theorems about Planning: what a range of days contains, for every       *)
(* length of a day, and what the list of deadlines owes its caller.        *)
(***************************************************************************)
EXTENDS Planning, FiniteSetTheorems, TLAPS

-----------------------------------------------------------------------------
(* Days and instants                                                       *)

\* More days are no fewer instants.
LEMMA LongerTakesNoLess ==
    ASSUME NEW a \in Nat, NEW b \in Nat, NEW len \in Nat, a <= b
    PROVE  a * len <= b * len
  OBVIOUS

\* A whole number of days ends with a day.
LEMMA WholeDays ==
    ASSUME NEW a \in Nat, NEW len \in Nat \ {0}
    PROVE  /\ a * len \in Nat
           /\ (a * len) % len = 0
  OBVIOUS

\* An instant is so many days and what has passed of one more.
LEMMA DaysAndRest ==
    ASSUME NEW i \in Nat, NEW len \in Nat \ {0}
    PROVE  /\ i \div len \in Nat
           /\ (i \div len) * len <= i
           /\ i < ((i \div len) + 1) * len
  OBVIOUS

\* An instant is in a range of days just when its day is one of them.
LEMMA RangeOfDays ==
    ASSUME NEW i \in Nat, NEW a \in Nat, NEW b \in Nat
    PROVE  InDays(i, a, b) <=> Day(i) \in a .. b
<1> DEFINE q == i \div DayLength
<1>1. DayLength \in Nat \ {0}
  BY PlanningAssumption
<1>2. q \in Nat /\ q * DayLength <= i /\ i < (q + 1) * DayLength
  BY <1>1, DaysAndRest
<1>3. /\ a * DayLength \in Nat /\ q * DayLength \in Nat
      /\ (b + 1) * DayLength \in Nat /\ (q + 1) * DayLength \in Nat
  <2>1. b + 1 \in Nat /\ q + 1 \in Nat
    BY <1>2
  <2>2. QED
    BY <2>1, <1>1, <1>2, WholeDays
<1> HIDE DEF q
<1>4. a * DayLength <= i <=> a <= q
  <2>1. CASE a <= q
    BY <2>1, <1>1, <1>2, <1>3, LongerTakesNoLess
  <2>2. CASE q + 1 <= a
    <3>1. (q + 1) * DayLength <= a * DayLength
      BY <2>2, <1>1, <1>2, LongerTakesNoLess
    <3>2. QED
      BY <3>1, <2>2, <1>2, <1>3
  <2>3. QED
    BY <2>1, <2>2, <1>2
<1>5. i <= (b + 1) * DayLength - 1 <=> q <= b
  <2>1. CASE q <= b
    <3>1. (q + 1) * DayLength <= (b + 1) * DayLength
      BY <2>1, <1>1, <1>2, LongerTakesNoLess
    <3>2. QED
      BY <3>1, <2>1, <1>2, <1>3
  <2>2. CASE b + 1 <= q
    <3>1. (b + 1) * DayLength <= q * DayLength
      BY <2>2, <1>1, <1>2, LongerTakesNoLess
    <3>2. QED
      BY <3>1, <2>2, <1>2, <1>3
  <2>3. QED
    BY <2>1, <2>2, <1>2
<1>6. Day(i) = q
  BY DEF Day, q
<1>7. QED
  BY <1>2, <1>4, <1>5, <1>6 DEF InDays, startUtcDay, endUtcDay

\* What is known of the end of a horizon: it is the last tick of its day, and
\* no sooner than so many days on.
LEMMA EndOfHorizon ==
    ASSUME NEW i \in Nat, NEW days \in Nat
    PROVE  /\ horizonEndAt(i, days) \in Nat
           /\ (horizonEndAt(i, days) + 1) % DayLength = 0
           /\ i + days * DayLength <= horizonEndAt(i, days)
           /\ \A j \in Nat : j <= horizonEndAt(i, days) => Day(j) <= Day(i) + days
<1> DEFINE q == i \div DayLength
<1>1. DayLength \in Nat \ {0}
  BY PlanningAssumption
<1>2. q \in Nat /\ i < (q + 1) * DayLength
  BY <1>1, DaysAndRest
<1> HIDE DEF q
<1>3. PICK n \in Nat : n = q + days + 1
  BY <1>2
<1>4. n * DayLength \in Nat /\ (n * DayLength) % DayLength = 0
  BY <1>1, WholeDays
<1>5. horizonEndAt(i, days) = n * DayLength - 1
  BY <1>3 DEF horizonEndAt, endUtcDay, Day, q
<1>6. n * DayLength = (q + 1) * DayLength + days * DayLength
  BY <1>1, <1>2, <1>3
<1>7. (q + 1) * DayLength \in Nat /\ days * DayLength \in Nat
  <2>1. q + 1 \in Nat
    BY <1>2
  <2>2. QED
    BY <2>1, <1>1, WholeDays
<1>8. 1 <= n * DayLength
  BY <1>2, <1>6, <1>7
<1>9. (n * DayLength - 1) + 1 = n * DayLength
  BY <1>4
<1>10. ASSUME NEW j \in Nat, j <= horizonEndAt(i, days)
       PROVE  Day(j) <= Day(i) + days
  <2>1. InDays(j, 0, q + days)
    <3>1. 0 * DayLength = 0
      BY <1>1
    <3>2. j <= (q + days + 1) * DayLength - 1
      BY <1>3, <1>5, <1>10
    <3>3. QED
      BY <3>1, <3>2 DEF InDays, startUtcDay, endUtcDay
  <2>2. Day(j) \in 0 .. (q + days)
    BY <2>1, <1>2, RangeOfDays
  <2>3. QED
    BY <2>2 DEF Day, q
<1>11. horizonEndAt(i, days) \in Nat
  BY <1>4, <1>5, <1>8
<1>12. i + days * DayLength <= horizonEndAt(i, days)
  BY <1>2, <1>4, <1>5, <1>6, <1>7
<1>13. QED
  BY <1>4, <1>5, <1>9, <1>10, <1>11, <1>12

-----------------------------------------------------------------------------
(* The inductive invariant                                                 *)

\* A request for deadlines holds the end of the horizon it was asked for, reckoned
\* at the instant the handler read the clock.
Remembered ==
    request.pc = "deadlines" =>
        request.horizonEnd = horizonEndAt(request.asked, request.horizonDays)

IInv == TypeOK /\ Remembered

\* What is dated lies within the days of the run.
LEMMA DatesAreInstants ==
    ASSUME TypeOK
    PROVE  /\ Instants \subseteq Nat
           /\ \A t \in Dated : t \in TaskIds /\ tasks[t] \in Task /\ tasks[t].dueAt \in Instants
           /\ \A m \in ReminderRows :
                 m \in ReminderIds /\ reminders[m] \in Reminder /\ reminders[m].remindAt \in Instants
<1>1. Instants \subseteq Nat
  BY PlanningAssumption DEF Instants
<1>2. ASSUME NEW t \in Dated
      PROVE  t \in TaskIds /\ tasks[t] \in Task /\ tasks[t].dueAt \in Instants
  BY <1>2 DEF Dated, TaskRows, TypeOK, Task
<1>3. ASSUME NEW m \in ReminderRows
      PROVE  m \in ReminderIds /\ reminders[m] \in Reminder /\ reminders[m].remindAt \in Instants
  BY <1>3 DEF ReminderRows, TypeOK, Reminder
<1>4. QED
  BY <1>1, <1>2, <1>3

LEMMA IInvInit == Init => IInv
<1> SUFFICES ASSUME Init PROVE IInv
  OBVIOUS
<1>1. request \in Request /\ request.pc = "idle"
  BY DEF Init, Idle, Request
<1>2. tasks \in [TaskIds -> Task \cup {NoRow}] /\ reminders \in [ReminderIds -> Reminder \cup {NoRow}]
  BY DEF Init
<1>3. QED
  BY <1>1, <1>2 DEF Init, IInv, TypeOK, Remembered

\* A step of the tables leaves the request as it is.
LEMMA TablesMove ==
    ASSUME IInv, UNCHANGED request, now' \in Instants,
           tasks' \in [TaskIds -> Task \cup {NoRow}],
           reminders' \in [ReminderIds -> Reminder \cup {NoRow}]
    PROVE  IInv'
  BY DEF IInv, TypeOK, Remembered

LEMMA IInvNext == IInv /\ [Next]_vars => IInv'
<1> SUFFICES ASSUME IInv, [Next]_vars PROVE IInv'
  OBVIOUS
<1>0. TypeOK
  BY DEF IInv
<1>1. ASSUME NEW from \in Days, NEW to \in Days, CalendarTasks(from, to)
      PROVE  IInv'
  <2>1. findByDueDateRange(from, to) \subseteq TaskIds
    BY DEF findByDueDateRange, Dated, TaskRows
  <2>2. request' \in Request /\ request'.pc = "calendar"
    BY <1>1, <2>1 DEF CalendarTasks, Request
  <2>3. QED
    BY <1>0, <1>1, <2>2 DEF CalendarTasks, IInv, TypeOK, Remembered
<1>2. ASSUME NEW days \in Horizons, NEW limit \in Limits, DeadlinesAsk(days, limit)
      PROVE  IInv'
  <2>1. now \in Nat /\ days \in Nat
    BY <1>0, DatesAreInstants, PlanningAssumption DEF TypeOK
  <2>2. /\ horizonEndAt(now, days) \in Nat
        /\ (horizonEndAt(now, days) + 1) % DayLength = 0
    BY <2>1, EndOfHorizon
  <2>3. /\ request'.pc = "deadlines" /\ request'.asked = now
        /\ request'.horizonDays = days /\ request'.horizonEnd = horizonEndAt(now, days)
    BY <1>2 DEF DeadlinesAsk
  <2>4. request' \in Request
    BY <1>0, <1>2, <2>2 DEF DeadlinesAsk, Request, TypeOK
  <2>5. UNCHANGED <<now, tasks, reminders>>
    BY <1>2 DEF DeadlinesAsk
  <2>6. TypeOK'
    BY <1>0, <2>2, <2>3, <2>4, <2>5 DEF TypeOK
  <2>7. Remembered'
    BY <2>3 DEF Remembered, horizonEndAt, endUtcDay, Day
  <2>8. QED
    BY <2>6, <2>7 DEF IInv
<1>3. CASE CalendarReminders
  <2>1. findActiveInRemindRange(request.from, request.to) \subseteq ReminderIds
    BY DEF findActiveInRemindRange, ReminderRows
  <2>2. request.tasks \in SUBSET TaskIds
    BY <1>0, <1>3 DEF CalendarReminders, TypeOK, Request
  <2>3. request' \in Request /\ request'.pc = "answered"
    BY <1>3, <2>1, <2>2 DEF CalendarReminders, Request
  <2>4. QED
    BY <1>0, <1>3, <2>3 DEF CalendarReminders, IInv, TypeOK, Remembered
<1>4. CASE DeadlinesRead
  <2>1. PICK first \in findOpenDeadlines(request.horizonEnd, request.limit) :
           request' = [pc |-> "answered", tasks |-> first, reminders |-> {}]
    BY <1>4 DEF DeadlinesRead
  <2>2. first \in SUBSET TaskIds
    BY <2>1 DEF findOpenDeadlines, Dated, TaskRows
  <2>3. request' \in Request /\ request'.pc = "answered"
    BY <2>1, <2>2 DEF Request
  <2>4. QED
    BY <1>0, <1>4, <2>3 DEF DeadlinesRead, IInv, TypeOK, Remembered
<1>5. CASE Reply
  <2>1. request' \in Request /\ request'.pc = "idle"
    BY <1>5 DEF Reply, Idle, Request
  <2>2. QED
    BY <1>0, <1>5, <2>1 DEF Reply, IInv, TypeOK, Remembered
<1>6. CASE Tick
  BY <1>0, <1>6, TablesMove DEF Tick, TypeOK
<1>7. ASSUME NEW t \in TaskIds, NEW row \in Task, TaskSet(t, row)
      PROVE  IInv'
  BY <1>0, <1>7, TablesMove DEF TaskSet, TypeOK
<1>8. ASSUME NEW t \in TaskIds, TaskDelete(t)
      PROVE  IInv'
  BY <1>0, <1>8, TablesMove DEF TaskDelete, TypeOK
<1>9. ASSUME NEW m \in ReminderIds, NEW row \in Reminder, ReminderSet(m, row)
      PROVE  IInv'
  BY <1>0, <1>9, TablesMove DEF ReminderSet, TypeOK
<1>10. ASSUME NEW m \in ReminderIds, ReminderDelete(m)
       PROVE  IInv'
  BY <1>0, <1>10, TablesMove DEF ReminderDelete, TypeOK
<1>11. CASE UNCHANGED vars
  BY <1>0, <1>11, TablesMove DEF vars, TypeOK
<1>12. QED
  BY <1>1, <1>2, <1>3, <1>4, <1>5, <1>6, <1>7, <1>8, <1>9, <1>10, <1>11 DEF Next

LEMMA Invariant == Spec => []IInv
<1>1. QED
  BY IInvInit, IInvNext, PTL DEF Spec

-----------------------------------------------------------------------------
(* Theorems                                                                *)

\* Requests and rows keep their shapes, and a horizon that is asked for ends with
\* the last tick of a day, whatever the length of a day.
THEOREM TypeCorrect == Spec => []TypeOK
<1>1. IInv => TypeOK
  BY DEF IInv
<1>2. QED
  BY <1>1, Invariant, PTL

\* The calendar of a range of days is the union of the calendars of its days: the
\* first and the last tick of each are its own, and nothing falls between two.
THEOREM RangesAreMadeOfDays == Spec => []CalendarsMadeOfDays
<1>1. TypeOK => CalendarsMadeOfDays
  <2> SUFFICES ASSUME TypeOK, NEW from \in Days, NEW to \in Days
               PROVE  /\ findByDueDateRange(from, to)
                            = {t \in Dated : Day(tasks[t].dueAt) \in from .. to}
                      /\ findActiveInRemindRange(from, to)
                            = {m \in ReminderRows :
                                  reminders[m].active /\ Day(reminders[m].remindAt) \in from .. to}
    BY DEF CalendarsMadeOfDays
  <2>1. from \in Nat /\ to \in Nat
    BY PlanningAssumption DEF Days
  <2>2. ASSUME NEW t \in Dated
        PROVE  InDays(tasks[t].dueAt, from, to) <=> Day(tasks[t].dueAt) \in from .. to
    BY <2>1, DatesAreInstants, RangeOfDays
  <2>3. ASSUME NEW m \in ReminderRows
        PROVE  InDays(reminders[m].remindAt, from, to) <=> Day(reminders[m].remindAt) \in from .. to
    BY <2>1, DatesAreInstants, RangeOfDays
  <2>4. findByDueDateRange(from, to) = {t \in Dated : Day(tasks[t].dueAt) \in from .. to}
    BY <2>2 DEF findByDueDateRange
  <2>5. findActiveInRemindRange(from, to)
           = {m \in ReminderRows :
                 reminders[m].active /\ Day(reminders[m].remindAt) \in from .. to}
    BY <2>3 DEF findActiveInRemindRange
  <2>6. QED
    BY <2>4, <2>5
<1>2. QED
  BY <1>1, TypeCorrect, PTL

-----------------------------------------------------------------------------
(* The soonest of the deadlines                                            *)

Below == OpToRel(<, Nat)

\* A set of numbers that has any has a least one.
LEMMA LeastNumber ==
    ASSUME NEW T, T \subseteq Nat, T # {}
    PROVE  \E low \in T : \A n \in T : low <= n
<1>1. IsWellFoundedOn(Below, Nat)
  BY NatLessThanWellFounded DEF Below
<1>2. \A x, y \in Nat : x < y => <<x, y>> \in Below
  BY DEF OpToRel, Below
<1>3. PICK low \in T : \A n \in T : <<n, low>> \notin Below
  BY <1>1, WFMin, Zenon
<1>4. ASSUME NEW n \in T
      PROVE  low <= n
  <2>1. low \in Nat /\ n \in Nat
    BY <1>3
  <2>2. ~ (n < low)
    BY <1>2, <1>3, <2>1
  <2>3. QED
    BY <2>1, <2>2
<1>5. QED
  BY <1>3, <1>4

\* Rows of a set are listed in the order of their dates, as far as they go.
InOrder(first, due, date) == \A t \in first, s \in due \ first : date[t] <= date[s]

Taken(first, take) == Cardinality(first) <= take

\* However many rows there are and however few are wanted, some of them are the
\* first: ORDER BY and LIMIT have an answer, one to which no row can be added.
LEMMA SoonestExist ==
    ASSUME NEW due, IsFiniteSet(due), NEW date \in [due -> Nat], NEW take \in Nat
    PROVE  \E first \in SUBSET due :
              /\ Cardinality(first) = take \/ (Cardinality(first) < take /\ first = due)
              /\ InOrder(first, due, date)
<1> DEFINE Fits == {first \in SUBSET due : Taken(first, take) /\ InOrder(first, due, date)}
           Left == {n \in Nat : \E first \in Fits : n = take - Cardinality(first)}
<1>1. \A first \in SUBSET due : IsFiniteSet(first) /\ Cardinality(first) \in Nat
  BY FS_Subset, FS_CardinalityType
<1>2. {} \in Fits
  BY FS_EmptySet DEF Taken, InOrder
<1>3. \A first \in Fits : take - Cardinality(first) \in Left
  BY <1>1 DEF Taken
<1>4. PICK least \in Left : \A n \in Left : least <= n
  <2>1. Left \subseteq Nat /\ Left # {}
    BY <1>2, <1>3
  <2> HIDE DEF Left
  <2>2. QED
    BY <2>1, LeastNumber
<1>5. PICK first \in Fits : least = take - Cardinality(first)
  BY <1>4
<1>6. Cardinality(first) \in Nat /\ IsFiniteSet(first) /\ Cardinality(first) <= take
  BY <1>1, <1>5 DEF Taken
<1>7. ASSUME Cardinality(first) < take, first # due
      PROVE  FALSE
  <2> DEFINE Dates == {n \in Nat : \E s \in due \ first : n = date[s]}
  <2>1. due \ first # {}
    BY <1>5, <1>7
  <2>2. Dates \subseteq Nat /\ Dates # {}
    BY <2>1
  <2>3. PICK soonest \in Dates : \A n \in Dates : soonest <= n
    <3> HIDE DEF Dates
    <3>1. QED
      BY <2>2, LeastNumber
  <2>4. PICK next \in due \ first : soonest = date[next]
    BY <2>3
  <2>5. \A s \in due \ first : date[next] <= date[s]
    BY <2>3, <2>4
  <2> DEFINE more == first \cup {next}
  <2>6. Cardinality(more) = Cardinality(first) + 1
    BY <1>6, <2>4, FS_AddElement
  <2>7. more \in SUBSET due
    BY <1>5, <2>4
  <2>8. InOrder(more, due, date)
    BY <1>5, <2>5 DEF InOrder
  <2>9. Taken(more, take)
    BY <1>6, <1>7, <2>6 DEF Taken
  <2>10. take - Cardinality(more) \in Left
    BY <1>3, <2>7, <2>8, <2>9
  <2> HIDE DEF more, Left
  <2>11. QED
    BY <1>4, <1>5, <1>6, <2>6, <2>10
<1>8. QED
  BY <1>5, <1>6, <1>7

\* A query for deadlines never finds itself without an answer, whatever rows were
\* written, moved or deleted since it was asked for.
DeadlinesAnswerable ==
    request.pc = "deadlines" =>
        findOpenDeadlines(request.horizonEnd, request.limit) # {}

LEMMA FinitelyMany ==
    ASSUME NEW first \in SUBSET TaskIds
    PROVE  IsFiniteSet(first) /\ Cardinality(first) \in Nat
  BY PlanningAssumption, FS_Subset, FS_CardinalityType

\* The handler of GET /planning/deadlines can always reply: what the ordered and
\* limited query returns exists for every set of rows.
THEOREM DeadlinesReply == Spec => []DeadlinesAnswerable
<1>1. TypeOK => DeadlinesAnswerable
  <2> SUFFICES ASSUME TypeOK, request.pc = "deadlines"
               PROVE  findOpenDeadlines(request.horizonEnd, request.limit) # {}
    BY DEF DeadlinesAnswerable
  <2>1. PICK take \in Nat : take = request.limit
    BY PlanningAssumption DEF TypeOK, Request
  <2>2. PICK due : due = {t \in Dated : tasks[t].open /\ tasks[t].dueAt <= request.horizonEnd}
    OBVIOUS
  <2>3. due \in SUBSET TaskIds /\ due \subseteq Dated
    BY <2>2 DEF Dated, TaskRows
  <2>4. PICK date : date = [t \in due |-> tasks[t].dueAt]
    OBVIOUS
  <2>5. date \in [due -> Nat]
    BY <2>3, <2>4, DatesAreInstants
  <2>6. PICK first \in SUBSET due :
           /\ Cardinality(first) = take \/ (Cardinality(first) < take /\ first = due)
           /\ InOrder(first, due, date)
    BY <2>1, <2>3, <2>5, FinitelyMany, SoonestExist
  <2>7. \A t \in first, s \in due \ first : tasks[t].dueAt <= tasks[s].dueAt
    BY <2>4, <2>6 DEF InOrder
  <2>8. first \in findOpenDeadlines(request.horizonEnd, request.limit)
    BY <2>1, <2>2, <2>6, <2>7 DEF findOpenDeadlines
  <2>9. QED
    BY <2>8
<1>2. QED
  BY <1>1, TypeCorrect, PTL

\* What the query returns, of the rows as they are when it runs.
LEMMA SoonestOfThoseDue ==
    ASSUME NEW end, NEW take \in Nat, NEW first \in findOpenDeadlines(end, take)
    PROVE  /\ first \in SUBSET TaskIds
           /\ \A t \in first : t \in Dated /\ tasks[t].open /\ tasks[t].dueAt <= end
           /\ Cardinality(first) <= take
           /\ \A t \in Dated \ first : tasks[t].open /\ tasks[t].dueAt <= end =>
                 /\ Cardinality(first) = take
                 /\ \A s \in first : tasks[s].dueAt <= tasks[t].dueAt
<1>1. PICK due : due = {t \in Dated : tasks[t].open /\ tasks[t].dueAt <= end}
  OBVIOUS
<1>2. /\ first \in SUBSET due
      /\ Cardinality(first) = take \/ (Cardinality(first) < take /\ first = due)
      /\ \A t \in first, s \in due \ first : tasks[t].dueAt <= tasks[s].dueAt
  BY <1>1 DEF findOpenDeadlines
<1>3. first \in SUBSET TaskIds
  BY <1>1, <1>2 DEF Dated, TaskRows
<1>4. Cardinality(first) \in Nat
  BY <1>3, FinitelyMany
<1>5. ASSUME NEW t \in Dated \ first, tasks[t].open /\ tasks[t].dueAt <= end
      PROVE  Cardinality(first) = take /\ \A s \in first : tasks[s].dueAt <= tasks[t].dueAt
  <2>1. t \in due \ first
    BY <1>1, <1>5
  <2>2. QED
    BY <1>2, <2>1
<1>6. \A t \in first : t \in Dated /\ tasks[t].open /\ tasks[t].dueAt <= end
  BY <1>1, <1>2
<1>7. Cardinality(first) <= take
  BY <1>2, <1>4
<1>8. QED
  BY <1>3, <1>5, <1>6, <1>7

\* However late it runs, the query leaves out no open task due within the horizon
\* but for tasks due no later, and lists nothing that is done or lies beyond it.
THEOREM DeadlinesInOrder == Spec => DeadlinesSoonestFirst
<1>1. ASSUME IInv, DeadlinesRead
      PROVE  SoonestListed
  <2>1. /\ request.pc = "deadlines" /\ request.asked \in Instants
        /\ request.horizonDays \in Horizons /\ request.limit \in Limits
    BY <1>1 DEF DeadlinesRead, IInv, TypeOK, Request
  <2>2. PICK asked \in Nat, days \in Nat, take \in Nat, end \in Nat :
           /\ asked = request.asked /\ days = request.horizonDays /\ take = request.limit
           /\ end = request.horizonEnd /\ end = horizonEndAt(asked, days)
    <3>1. request.asked \in Nat /\ request.horizonDays \in Nat /\ request.limit \in Nat
      BY <1>1, <2>1, PlanningAssumption, DatesAreInstants DEF IInv
    <3>2. request.horizonEnd = horizonEndAt(request.asked, request.horizonDays)
      BY <1>1, <2>1 DEF IInv, Remembered
    <3>3. request.horizonEnd \in Nat
      BY <3>1, <3>2, EndOfHorizon
    <3>4. QED
      BY <3>1, <3>2, <3>3
  <2>3. PICK first \in findOpenDeadlines(end, take) :
           request' = [pc |-> "answered", tasks |-> first, reminders |-> {}]
    BY <1>1, <2>2 DEF DeadlinesRead
  <2>4. request'.tasks = first
    BY <2>3
  <2>5. \A t \in Dated : tasks[t].dueAt \in Nat
    BY <1>1, DatesAreInstants DEF IInv
  <2>6. /\ asked + days * DayLength <= end
        /\ \A j \in Nat : j <= end => Day(j) <= Day(asked) + days
    BY <2>2, EndOfHorizon
  <2>7. ASSUME NEW t \in first
        PROVE  t \in Dated /\ tasks[t].open /\ Day(tasks[t].dueAt) <= Day(asked) + days
    <3>1. t \in Dated /\ tasks[t].open /\ tasks[t].dueAt <= end
      BY <2>3, SoonestOfThoseDue
    <3>2. QED
      BY <2>5, <2>6, <3>1
  <2>8. Cardinality(first) <= take
    BY <2>3, SoonestOfThoseDue
  <2>9. ASSUME NEW t \in Dated \ first, tasks[t].open /\ tasks[t].dueAt <= asked + days * DayLength
        PROVE  Cardinality(first) = take /\ \A s \in first : tasks[s].dueAt <= tasks[t].dueAt
    <3>1. days * DayLength \in Nat
      BY PlanningAssumption
    <3>2. tasks[t].dueAt <= end
      <4>1. tasks[t].dueAt \in Nat
        BY <2>5
      <4>2. QED
        BY <2>6, <2>9, <3>1, <4>1
    <3>3. QED
      BY <2>3, <2>9, <3>2, SoonestOfThoseDue
  <2>10. QED
    BY <2>2, <2>4, <2>7, <2>8, <2>9 DEF SoonestListed
<1>2. IInv /\ [Next]_vars => [DeadlinesRead => SoonestListed]_vars
  BY <1>1
<1>3. QED
  BY <1>2, Invariant, PTL DEF Spec, DeadlinesSoonestFirst

=============================================================================
