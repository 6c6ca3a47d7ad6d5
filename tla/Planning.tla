------------------------------- MODULE Planning -------------------------------
(***************************************************************************)
(* What lies ahead of a user: the calendar of a range of days and the next *)
(* deadlines, read from the tasks and reminders the caller may reach while *)
(* these are made, moved and finished.  The handlers only read, so they do *)
(* not meet one another: one request is enough.                            *)
(*                                                                         *)
(* An instant is a number of ticks, a day DayLength of them: its last tick *)
(* stands for 23:59:59.999.                                                *)
(***************************************************************************)
EXTENDS Integers, FiniteSets

CONSTANTS
    TaskIds, ReminderIds,
    DayLength,
    MaxDay,             \* bound on the clock and on the dates given
    Horizons, Limits,   \* the horizonDays and limit of the callers
    NoDate, NoRow

Days == 0 .. MaxDay
Instants == 0 .. (MaxDay + 1) * DayLength - 1
Day(instant) == instant \div DayLength

Task == [open : BOOLEAN, dueAt : Instants \cup {NoDate}]
Reminder == [active : BOOLEAN, remindAt : Instants]

ASSUME PlanningAssumption ==
    /\ IsFiniteSet(TaskIds)
    /\ DayLength \in Nat \ {0} /\ MaxDay \in Nat
    /\ Horizons \subseteq Nat \ {0} /\ Limits \subseteq Nat \ {0}
    /\ NoDate \notin Instants
    /\ NoRow \notin Task \cup Reminder

VARIABLES
    now,
    tasks,      \* the tasks of the caller's abilities: id |-> row or NoRow
    reminders,  \* the caller's reminders: id |-> row or NoRow
    request     \* where the handler is, what it holds, what it answered

vars == <<now, tasks, reminders, request>>

Idle == [pc |-> "idle"]

(* `asked' is a history variable: when the handler read the clock.         *)
Request ==
    [pc : {"idle"}]
    \cup [pc : {"calendar"}, from : Days, to : Days, tasks : SUBSET TaskIds]
    \cup [pc : {"deadlines"}, asked : Instants, horizonDays : Horizons,
          horizonEnd : Nat, limit : Limits]
    \cup [pc : {"answered"}, tasks : SUBSET TaskIds, reminders : SUBSET ReminderIds]

TaskRows == {t \in TaskIds : tasks[t] # NoRow}
ReminderRows == {m \in ReminderIds : reminders[m] # NoRow}
Dated == {t \in TaskRows : tasks[t].dueAt # NoDate}

Init ==
    /\ now \in Instants
    /\ tasks = [t \in TaskIds |-> NoRow]
    /\ reminders = [m \in ReminderIds |-> NoRow]
    /\ request = Idle

-----------------------------------------------------------------------------
startUtcDay(day) == day * DayLength

\* Mutant: the day is taken for its midnight.
MidnightOf(day) == day * DayLength

endUtcDay(day) == (day + 1) * DayLength - 1

InDays(instant, from, to) == startUtcDay(from) <= instant /\ instant <= endUtcDay(to)

findByDueDateRange(from, to) == {t \in Dated : InDays(tasks[t].dueAt, from, to)}

\* Mutant: dismissed reminders ring on.
RemindInRange(from, to) ==
    {m \in ReminderRows : InDays(reminders[m].remindAt, from, to)}

findActiveInRemindRange(from, to) ==
    {m \in ReminderRows : reminders[m].active /\ InDays(reminders[m].remindAt, from, to)}

\* Mutant: the clock is set to the start of that day.
StartOfHorizon(instant, days) == startUtcDay(Day(instant) + days)

\* The end of the day that many days on.
horizonEndAt(instant, days) == endUtcDay(Day(instant) + days)

\* Mutant: as many as the limit, whichever.
AnyOpenDeadlines(end, take) ==
    LET due == {t \in Dated : tasks[t].open /\ tasks[t].dueAt <= end}
    IN  {first \in SUBSET due : Cardinality(first) <= take}

\* The soonest, overdue ones before all; rows of one date and title come in
\* any order.
findOpenDeadlines(end, take) ==
    LET due == {t \in Dated : tasks[t].open /\ tasks[t].dueAt <= end}
    IN  {first \in SUBSET due :
            /\ Cardinality(first) = take \/ (Cardinality(first) < take /\ first = due)
            /\ \A t \in first, s \in due \ first : tasks[t].dueAt <= tasks[s].dueAt}

-----------------------------------------------------------------------------
(* GET /planning/calendar: two statements, each with a snapshot of its own *)

CalendarTasks(from, to) ==
    /\ request.pc = "idle"
    /\ request' = [pc |-> "calendar", from |-> from, to |-> to,
                   tasks |-> findByDueDateRange(from, to)]
    /\ UNCHANGED <<now, tasks, reminders>>

CalendarReminders ==
    /\ request.pc = "calendar"
    /\ request' = [pc |-> "answered", tasks |-> request.tasks,
                   reminders |-> findActiveInRemindRange(request.from, request.to)]
    /\ UNCHANGED <<now, tasks, reminders>>

(* GET /planning/deadlines: the clock is read before the query is sent     *)

DeadlinesAsk(days, limit) ==
    /\ request.pc = "idle"
    /\ request' = [pc |-> "deadlines", asked |-> now, horizonDays |-> days,
                   horizonEnd |-> horizonEndAt(now, days), limit |-> limit]
    /\ UNCHANGED <<now, tasks, reminders>>

DeadlinesRead ==
    /\ request.pc = "deadlines"
    /\ \E first \in findOpenDeadlines(request.horizonEnd, request.limit) :
          request' = [pc |-> "answered", tasks |-> first, reminders |-> {}]
    /\ UNCHANGED <<now, tasks, reminders>>

Reply ==
    /\ request.pc = "answered"
    /\ request' = Idle
    /\ UNCHANGED <<now, tasks, reminders>>

-----------------------------------------------------------------------------
(* Meanwhile.  The rows are written by the handlers of Workspace and       *)
(* Records, whose rules of access do not matter here.                      *)

Tick ==
    /\ now + 1 \in Instants
    /\ now' = now + 1
    /\ UNCHANGED <<tasks, reminders, request>>

\* Created or updated, or given a status or a date.
TaskSet(t, row) ==
    /\ tasks' = [tasks EXCEPT ![t] = row]
    /\ UNCHANGED <<now, reminders, request>>

TaskDelete(t) ==
    /\ t \in TaskRows
    /\ tasks' = [tasks EXCEPT ![t] = NoRow]
    /\ UNCHANGED <<now, reminders, request>>

ReminderSet(m, row) ==
    /\ reminders' = [reminders EXCEPT ![m] = row]
    /\ UNCHANGED <<now, tasks, request>>

ReminderDelete(m) ==
    /\ m \in ReminderRows
    /\ reminders' = [reminders EXCEPT ![m] = NoRow]
    /\ UNCHANGED <<now, tasks, request>>

Next ==
    \/ \E from, to \in Days : CalendarTasks(from, to)
    \/ \E days \in Horizons, limit \in Limits : DeadlinesAsk(days, limit)
    \/ CalendarReminders \/ DeadlinesRead \/ Reply \/ Tick
    \/ \E t \in TaskIds : TaskDelete(t) \/ \E row \in Task : TaskSet(t, row)
    \/ \E m \in ReminderIds : ReminderDelete(m) \/ \E row \in Reminder : ReminderSet(m, row)

Spec == Init /\ [][Next]_vars

-----------------------------------------------------------------------------
\* Requests and rows keep their shapes, and a horizon ends with a day.
TypeOK ==
    /\ now \in Instants
    /\ tasks \in [TaskIds -> Task \cup {NoRow}]
    /\ reminders \in [ReminderIds -> Reminder \cup {NoRow}]
    /\ request \in Request
    /\ request.pc = "deadlines" => (request.horizonEnd + 1) % DayLength = 0

\* A calendar is made of its days, whichever range it is asked for: whatever is
\* dated within a day is in the calendars that contain the day, from its first
\* millisecond to its last, and in no other ("Inclusive calendar day
\* (YYYY-MM-DD), UTC bounds", tasks.repository.ts).
CalendarsMadeOfDays ==
    \A from, to \in Days :
        /\ findByDueDateRange(from, to) = {t \in Dated : Day(tasks[t].dueAt) \in from .. to}
        /\ findActiveInRemindRange(from, to) =
              {m \in ReminderRows : reminders[m].active /\ Day(reminders[m].remindAt) \in from .. to}

\* However late the query runs, no open task due within the horizon that was
\* asked for is left out, unless the limit is filled by tasks due no later; and
\* nothing finished, or due after the last day of the horizon, is listed.
SoonestListed ==
    LET listed == request'.tasks
        inHorizon == {t \in Dated : tasks[t].open
           /\ tasks[t].dueAt <= request.asked + request.horizonDays * DayLength}
    IN  /\ \A t \in listed :
              /\ t \in Dated /\ tasks[t].open
              /\ Day(tasks[t].dueAt) <= Day(request.asked) + request.horizonDays
        /\ Cardinality(listed) <= request.limit
        /\ \A t \in inHorizon \ listed :
              /\ Cardinality(listed) = request.limit
              /\ \A s \in listed : tasks[s].dueAt <= tasks[t].dueAt

DeadlinesSoonestFirst == [][DeadlinesRead => SoonestListed]_vars
=============================================================================
