# A verification of workhub-api

workhub-api is a NestJS service over PostgreSQL (through Prisma): accounts and
sessions, invitations, roles and permissions, companies with their projects and
tasks, time tracking, invoices and payments, and a private "second brain". This
directory holds TLA+ models of its state-changing handlers, TLC runs over small
instances, and proofs checked by TLAPS.

    tlc -workers 2 -config MCSessions.cfg MCSessions     # model-check one run
    tlapm SessionsProofs.tla                             # check the proofs of a module

Paths below are relative to the repository; `modules/` stands for `src/modules/`.

## 1. How the service runs, and how it is modelled

One Node process handles requests. A handler is single-threaded between two
`await`s, and every query is an `await`: any other request, a tick of the clock
or the end of the process may come between two queries of a handler. There are
few transactions (`$transaction` is used by the registration of a client
profile, the creation and deletion of a company, the deletion of a project, and
page reads), so most handlers read a row, decide, and write by id later. What
decides a race is then a unique index, a foreign key or a cascade; a statement
that breaks one throws P2002, P2003 or P2025, and `PrismaExceptionFilter` maps
it to 409, 400 or 404.

All modules share one shape:

- a table is a function from ids to rows, `NoRow` when there is none. Ids are
  cuids and never reused: `used`, `born`, `created` or `minted` remember them;
- `Requests` are slots for requests in flight. `request[r]` is a record whose
  `pc` names the handler's next statement and whose other fields are the local
  variables it still needs. One action is one statement with the decisions that
  follow it in the handler;
- two statements are one action only where nothing in between can change what
  they see or decide. Each merge is named in section 4;
- reads whose only effect is a reply are left out: they change nothing;
- `Restart` drops every request in flight where it stands, with what is pending
  in memory, and keeps the tables;
- history variables (`accepted`, `signedIn`, `provisioned`, `cut`, `told`,
  `missed`, `byHand`, `alone`, `linkedBy`, `asked`) are written and never read by a guard, except that `told`
  is capped by its bound.

## 2. Inventory

| Component | State | Operations that write | What is hard | What makes it correct |
|---|---|---|---|---|
| Auth, sessions (`modules/auth`, `modules/sessions`, `infrastructure/tokens`) | `sessions` rows: user, hash of the refresh token, deadline; a cookie and an access token per browser | login, refresh, logout, revoke, user deletion | rotation against revocation; lost and reordered replies; tokens are equal when signed in one second; two revocations | a session stays with its user; token and deadline belong together; no session comes back; a revocation is logged once |
| Invitations, registration (`modules/invitations`, `modules/auth`, `modules/users`, `modules/profile`) | `invitations` with status, link, deadline; users, profiles, client relationships | invite, look up, edit, accept, resend, delete; register; onboarding; change of e-mail | registration is a chain of statements without a transaction; links expire, are resent or deleted under it | a relationship comes only from an accepted invitation; nobody is half onboarded in silence, and nobody who is gets a session |
| Roles, permissions (`modules/roles`, `modules/permissions`, `modules/users`, `common/guards`, `common/ability`) | roles, permissions, their links, who holds which | create, update, delete, attach, detach, assign, remove | names are checked before the write, by other callers' requests changed meanwhile | `manage.all` is neither gained nor lost |
| Audit log (`modules/admin-audit-logs`) | append-only rows; entries in memory on their way to them | one entry behind each of the writes above that has a caller, inserted in the background | a crash, or any error of the insert, loses an entry; inserts overtake one another; some writes hand over none | where the log is wrong about a link, an entry about it is missing; every entry handed over settles |
| Companies, projects, tasks (`modules/companies`, `modules/projects`, `modules/tasks`) | rows, memberships, copies of a project's owner and company in each task | create, delete (and updates of names) | a task's access is decided from copies that nothing refreshes | whoever holds permissions on both on equal terms reaches a task exactly if it reaches the project |
| Expenses, notes, articles, templates, journal, reminders (`modules/expenses`, `modules/brain-notes`, `modules/knowledge-articles`, `modules/brain-templates`, `modules/journal-entries`, `modules/reminders`) | rows of one owner with an optional link to a project or a task | create, update, delete | links are looked up before the write; rows are found with the caller's abilities and written by id | nobody but the owner or one with `manage.all` touches a row; links stay within the reach of who made them |
| Notifications (`modules/notifications`, `modules/tasks`) | notification rows | written by task changes and by administrators; read one by one or all at once | decided on a stale read, inserted after the task's write, one by one | everyone told once, truthfully, and read only by the recipient |
| Time entries (`modules/time-entries`) | rows with dates, links to project and task | create, update, delete | stop-then-start in two statements; dates from the caller; links resolved before the write | one running timer; entries end after they start; task and project fit |
| Invoices, payments (`modules/invoices`, `modules/payments`) | rows, numbers unique per user, a link from payment to invoice | create, update, delete of both | a number is a count plus one; links checked before the write | numbers without clashes, and without gaps but for one case; links stay with the owner |
| Planning (`modules/planning`) | none | reads only: calendar and deadlines | days as ranges of instants; a horizon computed before the query; a limit | nothing falls between two days; the limit never costs a sooner deadline |
| Finance analytics | none | reads only | amounts summed by three statements | sums are right |
| Infrastructure | none | | | |

Interactions: handlers share the database and call one another's services in
process (`AuthService.register` calls users, invitations, roles and onboarding;
`TasksService` calls the notifications repository; time entries, invoices,
expenses and notes resolve their project or task through its service; the
administrative handlers hand an entry to `AdminAuditLogWriterService`).
Deletions reach other tables through `ON DELETE CASCADE` and `SET NULL`. The
audit writer is the only background work: a promise nobody awaits. There are no
queues and no scheduled jobs.

## 3. Modules

| Module | Models | Run |
|---|---|---|
| `OwnedRows` | what a table of rows of users promises: inserted once, never in other hands, removed once, never back, never without the user | implemented by five modules below |
| `AccountLifecycle` | what signing up promises: made once, a profile for good, a session only with one, never back | implemented by `Registration` |
| `Sessions` | login, refresh, logout, revocation | `MCSessions` |
| `SessionsProofs` | proofs, including that `Sessions` implements `OwnedRows` | |
| `Registration` | invitations, registration, onboarding | `MCRegistration` |
| `RegistrationProofs` | proofs, including that `Registration` implements `AccountLifecycle` | |
| `AccessControl` | roles, permissions and their links | through `AuditTrail` |
| `AuditTrail` | `AccessControl` with the audit log behind its writes, and restarts | `MCAuditTrail` |
| `AccessControlProofs` | proofs about both, including that `AuditTrail` implements `AccessControl` | |
| `Workspace` | companies, projects, tasks and who reaches them | through `Records` |
| `Records` | `Workspace` with the rows linked to its tasks and projects | `MCRecords` |
| `RecordsProofs` | proofs about both, including that `Records` implements `Workspace` and `OwnedRows` | |
| `TaskNotices` | notifications | `MCTaskNotices` |
| `TaskNoticesProofs` | proofs, including that `TaskNotices` implements `OwnedRows` | |
| `TimeEntries` | timers and bookings | `MCTimeEntries` |
| `TimeEntriesProofs` | proofs, including that `TimeEntries` implements `OwnedRows` | |
| `Finance` | invoices and payments | `MCFinance` |
| `FinanceProofs` | proofs, including that `Finance` implements `OwnedRows` | |
| `Planning` | calendar and deadlines | `MCPlanning` |
| `PlanningProofs` | proofs | |

`AuditTrail` composes the handlers of `AccessControl` with the writer, action by
action: an audited write is the conjunction of the write and of what it hands
over. `Records` composes with `Workspace` by its step: a step of the workspace
does to the linked rows what the foreign keys say (`Work` is what the handlers of
the workspace do; `Next` adds the restart, which in `Records` stops the handlers of
the rows as well). The other modules overlap only in what one handler does to
another's tables: the deletion of a user, a company, a task or a project appears in
each that keeps rows which go with it, or lose it, there. `PROJECT.json` maps every definition to the lines it
translates.

Two modules are abstract. `OwnedRows` has no requests: a row appears for a user
who exists, stays that user's, and goes, by itself or with its user, for good.
`Owner` in each of `Sessions`, `Finance`, `TaskNotices`, `TimeEntries` and `Records`
says whose a row is, and `RefinesOwnedRows` that under this mapping every behaviour of the
handlers, which look a row up, decide and write it by id later, is one of
`OwnedRows`. `AccountLifecycle` knows of an account only its `Stage`.
`RefinesAccounts` says that the statements of registration, of onboarding and of
`POST /companies`, in whatever order and wherever they are cut short, take an
account through its stages and never back.

## 4. From the code to the models

**Sessions.** `LoginFind`/`LoginCreate` are `AuthService.login`,
`RefreshFind`/`RefreshUpdate` are `refresh`: tokens and deadline are computed
after the lookup and before the update, so the values an update writes may be
older than those of an update that came first. `RequestArrives`, `ContextRead`
and `DeleteForUser` are a revocation or a logout, whose two context queries run
side by side in one `Promise.all`. One tick is one second: two refresh tokens of
one user signed in one second are the same token. The hash column has no unique
index and `findFirst` no order, so `findOneByToken` is a set. A reply may be
delivered late, in any order, or not at all. SHA-256 is taken as injective.

**Registration.** One action per statement of `register()`. `RegisterFind` and
`RegisterLookup` decide, `RegisterInsert` makes the user,
`AcceptReadUser`/`AcceptReadInvite`/`AcceptWrite` are `acceptForRegisteredUser`,
`AddRole`, `SetupClient` and `CreateFreelancer` the onboarding, and
`RegisterSession` the session that is answered. Each of the later ones may throw
(`Abort`), and what was written stays. An e-mail is compared exactly by the
database and in lower case by the services, so `Lower` is a constant with two
spellings of one address. A link that comes back is one that was sent (`Sent`), as
nobody guesses a token. Who holds the role `client` is not recorded: administrators
assign and remove it at any moment, and may delete or rename it, so `AddRole` has an
outcome for either, and `CompanyFind` lets anybody without a profile through.
Merged: the lookup and the write of `PATCH`, of the acceptance and of `DELETE` of an
invitation are one step. A row loses its company when that is deleted
(`DeleteCompany`, `ON DELETE SET NULL`), and with it those who reach it through the
company; but it is still its inviter's, who exists as long as the row does, and the
step leaves open who the caller is. `POST /companies` appears
for what it does to client profiles; its insert may also fail on the slug.
`UpdateEmail` is `PATCH /users/:id` by an
administrator and `PATCH /profile` by the user, which write the same column after
the same check.

**AccessControl.** `Arrive` is everything up to the statement that writes:
`PoliciesGuard`, the checks against reserved names, the lookups. Each write is an
action of its own, and `Fails` is any statement that breaks a constraint. Merged:
where a handler looks two rows up, both are read at once, which is sound because
whether a row is the reserved one never changes (this is `Reserved`, proved).
Slugs and keys are a few strings; only the reserved ones matter, and `client`.
`UserCreate` is a new account, made by an administrator or by registering; one that
registers by invitation goes on to `FindClientRole`, which is `addRoleBySlug`: the
role is found by its name and then given by the same checks and the same `AddRole`
as by an administrator, but with nobody calling. What registration does besides is in
`Registration`.

**AuditTrail.** The call of the writer follows the awaited write without an
`await` in between, so the write and handing over its entry are one step. What
happens to the entry then is `Persist`: an insert that succeeds, while the actor has
an account, or any error of it (`P2003` when the account is gone, or a database that
cannot be reached), which the writer logs and swallows. The two handlers of a user's
roles hand an entry over `if (actorUserId)` only: the role that a registration gives
has none, and the write is `silent`. `trail` holds the writes in their order; whether
the entry of each is pending, logged, failed, cut or was never given is its `state`,
so the rows of the log, which have no order of their own, are those that are
`logged`. `actor` is the column, set to
null when the user is deleted; `by` is who really made the write. `context` is
the set of rows an entry names; names and metadata are left out. Handlers of
users, sessions and invitations hand over entries in the same way; deleting a
user is here because it takes actors away, creating one because of the role it may be
given (the entry about the account itself names no role and is left out).

**Records.** Notes, knowledge articles, templates and reminders do the same with
a task, so `note` stands for the four; `expense` has a project, `journalEntry`
nothing. `CreateResolve` and `UpdateResolve` look the link up with the abilities
of the caller, `CreateInsert` and `UpdateWrite` write the row by its id.
`Cascaded` is what the foreign keys do to the rows when a step of the workspace
deletes their owner, task or project. Merged: in an update, the row and then the
link are looked up in one step, since whose row it is never changes. `linkedBy`
remembers who set a link, with the keys of that request and the company as whose
member the caller saw what it linked to, if it was in one (`through`): an
administrator may link a row of somebody else to something its owner cannot reach,
and permissions come and go, so the property speaks of the one who asked and of what
it could see then. The keys for the rows themselves are left out, but for
`manage.all`.

**Planning.** An instant is a number of ticks and a day `DayLength` of them;
the last tick of a day is its 23:59:59.999. The queries are sets defined by the
`where` of the repositories, `orderBy` with `take` by the sets it may leave, as
rows of one date and one title come in any order. The two queries of a calendar
are two steps (they share no snapshot), and the horizon of the deadlines is
computed one step before the query. The handlers that write tasks and reminders
are reduced to what they do to a date and a status.

**Workspace.** A handler that deletes reads the row first (`...Read`, which
decides whether the caller reaches it) and writes later. `TaskCreateRead` takes
the copies, `TaskInsert` writes them. `Gone` is a write that finds no row or
breaks a foreign key, and a deletion of a project rolled back because a task came
in between its two statements. A user is deleted only when no project and no task refers
to it; deleting a company sets `company_id` of its projects to null and leaves
the copies in tasks. Merged: a project is created in one step, since its owner is
the caller and the foreign keys decide about the company. Loading the caller's
abilities and reading the row are one: keys and companies of an ability are
those of the moment the row is read. What a user may hold is the constant `Held`, a
set of sets of keys: a request is made with any of them, so permissions change
between requests. `reachesProject` is decided by the project permissions and
`reachesTask` by the task permissions, `*.read.all` included, and to update or delete
is to read; deleting asks for the permission to delete besides. A company is deleted
by its members only. Renaming a company or a project is not kept.

**TaskNotices.** `UpdateRead` keeps the status it saw, `UpdateWrite` decides
whether to announce from that, and `NoticeInsert`/`NoticeRefused` are the inserts
of one `Promise.all`, which neither stop nor undo each other. Only the status of
a task is kept; a change of anything else announces nothing. `MarkAllRead` is one
`UPDATE`. A second reading overwrites `readAt`, which is not kept, and is no step.
`NoticeCreate` is `POST /notifications`, one insert by an administrator, whose
rows (`LetterIds`) are about no task and take no slot.

**TimeEntries.** `CreateResolve`, `CreateClose` and `CreateInsert` are the three
statements of `create()`, `UpdateRead`, `UpdateClose` and `UpdateWrite` those of
`update()`. Both dates come from the caller. Merged: task and project are
resolved in one step, as the project of a task is fixed and foreign keys decide
again at the write; so are the two statements of a deletion, as owners are fixed.
`DeleteUser` takes the user's entries along; it is refused while a project is the
user's or a task is assigned to it (`UserOf`, which no handler changes).

**Finance.** Amounts, currencies, statuses and dates are left out, as no
operation depends on them. Merged: the lookup of a number and the write that
follows, as the unique index `(user_id, number)` answers the same 409 when
another request took it between the two; the same answer is given at either
point. The count and the year are two steps: `InvoiceCreate` counts, and
`InvoiceNumber` reads the year when the count has arrived, with a `NewYear` between
the two, or between the numbers of two creations with one count. Deletions are one
step, as owners are fixed.

## 5. Runs and what they show

Numbers are distinct states, after symmetry reduction where the run uses it.

| Run | Instance | States | Shows |
|---|---|---|---|
| `sessions` | 2 users, 2 sessions, 2 browsers, 2 requests, clock 0..2 | 1.9 M | tokens never cross users, deadlines agree, a revocation is logged once, `OwnedRows` is implemented |
| `registration` | 2 users, 1 invitation, 1 company, 3 spellings, 2 requests, 1 resend, clock 0..1 | 2.9 M | relationships come from acceptances; no account is silently left half onboarded; whoever is signed in is onboarded; `AccountLifecycle` is implemented |
| `time_entries` | user and administrator, 2 entries, 1 project with 1 task, 2 requests | 2.6 M | a handler that was not overtaken leaves one timer; nobody else stops it; task and project of an entry fit; `OwnedRows` is implemented |
| `audit` | administrator and a user who joins, 3 roles, 3 permissions, 2 requests, 2 entries | 1.1 M | `manage.all` is neither gained nor lost; the rows of the log tell every link about which none is missing; each entry settles |
| `records` | user, and one whose roles change between `manage.all` and sight of all projects, 1 company, 1 project, 1 task, 1 row, 2 requests each about the workspace and about the row | 3.6 M | on equal terms, reaching a task is reaching its project; links stay within reach; only owners and administrators touch a row; `OwnedRows` is implemented |
| `task_notices` | 2 users, 1 task, 2 statuses, 4 notifications and 1 by an administrator, 3 announcements, 2 requests | 1.2 M | told exactly once, truthfully when nobody raced, read by the recipient; `OwnedRows` is implemented |
| `finance` | user and administrator, 2 invoices, 1 payment, 1 project, 2 numbers, 2 years | 1.9 M | links stay within the owner; when nobody interferes, numbers stay within the count and skip one only after two years shared one; `OwnedRows` is implemented |
| `planning` | 2 tasks, 1 reminder, 3 days of 2 ticks, horizon 1, limits 1 and 2, 1 request | 0.4 M | calendars are made of their days; the soonest deadlines are listed |
| `pending_invites` | violation | | two pending invitations for one address |
| `running_timers` | violation | | two running timers of one user |
| `ended_before_started` | violation | | a timer ended before it began |
| `invoice_numbers` | violation | | the next number is taken for good |

Why the bounds are enough. Two requests show every race between two handlers,
and deletions and renamings that are one statement take no slot, so that they
interleave with both; `records` has two slots for the workspace and two for the
rows, so that two handlers of either race with one of the other. Two users, one
of them privileged, are the parties a property tells apart: in `records` one
has companies it joins and projects it owns, and the other reaches what it does not
own: by `manage.all`, or, when its roles have changed, by `projects.read.all` without
any sight of tasks. Two rows are the least for which one
may be mistaken for another, and two dates or years the least that can be out of
order; two numbers under two years are the least gap there is. `registration` has one
invitation, sent to one spelling of an address, so its races are between
handlers of the same invitation, its company's deletion among them; two invitations
to every spelling are in `pending_invites`. `time_entries` has one date, as what its properties say does
not depend on dates, and one project: an entry may be booked on a task without
its project, which is enough to break what the property says, a second project is
beyond the time a run should take, and `BookedWithinProject` is proved for any
number; two dates are in the runs of the violations. `audit` has two entries, the least that can arrive in the
wrong order, and besides them the writes that have none; its second user joins, with
a role or without, and is deleted. `planning` has days of two ticks, so that
each has a first and a last instant that differ, and one request, since readers
do not meet. Each mutant listed in `PROJECT.json` (a bug put into one definition)
is caught within its run's bounds, and all these properties but the one of
liveness are proved for every instance (section 6). Ids are
used once, so a run stops when they are spent: this and the clock are why
deadlock is not checked, except in `planning`, where it is.

**Fairness** is assumed of one action: `FairAuditSpec` has
`WF_auditVars(Persist(n))`. Once a handler has called the writer, the promise is
in the hands of the runtime: a query settles, with a row or with an error, and the
callback runs, unless the process stops, which is `Restart`. Weak fairness says
that and no more. Callers owe nothing and are not fair. With it,
`EntriesSettle` holds: every entry handed over is inserted, given up with an error or
cut with the process, and none waits for another, or for its actor. That an entry is
logged is more than the code promises, since the writer swallows every error. Nothing else in the code retries, waits or
runs by itself, so nothing else is bound to happen, and every other property is a
safety property.

### What the violations say of the code

- **Pending invitations.** `InvitationsService.create` looks for a pending row and
  inserts one in two statements, and no unique index covers them. Two calls at
  once leave two pending rows where the code answers 409 to the second of two in
  sequence.
- **Running timers.** `create` closes the running timers and inserts the new one
  in two statements. Two starts that overlap leave two running.
  `StartedAlone` says what holds: a handler nobody overtook leaves one.
- **Ended before started.** The running timer is ended at the `startedAt` of the
  next one, which the caller may date before it began: the service writes the
  row it refuses from a caller (`endedAt must be on or after startedAt`).
- **Invoice numbers.** The number given is the count of the owner's invoices plus
  one. When an earlier one is deleted, it is that of the last, and every creation
  without a number is refused. `NumberedInOrder` says what holds as long as the server
  gives the numbers and none is deleted: the next one is free, and none is skipped
  but in one case. Two creations that take the same count and read the year on either
  side of its turn give one number under two years; the count is then ahead by one,
  and the invoice after them skips a number.

## 6. Proofs

Every constant is arbitrary in the proofs, up to the named assumptions of the
modules: any number of users, rows and requests. The assumptions say that the
values for "none" (`NoRow`, `Null`, `Absent` and the like) are none of the others,
since null is nobody's id; that administrators are users; that ids of different
tables differ where one set holds both (`RecordsAssumption`, `AuditAssumption`,
`FinanceAssumption`, `NoticesAssumption`), since every id is a cuid, unique over
all tables; what the seed has made (`SeedAssumption`); and that what is counted is
finite: notifications and requests in `NoticesAssumption`, tasks in
`PlanningAssumption`, as a table is. TLC evaluates each of them in the runs.

Each module has an inductive invariant: what the properties say of rows, and what
the requests in flight still know of what they read, since a handler's write is
right only because of a read some steps before.

**Sessions** (`IInv`). The three invariants do not carry themselves over
`RefreshUpdate`, which writes values computed at an earlier step.
`RefreshCoherent` says what a refresh in flight still knows: its deadline is that
of its new token, its session was inserted once, and the row, if it is there,
is its user's. With `ForeignKey` (rows were inserted and have a user) it is
inductive. From it follow `TypeCorrect`, `TokenIsolation`, `ExpiryAgreement` and
`RevocationReported`.

**Registration** (`TypeInv`, then `OnboardingInv`). Of all that a registration
has read, little stays true: the invitation may be rewritten or gone, the address
changed, the user deleted. `CallRight` says what does: an invitation about to be
accepted has, while it exists, the address the registration compared (addresses
of invitations never change); once past it, an acceptance is on record; and before
the session, the user is onboarded or gone. `Grows` and `AddsRight` are what every
step has in common: users and invitations do not come back, histories only grow,
and what is added is right. `NoOrphanedInvitations`, `OnlyInvitedClients`,
`NoForgottenAccount` and `SessionsAfterOnboarding` follow.

**AccessControl** (`IInv`). What is reserved is stated by rows (`Reserved`), and
what makes it stable is that no call in flight is about a reserved row
(`CallsSpareReserved`): the checks of `Arrive` establish it and nothing renames a
row into the reserved name afterwards. A registration with nobody calling goes
through the same checks (`FindClientRole`), so its call spares what is reserved, too.
`NoNewAdministrators`,
`NoAdministratorLost` and `LinksHaveBothEnds` follow. They hold with `Stop`, which
drops the calls in flight.

**AuditTrail** (`AuditInv`, in `AccessControlProofs`). Rows of the log come in any
order, so they are counted: between two rows a link is there if it has been added once
more often than removed, the seed's own counted as added. The invariant says this of
all writes, logged or not (`WritesGiveLinks`), and of the rows there are and of those
still to come: about a row that was never inserted nothing has been written, and one
that is gone has taken its links along without an entry. A committed write adds one to
the count it is about and to no other (`OneMoreWrite`, `LinksFollow`), as two rows of
different tables make one link; the writer and a restart change what becomes of
entries, and no count (`SameWrites`). Where no entry about a link is missing the
logged writes are all the writes, which is `LogAccountsForLinks`. `LogNamesAccounts`
follows from `SET NULL`.
`ImplementsAccessControl` shows that `AuditSpec` implies the `Spec` of
`AccessControl`: the writer and the log change nothing that the handlers read, so
`AdministratorsOutlastRestarts` is what is proved there, said of the composition.

**Workspace** (`IInv`, in `RecordsProofs`). A copy taken by a task that is not
inserted yet is stale like one in the table, so `CallsHold` says of requests what
`RowsHold` says of rows: the copy matches the project while it exists, and the
company it names was used before. Companies are never inserted twice, so a copy
that has gone stale about a company stays so. `CopiesStayRight` follows, and from
it and the fact that a company without a row has no members, `SameReach`, for every
user whose keys open as much of the tasks as of the projects (`OnEqualTerms`). One
with `projects.read.all` and no `tasks.read.all` reaches a project and not its tasks,
which is what the permissions say; the theorem is that the copies add no difference
of their own.

**Records** (`RecordsInv`, `ReachInv`). `ImplementsWorkspace` shows that
`RecordsSpec` implies the `Spec` of `Workspace`, whose theorems it inherits.
`NoOrphanedRecords` needs that a call in flight carries a link of the right kind
(`CallFits`). `LinksStayWithinReach` needs `Within` of rows and of calls alike,
and of the workspace that nothing comes back and nobody leaves a company that
remains (`NothingComesBack`): this is why a link that was visible once is still
so when it is written. `Sees` tells how: by a key that opens all, as the owner, or as
a member of the company that is noted with the link, until that very company goes.
A project that never had a company, or another one, is no excuse. `OnlyOwnersTouchRecords` is a property of steps, from the
same invariant.

**TaskNotices** (`TypeInv`, then `CountInv`). A handler that is `alone` holds the
status the task has, which gives `AnnouncedWhenAlone`, and a notification about to
be marked is still its recipient's if it is there, which gives `ReadByOnesOwn`.
`TeamToldOnce` is a count: every step keeps the balance of what a member has,
what is on its way and what was announced (`Balanced`), and nothing was announced
about an id not used yet (`NewsOfTasks`), so a new task starts with none.

**TimeEntries** (`BookedInv`, `AloneInv`). What a call is about to write goes
together and is for the owner of the row, or by an administrator (`CallRight`):
from it `BookedWithinProject` and `StoppedByOwner`. A call that nobody has
overtaken finds at most the timer it writes running (`AloneRight`): `StartsAlone`.
An administrator who reopens the entry of another closes its own timers, not the
owner's, and may leave the owner with two; no property here forbids it, since no line
says whose timers are meant.

**Finance** (`LinksInv`, `NumbersInv`). A link looked up still fits if the invoice
is there (`Fits`): `PaymentsLinkedWithinOwner`. For `GapsOnlyAfterTwoYears`,
the invoices are counted: up to each number below the next one there are at least as
many invoices (`Dense`), and a call keeps what it has counted, whichever year it reads
afterwards (`NumberCall`), since nothing is deleted. No number is then beyond the
count. If one is skipped, the invoices below it are more than the numbers below it,
so two of them share a number (`GapShared`), which the unique index allows under two
years only. Years turn as they like, with any number of creations in flight.

**Planning** (`IInv`). `TypeCorrect` has the one fact about days that the
rest needs: a horizon in flight ends with the last tick of a day. With division
and remainder (`DaysAndRest`), an instant lies in a range of days just when its day
does (`RangeOfDays`), for every length of a day: `RangesAreMadeOfDays`. For the
deadlines, a request in flight remembers when it was asked, and its horizon is no
sooner than so many days on (`Remembered`, `EndOfHorizon`), however many midnights
pass before the query. `DeadlinesInOrder` then reads off what the query selects.
That it selects anything is `DeadlinesReply`: of the sets of due tasks that are in
order and within the limit, one leaves the fewest of the limit unused, and if a
task were left then, the soonest of them could be added (`SoonestExist`). Both
choices are of a least number (`LeastNumber`, by well-foundedness), so no induction
over sets is needed.

**Rows of users** (`Refinement` in `SessionsProofs`, `FinanceProofs`,
`TaskNoticesProofs`, `TimeEntriesProofs` and `RecordsProofs`). Each step of the handlers is a step of
`OwnedRows` or leaves it alone. An `UPDATE` by id is the step that could break it: it
must find the row or do nothing, and leave the user in it. An insert must fail
once the user is gone, which is the foreign key, and a deleted user must take every
row along, in the same step, which is the cascade. In `Records` users are
those of the workspace, so each of its steps is looked at for what it does to them
(`WorkspaceRefines`).

**Accounts** (`Refinement` in `RegistrationProofs`). Every step maps to a stage
that one account enters, or to none (`InvisibleStep`). It needs the invariant of the
onboarding: that whoever is about to be signed in has a profile is what a
registration learned some statements before (`CallRight`), and that a profile is
never without its user is `TypeInv`.

Only model-checked: `EntriesSettle`, which is liveness under fairness and out of
TLAPS's reach here, and the four properties that the code violates. No definition
is recursive.

## 7. Not modelled

- Finance analytics: three aggregate queries that only read; what they answer is
  computed by the database.
- Infrastructure: bootstrap, configuration, throttling, validation of bodies,
  mapping to DTOs, and the filter that turns database errors into statuses, which
  the models have as failed writes.
- Listings, searching and pagination: reads with a reply. Tracked durations of
  tasks are sums in a reply.
- Renaming of a company with its slug, where the unique index decides; names,
  descriptions, amounts, passwords, avatars and other data nothing depends on.
- The Prisma client under `infrastructure/database/generated`, which is generated
  and makes up most of the lines of the source tree (which is why the share of all
  lines that the map covers is low); tables and constraints are modelled from how
  the handlers use them and from the schema.
- Losing the connection to the database in the middle of a statement: a
  statement either happened or did not. That one may fail for no reason of its own is
  modelled where the code goes on after it (the audit log); elsewhere the handler ends
  there with an error, which to the other requests is a handler that takes no further
  step, as every one may in all the models.

`PROJECT.json` lists the hazards of the code, line by line, with the properties
that cover each or the reason why none does.

## 8. Plan

Done, in this order: `Sessions` with its proofs, `Registration`, `TimeEntries`,
`AccessControl` and its proofs, `Workspace` and its proofs, `TaskNotices`,
`Finance`, `AuditTrail` with its liveness, `Records` over `Workspace`, `Planning`,
the proofs about all modules, and the abstract specifications `OwnedRows` and
`AccountLifecycle` with the proofs that six modules implement them. Left, in this
order:

1. An abstract specification of timers (`TimeEntries` implements that of rows):
   which of a user's entries is running, under starts that overlap.
2. The entries that users, sessions and invitations hand to the audit log,
   composed with `Registration` and `Sessions` as `AuditTrail` is with
   `AccessControl`.
3. The slug of a company: the free slug that is looked up before the insert.
4. Sums of finance analytics and tracked durations as operators, checked against
   a definition by sets.
