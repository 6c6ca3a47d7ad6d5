------------------------------- MODULE Finance -------------------------------
(***************************************************************************)
(* Invoices with their numbers, and the payments linked to them, written   *)
(* by concurrent requests of their owners and of administrators.  Amounts, *)
(* currencies, statuses and dates are left out: no operation depends on    *)
(* them.                                                                   *)
(***************************************************************************)
EXTENDS Naturals, FiniteSets

CONSTANTS
    UserIds, Admins,    \* Admins hold manage.all and reach every row
    ProjectIds,
    CanRead,            \* user |-> projects it may read
    InvoiceIds, PaymentIds,
    MaxNumber, MaxYear, \* bounds on the numbers of a year and on the years
    ByHand,             \* the numbers callers write by hand
    Requests,
    Null,               \* no project, no invoice
    Absent,             \* a field the body does not have
    NoRow

\* `INV-<year>-<n>'; what a caller writes by hand may be one of these, too.
Number == [year : 1 .. MaxYear, n : 1 .. MaxNumber]

Invoice == [userId : UserIds, projectId : ProjectIds \cup {Null}, number : Number]

Payment == [userId : UserIds, invoiceId : InvoiceIds \cup {Null}]

ASSUME FinanceAssumption ==
    /\ Admins \subseteq UserIds
    /\ CanRead \in [UserIds -> SUBSET ProjectIds]
    /\ MaxNumber \in Nat /\ MaxYear \in Nat \ {0}
    /\ ByHand \subseteq Number
    /\ Null \notin ProjectIds \cup InvoiceIds
    /\ Absent \notin ProjectIds \cup InvoiceIds \cup {Null} \cup Number
    /\ InvoiceIds \cap PaymentIds = {}
    /\ NoRow \notin Invoice \cup Payment \cup UserIds

VARIABLES
    year,       \* the server's calendar year
    users,      \* rows of the users table
    projects,   \* rows of the projects table
    invoices,   \* the invoices table: id |-> row or NoRow
    payments,   \* the payments table: id |-> row or NoRow
    used,       \* ids of all invoices and payments ever inserted
    request,    \* per slot: where the handler is and what it holds
    byHand      \* history: users one of whose invoices was numbered, renumbered
                \* or deleted by hand

tables == <<users, projects, invoices, payments, used>>
vars == <<year, tables, request, byHand>>

Idle == [pc |-> "idle"]

Request ==
    [pc : {"idle"}]
    \cup [pc : {"numberInvoice"}, userId : UserIds, projectId : ProjectIds \cup {Null},
          count : 0 .. MaxNumber - 1]
    \cup [pc : {"insertInvoice"}, row : Invoice, given : BOOLEAN]
    \cup [pc : {"updateInvoice"}, id : InvoiceIds, number : Number \cup {Absent},
          projectId : ProjectIds \cup {Null, Absent}]
    \cup [pc : {"insertPayment"}, row : Payment]
    \cup [pc : {"updatePayment"}, id : PaymentIds, invoiceId : InvoiceIds \cup {Null}]

Invoices == {i \in InvoiceIds : invoices[i] # NoRow}
Payments == {p \in PaymentIds : payments[p] # NoRow}
InvoicesOf(u) == {i \in Invoices : invoices[i].userId = u}

At(r, pc) == request[r].pc = pc
Become(r, state) == request' = [request EXCEPT ![r] = state]
Done(r) == Become(r, Idle)

Init ==
    /\ year = 1
    /\ users = UserIds /\ projects = ProjectIds
    /\ invoices = [i \in InvoiceIds |-> NoRow]
    /\ payments = [p \in PaymentIds |-> NoRow]
    /\ used = {} /\ byHand = {}
    /\ request = [r \in Requests |-> Idle]

-----------------------------------------------------------------------------
\* What an ability lets a user read and change.
mayReach(u, row) == u \in Admins \/ row.userId = u

readable(u, p) == p \in projects /\ (u \in Admins \/ p \in CanRead[u])

existsByUserIdAndNumber(u, number, but) ==
    \E i \in InvoicesOf(u) \ {but} : invoices[i].number = number

\* Mutant: the invoices of all users are counted.
countAll(u) == Cardinality(Invoices)

\* The invoices the user has, of whatever year.
countByUserId(u) == Cardinality(InvoicesOf(u))

\* The number after so many, in the year that is read last.
nextInvoiceNumber(count) == [year |-> year, n |-> count + 1]

-----------------------------------------------------------------------------
(* Invoices.  The number is looked up before the row is written, and the   *)
(* unique index (user, number) decides again: a request is refused at      *)
(* either point, while the number is taken.                                *)

InvoiceCreate(r, u, p, number) ==
    /\ At(r, "idle")
    /\ u \in users
    /\ p # Null => readable(u, p)
    /\ IF number = Absent
       THEN /\ countByUserId(u) \in 0 .. MaxNumber - 1
            /\ Become(r, [pc |-> "numberInvoice", userId |-> u, projectId |-> p,
                          count |-> countByUserId(u)])
       ELSE Become(r, [pc |-> "insertInvoice", given |-> TRUE,
                       row |-> [userId |-> u, projectId |-> p, number |-> number]])
    /\ UNCHANGED <<year, tables, byHand>>

\* The count has arrived, and only now the year is read.
InvoiceNumber(r) ==
    LET q == request[r]
    IN  /\ At(r, "numberInvoice")
        /\ Become(r, [pc |-> "insertInvoice", given |-> FALSE,
                      row |-> [userId |-> q.userId, projectId |-> q.projectId,
                               number |-> nextInvoiceNumber(q.count)]])
        /\ UNCHANGED <<year, tables, byHand>>

insertable(row) ==
    /\ row.userId \in users /\ row.projectId \in projects \cup {Null}
    /\ ~ existsByUserIdAndNumber(row.userId, row.number, Null)

InvoiceInsert(r, i) ==
    LET row == request[r].row
    IN  /\ At(r, "insertInvoice")
        /\ insertable(row)
        /\ i \in InvoiceIds \ used
        /\ invoices' = [invoices EXCEPT ![i] = row]
        /\ used' = used \cup {i}
        /\ byHand' = IF request[r].given THEN byHand \cup {row.userId} ELSE byHand
        /\ Done(r)
        /\ UNCHANGED <<year, users, projects, payments>>

\* A body with neither a number nor a project changes nothing that is kept here.
InvoiceUpdateRead(r, u, i, number, p) ==
    /\ At(r, "idle")
    /\ u \in users /\ i \in Invoices
    /\ mayReach(u, invoices[i])
    /\ number # Absent \/ p # Absent
    /\ p \notin {Null, Absent} => readable(u, p)
    /\ Become(r, [pc |-> "updateInvoice", id |-> i, number |-> number, projectId |-> p])
    /\ UNCHANGED <<year, tables, byHand>>

\* The field of the body if it has one, else the row's.
Given(field, current) == IF field = Absent THEN current ELSE field

updatable(q) ==
    /\ q.id \in Invoices
    /\ q.number # Absent => ~ existsByUserIdAndNumber(invoices[q.id].userId, q.number, q.id)
    /\ q.projectId \in projects \cup {Null, Absent}

InvoiceUpdate(r) ==
    LET q == request[r]
        owner == invoices[q.id].userId
    IN  /\ At(r, "updateInvoice")
        /\ updatable(q)
        /\ invoices' = [invoices EXCEPT ![q.id].number = Given(q.number, @),
                                        ![q.id].projectId = Given(q.projectId, @)]
        /\ byHand' = IF q.number # Absent THEN byHand \cup {owner} ELSE byHand
        /\ Done(r)
        /\ UNCHANGED <<year, users, projects, payments, used>>

\* Mutant: a payment keeps the invoice that is deleted.
KeepLinks(gone) == payments

\* ON DELETE SET NULL.
Unlinked(gone) ==
    [p \in PaymentIds |->
        IF p \in Payments /\ payments[p].invoiceId \in gone
        THEN [payments[p] EXCEPT !.invoiceId = Null] ELSE payments[p]]

\* Who owns a row never changes, so the lookup and the delete are one step.
InvoiceDelete(u, i) ==
    /\ u \in users /\ i \in Invoices
    /\ mayReach(u, invoices[i])
    /\ invoices' = [invoices EXCEPT ![i] = NoRow]
    /\ payments' = Unlinked({i})
    /\ byHand' = byHand \cup {invoices[i].userId}
    /\ UNCHANGED <<year, users, projects, used, request>>

-----------------------------------------------------------------------------
(* Payments                                                                *)

\* Mutant: anybody's invoice will do.
AnyInvoice(u, i) == i = Null \/ i \in Invoices

\* The invoice of the body is the caller's own, administrator or not.
ownInvoice(u, i) == i = Null \/ i \in InvoicesOf(u)

PaymentCreate(r, u, i) ==
    /\ At(r, "idle")
    /\ u \in users
    /\ ownInvoice(u, i)
    /\ Become(r, [pc |-> "insertPayment", row |-> [userId |-> u, invoiceId |-> i]])
    /\ UNCHANGED <<year, tables, byHand>>

linkable(i) == i \in Invoices \cup {Null}

PaymentInsert(r, p) ==
    LET row == request[r].row
    IN  /\ At(r, "insertPayment")
        /\ row.userId \in users /\ linkable(row.invoiceId)
        /\ p \in PaymentIds \ used
        /\ payments' = [payments EXCEPT ![p] = row]
        /\ used' = used \cup {p}
        /\ Done(r)
        /\ UNCHANGED <<year, users, projects, invoices, byHand>>

PaymentUpdateRead(r, u, p, i) ==
    /\ At(r, "idle")
    /\ u \in users /\ p \in Payments
    /\ mayReach(u, payments[p])
    /\ ownInvoice(u, i)
    /\ Become(r, [pc |-> "updatePayment", id |-> p, invoiceId |-> i])
    /\ UNCHANGED <<year, tables, byHand>>

PaymentUpdate(r) ==
    LET q == request[r]
    IN  /\ At(r, "updatePayment")
        /\ q.id \in Payments
        /\ linkable(q.invoiceId)
        /\ payments' = [payments EXCEPT ![q.id].invoiceId = q.invoiceId]
        /\ Done(r)
        /\ UNCHANGED <<year, users, projects, invoices, used, byHand>>

PaymentDelete(u, p) ==
    /\ u \in users /\ p \in Payments
    /\ mayReach(u, payments[p])
    /\ payments' = [payments EXCEPT ![p] = NoRow]
    /\ UNCHANGED <<year, users, projects, invoices, used, request, byHand>>

\* 409, 404 or 400: the number is taken, or a row needed has gone meanwhile.
Refused(r) ==
    LET q == request[r]
    IN  /\ q.pc \notin {"idle", "numberInvoice"}
        /\ q.pc = "insertInvoice" => ~ insertable(q.row)
        /\ q.pc = "updateInvoice" => ~ updatable(q)
        /\ q.pc = "insertPayment" => ~ (q.row.userId \in users /\ linkable(q.row.invoiceId))
        /\ q.pc = "updatePayment" => ~ (q.id \in Payments /\ linkable(q.invoiceId))
        /\ Done(r)
        /\ UNCHANGED <<year, tables, byHand>>

-----------------------------------------------------------------------------
(* What happens around them                                                *)

DeleteProject(p) ==
    /\ p \in projects
    /\ projects' = projects \ {p}
    /\ invoices' = [i \in InvoiceIds |->
           IF i \in Invoices /\ invoices[i].projectId = p
           THEN [invoices[i] EXCEPT !.projectId = Null] ELSE invoices[i]]
    /\ UNCHANGED <<year, users, payments, used, request, byHand>>

\* Mutant: the payments are kept, for the books.
DeleteUserButPayments(u) ==
    /\ u \in users
    /\ users' = users \ {u}
    /\ invoices' = [i \in InvoiceIds |-> IF i \in InvoicesOf(u) THEN NoRow ELSE invoices[i]]
    /\ payments' = Unlinked(InvoicesOf(u))
    /\ UNCHANGED <<year, projects, used, request, byHand>>

\* The invoices and payments of the user go along.
DeleteUser(u) ==
    /\ u \in users
    /\ users' = users \ {u}
    /\ invoices' = [i \in InvoiceIds |-> IF i \in InvoicesOf(u) THEN NoRow ELSE invoices[i]]
    /\ payments' = [p \in PaymentIds |->
           IF p \in Payments /\ payments[p].userId = u THEN NoRow ELSE Unlinked(InvoicesOf(u))[p]]
    /\ UNCHANGED <<year, projects, used, request, byHand>>

NewYear ==
    /\ year < MaxYear
    /\ year' = year + 1
    /\ UNCHANGED <<tables, request, byHand>>

Restart ==
    /\ request' = [r \in Requests |-> Idle]
    /\ UNCHANGED <<year, tables, byHand>>

Next ==
    \/ \E r \in Requests, u \in UserIds :
          \/ \E p \in ProjectIds \cup {Null}, number \in ByHand \cup {Absent} :
                InvoiceCreate(r, u, p, number)
          \/ \E i \in InvoiceIds, number \in ByHand \cup {Absent}, p \in ProjectIds \cup {Null, Absent} :
                InvoiceUpdateRead(r, u, i, number, p)
          \/ \E i \in InvoiceIds \cup {Null} :
                \/ PaymentCreate(r, u, i)
                \/ \E p \in PaymentIds : PaymentUpdateRead(r, u, p, i)
    \/ \E r \in Requests :
          \/ \E i \in InvoiceIds : InvoiceInsert(r, i)
          \/ \E p \in PaymentIds : PaymentInsert(r, p)
          \/ InvoiceNumber(r) \/ InvoiceUpdate(r) \/ PaymentUpdate(r) \/ Refused(r)
    \/ \E u \in UserIds :
          \/ \E i \in InvoiceIds : InvoiceDelete(u, i)
          \/ \E p \in PaymentIds : PaymentDelete(u, p)
          \/ DeleteUser(u)
    \/ \E p \in ProjectIds : DeleteProject(p)
    \/ NewYear \/ Restart

Spec == Init /\ [][Next]_vars

-----------------------------------------------------------------------------
\* The tables and the requests in flight keep their shapes; no row refers to
\* one that is gone, and no user has one number twice.
TypeOK ==
    /\ year \in 1 .. MaxYear
    /\ users \subseteq UserIds /\ projects \subseteq ProjectIds /\ byHand \subseteq UserIds
    /\ invoices \in [InvoiceIds -> Invoice \cup {NoRow}]
    /\ payments \in [PaymentIds -> Payment \cup {NoRow}]
    /\ used \subseteq InvoiceIds \cup PaymentIds /\ Invoices \cup Payments \subseteq used
    /\ request \in [Requests -> Request]
    /\ \A i \in Invoices :
          /\ invoices[i].userId \in users /\ invoices[i].projectId \in projects \cup {Null}
          /\ ~ existsByUserIdAndNumber(invoices[i].userId, invoices[i].number, i)
    /\ \A p \in Payments :
          payments[p].userId \in users /\ payments[p].invoiceId \in Invoices \cup {Null}

\* `Linked invoice (must belong to you)': a payment is linked to an invoice of
\* its own owner or of an administrator (who may have edited the payment and
\* linked an invoice of its own), never to that of another user.
LinkedWithinOwner ==
    \A p \in Payments :
        payments[p].invoiceId # Null =>
            invoices[payments[p].invoiceId].userId \in {payments[p].userId} \cup Admins

\* As long as a user's invoices are numbered by the server alone and none is
\* deleted, whatever is created at the same time and however the years turn
\* meanwhile: no number is beyond the count of the invoices, so the next one is
\* free, and a number is skipped only after a smaller one that was given under
\* two years (two creations with one count that read the year on either side of
\* its turn).
NumberedInOrder ==
    \A u \in users \ byHand :
        /\ \A i \in InvoicesOf(u) : invoices[i].number.n <= Cardinality(InvoicesOf(u))
        /\ \A m \in 1 .. Cardinality(InvoicesOf(u)) :
              \/ \E i \in InvoicesOf(u) : invoices[i].number.n = m
              \/ \E i, j \in InvoicesOf(u) :
                    /\ invoices[i].number.n = invoices[j].number.n
                    /\ invoices[i].number.n < m
                    /\ invoices[i].number.year # invoices[j].number.year

\* `Auto-generated if omitted': the number the server would give is free.
NextNumberIsFree ==
    \A u \in users : ~ existsByUserIdAndNumber(u, nextInvoiceNumber(countByUserId(u)), Null)

\* Whose each row is.
Owner ==
    [x \in InvoiceIds \cup PaymentIds |->
        IF x \in Invoices THEN invoices[x].userId
        ELSE IF x \in Payments THEN payments[x].userId ELSE NoRow]

Owned ==
    INSTANCE OwnedRows WITH Users <- UserIds, Ids <- InvoiceIds \cup PaymentIds, NoUser <- NoRow,
        members <- users, joined <- UserIds, born <- used, owner <- Owner

\* Invoices and payments are rows of their users: whatever an administrator
\* edits meanwhile, none changes hands, comes back after it was deleted, or is
\* left behind, or inserted late, when its owner's account goes.
RefinesOwnedRows == Owned!Spec
=============================================================================
