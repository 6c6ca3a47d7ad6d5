---------------------------- MODULE FinanceProofs ----------------------------
(***************************************************************************)
(* Theorems about Finance: no row is orphaned and no number given twice,   *)
(* payments stay linked within their owners, and a number the server gives *)
(* is skipped only after one given under two years, for every set of       *)
(* users, rows and concurrent calls.                                       *)
(***************************************************************************)
EXTENDS Finance, FiniteSetTheorems, TLAPS

LEMMA RequestFields ==
    ASSUME NEW q \in Request
    PROVE  /\ q.pc = "numberInvoice" => /\ q.userId \in UserIds
                                        /\ q.projectId \in ProjectIds \cup {Null}
                                        /\ q.count \in 0 .. MaxNumber - 1
           /\ q.pc = "insertInvoice" => q.row \in Invoice /\ q.given \in BOOLEAN
           /\ q.pc = "updateInvoice" => /\ q.id \in InvoiceIds /\ q.number \in Number \cup {Absent}
                                        /\ q.projectId \in ProjectIds \cup {Null, Absent}
           /\ q.pc = "insertPayment" => q.row \in Payment
           /\ q.pc = "updatePayment" => /\ q.id \in PaymentIds
                                        /\ q.invoiceId \in InvoiceIds \cup {Null}
  BY DEF Request

LEMMA IdleRequest == Idle \in Request /\ Idle.pc = "idle"
  BY DEF Idle, Request

LEMMA RowsApart == NoRow \notin Invoice /\ NoRow \notin Payment
  BY FinanceAssumption

\* The rows of the two tables, as TypeOK has them.
InvoicesRight ==
    \A i \in Invoices :
        /\ invoices[i].userId \in users /\ invoices[i].projectId \in projects \cup {Null}
        /\ ~ existsByUserIdAndNumber(invoices[i].userId, invoices[i].number, i)

PaymentsRight ==
    \A p \in Payments :
        payments[p].userId \in users /\ payments[p].invoiceId \in Invoices \cup {Null}

\* The other facts of TypeOK, for a step that keeps them.
Shapes ==
    /\ year \in 1 .. MaxYear
    /\ users \subseteq UserIds /\ projects \subseteq ProjectIds /\ byHand \subseteq UserIds
    /\ invoices \in [InvoiceIds -> Invoice \cup {NoRow}]
    /\ payments \in [PaymentIds -> Payment \cup {NoRow}]
    /\ used \subseteq InvoiceIds \cup PaymentIds /\ Invoices \cup Payments \subseteq used
    /\ request \in [Requests -> Request]

-----------------------------------------------------------------------------
(* TypeOK is inductive.                                                    *)

LEMMA TypeOKInit == Init => TypeOK
  BY FinanceAssumption DEF Init, TypeOK, Invoices, Payments, Request, Idle

LEMMA TablesKeepType ==
    ASSUME TypeOK, UNCHANGED tables, year' \in 1 .. MaxYear, byHand' \subseteq UserIds,
           request' \in [Requests -> Request]
    PROVE  TypeOK'
  BY DEF TypeOK, tables, Invoices, Payments, InvoicesOf, existsByUserIdAndNumber

LEMMA BecomeType ==
    ASSUME TypeOK, NEW r \in Requests, NEW q \in Request, Become(r, q)
    PROVE  request' \in [Requests -> Request]
  BY DEF TypeOK, Become

LEMMA ReadsKeepType ==
    ASSUME TypeOK, NEW r \in Requests,
           \/ \E u \in UserIds, p \in ProjectIds \cup {Null}, number \in ByHand \cup {Absent} :
                 InvoiceCreate(r, u, p, number)
           \/ \E u \in UserIds, i \in InvoiceIds, number \in ByHand \cup {Absent},
                 p \in ProjectIds \cup {Null, Absent} : InvoiceUpdateRead(r, u, i, number, p)
           \/ \E u \in UserIds, i \in InvoiceIds \cup {Null} : PaymentCreate(r, u, i)
           \/ \E u \in UserIds, p \in PaymentIds, i \in InvoiceIds \cup {Null} :
                 PaymentUpdateRead(r, u, p, i)
           \/ InvoiceNumber(r) \/ Refused(r)
    PROVE  TypeOK'
<1> SUFFICES ASSUME TRUE PROVE \E q \in Request : Become(r, q) /\ UNCHANGED <<year, tables, byHand>>
  BY BecomeType, TablesKeepType DEF TypeOK
<1>1. ASSUME NEW u \in UserIds, NEW p \in ProjectIds \cup {Null},
             NEW number \in ByHand \cup {Absent}, InvoiceCreate(r, u, p, number)
      PROVE  \E q \in Request : Become(r, q) /\ UNCHANGED <<year, tables, byHand>>
  <2>1. CASE number = Absent
    <3> PICK k : k = countByUserId(u)
      OBVIOUS
    <3> DEFINE q == [pc |-> "numberInvoice", userId |-> u, projectId |-> p, count |-> k]
    <3>1. k \in 0 .. MaxNumber - 1
      BY <1>1, <2>1 DEF InvoiceCreate
    <3>2. q \in Request
      BY <3>1 DEF Request
    <3> QED
      BY <1>1, <2>1, <3>2 DEF InvoiceCreate
  <2>2. CASE number # Absent
    <3> DEFINE row == [userId |-> u, projectId |-> p, number |-> number]
               q == [pc |-> "insertInvoice", given |-> TRUE, row |-> row]
    <3>1. row \in Invoice
      BY <2>2, FinanceAssumption DEF Invoice
    <3>2. q \in Request
      <4> HIDE DEF row
      <4> QED
        BY <3>1 DEF Request
    <3> QED
      BY <1>1, <2>2, <3>2 DEF InvoiceCreate
  <2> QED
    BY <2>1, <2>2
<1>6. ASSUME InvoiceNumber(r)
      PROVE  \E q \in Request : Become(r, q) /\ UNCHANGED <<year, tables, byHand>>
  <2> PICK q : q = request[r]
    OBVIOUS
  <2> DEFINE row == [userId |-> q.userId, projectId |-> q.projectId,
                     number |-> nextInvoiceNumber(q.count)]
             c == [pc |-> "insertInvoice", given |-> FALSE, row |-> row]
  <2>1. /\ q.userId \in UserIds /\ q.projectId \in ProjectIds \cup {Null}
        /\ q.count \in 0 .. MaxNumber - 1 /\ MaxNumber \in Nat /\ year \in 1 .. MaxYear
    BY <1>6, RequestFields, FinanceAssumption DEF InvoiceNumber, At, TypeOK
  <2>2. nextInvoiceNumber(q.count) \in Number
    BY <2>1 DEF nextInvoiceNumber, Number
  <2>3. row \in Invoice
    BY <2>1, <2>2 DEF Invoice
  <2>4. c \in Request
    <3> HIDE DEF row
    <3> QED
      BY <2>3 DEF Request
  <2> QED
    BY <1>6, <2>4 DEF InvoiceNumber
<1>2. ASSUME NEW u \in UserIds, NEW i \in InvoiceIds, NEW number \in ByHand \cup {Absent},
             NEW p \in ProjectIds \cup {Null, Absent}, InvoiceUpdateRead(r, u, i, number, p)
      PROVE  \E q \in Request : Become(r, q) /\ UNCHANGED <<year, tables, byHand>>
  <2>1. [pc |-> "updateInvoice", id |-> i, number |-> number, projectId |-> p] \in Request
    BY FinanceAssumption DEF Request
  <2> QED
    BY <1>2, <2>1 DEF InvoiceUpdateRead
<1>3. ASSUME NEW u \in UserIds, NEW i \in InvoiceIds \cup {Null}, PaymentCreate(r, u, i)
      PROVE  \E q \in Request : Become(r, q) /\ UNCHANGED <<year, tables, byHand>>
  <2>1. [userId |-> u, invoiceId |-> i] \in Payment
    BY DEF Payment
  <2>2. [pc |-> "insertPayment", row |-> [userId |-> u, invoiceId |-> i]] \in Request
    BY <2>1 DEF Request
  <2> QED
    BY <1>3, <2>2 DEF PaymentCreate
<1>4. ASSUME NEW u \in UserIds, NEW p \in PaymentIds, NEW i \in InvoiceIds \cup {Null},
             PaymentUpdateRead(r, u, p, i)
      PROVE  \E q \in Request : Become(r, q) /\ UNCHANGED <<year, tables, byHand>>
  <2>1. [pc |-> "updatePayment", id |-> p, invoiceId |-> i] \in Request
    BY DEF Request
  <2> QED
    BY <1>4, <2>1 DEF PaymentUpdateRead
<1>5. CASE Refused(r)
  BY <1>5, IdleRequest DEF Refused, Done
<1> QED
  BY <1>1, <1>2, <1>3, <1>4, <1>5, <1>6

LEMMA InvoiceInsertKeepsType ==
    ASSUME TypeOK, NEW r \in Requests, NEW i \in InvoiceIds, InvoiceInsert(r, i)
    PROVE  TypeOK'
<1> DEFINE row == request[r].row
<1>1. /\ row \in Invoice /\ row.userId \in UserIds /\ insertable(row)
      /\ invoices' = [invoices EXCEPT ![i] = row] /\ used' = used \cup {i}
      /\ UNCHANGED <<year, users, projects, payments>> /\ i \notin used
      /\ byHand' \subseteq byHand \cup {row.userId}
  BY RequestFields DEF InvoiceInsert, TypeOK, At, Invoice
<1>2. Invoices' = Invoices \cup {i} /\ i \notin Invoices /\ Payments' = Payments
  BY <1>1, RowsApart DEF Invoices, Payments, TypeOK
<1>3. Shapes'
  <2>1. request' \in [Requests -> Request]
    BY BecomeType, IdleRequest DEF InvoiceInsert, Done
  <2> QED
    BY <1>1, <1>2, <2>1 DEF Shapes, TypeOK
<1>4. InvoicesRight'
  <2>1. \A j \in Invoices : invoices'[j] = invoices[j]
    BY <1>1, <1>2 DEF TypeOK, Invoices
  <2>2. invoices'[i] = row
    BY <1>1 DEF TypeOK
  <2>3. \A j \in Invoices : invoices[j].userId = row.userId => invoices[j].number # row.number
    BY <1>1, FinanceAssumption DEF insertable, InvoicesOf, existsByUserIdAndNumber, Invoices
  <2> QED
    BY <1>1, <1>2, <2>1, <2>2, <2>3
    DEF InvoicesRight, TypeOK, insertable, InvoicesOf, existsByUserIdAndNumber
<1>5. PaymentsRight'
  BY <1>1, <1>2 DEF PaymentsRight, TypeOK
<1> QED
  BY <1>3, <1>4, <1>5 DEF TypeOK, Shapes, InvoicesRight, PaymentsRight

LEMMA InvoiceUpdateKeepsType ==
    ASSUME TypeOK, NEW r \in Requests, InvoiceUpdate(r)
    PROVE  TypeOK'
<1> DEFINE q == request[r]
           row == [invoices[q.id] EXCEPT !.number = Given(q.number, @),
                                         !.projectId = Given(q.projectId, @)]
<1>1. /\ q.id \in Invoices /\ q.number \in Number \cup {Absent} /\ invoices[q.id] \in Invoice
      /\ q.projectId \in projects \cup {Null, Absent} /\ q.pc = "updateInvoice"
  BY RequestFields DEF InvoiceUpdate, updatable, TypeOK, At, Invoices
<1>2. /\ row \in Invoice /\ row.userId = invoices[q.id].userId
      /\ row.number = Given(q.number, invoices[q.id].number)
      /\ row.projectId = Given(q.projectId, invoices[q.id].projectId)
      /\ row.projectId \in projects \cup {Null}
  BY <1>1 DEF Invoice, Given, TypeOK
<1>3. /\ invoices' = [invoices EXCEPT ![q.id] = row]
      /\ UNCHANGED <<year, users, projects, payments, used>>
      /\ byHand' \subseteq byHand \cup {row.userId}
  BY <1>1, <1>2 DEF InvoiceUpdate
<1>4. Invoices' = Invoices /\ Payments' = Payments
  BY <1>1, <1>2, <1>3, RowsApart DEF Invoices, Payments, TypeOK
<1>5. Shapes'
  <2>1. request' \in [Requests -> Request]
    BY BecomeType, IdleRequest DEF InvoiceUpdate, Done
  <2>2. row.userId \in UserIds
    BY <1>2 DEF Invoice
  <2> QED
    BY <1>1, <1>2, <1>3, <1>4, <2>1, <2>2 DEF Shapes, TypeOK
<1>6. InvoicesRight'
  <2>1. \A j \in Invoices : invoices'[j].userId = invoices[j].userId
    BY <1>1, <1>2, <1>3 DEF TypeOK, Invoices
  <2>2. \A j \in Invoices \ {q.id} : invoices'[j] = invoices[j]
    BY <1>3 DEF TypeOK, Invoices
  <2>3. \A j \in Invoices \ {q.id} :
           invoices[j].userId = row.userId => invoices[j].number # row.number
    BY <1>1, <1>2 DEF InvoiceUpdate, updatable, TypeOK, InvoicesOf, existsByUserIdAndNumber, Given
  <2>4. invoices'[q.id] = row
    BY <1>1, <1>3 DEF TypeOK, Invoices
  <2>5. \A j \in Invoices : invoices'[j].userId \in users /\ invoices'[j].projectId \in projects \cup {Null}
    BY <1>2, <2>1, <2>2, <2>4 DEF TypeOK
  <2>6. ASSUME NEW j \in Invoices, NEW k \in Invoices \ {j},
               invoices'[j].userId = invoices'[k].userId
        PROVE  invoices'[j].number # invoices'[k].number
    <3>1. CASE j = q.id
      BY <2>2, <2>3, <2>4, <2>6, <3>1
    <3>2. CASE k = q.id
      BY <2>2, <2>3, <2>4, <2>6, <3>2
    <3>3. CASE j # q.id /\ k # q.id
      BY <2>2, <2>6, <3>3 DEF TypeOK, InvoicesOf, existsByUserIdAndNumber
    <3> QED
      BY <3>1, <3>2, <3>3
  <2> QED
    BY <1>3, <1>4, <2>5, <2>6 DEF InvoicesRight, InvoicesOf, existsByUserIdAndNumber
<1>7. PaymentsRight'
  BY <1>3, <1>4 DEF PaymentsRight, TypeOK
<1> QED
  BY <1>5, <1>6, <1>7 DEF TypeOK, Shapes, InvoicesRight, PaymentsRight

LEMMA PaymentWritesKeepType ==
    ASSUME TypeOK, NEW r \in Requests,
           PaymentUpdate(r) \/ \E p \in PaymentIds : PaymentInsert(r, p)
    PROVE  TypeOK'
<1> DEFINE q == request[r]
<1>1. ASSUME NEW p \in PaymentIds, NEW row \in Payment,
             row.userId \in users, linkable(row.invoiceId),
             payments' = [payments EXCEPT ![p] = row],
             used' = used \cup {p}, Done(r),
             UNCHANGED <<year, users, projects, invoices, byHand>>
      PROVE  TypeOK'
  <2>1. Payments' = Payments \cup {p} /\ Invoices' = Invoices
    BY <1>1, RowsApart DEF Payments, Invoices, TypeOK
  <2>2. request' \in [Requests -> Request]
    BY <1>1, BecomeType, IdleRequest DEF Done
  <2>3. Shapes'
    BY <1>1, <2>1, <2>2 DEF Shapes, TypeOK
  <2>4. InvoicesRight'
    BY <1>1, <2>1 DEF InvoicesRight, TypeOK, InvoicesOf, existsByUserIdAndNumber
  <2>5. PaymentsRight'
    BY <1>1, <2>1 DEF PaymentsRight, TypeOK, linkable, Payments
  <2> QED
    BY <2>3, <2>4, <2>5 DEF TypeOK, Shapes, InvoicesRight, PaymentsRight
<1>2. ASSUME NEW p \in PaymentIds, PaymentInsert(r, p) PROVE TypeOK'
  BY <1>1, <1>2, RequestFields DEF PaymentInsert, TypeOK, At
<1>3. CASE PaymentUpdate(r)
  <2> DEFINE row == [payments[q.id] EXCEPT !.invoiceId = q.invoiceId]
  <2>1. /\ q.id \in Payments /\ q.invoiceId \in InvoiceIds \cup {Null}
        /\ payments[q.id] \in Payment /\ payments[q.id].userId \in users
    BY <1>3, RequestFields DEF PaymentUpdate, TypeOK, At, Payments
  <2>2. /\ row \in Payment /\ row.userId = payments[q.id].userId
        /\ row.invoiceId = q.invoiceId
    BY <2>1 DEF Payment
  <2>3. /\ payments' = [payments EXCEPT ![q.id] = row] /\ used' = used \cup {q.id}
        /\ Done(r) /\ linkable(row.invoiceId)
        /\ UNCHANGED <<year, users, projects, invoices, byHand>>
    BY <1>3, <2>1, <2>2 DEF PaymentUpdate, TypeOK, linkable
  <2> HIDE DEF row
  <2> QED
    BY <1>1, <2>1, <2>2, <2>3 DEF Payments
<1> QED
  BY <1>2, <1>3

\* Rows that stay, perhaps without a project or an invoice that is gone, are
\* still right.
LEMMA DeletionsKeepType ==
    ASSUME TypeOK, users' \subseteq users, projects' \subseteq projects,
           UNCHANGED used, year' = year, byHand' \subseteq UserIds, UNCHANGED request,
           invoices' \in [InvoiceIds -> Invoice \cup {NoRow}],
           payments' \in [PaymentIds -> Payment \cup {NoRow}],
           \A i \in Invoices' :
              /\ i \in Invoices /\ invoices'[i].userId = invoices[i].userId
              /\ invoices'[i].number = invoices[i].number
              /\ invoices'[i].userId \in users' /\ invoices'[i].projectId \in projects' \cup {Null},
           \A p \in Payments' :
              /\ p \in Payments
              /\ payments'[p].userId \in users' /\ payments'[p].invoiceId \in Invoices' \cup {Null}
    PROVE  TypeOK'
<1>1. Shapes'
  BY DEF Shapes, TypeOK
<1>2. InvoicesRight'
  BY DEF InvoicesRight, TypeOK, InvoicesOf, existsByUserIdAndNumber
<1>3. PaymentsRight'
  BY DEF PaymentsRight
<1> QED
  BY <1>1, <1>2, <1>3 DEF TypeOK, Shapes, InvoicesRight, PaymentsRight

\* ON DELETE SET NULL.
LEMMA UnlinkedRows ==
    ASSUME TypeOK, NEW gone, NEW p \in PaymentIds
    PROVE  /\ Unlinked(gone)[p] \in Payment \cup {NoRow}
           /\ Unlinked(gone)[p] # NoRow =>
                 /\ p \in Payments /\ Unlinked(gone)[p].userId = payments[p].userId
                 /\ Unlinked(gone)[p].invoiceId \in (Invoices \ gone) \cup {Null}
                 /\ Unlinked(gone)[p].invoiceId \in {payments[p].invoiceId, Null}
           /\ p \in Payments => Unlinked(gone)[p] # NoRow
<1>1. CASE p \in Payments /\ payments[p].invoiceId \in gone
  <2>1. Unlinked(gone)[p] \in Payment
    BY <1>1 DEF Unlinked, TypeOK, Payment, Payments
  <2> QED
    BY <1>1, <2>1, RowsApart DEF Unlinked, TypeOK, Payment, Payments
<1>2. CASE ~ (p \in Payments /\ payments[p].invoiceId \in gone)
  BY <1>2 DEF Unlinked, TypeOK, Payment, Payments
<1> QED
  BY <1>1, <1>2

\* What the deletion of a user, or of an invoice alone, takes along.
DeletedAlong(owners, gone) ==
    /\ invoices' = [i \in InvoiceIds |-> IF i \in gone THEN NoRow ELSE invoices[i]]
    /\ payments' = [p \in PaymentIds |->
           IF p \in Payments /\ payments[p].userId \in owners THEN NoRow ELSE Unlinked(gone)[p]]

LEMMA DeletedAlongRows ==
    ASSUME TypeOK, NEW owners, NEW gone \in SUBSET Invoices, DeletedAlong(owners, gone)
    PROVE  /\ invoices' \in [InvoiceIds -> Invoice \cup {NoRow}]
           /\ payments' \in [PaymentIds -> Payment \cup {NoRow}]
           /\ Invoices' = Invoices \ gone
           /\ Payments' = {p \in Payments : payments[p].userId \notin owners}
           /\ \A i \in Invoices' : invoices'[i] = invoices[i]
           /\ \A p \in Payments' :
                 /\ p \in Payments /\ payments[p].userId \notin owners
                 /\ payments'[p].userId = payments[p].userId
                 /\ payments'[p].invoiceId \in Invoices' \cup {Null}
                 /\ payments'[p].invoiceId \in {payments[p].invoiceId, Null}
<1>1. /\ invoices' \in [InvoiceIds -> Invoice \cup {NoRow}]
      /\ Invoices' = Invoices \ gone
      /\ \A i \in Invoices' : invoices'[i] = invoices[i]
  BY DEF DeletedAlong, TypeOK, Invoices
<1>2. payments' \in [PaymentIds -> Payment \cup {NoRow}]
  BY UnlinkedRows DEF DeletedAlong
<1>3. ASSUME NEW p \in Payments'
      PROVE  /\ p \in PaymentIds /\ payments'[p] # NoRow
             /\ payments'[p] = Unlinked(gone)[p] /\ ~ (p \in Payments /\ payments[p].userId \in owners)
  BY DEF DeletedAlong, Payments
<1>4. \A p \in Payments : payments[p].userId \notin owners => p \in Payments'
  BY UnlinkedRows DEF DeletedAlong, Payments
<1> QED
  BY <1>1, <1>2, <1>3, <1>4, UnlinkedRows

LEMMA AlongKeepsType ==
    ASSUME TypeOK, NEW owners, NEW gone \in SUBSET Invoices, DeletedAlong(owners, gone),
           users' = users \ owners, \A i \in Invoices \ gone : invoices[i].userId \notin owners,
           UNCHANGED <<projects, used, year, request>>, byHand' \subseteq UserIds
    PROVE  TypeOK'
<1>1. \A i \in Invoices' :
         /\ i \in Invoices /\ invoices'[i].userId = invoices[i].userId
         /\ invoices'[i].number = invoices[i].number
         /\ invoices'[i].userId \in users' /\ invoices'[i].projectId \in projects' \cup {Null}
  BY DeletedAlongRows DEF TypeOK
<1>2. \A p \in Payments' :
         /\ p \in Payments
         /\ payments'[p].userId \in users' /\ payments'[p].invoiceId \in Invoices' \cup {Null}
  BY DeletedAlongRows DEF TypeOK
<1> QED
  BY <1>1, <1>2, DeletedAlongRows, DeletionsKeepType

LEMMA InvoiceDeleteAlong ==
    ASSUME TypeOK, NEW u \in UserIds, NEW i \in InvoiceIds, InvoiceDelete(u, i)
    PROVE  i \in Invoices /\ DeletedAlong({}, {i})
  BY DEF InvoiceDelete, DeletedAlong, Unlinked, TypeOK

LEMMA DeleteUserAlong ==
    ASSUME TypeOK, NEW u \in UserIds, DeleteUser(u)
    PROVE  /\ DeletedAlong({u}, InvoicesOf(u))
           /\ InvoicesOf(u) \subseteq Invoices
  BY DEF DeleteUser, DeletedAlong, InvoicesOf

LEMMA DeletesKeepType ==
    ASSUME TypeOK,
           \/ \E u \in UserIds, i \in InvoiceIds : InvoiceDelete(u, i)
           \/ \E u \in UserIds, p \in PaymentIds : PaymentDelete(u, p)
           \/ \E u \in UserIds : DeleteUser(u)
           \/ \E p \in ProjectIds : DeleteProject(p)
    PROVE  TypeOK'
<1>1. ASSUME NEW u \in UserIds, NEW i \in InvoiceIds, InvoiceDelete(u, i) PROVE TypeOK'
  <2>1. i \in Invoices /\ DeletedAlong({}, {i})
    BY <1>1, InvoiceDeleteAlong
  <2>2. byHand' \subseteq UserIds
    BY <1>1, <2>1 DEF InvoiceDelete, TypeOK
  <2>3. /\ users' = users /\ projects' = projects /\ used' = used /\ year' = year
        /\ request' = request
    BY <1>1 DEF InvoiceDelete
  <2> QED
    BY <2>1, <2>2, <2>3, AlongKeepsType DEF TypeOK
<1>2. ASSUME NEW u \in UserIds, NEW p \in PaymentIds, PaymentDelete(u, p) PROVE TypeOK'
  <2>1. /\ Payments' = Payments \ {p} /\ Invoices' = Invoices
        /\ \A s \in Payments' : payments'[s] = payments[s]
    BY <1>2 DEF PaymentDelete, Payments, Invoices, TypeOK
  <2> QED
    BY <1>2, <2>1, DeletionsKeepType DEF PaymentDelete, TypeOK
<1>3. ASSUME NEW u \in UserIds, DeleteUser(u) PROVE TypeOK'
  <2>1. DeletedAlong({u}, InvoicesOf(u)) /\ InvoicesOf(u) \subseteq Invoices
    BY <1>3, DeleteUserAlong
  <2>2. \A i \in Invoices \ InvoicesOf(u) : invoices[i].userId \in users \ {u}
    BY DEF TypeOK, InvoicesOf
  <2>3. /\ users' = users \ {u} /\ projects' = projects /\ used' = used /\ year' = year
        /\ request' = request /\ byHand' = byHand
    BY <1>3 DEF DeleteUser
  <2> QED
    BY <2>1, <2>2, <2>3, AlongKeepsType DEF TypeOK
<1>4. ASSUME NEW p \in ProjectIds, DeleteProject(p) PROVE TypeOK'
  <2>1. ASSUME NEW i \in InvoiceIds
        PROVE  /\ invoices'[i] \in Invoice \cup {NoRow}
               /\ invoices'[i] # NoRow =>
                     /\ i \in Invoices /\ invoices'[i].userId = invoices[i].userId
                     /\ invoices'[i].number = invoices[i].number
                     /\ invoices'[i].projectId \in projects' \cup {Null}
               /\ i \in Invoices => invoices'[i] # NoRow
    <3>1. CASE i \in Invoices /\ invoices[i].projectId = p
      <4>1. invoices[i] \in Invoice /\ invoices'[i] = [invoices[i] EXCEPT !.projectId = Null]
        BY <1>4, <3>1 DEF DeleteProject, TypeOK, Invoices
      <4> QED
        BY <3>1, <4>1, RowsApart DEF Invoice
    <3>2. CASE ~ (i \in Invoices /\ invoices[i].projectId = p)
      BY <1>4, <3>2 DEF DeleteProject, TypeOK, Invoices
    <3> QED
      BY <3>1, <3>2
  <2>2. invoices' \in [InvoiceIds -> Invoice \cup {NoRow}] /\ Invoices' = Invoices
    BY <1>4, <2>1 DEF DeleteProject, Invoices
  <2>3. Payments' = Payments
    BY <1>4 DEF DeleteProject, Payments
  <2> QED
    BY <1>4, <2>1, <2>2, <2>3, DeletionsKeepType DEF DeleteProject, TypeOK, Invoices
<1> QED
  BY <1>1, <1>2, <1>3, <1>4

\* Neither the calendar nor a restart touches a row.
LEMMA AroundKeepsType ==
    ASSUME TypeOK, NewYear \/ Restart \/ UNCHANGED vars
    PROVE  TypeOK'
<1>1. CASE NewYear
  BY <1>1, TablesKeepType, FinanceAssumption DEF NewYear, TypeOK
<1>2. CASE Restart
  BY <1>2, IdleRequest, TablesKeepType DEF Restart, TypeOK
<1>3. CASE UNCHANGED vars
  BY <1>3, TablesKeepType DEF vars, TypeOK
<1> QED
  BY <1>1, <1>2, <1>3

LEMMA TypeOKNext == TypeOK /\ [Next]_vars => TypeOK'
  BY ReadsKeepType, InvoiceInsertKeepsType, InvoiceUpdateKeepsType, PaymentWritesKeepType,
     DeletesKeepType, AroundKeepsType
  DEF Next

\* No row refers to one that is gone, and no user has one number twice.
THEOREM NoOrphanedRows == Spec => []TypeOK
  BY TypeOKInit, TypeOKNext, PTL DEF Spec

-----------------------------------------------------------------------------
(* Payments stay linked within their owners.                               *)

\* A payment of u may be linked to i: whatever i was, it is not to be another's.
Fits(u, i) ==
    i # Null => i \in used /\ (i \in Invoices => invoices[i].userId \in {u} \cup Admins)

\* What a call is about to link was looked up, and it may have gone since.
PaymentCall(q) ==
    /\ q.pc = "insertPayment" => Fits(q.row.userId, q.row.invoiceId)
    /\ q.pc = "updatePayment" =>
          /\ q.id \in used
          /\ q.id \in Payments => Fits(payments[q.id].userId, q.invoiceId)

LinksInv ==
    /\ TypeOK
    /\ \A p \in Payments : Fits(payments[p].userId, payments[p].invoiceId)
    /\ \A r \in Requests : PaymentCall(request[r])

\* Ids are not used again, and rows do not change hands.
OwnersKept ==
    /\ used \subseteq used'
    /\ \A i \in Invoices' \cap used : i \in Invoices /\ invoices'[i].userId = invoices[i].userId
    /\ \A p \in Payments' \cap used : p \in Payments /\ payments'[p].userId = payments[p].userId

\* A link that fits goes on fitting.
LEMMA FitsKept == OwnersKept => \A u, i : Fits(u, i) => Fits(u, i)'
  BY DEF OwnersKept, Fits

LEMMA LinksKept ==
    ASSUME LinksInv, TypeOK', OwnersKept,
           \A p \in Payments' :
              \/ p \in Payments /\ payments'[p].userId = payments[p].userId
                 /\ payments'[p].invoiceId \in {payments[p].invoiceId, Null}
              \/ Fits(payments'[p].userId, payments'[p].invoiceId),
           \A r \in Requests :
              request'[r] = request[r] \/ PaymentCall(request'[r])
    PROVE  LinksInv'
<1>1. \A u, i : Fits(u, i) => Fits(u, i)'
  BY FitsKept
<1>2. \A u : Fits(u, Null)
  BY DEF Fits
<1>3. \A p \in Payments' : Fits(payments[p].userId, payments[p].invoiceId)'
  BY <1>1, <1>2 DEF LinksInv
<1>4. ASSUME NEW r \in Requests PROVE PaymentCall(request[r])'
  BY <1>1 DEF LinksInv, PaymentCall, OwnersKept
<1> QED
  BY <1>3, <1>4 DEF LinksInv

LEMMA LinksInit == Init => LinksInv
  BY TypeOKInit DEF Init, LinksInv, PaymentCall, Payments, Idle

LEMMA LinksNext == LinksInv /\ [Next]_vars => LinksInv'
<1> SUFFICES ASSUME LinksInv, [Next]_vars PROVE LinksInv'
  OBVIOUS
<1>t. TypeOK /\ TypeOK'
  BY TypeOKNext DEF LinksInv
<1>i. PaymentCall(Idle)
  BY DEF PaymentCall, Idle
\* A call that starts or ends, and changes no payment.
<1>c. ASSUME NEW r \in Requests, NEW q, Become(r, q), PaymentCall(q), OwnersKept,
             UNCHANGED payments
      PROVE  LinksInv'
  <2>1. \A s \in Requests : request'[s] = request[s] \/ PaymentCall(request'[s])
    BY <1>c, <1>t DEF Become, TypeOK
  <2> QED
    BY <1>c, <1>t, <2>1, LinksKept DEF Payments
<1>u. UNCHANGED tables => OwnersKept /\ UNCHANGED payments
  BY DEF tables, OwnersKept, Invoices, Payments
<1>1. ASSUME NEW r \in Requests, NEW u, NEW p, NEW i, NEW number,
             \/ InvoiceCreate(r, u, p, number) \/ InvoiceUpdateRead(r, u, i, number, p)
             \/ InvoiceNumber(r) \/ Refused(r)
      PROVE  LinksInv'
  <2>1. UNCHANGED tables /\ \E q : Become(r, q) /\ q.pc \notin {"insertPayment", "updatePayment"}
    BY <1>1 DEF InvoiceCreate, InvoiceNumber, InvoiceUpdateRead, Refused, Done, Idle
  <2> QED
    BY <2>1, <1>c, <1>u DEF PaymentCall
<1>2. ASSUME NEW r \in Requests, NEW u \in UserIds, NEW i \in InvoiceIds \cup {Null},
             PaymentCreate(r, u, i)
      PROVE  LinksInv'
  <2> DEFINE q == [pc |-> "insertPayment", row |-> [userId |-> u, invoiceId |-> i]]
  <2>1. Fits(u, i)
    BY <1>2, <1>t DEF PaymentCreate, ownInvoice, InvoicesOf, Fits, TypeOK
  <2>2. PaymentCall(q)
    BY <2>1 DEF PaymentCall
  <2> QED
    BY <1>2, <1>c, <1>u, <2>2 DEF PaymentCreate
<1>3. ASSUME NEW r \in Requests, NEW u \in UserIds, NEW i \in InvoiceIds \cup {Null},
             NEW p \in PaymentIds, PaymentUpdateRead(r, u, p, i)
      PROVE  LinksInv'
  <2> DEFINE q == [pc |-> "updatePayment", id |-> p, invoiceId |-> i]
  <2>1. Fits(payments[p].userId, i) /\ p \in used
    BY <1>3, <1>t DEF PaymentUpdateRead, mayReach, ownInvoice, InvoicesOf, Fits, TypeOK
  <2>2. PaymentCall(q)
    BY <2>1 DEF PaymentCall
  <2> QED
    BY <1>3, <1>c, <1>u, <2>2 DEF PaymentUpdateRead
<1>4. ASSUME NEW r \in Requests, NEW i \in InvoiceIds, InvoiceInsert(r, i) PROVE LinksInv'
  <2>1. OwnersKept
    BY <1>4, <1>t DEF InvoiceInsert, OwnersKept, TypeOK, Invoices, Payments
  <2> QED
    BY <1>4, <1>c, <1>i, <2>1 DEF InvoiceInsert, Done
<1>5. ASSUME NEW r \in Requests, InvoiceUpdate(r) PROVE LinksInv'
  <2>1. \A j \in InvoiceIds : j \in Invoices' => j \in Invoices
    BY <1>5, <1>t DEF InvoiceUpdate, updatable, Invoices, TypeOK
  <2>2. ASSUME NEW j \in Invoices PROVE invoices'[j].userId = invoices[j].userId
    <3>1. invoices[j] \in Invoice /\ j \in InvoiceIds
      BY <1>t DEF Invoices, TypeOK
    <3>2. \/ invoices'[j] = invoices[j]
          \/ \E number, p : invoices'[j] = [invoices[j] EXCEPT !.number = number, !.projectId = p]
      BY <1>5, <1>t, <3>1 DEF InvoiceUpdate, TypeOK
    <3> QED
      BY <3>1, <3>2 DEF Invoice
  <2>3. OwnersKept
    BY <1>5, <2>1, <2>2 DEF InvoiceUpdate, OwnersKept, Invoices, Payments
  <2> QED
    BY <1>5, <1>c, <1>i, <2>3 DEF InvoiceUpdate, Done
<1>6. ASSUME NEW r \in Requests, NEW p \in PaymentIds, PaymentInsert(r, p) PROVE LinksInv'
  <2>1. /\ OwnersKept
        /\ \A s \in Payments' \ {p} : s \in Payments /\ payments'[s] = payments[s]
        /\ payments'[p] = request[r].row
    BY <1>6, <1>t DEF PaymentInsert, OwnersKept, TypeOK, Invoices, Payments
  <2>2. Fits(request[r].row.userId, request[r].row.invoiceId)
    BY <1>6 DEF PaymentInsert, At, LinksInv, PaymentCall
  <2>3. \A s \in Requests : request'[s] = request[s] \/ PaymentCall(request'[s])
    BY <1>6, <1>i, <1>t DEF PaymentInsert, Done, Become, TypeOK
  <2> QED
    BY <1>t, <2>1, <2>2, <2>3, LinksKept
<1>7. ASSUME NEW r \in Requests, PaymentUpdate(r) PROVE LinksInv'
  <2> DEFINE q == request[r]
  <2>1. q.id \in Payments /\ payments[q.id] \in Payment
    BY <1>7, <1>t DEF PaymentUpdate, TypeOK, Payments
  <2>2. /\ payments'[q.id].userId = payments[q.id].userId
        /\ payments'[q.id].invoiceId = q.invoiceId
        /\ \A s \in Payments' \ {q.id} : s \in Payments /\ payments'[s] = payments[s]
    BY <1>7, <1>t, <2>1 DEF PaymentUpdate, TypeOK, Payment, Payments
  <2>3. Fits(payments[q.id].userId, q.invoiceId)
    BY <1>7, <2>1 DEF PaymentUpdate, At, LinksInv, PaymentCall
  <2>4. OwnersKept
    BY <1>7, <2>1, <2>2 DEF PaymentUpdate, OwnersKept, Invoices
  <2>5. \A s \in Requests : request'[s] = request[s] \/ PaymentCall(request'[s])
    BY <1>7, <1>i, <1>t DEF PaymentUpdate, Done, Become, TypeOK
  <2> QED
    BY <1>t, <2>2, <2>3, <2>4, <2>5, LinksKept
<1>8. ASSUME NEW owners, NEW gone \in SUBSET Invoices, DeletedAlong(owners, gone),
             UNCHANGED <<used, request>>
      PROVE  LinksInv'
  <2>1. OwnersKept
    BY <1>8, <1>t, DeletedAlongRows DEF OwnersKept
  <2> QED
    BY <1>8, <1>t, <2>1, DeletedAlongRows, LinksKept
<1>9. ASSUME NEW u \in UserIds,
             (\E i \in InvoiceIds : InvoiceDelete(u, i)) \/ DeleteUser(u)
      PROVE  LinksInv'
  <2>1. UNCHANGED <<used, request>>
    BY <1>9 DEF InvoiceDelete, DeleteUser
  <2> QED
    BY <1>9, <1>8, <1>t, <2>1, InvoiceDeleteAlong, DeleteUserAlong
<1>10. ASSUME NEW u \in UserIds, NEW p \in PaymentIds, PaymentDelete(u, p) PROVE LinksInv'
  <2>1. /\ OwnersKept /\ request' = request
        /\ \A s \in Payments' : s \in Payments /\ payments'[s] = payments[s]
    BY <1>10, <1>t DEF PaymentDelete, OwnersKept, TypeOK, Invoices, Payments
  <2> QED
    BY <1>t, <2>1, LinksKept
<1>11. ASSUME NEW p \in ProjectIds, DeleteProject(p) PROVE LinksInv'
  <2>1. \A i \in Invoices' : i \in Invoices /\ invoices'[i].userId = invoices[i].userId
    BY <1>11, <1>t DEF DeleteProject, Invoices, TypeOK, Invoice
  <2>2. /\ OwnersKept /\ request' = request
        /\ \A s \in Payments' : s \in Payments /\ payments'[s] = payments[s]
    BY <1>11, <2>1 DEF DeleteProject, OwnersKept, Payments
  <2> QED
    BY <1>t, <2>2, LinksKept
<1>12. ASSUME NewYear \/ Restart \/ UNCHANGED vars PROVE LinksInv'
  <2>1. OwnersKept /\ UNCHANGED payments
    BY <1>12, <1>u DEF NewYear, Restart, vars
  <2>2. \A s \in Requests : request'[s] = request[s] \/ PaymentCall(request'[s])
    BY <1>12, <1>i DEF NewYear, Restart, vars
  <2> QED
    BY <1>t, <2>1, <2>2, LinksKept DEF Payments
<1> QED
  BY <1>1, <1>2, <1>3, <1>4, <1>5, <1>6, <1>7, <1>9, <1>10, <1>11, <1>12 DEF Next

\* The invoice of a payment belongs to the payment's owner, or to the
\* administrator who linked it, although it is looked up before it is linked.
THEOREM PaymentsLinkedWithinOwner == Spec => []LinkedWithinOwner
<1>1. LinksInv => LinkedWithinOwner
  BY DEF LinksInv, TypeOK, Fits, LinkedWithinOwner
<1> QED
  BY <1>1, LinksInit, LinksNext, PTL DEF Spec

-----------------------------------------------------------------------------
(* The numbers the server gives: none is beyond the count, and a gap       *)
(* follows a number that was given under two years.                        *)

Below(u, m) == {i \in InvoicesOf(u) : invoices[i].number.n <= m}

\* Up to each number there are at least as many invoices.
Dense(u, k) == \A m \in 1 .. k : Cardinality(Below(u, m)) >= m

\* As many invoices as a call has counted are still there below the number.
NumberCall(q) ==
    /\ q.pc = "numberInvoice" /\ q.userId \in users \ byHand => Dense(q.userId, q.count)
    /\ q.pc = "insertInvoice" /\ ~ q.given /\ q.row.userId \in users \ byHand =>
          Dense(q.row.userId, q.row.number.n - 1)

NumbersInv ==
    /\ TypeOK /\ IsFiniteSet(Invoices)
    /\ \A u \in users \ byHand : \A i \in InvoicesOf(u) : Dense(u, invoices[i].number.n - 1)
    /\ \A r \in Requests : NumberCall(request[r])

LEMMA InvoicesOfFinite ==
    ASSUME IsFiniteSet(Invoices), NEW u
    PROVE  IsFiniteSet(InvoicesOf(u)) /\ Cardinality(InvoicesOf(u)) \in Nat
<1>1. InvoicesOf(u) \subseteq Invoices
  BY DEF InvoicesOf
<1> QED
  BY <1>1, FS_Subset, FS_CardinalityType

LEMMA BelowFinite ==
    ASSUME IsFiniteSet(Invoices), NEW u, NEW m
    PROVE  IsFiniteSet(Below(u, m)) /\ Cardinality(Below(u, m)) \in Nat
<1>1. Below(u, m) \subseteq InvoicesOf(u)
  BY DEF Below
<1> QED
  BY <1>1, InvoicesOfFinite, FS_Subset, FS_CardinalityType

LEMMA InvoiceNumbers ==
    ASSUME TypeOK, NEW u, NEW i \in InvoicesOf(u)
    PROVE  /\ invoices[i].number \in Number
           /\ invoices[i].number.n \in Nat \ {0} /\ invoices[i].number.year \in Nat
           /\ i # Null /\ invoices[i].userId = u /\ i \in Invoices
<1>1. invoices[i] \in Invoice /\ i \in InvoiceIds
  BY DEF TypeOK, InvoicesOf, Invoices
<1>2. invoices[i].number \in Number
  BY <1>1 DEF Invoice
<1>3. invoices[i].number.n \in 1 .. MaxNumber /\ invoices[i].number.year \in 1 .. MaxYear
  BY <1>2 DEF Number
<1> QED
  BY <1>1, <1>2, <1>3, FinanceAssumption DEF InvoicesOf

\* The next number is dense, too.
LEMMA CountDense ==
    ASSUME NumbersInv, NEW u \in users \ byHand
    PROVE  Dense(u, Cardinality(InvoicesOf(u)))
<1> SUFFICES ASSUME NEW m \in 1 .. Cardinality(InvoicesOf(u))
             PROVE  Cardinality(Below(u, m)) >= m
  BY DEF Dense
<1>1. Cardinality(InvoicesOf(u)) \in Nat
  BY InvoicesOfFinite DEF NumbersInv
<1>2. CASE \A i \in InvoicesOf(u) : invoices[i].number.n <= m
  <2>1. Below(u, m) = InvoicesOf(u)
    BY <1>2 DEF Below
  <2> QED
    BY <1>1, <2>1
<1>3. ASSUME NEW i \in InvoicesOf(u), ~ (invoices[i].number.n <= m)
      PROVE  Cardinality(Below(u, m)) >= m
  <2>1. m \in 1 .. invoices[i].number.n - 1
    BY <1>1, <1>3, InvoiceNumbers DEF NumbersInv
  <2> QED
    BY <2>1 DEF NumbersInv, Dense
<1> QED
  BY <1>2, <1>3

\* Of those whose invoices have only ever been numbered by the server, the
\* invoices keep their numbers, and one more may come at a dense number.
Grown(u) ==
    /\ u \in users \ byHand
    /\ InvoicesOf(u) \subseteq InvoicesOf(u)'
    /\ \A i \in InvoicesOf(u) : invoices'[i].number = invoices[i].number
    /\ \A i \in InvoicesOf(u)' \ InvoicesOf(u) : Dense(u, invoices'[i].number.n - 1)

LEMMA DenseKept ==
    ASSUME IsFiniteSet(Invoices), IsFiniteSet(Invoices)', TypeOK', NEW u, Grown(u), NEW k \in Int,
           Dense(u, k)
    PROVE  Dense(u, k)'
<1> SUFFICES ASSUME NEW m \in 1 .. k PROVE Cardinality(Below(u, m)') >= m
  BY DEF Dense
<1>1. PICK S, T : S = Below(u, m) /\ T = Below(u, m)'
  OBVIOUS
<1>2. S \subseteq T
  BY <1>1 DEF Below, Grown
<1>3. IsFiniteSet(T) /\ Cardinality(T) \in Nat
  <2>1. T \subseteq Invoices'
    BY <1>1 DEF Below, InvoicesOf
  <2> QED
    BY <2>1, FS_Subset, FS_CardinalityType
<1>4. Cardinality(S) <= Cardinality(T) /\ Cardinality(S) \in Nat
  BY <1>1, <1>2, <1>3, FS_Subset, BelowFinite
<1>5. Cardinality(S) >= m
  BY <1>1 DEF Dense
<1> QED
  BY <1>1, <1>3, <1>4, <1>5

LEMMA NumbersKept ==
    ASSUME NumbersInv, TypeOK', IsFiniteSet(Invoices)',
           \A u \in users' \ byHand' : Grown(u),
           \A r \in Requests : request'[r] = request[r] \/ NumberCall(request'[r])
    PROVE  NumbersInv'
<1>1. ASSUME NEW u \in users' \ byHand', NEW i \in InvoicesOf(u)'
      PROVE  Dense(u, invoices[i].number.n - 1)'
  <2>1. PICK k : k = invoices'[i].number.n - 1
    OBVIOUS
  <2>2. k \in Int
    <3>1. (invoices[i].number.n \in Nat)'
      <4>1. (invoices[i] \in Invoice)'
        BY DEF TypeOK, InvoicesOf, Invoices
      <4>2. (invoices[i].number \in Number)'
        BY <4>1 DEF Invoice
      <4> QED
        BY <4>2, FinanceAssumption DEF Number
    <3> QED
      BY <2>1, <3>1
  <2>3. Dense(u, k)
    <3>1. CASE i \in InvoicesOf(u)
      <4>1. k = invoices[i].number.n - 1
        BY <2>1, <3>1 DEF Grown
      <4> QED
        BY <3>1, <4>1 DEF NumbersInv, Grown
    <3> QED
      BY <2>1, <3>1 DEF Grown
  <2>4. Dense(u, k)'
    BY <2>2, <2>3, DenseKept DEF NumbersInv, Grown
  <2> QED
    BY <2>1, <2>4 DEF Dense
<1>2. ASSUME NEW r \in Requests PROVE NumberCall(request[r])'
  <2>1. PICK q : q = request'[r]
    OBVIOUS
  <2>2. NumberCall(q) /\ q \in Request
    BY <2>1 DEF NumbersInv, TypeOK
  <2>3. ASSUME q.pc = "numberInvoice", q.userId \in users' \ byHand'
        PROVE  Dense(q.userId, q.count)'
    <3>1. q.count \in Int
      BY <2>2, <2>3, RequestFields, FinanceAssumption
    <3> QED
      BY <2>2, <2>3, <3>1, DenseKept DEF NumbersInv, NumberCall, Grown
  <2>4. ASSUME q.pc = "insertInvoice", ~ q.given, q.row.userId \in users' \ byHand'
        PROVE  Dense(q.row.userId, q.row.number.n - 1)'
    <3>1. q.row \in Invoice
      BY <2>2, <2>4, RequestFields
    <3>2. q.row.number.n - 1 \in Int
      BY <3>1, FinanceAssumption DEF Invoice, Number
    <3> QED
      BY <2>2, <2>4, <3>2, DenseKept DEF NumbersInv, NumberCall, Grown
  <2>5. NumberCall(q)'
    BY <2>3, <2>4 DEF NumberCall
  <2> QED
    BY <2>1, <2>5
<1> QED
  BY <1>1, <1>2 DEF NumbersInv

LEMMA NumbersInit == Init => NumbersInv
<1> SUFFICES ASSUME Init PROVE NumbersInv
  OBVIOUS
<1>1. Invoices = {} /\ \A u : InvoicesOf(u) = {}
  BY DEF Init, Invoices, InvoicesOf
<1>2. IsFiniteSet(Invoices)
  BY <1>1, FS_EmptySet
<1> QED
  BY <1>1, <1>2, TypeOKInit DEF Init, NumbersInv, NumberCall, Idle

\* The invoices stay as they are, and at most one call takes a step.
LEMMA CallsKeepNumbers ==
    ASSUME NumbersInv, TypeOK', UNCHANGED <<users, invoices, byHand>>,
           \A r \in Requests : request'[r] = request[r] \/ NumberCall(request'[r])
    PROVE  NumbersInv'
<1>1. Invoices' = Invoices /\ \A u : InvoicesOf(u)' = InvoicesOf(u)
  BY DEF Invoices, InvoicesOf
<1>2. \A u \in users' \ byHand' : Grown(u)
  BY <1>1 DEF Grown
<1>3. IsFiniteSet(Invoices)'
  BY <1>1 DEF NumbersInv
<1> QED
  BY <1>2, <1>3, NumbersKept

LEMMA InvoiceCreateKeepsNumbers ==
    ASSUME NumbersInv, TypeOK', NEW r \in Requests, NEW u \in UserIds,
           NEW p \in ProjectIds \cup {Null}, NEW number \in ByHand \cup {Absent},
           InvoiceCreate(r, u, p, number)
    PROVE  NumbersInv'
<1>1. PICK k : k = countByUserId(u)
  OBVIOUS
<1>2. ASSUME number = Absent, NEW q,
             q = [pc |-> "numberInvoice", userId |-> u, projectId |-> p, count |-> k]
      PROVE  NumberCall(q)
  BY <1>1, <1>2, CountDense DEF NumberCall, countByUserId
<1>3. ASSUME NEW q, q.pc = "insertInvoice", q.given = TRUE PROVE NumberCall(q)
  BY <1>3 DEF NumberCall
<1>4. \E q : Become(r, q) /\ NumberCall(q)
  <2>1. CASE number = Absent
    BY <1>1, <1>2, <2>1 DEF InvoiceCreate
  <2>2. CASE number # Absent
    BY <1>3, <2>2 DEF InvoiceCreate
  <2> QED
    BY <2>1, <2>2
<1>5. UNCHANGED <<users, invoices, byHand>>
  BY DEF InvoiceCreate, tables
<1> QED
  BY <1>4, <1>5, CallsKeepNumbers DEF Become, NumbersInv, TypeOK

LEMMA InvoiceNumberKeepsNumbers ==
    ASSUME NumbersInv, TypeOK', NEW r \in Requests, InvoiceNumber(r)
    PROVE  NumbersInv'
<1>1. PICK q : q = request[r]
  OBVIOUS
<1>2. PICK number : number = nextInvoiceNumber(q.count)
  OBVIOUS
<1>3. number.n - 1 = q.count /\ NumberCall(q) /\ q.pc = "numberInvoice"
  <2>1. q.pc = "numberInvoice" /\ q.count \in Int
    BY <1>1, RequestFields, FinanceAssumption DEF InvoiceNumber, At, NumbersInv, TypeOK
  <2> QED
    BY <1>1, <1>2, <2>1 DEF nextInvoiceNumber, NumbersInv
<1>4. ASSUME NEW c, c = [pc |-> "insertInvoice", given |-> FALSE,
                         row |-> [userId |-> q.userId, projectId |-> q.projectId,
                                  number |-> number]]
      PROVE  NumberCall(c)
  <2>1. /\ c.pc = "insertInvoice" /\ c.row.userId = q.userId
        /\ c.row.number = number
    BY <1>4
  <2> QED
    BY <1>3, <2>1 DEF NumberCall
<1>5. \E c : Become(r, c) /\ NumberCall(c)
  BY <1>1, <1>2, <1>4 DEF InvoiceNumber
<1>6. UNCHANGED <<users, invoices, byHand>>
  BY DEF InvoiceNumber, tables
<1> QED
  BY <1>5, <1>6, CallsKeepNumbers DEF Become, NumbersInv, TypeOK

LEMMA InvoiceInsertKeepsNumbers ==
    ASSUME NumbersInv, TypeOK', NEW r \in Requests, NEW j \in InvoiceIds, InvoiceInsert(r, j)
    PROVE  NumbersInv'
<1>1. PICK q, row : q = request[r] /\ row = q.row
  OBVIOUS
<1>2. /\ row \in Invoice /\ j \notin Invoices
      /\ invoices' = [invoices EXCEPT ![j] = row]
      /\ UNCHANGED users /\ Done(r)
      /\ byHand' = IF q.given THEN byHand \cup {row.userId} ELSE byHand
      /\ q.pc = "insertInvoice" /\ q.given \in BOOLEAN /\ NumberCall(q)
  BY <1>1, RequestFields DEF InvoiceInsert, NumbersInv, TypeOK, At
<1>3. /\ Invoices' = Invoices \cup {j}
      /\ InvoicesOf(row.userId)' = InvoicesOf(row.userId) \cup {j}
      /\ \A v : v # row.userId => InvoicesOf(v)' = InvoicesOf(v)
      /\ \A i \in Invoices : invoices'[i] = invoices[i]
      /\ invoices'[j] = row
  BY <1>2, RowsApart DEF Invoices, InvoicesOf, NumbersInv, TypeOK
<1>4. IsFiniteSet(Invoices)'
  BY <1>3, FS_AddElement DEF NumbersInv
<1>5. ASSUME NEW v \in users' \ byHand' PROVE Grown(v)
  <2>1. \A i \in InvoicesOf(v) : invoices'[i].number = invoices[i].number
    BY <1>3 DEF InvoicesOf
  <2>2. CASE v # row.userId
    BY <1>2, <1>3, <1>5, <2>1, <2>2 DEF Grown
  <2>3. CASE v = row.userId
    <3>1. ~ q.given /\ row.userId \in users \ byHand
      BY <1>2, <1>5, <2>3
    <3>2. Dense(v, row.number.n - 1)
      BY <1>1, <1>2, <2>3, <3>1 DEF NumberCall
    <3> QED
      BY <1>2, <1>3, <1>5, <2>1, <2>3, <3>2 DEF Grown
  <2> QED
    BY <2>2, <2>3
<1>6. \A s \in Requests : request'[s] = request[s] \/ NumberCall(request'[s])
  BY <1>2 DEF Done, Become, NumberCall, Idle, NumbersInv, TypeOK
<1> QED
  BY <1>4, <1>5, <1>6, NumbersKept

\* A call that holds no number.
Elsewhere(q) == q.pc \notin {"numberInvoice", "insertInvoice"}

LEMMA NumbersNext == NumbersInv /\ [Next]_vars => NumbersInv'
<1> SUFFICES ASSUME NumbersInv, [Next]_vars PROVE NumbersInv'
  OBVIOUS
<1>t. TypeOK /\ TypeOK'
  BY TypeOKNext DEF NumbersInv
<1>n. ASSUME NEW q, Elsewhere(q) PROVE NumberCall(q)
  BY <1>n DEF NumberCall, Elsewhere
\* A call that starts without a number, or ends, over the same invoices.
<1>c. ASSUME UNCHANGED <<users, invoices, byHand>>,
             \A r \in Requests : request'[r] = request[r] \/ Elsewhere(request'[r])
      PROVE  NumbersInv'
  BY <1>c, <1>n, <1>t, CallsKeepNumbers
<1>1. ASSUME NEW r \in Requests, NEW u \in UserIds, NEW p \in ProjectIds \cup {Null},
             NEW number \in ByHand \cup {Absent}, InvoiceCreate(r, u, p, number)
      PROVE  NumbersInv'
  BY <1>1, <1>t, InvoiceCreateKeepsNumbers
<1>2. ASSUME NEW r \in Requests, NEW i \in InvoiceIds, InvoiceInsert(r, i) PROVE NumbersInv'
  BY <1>2, <1>t, InvoiceInsertKeepsNumbers
<1>11. ASSUME NEW r \in Requests, InvoiceNumber(r) PROVE NumbersInv'
  BY <1>11, <1>t, InvoiceNumberKeepsNumbers
<1>3. ASSUME \/ \E r \in Requests : \E u, i, number, p : InvoiceUpdateRead(r, u, i, number, p)
             \/ \E r \in Requests : \E u, i : PaymentCreate(r, u, i)
             \/ \E r \in Requests : \E u, p, i : PaymentUpdateRead(r, u, p, i)
             \/ \E r \in Requests : \E p : PaymentInsert(r, p)
             \/ \E r \in Requests : PaymentUpdate(r) \/ Refused(r)
             \/ \E u, p : PaymentDelete(u, p)
      PROVE  NumbersInv'
  <2>1. UNCHANGED <<users, invoices, byHand>>
    BY <1>3 DEF InvoiceUpdateRead, PaymentCreate, PaymentUpdateRead, PaymentInsert,
                PaymentUpdate, PaymentDelete, Refused, tables
  <2>2. \A s \in Requests : request'[s] = request[s] \/ Elsewhere(request'[s])
    <3>1. ASSUME NEW r \in Requests, NEW q, Become(r, q), Elsewhere(q)
          PROVE  \A s \in Requests : request'[s] = request[s] \/ Elsewhere(request'[s])
      BY <1>t, <3>1 DEF Become, TypeOK
    <3>2. Elsewhere(Idle)
      BY DEF Idle, Elsewhere
    <3>3. ASSUME NEW r \in Requests, NEW u, NEW i, NEW number, NEW p,
                 InvoiceUpdateRead(r, u, i, number, p)
          PROVE  \E q : Become(r, q) /\ Elsewhere(q)
      BY <3>3 DEF InvoiceUpdateRead, Elsewhere
    <3>4. ASSUME NEW r \in Requests, NEW u, NEW i, PaymentCreate(r, u, i)
          PROVE  \E q : Become(r, q) /\ Elsewhere(q)
      BY <3>4 DEF PaymentCreate, Elsewhere
    <3>5. ASSUME NEW r \in Requests, NEW u, NEW i, NEW p, PaymentUpdateRead(r, u, p, i)
          PROVE  \E q : Become(r, q) /\ Elsewhere(q)
      BY <3>5 DEF PaymentUpdateRead, Elsewhere
    <3>6. ASSUME NEW r \in Requests, NEW p, PaymentInsert(r, p) \/ PaymentUpdate(r) \/ Refused(r)
          PROVE  Become(r, Idle)
      BY <3>6 DEF PaymentInsert, PaymentUpdate, Refused, Done
    <3>7. ASSUME NEW u, NEW p, PaymentDelete(u, p) PROVE request' = request
      BY <3>7 DEF PaymentDelete
    <3> QED
      BY <1>3, <3>1, <3>2, <3>3, <3>4, <3>5, <3>6, <3>7
  <2> QED
    BY <2>1, <2>2, <1>c
\* A step that only renumbers, moves or deletes invoices.
<1>d. ASSUME Invoices' \subseteq Invoices,
             \A u \in users' \ byHand' : Grown(u),
             \A r \in Requests : request'[r] = request[r] \/ Elsewhere(request'[r])
      PROVE  NumbersInv'
  <2>1. IsFiniteSet(Invoices)'
    BY <1>d, FS_Subset DEF NumbersInv
  <2> QED
    BY <1>d, <1>n, <1>t, <2>1, NumbersKept
<1>4. ASSUME NEW r \in Requests, InvoiceUpdate(r) PROVE NumbersInv'
  <2> DEFINE q == request[r]
             row == [invoices[q.id] EXCEPT !.number = Given(q.number, @),
                                           !.projectId = Given(q.projectId, @)]
  <2>1. /\ q.id \in Invoices /\ invoices[q.id] \in Invoice
        /\ invoices' = [invoices EXCEPT ![q.id] = row]
        /\ UNCHANGED <<year, users>> /\ Done(r)
        /\ byHand' = IF q.number # Absent THEN byHand \cup {invoices[q.id].userId} ELSE byHand
    BY <1>4, <1>t DEF InvoiceUpdate, updatable, TypeOK, Invoices
  <2>2. row.userId = invoices[q.id].userId /\ row.number = Given(q.number, invoices[q.id].number)
    BY <2>1 DEF Invoice
  <2>3. row \in Invoice
    <3>1. q.number \in Number \cup {Absent} /\ q.projectId \in ProjectIds \cup {Null, Absent}
      BY <1>4, <1>t, RequestFields DEF InvoiceUpdate, At, TypeOK
    <3> QED
      BY <2>1, <3>1 DEF Invoice, Given
  <2>4. \A i \in Invoices \ {q.id} : invoices'[i] = invoices[i]
    BY <2>1, <1>t DEF TypeOK, Invoices
  <2>5. invoices'[q.id] = row
    BY <2>1, <1>t DEF TypeOK, Invoices
  <2>6. Invoices' = Invoices
    BY <1>t, <2>1, <2>3, RowsApart DEF TypeOK, Invoices
  <2>7. ASSUME NEW u \in users' \ byHand' PROVE Grown(u)
    <3>1. InvoicesOf(u)' = InvoicesOf(u)
      BY <2>2, <2>4, <2>5, <2>6 DEF InvoicesOf
    <3>2. \A i \in InvoicesOf(u) : invoices'[i].number = invoices[i].number
      BY <2>1, <2>2, <2>4, <2>5, <2>7 DEF InvoicesOf, Given
    <3> QED
      BY <2>1, <3>1, <3>2 DEF Grown
  <2>8. \A s \in Requests : request'[s] = request[s] \/ Elsewhere(request'[s])
    BY <2>1, <1>t DEF Done, Become, Idle, Elsewhere, TypeOK
  <2> QED
    BY <2>1, <2>6, <2>7, <2>8, <1>d
<1>5. ASSUME NEW u \in UserIds, NEW i \in InvoiceIds, InvoiceDelete(u, i) PROVE NumbersInv'
  <2>1. /\ i \in Invoices /\ Invoices' = Invoices \ {i}
        /\ \A j \in Invoices' : invoices'[j] = invoices[j]
    BY <1>5, <1>t, InvoiceDeleteAlong, DeletedAlongRows
  <2>2. ASSUME NEW v \in users' \ byHand' PROVE Grown(v)
    BY <1>5, <2>1 DEF InvoiceDelete, Grown, InvoicesOf
  <2> QED
    BY <1>5, <2>1, <2>2, <1>d DEF InvoiceDelete
<1>6. ASSUME NEW u \in UserIds, DeleteUser(u) PROVE NumbersInv'
  <2>1. /\ Invoices' = Invoices \ InvoicesOf(u)
        /\ \A j \in Invoices' : invoices'[j] = invoices[j]
    BY <1>6, <1>t, DeleteUserAlong, DeletedAlongRows
  <2>2. ASSUME NEW v \in users' \ byHand' PROVE Grown(v)
    BY <1>6, <2>1 DEF DeleteUser, Grown, InvoicesOf
  <2> QED
    BY <1>6, <2>1, <2>2, <1>d DEF DeleteUser
<1>7. ASSUME NEW p \in ProjectIds, DeleteProject(p) PROVE NumbersInv'
  <2>1. ASSUME NEW i \in Invoices
        PROVE  /\ i \in Invoices' /\ invoices'[i].userId = invoices[i].userId
               /\ invoices'[i].number = invoices[i].number
    <3>1. /\ invoices[i] \in Invoice /\ i \in InvoiceIds
          /\ \/ invoices'[i] = invoices[i]
             \/ invoices'[i] = [invoices[i] EXCEPT !.projectId = Null]
      BY <1>7, <1>t DEF DeleteProject, TypeOK, Invoices
    <3>2. [invoices[i] EXCEPT !.projectId = Null] \in Invoice
      BY <3>1 DEF Invoice
    <3> QED
      BY <3>1, <3>2, RowsApart DEF Invoice, Invoices
  <2>2. Invoices' \subseteq Invoices
    BY <1>7, <1>t DEF DeleteProject, TypeOK, Invoices
  <2>3. ASSUME NEW v \in users' \ byHand' PROVE Grown(v)
    BY <1>7, <2>1, <2>2 DEF DeleteProject, Grown, InvoicesOf
  <2> QED
    BY <1>7, <2>2, <2>3, <1>d DEF DeleteProject
<1>8. CASE NewYear
  BY <1>8, <1>c DEF NewYear, tables
<1>9. CASE Restart
  BY <1>9, <1>c DEF Restart, tables, Idle, Elsewhere
<1>10. CASE UNCHANGED vars
  BY <1>10, <1>c DEF vars, tables
<1> QED
  BY <1>1, <1>2, <1>3, <1>4, <1>5, <1>6, <1>7, <1>8, <1>9, <1>10, <1>11 DEF Next

\* A number that no invoice has and that is not beyond the count: below it,
\* there are more invoices than numbers, so two of them share one.
LEMMA GapShared ==
    ASSUME NumbersInv, NEW u \in users \ byHand, NEW m \in 1 .. Cardinality(InvoicesOf(u)),
           \A i \in InvoicesOf(u) : invoices[i].number.n # m
    PROVE  \E i, j \in InvoicesOf(u) :
              /\ invoices[i].number.n = invoices[j].number.n
              /\ invoices[i].number.n < m
              /\ invoices[i].number.year # invoices[j].number.year
<1> DEFINE B == Below(u, m)
           f == [i \in B |-> invoices[i].number.n]
<1>1. m \in Nat \ {0} /\ IsFiniteSet(B) /\ Cardinality(B) \in Nat
  BY InvoicesOfFinite, BelowFinite DEF NumbersInv
<1>2. Cardinality(B) >= m
  <2>1. Dense(u, Cardinality(InvoicesOf(u)))
    BY CountDense
  <2> QED
    BY <2>1 DEF Dense
<1>3. IsFiniteSet(1 .. m - 1) /\ Cardinality(1 .. m - 1) = m - 1
  <2> PICK k \in Nat : k = m - 1
    BY <1>1
  <2>1. IsFiniteSet(1 .. k) /\ Cardinality(1 .. k) = IF 1 > k THEN 0 ELSE k - 1 + 1
    BY FS_Interval
  <2> QED
    BY <2>1
<1>4. \A i \in B : i \in InvoicesOf(u) /\ invoices[i].number.n \in 1 .. m - 1
  BY <1>1, InvoiceNumbers DEF Below, NumbersInv
<1>5. f \in [B -> 1 .. m - 1]
  BY <1>4
<1>6. PICK i, j \in B : i # j /\ f[i] = f[j]
  <2> HIDE DEF B, f
  <2> QED
    BY <1>1, <1>2, <1>3, <1>5, FS_PigeonHole
<1>7. /\ i \in InvoicesOf(u) /\ j \in InvoicesOf(u)
      /\ invoices[i].number.n = invoices[j].number.n /\ invoices[i].number.n < m
  BY <1>1, <1>4, <1>6
<1>8. invoices[i].number # invoices[j].number
  BY <1>6, <1>7, InvoiceNumbers DEF NumbersInv, TypeOK, existsByUserIdAndNumber
<1>9. invoices[i].number.year # invoices[j].number.year
  BY <1>7, <1>8, InvoiceNumbers DEF NumbersInv, Number
<1> QED
  BY <1>7, <1>9

LEMMA NumbersInOrder == NumbersInv => NumberedInOrder
<1> SUFFICES ASSUME NumbersInv, NEW u \in users \ byHand
             PROVE  /\ \A i \in InvoicesOf(u) :
                          invoices[i].number.n <= Cardinality(InvoicesOf(u))
                    /\ \A m \in 1 .. Cardinality(InvoicesOf(u)) :
                          \/ \E i \in InvoicesOf(u) : invoices[i].number.n = m
                          \/ \E i, j \in InvoicesOf(u) :
                                /\ invoices[i].number.n = invoices[j].number.n
                                /\ invoices[i].number.n < m
                                /\ invoices[i].number.year # invoices[j].number.year
  BY DEF NumberedInOrder
<1>1. ASSUME NEW i \in InvoicesOf(u)
      PROVE  invoices[i].number.n <= Cardinality(InvoicesOf(u))
  <2> PICK n, I : n = invoices[i].number.n /\ I = InvoicesOf(u)
    OBVIOUS
  <2>1. n \in Nat \ {0} /\ IsFiniteSet(I) /\ Cardinality(I) \in Nat
    BY InvoiceNumbers, InvoicesOfFinite DEF NumbersInv
  <2>2. IsFiniteSet(I \ {i}) /\ Cardinality(I \ {i}) = Cardinality(I) - 1
    BY <2>1, FS_RemoveElement
  <2>3. Cardinality(I \ {i}) \in Nat
    BY <2>2, FS_CardinalityType
  <2>4. CASE n = 1
    BY <2>2, <2>3, <2>1, <2>4
  <2>5. CASE n # 1
    <3>1. Cardinality(Below(u, n - 1)) >= n - 1
      BY <2>1, <2>5 DEF NumbersInv, Dense
    <3>2. Below(u, n - 1) \subseteq I \ {i}
      BY <2>1 DEF Below
    <3>3. Cardinality(Below(u, n - 1)) <= Cardinality(I) - 1 /\ Cardinality(Below(u, n - 1)) \in Nat
      BY <2>2, <3>2, FS_Subset, BelowFinite DEF NumbersInv
    <3> QED
      BY <2>1, <3>1, <3>3
  <2> QED
    BY <2>4, <2>5
<1> QED
  BY <1>1, GapShared

\* As long as a user's invoices are numbered by the server alone and none is
\* deleted, no number is beyond their count, and a number is skipped only after
\* a smaller one that was given under two years: whatever is created at the same
\* time, however many years pass, and wherever a creation is as the year turns.
THEOREM GapsOnlyAfterTwoYears == Spec => []NumberedInOrder
  BY NumbersInit, NumbersNext, NumbersInOrder, PTL DEF Spec

-----------------------------------------------------------------------------
(* Invoices and payments are rows of their users: a step inserts one,      *)
(* removes one, takes those of a user along, or leaves all where they are. *)

Ids == InvoiceIds \cup PaymentIds

\* Whose a row is, table by table.
LEMMA OwnerByTable ==
    /\ \A i \in Invoices : i \in Ids /\ Owner[i] = invoices[i].userId
    /\ \A p \in Payments : p \in Ids /\ Owner[p] = payments[p].userId
    /\ \A x \in Ids : x \notin Invoices \cup Payments => Owner[x] = NoRow
  BY FinanceAssumption DEF Ids, Owner, Invoices, Payments

\* The rows that are left, and the rows there are, are those of the same users.
RowsKept ==
    /\ Invoices' \subseteq Invoices /\ Payments' \subseteq Payments
    /\ \A i \in Invoices' : invoices'[i].userId = invoices[i].userId
    /\ \A p \in Payments' : payments'[p].userId = payments[p].userId

LEMMA KeptOwners ==
    ASSUME RowsKept
    PROVE  Owner' = [x \in Ids |-> IF x \in Invoices' \cup Payments' THEN Owner[x] ELSE NoRow]
<1>1. /\ \A i \in Invoices' : Owner'[i] = Owner[i]
      /\ \A p \in Payments' : Owner'[p] = Owner[p]
      /\ \A x \in Ids : x \notin Invoices' \cup Payments' => Owner'[x] = NoRow
  BY FinanceAssumption DEF RowsKept, Ids, Owner, Invoices, Payments
<1>2. Owner' = [x \in Ids |-> Owner'[x]]
  BY DEF Owner, Ids
<1> QED
  BY <1>1, <1>2

\* Steps that leave every row to its user.
LEMMA InvisibleStep ==
    ASSUME RowsKept, Invoices' = Invoices, Payments' = Payments, UNCHANGED <<users, used>>
    PROVE  UNCHANGED Owned!vars
<1>1. Owner = [x \in Ids |-> IF x \in Invoices \cup Payments THEN Owner[x] ELSE NoRow]
  BY DEF Owner, Ids
<1>2. Owner' = Owner
  BY <1>1, KeptOwners
<1> QED
  BY <1>2 DEF Owned!vars

LEMMA InsertRefines ==
    ASSUME TypeOK, NEW r \in Requests,
           \/ \E i \in InvoiceIds : InvoiceInsert(r, i)
           \/ \E p \in PaymentIds : PaymentInsert(r, p)
    PROVE  \E x \in Ids, u \in UserIds : Owned!Insert(x, u)
<1>1. ASSUME NEW i \in InvoiceIds, InvoiceInsert(r, i)
      PROVE  \E x \in Ids, u \in UserIds : Owned!Insert(x, u)
  <2> PICK row : row = request[r].row
    OBVIOUS
  <2>1. /\ row \in Invoice /\ row.userId \in users /\ row.userId \in UserIds
        /\ invoices' = [invoices EXCEPT ![i] = row] /\ used' = used \cup {i}
        /\ UNCHANGED <<users, payments>> /\ i \notin used
    BY <1>1, RequestFields DEF InvoiceInsert, insertable, TypeOK, At, Invoice
  <2>2. /\ invoices'[i] = row /\ \A j \in InvoiceIds \ {i} : invoices'[j] = invoices[j]
        /\ row # NoRow
    BY <2>1, RowsApart DEF TypeOK
  <2>3. Owner' = [Owner EXCEPT ![i] = row.userId]
    <3>1. Invoices' = Invoices \cup {i} /\ Payments' = Payments
      BY <2>1, <2>2 DEF Invoices, Payments
    <3>2. Owner'[i] = row.userId
      BY <2>2, <3>1, FinanceAssumption DEF Owner, Invoices, Payments
    <3>3. \A x \in Ids \ {i} : Owner'[x] = Owner[x]
      BY <2>1, <2>2, <3>1 DEF Owner, Ids, Invoices
    <3>4. Owner' = [x \in Ids |-> Owner'[x]] /\ Owner = [x \in Ids |-> Owner[x]]
      BY DEF Owner, Ids
    <3> QED
      BY <3>2, <3>3, <3>4
  <2> QED
    BY <2>1, <2>3 DEF Owned!Insert, Ids
<1>2. ASSUME NEW p \in PaymentIds, PaymentInsert(r, p)
      PROVE  \E x \in Ids, u \in UserIds : Owned!Insert(x, u)
  <2> PICK row : row = request[r].row
    OBVIOUS
  <2>1. /\ row \in Payment /\ row.userId \in users /\ row.userId \in UserIds
        /\ payments' = [payments EXCEPT ![p] = row] /\ used' = used \cup {p}
        /\ UNCHANGED <<users, invoices>> /\ p \notin used
    BY <1>2, RequestFields DEF PaymentInsert, TypeOK, At, Payment
  <2>2. /\ payments'[p] = row /\ \A j \in PaymentIds \ {p} : payments'[j] = payments[j]
        /\ row # NoRow
    BY <2>1, RowsApart DEF TypeOK
  <2>3. Owner' = [Owner EXCEPT ![p] = row.userId]
    <3>1. Payments' = Payments \cup {p} /\ Invoices' = Invoices
      BY <2>1, <2>2 DEF Invoices, Payments
    <3>2. Owner'[p] = row.userId
      BY <2>2, <3>1, FinanceAssumption DEF Owner, Invoices, Payments
    <3>3. \A x \in Ids \ {p} : Owner'[x] = Owner[x]
      BY <2>1, <2>2, <3>1 DEF Owner, Ids, Invoices
    <3>4. Owner' = [x \in Ids |-> Owner'[x]] /\ Owner = [x \in Ids |-> Owner[x]]
      BY DEF Owner, Ids
    <3> QED
      BY <3>2, <3>3, <3>4
  <2> QED
    BY <2>1, <2>3 DEF Owned!Insert, Ids
<1> QED
  BY <1>1, <1>2

LEMMA UpdateInvisible ==
    ASSUME TypeOK, NEW r \in Requests, InvoiceUpdate(r) \/ PaymentUpdate(r)
    PROVE  UNCHANGED Owned!vars
<1> PICK q : q = request[r]
  OBVIOUS
<1>1. ASSUME InvoiceUpdate(r) PROVE UNCHANGED Owned!vars
  <2> PICK row : row = [invoices[q.id] EXCEPT !.number = Given(q.number, @),
                                              !.projectId = Given(q.projectId, @)]
    OBVIOUS
  <2>1. /\ q.id \in Invoices /\ invoices[q.id] \in Invoice
        /\ q.number \in Number \cup {Absent} /\ q.projectId \in projects \cup {Null, Absent}
    BY <1>1, RequestFields DEF InvoiceUpdate, updatable, TypeOK, At, Invoices
  <2>2. row \in Invoice /\ row.userId = invoices[q.id].userId
    BY <2>1 DEF Invoice, Given, TypeOK
  <2>3. invoices' = [invoices EXCEPT ![q.id] = row] /\ UNCHANGED <<users, payments, used>>
    BY <1>1, <2>1 DEF InvoiceUpdate
  <2>4. Invoices' = Invoices /\ Payments' = Payments
    BY <2>1, <2>2, <2>3, RowsApart DEF Invoices, Payments, TypeOK
  <2>5. RowsKept
    BY <2>2, <2>3, <2>4 DEF RowsKept, Invoices, TypeOK
  <2> QED
    BY <2>3, <2>4, <2>5, InvisibleStep
<1>2. ASSUME PaymentUpdate(r) PROVE UNCHANGED Owned!vars
  <2> PICK row : row = [payments[q.id] EXCEPT !.invoiceId = q.invoiceId]
    OBVIOUS
  <2>1. q.id \in Payments /\ payments[q.id] \in Payment /\ q.invoiceId \in InvoiceIds \cup {Null}
    BY <1>2, RequestFields DEF PaymentUpdate, TypeOK, At, Payments
  <2>2. row \in Payment /\ row.userId = payments[q.id].userId
    BY <2>1 DEF Payment
  <2>3. payments' = [payments EXCEPT ![q.id] = row] /\ UNCHANGED <<users, invoices, used>>
    BY <1>2, <2>1 DEF PaymentUpdate
  <2>4. Invoices' = Invoices /\ Payments' = Payments
    BY <2>1, <2>2, <2>3, RowsApart DEF Invoices, Payments, TypeOK
  <2>5. RowsKept
    BY <2>2, <2>3, <2>4 DEF RowsKept, Payments, TypeOK
  <2> QED
    BY <2>3, <2>4, <2>5, InvisibleStep
<1> QED
  BY <1>1, <1>2

\* An update of a project's invoices changes the project alone.
LEMMA DeleteProjectInvisible ==
    ASSUME TypeOK, NEW p \in ProjectIds, DeleteProject(p)
    PROVE  UNCHANGED Owned!vars
<1>1. ASSUME NEW i \in Invoices
      PROVE  i \in Invoices' /\ invoices'[i].userId = invoices[i].userId
  <2>1. invoices[i] \in Invoice /\ i \in InvoiceIds
    BY DEF TypeOK, Invoices
  <2>2. [invoices[i] EXCEPT !.projectId = Null] \in Invoice
    BY <2>1 DEF Invoice
  <2>3. \/ invoices'[i] = invoices[i]
        \/ invoices'[i] = [invoices[i] EXCEPT !.projectId = Null]
    BY <2>1 DEF DeleteProject
  <2> QED
    BY <2>1, <2>2, <2>3, RowsApart DEF Invoice, Invoices
<1>2. Invoices' = Invoices /\ Payments' = Payments
  BY <1>1 DEF DeleteProject, Invoices, Payments
<1>3. RowsKept
  BY <1>1, <1>2 DEF RowsKept, DeleteProject
<1> QED
  BY <1>2, <1>3, InvisibleStep DEF DeleteProject

\* One row goes, and every other stays its user's.
LEMMA DeleteRefines ==
    ASSUME TypeOK, NEW u \in UserIds,
           \/ \E i \in InvoiceIds : InvoiceDelete(u, i)
           \/ \E p \in PaymentIds : PaymentDelete(u, p)
    PROVE  \E x \in Ids : Owned!Remove(x)
<1>1. ASSUME NEW x \in Invoices \cup Payments, RowsKept,
             Invoices' \cup Payments' = (Invoices \cup Payments) \ {x}, UNCHANGED <<users, used>>
      PROVE  \E y \in Ids : Owned!Remove(y)
  <2>1. Owner[x] \in UserIds /\ x \in Ids
    BY OwnerByTable DEF TypeOK
  <2>2. \A y \in Ids : Owner'[y] = IF y = x THEN NoRow ELSE Owner[y]
    BY <1>1, KeptOwners, OwnerByTable
  <2>3. Owner' = [Owner EXCEPT ![x] = NoRow]
    BY <2>2 DEF Owner, Ids
  <2> QED
    BY <1>1, <2>1, <2>3, FinanceAssumption DEF Owned!Remove
<1>2. ASSUME NEW i \in InvoiceIds, InvoiceDelete(u, i)
      PROVE  \E x \in Ids : Owned!Remove(x)
  <2>1. i \in Invoices /\ DeletedAlong({}, {i}) /\ UNCHANGED <<users, used>>
    BY <1>2, InvoiceDeleteAlong DEF InvoiceDelete
  <2>2. RowsKept /\ Invoices' = Invoices \ {i} /\ Payments' = Payments
    <3>1. /\ Invoices' = Invoices \ {i}
          /\ Payments' = {p \in Payments : payments[p].userId \notin {}}
          /\ \A j \in Invoices' : invoices'[j] = invoices[j]
          /\ \A p \in Payments' : payments'[p].userId = payments[p].userId
      BY <2>1, DeletedAlongRows
    <3> QED
      BY <3>1 DEF RowsKept
  <2>3. i \notin Payments
    BY <2>1, FinanceAssumption DEF Invoices, Payments
  <2> QED
    BY <1>1, <2>1, <2>2, <2>3
<1>3. ASSUME NEW p \in PaymentIds, PaymentDelete(u, p)
      PROVE  \E x \in Ids : Owned!Remove(x)
  <2>1. /\ p \in Payments /\ Payments' = Payments \ {p} /\ Invoices' = Invoices
        /\ \A s \in Payments' : payments'[s] = payments[s]
        /\ UNCHANGED <<users, used, invoices>>
    BY <1>3 DEF PaymentDelete, Payments, Invoices, TypeOK
  <2>2. p \notin Invoices
    BY <2>1, FinanceAssumption DEF Invoices, Payments
  <2>3. RowsKept
    BY <2>1 DEF RowsKept
  <2> QED
    BY <1>1, <2>1, <2>2, <2>3
<1> QED
  BY <1>2, <1>3

LEMMA DeleteUserRefines ==
    ASSUME TypeOK, NEW u \in UserIds, DeleteUser(u)
    PROVE  Owned!Expel(u)
<1>1. /\ Invoices' = {i \in Invoices : invoices[i].userId # u}
      /\ Payments' = {p \in Payments : payments[p].userId # u}
      /\ RowsKept
  <2>1. /\ Invoices' = Invoices \ InvoicesOf(u)
        /\ Payments' = {p \in Payments : payments[p].userId \notin {u}}
        /\ \A j \in Invoices' : invoices'[j] = invoices[j]
        /\ \A p \in Payments' : payments'[p].userId = payments[p].userId
    BY DeleteUserAlong, DeletedAlongRows
  <2> QED
    BY <2>1 DEF RowsKept, InvoicesOf
<1>2. \A x \in Ids : Owner'[x] = IF Owner[x] = u THEN NoRow ELSE Owner[x]
  BY <1>1, KeptOwners, OwnerByTable
<1>3. Owner' = [x \in InvoiceIds \cup PaymentIds |-> IF Owner[x] = u THEN NoRow ELSE Owner[x]]
  BY <1>2 DEF Owner, Ids
<1> QED
  BY <1>3 DEF Owned!Expel, DeleteUser

LEMMA NextRefines == TypeOK /\ [Next]_vars => [Owned!Next]_(Owned!vars)
<1> SUFFICES ASSUME TypeOK, [Next]_vars PROVE [Owned!Next]_(Owned!vars)
  OBVIOUS
<1>1. ASSUME \/ \E r \in Requests, u \in UserIds :
                   \/ \E p \in ProjectIds \cup {Null}, number \in ByHand \cup {Absent} :
                         InvoiceCreate(r, u, p, number)
                   \/ \E i \in InvoiceIds, number \in ByHand \cup {Absent},
                         p \in ProjectIds \cup {Null, Absent} :
                         InvoiceUpdateRead(r, u, i, number, p)
                   \/ \E i \in InvoiceIds \cup {Null} :
                         \/ PaymentCreate(r, u, i)
                         \/ \E p \in PaymentIds : PaymentUpdateRead(r, u, p, i)
             \/ \E r \in Requests : InvoiceNumber(r) \/ Refused(r)
             \/ NewYear \/ Restart \/ UNCHANGED vars
      PROVE  UNCHANGED Owned!vars
  <2>1. UNCHANGED tables
    BY <1>1 DEF InvoiceCreate, InvoiceNumber, InvoiceUpdateRead, PaymentCreate,
                PaymentUpdateRead, Refused, NewYear, Restart, vars
  <2> QED
    BY <2>1 DEF tables, Owned!vars, Owner, Invoices, Payments
<1>2. /\ \A x \in Ids, u \in UserIds : Owned!Insert(x, u) => Owned!Next
      /\ \A x \in Ids : Owned!Remove(x) => Owned!Next
      /\ \A u \in UserIds : Owned!Expel(u) => Owned!Next
  BY DEF Owned!Next, Ids
<1> QED
  BY <1>1, <1>2, InsertRefines, UpdateInvisible, DeleteProjectInvisible, DeleteRefines,
     DeleteUserRefines DEF Next

LEMMA InitRefines == Init => Owned!Init
  BY DEF Init, Owned!Init, Owner, Invoices, Payments

\* No interleaving of edits and deletions brings an invoice or a payment back,
\* gives it to another user, or leaves it behind when its owner's account goes.
THEOREM Refinement == Spec => RefinesOwnedRows
<1>1. TypeOK /\ [Next]_vars => [Owned!Next]_(Owned!vars)
  BY NextRefines
<1> QED
  BY InitRefines, <1>1, NoOrphanedRows, PTL DEF Spec, RefinesOwnedRows, Owned!Spec
=============================================================================
