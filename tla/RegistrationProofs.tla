-------------------------- MODULE RegistrationProofs --------------------------
(***************************************************************************)
(* Theorems about Registration: whatever fails or interleaves between the  *)
(* statements of a registration, every account is accounted for, everybody *)
(* signed in is onboarded, and client relations come from invitations, for *)
(* every set of users, addresses, invitations and concurrent calls.        *)
(***************************************************************************)
EXTENDS Registration, TLAPS

LEMMA RequestFields ==
    ASSUME NEW q \in Request
    PROVE  /\ q.pc \in {"lookup", "insert"} => q \in Registering
           /\ q.pc \in OnboardingPCs => q \in Onboarding
           /\ q.pc = "invite" => /\ q.row.email \in Emails /\ q.row.by \in UserIds
                                 /\ q.row.company \in Companies \cup {NoCompany}
           /\ q.pc \in {"expire", "resend"} => q.invite \in InviteIds
           /\ q.pc = "company" => q.user \in UserIds
  BY DEF Request, Registering, Onboarding, OnboardingPCs

LEMMA RequestMade ==
    /\ Idle \in Request /\ Idle.pc = "idle"
    /\ Registering \subseteq Request /\ Onboarding \subseteq Request
    /\ \A e \in Emails, u \in UserIds, c \in Companies \cup {NoCompany} :
          [pc |-> "invite", row |-> [email |-> e, by |-> u, company |-> c]] \in Request
    /\ \A i \in InviteIds : [pc |-> "expire", invite |-> i] \in Request
                            /\ [pc |-> "resend", invite |-> i] \in Request
    /\ \A u \in UserIds :
          [pc |-> "company", user |-> u] \in Request
  BY DEF Request, Idle

\* The next statement of an onboarding.
LEMMA NextStatement ==
    ASSUME NEW q \in Onboarding, NEW pc \in OnboardingPCs, NEW e \in Emails
    PROVE  /\ [q EXCEPT !.pc = pc] \in Onboarding
           /\ [q EXCEPT !.pc = pc, !.email = e] \in Onboarding
           /\ [q EXCEPT !.pc = pc].pc = pc /\ [q EXCEPT !.pc = pc].user = q.user
           /\ [q EXCEPT !.pc = pc].invite = q.invite /\ [q EXCEPT !.pc = pc].inviter = q.inviter
           /\ [q EXCEPT !.pc = pc].email = q.email
           /\ [q EXCEPT !.pc = pc, !.email = e].pc = pc
           /\ [q EXCEPT !.pc = pc, !.email = e].user = q.user
           /\ [q EXCEPT !.pc = pc, !.email = e].invite = q.invite
           /\ [q EXCEPT !.pc = pc, !.email = e].inviter = q.inviter
  BY DEF Onboarding, OnboardingPCs

-----------------------------------------------------------------------------
(* TypeOK, with the inviters of the invitations that calls hold.           *)

InviterKnown(q) ==
    q.pc \in {"insert"} \cup OnboardingPCs /\ q.invite \in InviteIds => q.inviter \in UserIds

TypeInv == TypeOK /\ \A r \in Requests : InviterKnown(request[r])

\* The tables apart from the invitations, and the invitations.
UsersTyped ==
    /\ email \in [UserIds -> Emails \cup {NoRow}]
    /\ born \in SUBSET UserIds /\ companies \in SUBSET Companies
    /\ freelancers \in SUBSET UserIds /\ clients \in SUBSET UserIds
    /\ relations \in SUBSET (UserIds \X UserIds)
    /\ freelancers \cup clients \subseteq Users
    /\ relations \subseteq freelancers \X clients

\* The rows that an invitation refers to exist.
Referred(row) == row.invitedBy \in Users /\ row.company \in companies \cup {NoCompany}

InvitesTyped ==
    /\ invitations \in [InviteIds -> Invitation \cup {NoRow}]
    /\ minted \in [InviteIds -> 0 .. MaxResends + 1]
    /\ \A i \in Invites : Referred(invitations[i])

HistoryTyped ==
    /\ accepted \in SUBSET Acceptance
    /\ signedIn \in SUBSET UserIds /\ provisioned \in SUBSET UserIds
    /\ cut \in SUBSET UserIds

LEMMA TypeOKInit == Init => TypeInv
<1> SUFFICES ASSUME Init PROVE TypeInv
  OBVIOUS
<1>1. email \in [UserIds -> Emails \cup {NoRow}] /\ Founders \subseteq Users
  BY RegistrationAssumption DEF Init, Users
<1>2. request \in [Requests -> Request] /\ \A r \in Requests : InviterKnown(request[r])
  BY RequestMade DEF Init, InviterKnown, OnboardingPCs
<1> QED
  BY <1>1, <1>2, RegistrationAssumption DEF Init, TypeInv, TypeOK, Invites

LEMMA TypeInvKept ==
    ASSUME TypeInv, UsersTyped', InvitesTyped', HistoryTyped', clock' \in 0 .. MaxTime,
           \A r \in Requests : request'[r] = request[r]
                               \/ (request'[r] \in Request /\ InviterKnown(request'[r])),
           request' = [r \in Requests |-> request'[r]]
    PROVE  TypeInv'
<1>1. \A r \in Requests : request'[r] \in Request /\ InviterKnown(request[r])'
  BY DEF TypeInv, TypeOK, InviterKnown
<1>2. request' \in [Requests -> Request]
  BY <1>1
<1> QED
  BY <1>1, <1>2 DEF TypeInv, TypeOK, UsersTyped, InvitesTyped, HistoryTyped, Referred

LEMMA TypedNow == TypeInv => UsersTyped /\ InvitesTyped /\ HistoryTyped /\ clock \in 0 .. MaxTime
  BY DEF TypeInv, TypeOK, UsersTyped, InvitesTyped, HistoryTyped, Referred

\* Steps that leave one part alone.
LEMMA UsersStay == UsersTyped /\ UNCHANGED userVars => UsersTyped' /\ Users' = Users
  BY DEF UsersTyped, userVars, Users

LEMMA InvitesStay ==
    ASSUME InvitesTyped, UNCHANGED <<companies, invitations, minted>>, Users \subseteq Users'
    PROVE  InvitesTyped'
  BY DEF InvitesTyped, Invites, Referred

LEMMA HistoryStays == HistoryTyped /\ UNCHANGED history => HistoryTyped'
  BY DEF HistoryTyped, history

LEMMA BecomeRequest ==
    ASSUME TypeInv, NEW r \in Requests, NEW q, Become(r, q)
    PROVE  /\ request'[r] = q /\ \A s \in Requests \ {r} : request'[s] = request[s]
           /\ request' = [s \in Requests |-> request'[s]]
  BY DEF TypeInv, TypeOK, Become

\* A step of one call.
LEMMA CallStep ==
    ASSUME TypeInv, NEW r \in Requests, NEW q \in Request, InviterKnown(q), Become(r, q),
           UsersTyped', InvitesTyped', HistoryTyped', UNCHANGED clock
    PROVE  TypeInv'
<1>1. clock' \in 0 .. MaxTime
  BY TypedNow
<1>2. /\ \A s \in Requests : request'[s] = request[s]
                             \/ (request'[s] \in Request /\ InviterKnown(request'[s]))
      /\ request' = [s \in Requests |-> request'[s]]
  BY BecomeRequest
<1> QED
  BY <1>1, <1>2, TypeInvKept

\* A step of one call that writes nothing.
LEMMA ReadStep ==
    ASSUME TypeInv, NEW r \in Requests, NEW q \in Request, InviterKnown(q), Become(r, q),
           UNCHANGED <<clock, userVars, invitations, minted, history>>
    PROVE  TypeInv'
  BY CallStep, TypedNow, UsersStay, InvitesStay, HistoryStays DEF userVars

LEMMA IdleStep == InviterKnown(Idle)
  BY DEF InviterKnown, Idle, OnboardingPCs

LEMMA AbortStep ==
    ASSUME TypeInv, NEW r \in Requests, request[r].pc \in OnboardingPCs, Abort(r)
    PROVE  TypeInv'
<1>1. request[r].user \in UserIds
  BY RequestFields DEF TypeInv, TypeOK, Onboarding
<1>2. HistoryTyped'
  BY <1>1, TypedNow DEF Abort, HistoryTyped
<1> QED
  BY <1>2, CallStep, IdleStep, RequestMade, TypedNow, UsersStay, InvitesStay
  DEF Abort, Done, userVars

\* What the onboarding in r becomes when it goes on.
LEMMA GoesOn ==
    ASSUME TypeInv, NEW r \in Requests, request[r].pc \in OnboardingPCs,
           NEW pc \in OnboardingPCs, Next1(r, pc)
    PROVE  \E q \in Onboarding :
              /\ Become(r, q) /\ InviterKnown(q) /\ q.pc = pc
              /\ q.user = request[r].user /\ q.email = request[r].email
              /\ q.invite = request[r].invite /\ q.inviter = request[r].inviter
<1> DEFINE q == [request[r] EXCEPT !.pc = pc]
<1>1. request[r] \in Onboarding /\ InviterKnown(request[r])
  BY RequestFields DEF TypeInv, TypeOK
<1>2. /\ q \in Onboarding /\ q.pc = pc
      /\ q.user = request[r].user /\ q.email = request[r].email
      /\ q.invite = request[r].invite /\ q.inviter = request[r].inviter
  BY <1>1 DEF Onboarding, OnboardingPCs
<1>3. Become(r, q)
  BY DEF Next1, Become
<1> HIDE DEF q
<1>4. InviterKnown(q)
  BY <1>1, <1>2 DEF InviterKnown
<1> QED
  BY <1>2, <1>3, <1>4

-----------------------------------------------------------------------------
(* The steps, one lemma for the actions of one handler.                    *)

LEMMA Holds ==
    ASSUME TypeInv, NEW r \in Requests
    PROVE  request[r] \in Request /\ InviterKnown(request[r])
  BY DEF TypeInv, TypeOK

LEMMA InviteFields ==
    ASSUME TypeInv, NEW i \in Invites
    PROVE  /\ i \in InviteIds /\ invitations[i] \in Invitation
           /\ invitations[i].email \in Emails /\ invitations[i].invitedBy \in Users
           /\ invitations[i].invitedBy \in UserIds
  BY DEF TypeInv, TypeOK, Invites, Invitation, Users

\* Whatever else a finished call changed.
LEMMA DoneStep ==
    ASSUME TypeInv, NEW r \in Requests, Done(r),
           UsersTyped', InvitesTyped', HistoryTyped', UNCHANGED clock
    PROVE  TypeInv'
  BY CallStep, IdleStep, RequestMade DEF Done

LEMMA InviteSteps ==
    ASSUME TypeInv, NEW r \in Requests,
           \/ \E u \in UserIds, e \in Emails, c \in Companies \cup {NoCompany} :
                 InviteCheck(r, u, e, c)
           \/ \E i \in InviteIds : InviteInsert(r, i)
           \/ InviteOrphaned(r)
    PROVE  TypeInv'
<1>1. ASSUME NEW u \in UserIds, NEW e \in Emails, NEW c \in Companies \cup {NoCompany},
             InviteCheck(r, u, e, c)
      PROVE  TypeInv'
  <2> PICK q : q = [pc |-> "invite", row |-> [email |-> e, by |-> u, company |-> c]]
    OBVIOUS
  <2>1. q \in Request /\ InviterKnown(q)
    BY RequestMade DEF InviterKnown, OnboardingPCs
  <2> QED
    BY <1>1, <2>1, ReadStep DEF InviteCheck
<1>2. ASSUME NEW i \in InviteIds, InviteInsert(r, i) PROVE TypeInv'
  <2> PICK row : row = request[r].row
    OBVIOUS
  <2>1. /\ row.email \in Emails /\ row.by \in Users /\ row.company \in Companies \cup {NoCompany}
        /\ row.company \in companies \cup {NoCompany}
    BY <1>2, Holds, RequestFields DEF InviteInsert, At
  <2> PICK new : new = [email |-> row.email, link |-> [invitation |-> i, n |-> 0],
                 status |-> "PENDING", invitedBy |-> row.by, company |-> row.company,
                 expiresAt |-> clock + InviteTTL]
    OBVIOUS
  <2>2. new \in Invitation /\ Referred(new)
    <3>1. clock + InviteTTL \in Nat
      BY TypedNow, RegistrationAssumption
    <3>2. [invitation |-> i, n |-> 0] \in Link
      BY RegistrationAssumption DEF Link
    <3> QED
      BY <2>1, <3>1, <3>2 DEF Invitation, Status, Users, Referred
  <2>3. /\ invitations' = [invitations EXCEPT ![i] = new]
        /\ minted' = [minted EXCEPT ![i] = 1]
        /\ UNCHANGED <<clock, userVars, history>> /\ Done(r)
    BY <1>2 DEF InviteInsert
  <2>4. UsersTyped' /\ Users' = Users /\ HistoryTyped'
    BY <2>3, TypedNow, UsersStay, HistoryStays
  <2>5. InvitesTyped'
    <3>1. 1 \in 0 .. MaxResends + 1
      BY RegistrationAssumption
    <3>2. minted' \in [InviteIds -> 0 .. MaxResends + 1]
      BY <2>3, <3>1, TypedNow DEF InvitesTyped
    <3>3. invitations' \in [InviteIds -> Invitation \cup {NoRow}]
      BY <2>2, <2>3, TypedNow DEF InvitesTyped
    <3>4. \A j \in Invites' : Referred(invitations'[j])
      BY <2>2, <2>3, TypedNow DEF InvitesTyped, Invites
    <3> QED
      BY <2>3, <2>4, <3>2, <3>3, <3>4 DEF InvitesTyped, Referred, userVars
  <2> QED
    BY <2>3, <2>4, <2>5, DoneStep
<1>3. ASSUME InviteOrphaned(r) PROVE TypeInv'
  BY <1>3, ReadStep, IdleStep, RequestMade DEF InviteOrphaned, Done
<1> QED
  BY <1>1, <1>2, <1>3

\* A row of invitations rewritten with the same inviter and company, or removed.
LEMMA Rewritten ==
    ASSUME TypeInv, UNCHANGED <<minted, userVars>>,
           invitations' \in [InviteIds -> Invitation \cup {NoRow}],
           \A i \in InviteIds : invitations'[i] # NoRow =>
               /\ i \in Invites /\ invitations'[i].invitedBy = invitations[i].invitedBy
               /\ invitations'[i].company = invitations[i].company
    PROVE  UsersTyped' /\ InvitesTyped'
<1>1. UsersTyped' /\ Users' = Users
  BY TypedNow, UsersStay
<1>2. minted' \in [InviteIds -> 0 .. MaxResends + 1]
  BY TypedNow DEF InvitesTyped
<1>3. \A i \in Invites' : Referred(invitations'[i])
  BY TypedNow DEF Invites, InvitesTyped, Referred
<1> QED
  BY <1>1, <1>2, <1>3 DEF InvitesTyped, Referred, userVars

LEMMA StatusSet ==
    ASSUME TypeInv, NEW i \in Invites, NEW status \in Status, SetStatus(i, status)
    PROVE  /\ invitations' \in [InviteIds -> Invitation \cup {NoRow}]
           /\ Invites' = Invites
           /\ \A j \in InviteIds : invitations'[j] # NoRow =>
                  /\ j \in Invites /\ invitations'[j].invitedBy = invitations[j].invitedBy
                  /\ invitations'[j].email = invitations[j].email
                  /\ invitations'[j].company = invitations[j].company
<1> PICK row : row = [invitations[i] EXCEPT !.status = status]
  OBVIOUS
<1>1. /\ row \in Invitation /\ row.invitedBy = invitations[i].invitedBy
      /\ row.email = invitations[i].email /\ row.company = invitations[i].company
  BY InviteFields DEF Invitation
<1>2. row # NoRow
  BY <1>1, RegistrationAssumption
<1>3. invitations \in [InviteIds -> Invitation \cup {NoRow}] /\ i \in InviteIds
  BY InviteFields DEF TypeInv, TypeOK
<1>4. invitations' = [invitations EXCEPT ![i] = row]
  BY <1>3 DEF SetStatus
<1> QED
  BY <1>1, <1>2, <1>3, <1>4 DEF Invites

LEMMA ExpireSteps ==
    ASSUME TypeInv, NEW r \in Requests,
           (\E link \in Sent : LookupExpired(r, link)) \/ ExpireWrite(r)
    PROVE  TypeInv'
<1>1. ASSUME NEW link \in Sent, LookupExpired(r, link) PROVE TypeInv'
  <2>1. PICK i \in Invites : Become(r, [pc |-> "expire", invite |-> i])
    BY <1>1 DEF LookupExpired, findByToken
  <2> PICK q : q = [pc |-> "expire", invite |-> i]
    OBVIOUS
  <2>2. q \in Request /\ InviterKnown(q)
    BY RequestMade DEF Invites, InviterKnown, OnboardingPCs
  <2> QED
    BY <1>1, <2>1, <2>2, ReadStep DEF LookupExpired
<1>2. ASSUME ExpireWrite(r) PROVE TypeInv'
  <2>1. UsersTyped' /\ InvitesTyped'
    <3>1. CASE request[r].invite \in Invites /\ SetStatus(request[r].invite, "EXPIRED")
      BY <1>2, <3>1, StatusSet, Rewritten DEF ExpireWrite, Status
    <3>2. CASE UNCHANGED invitations
      BY <1>2, <3>2, TypedNow, UsersStay, InvitesStay DEF ExpireWrite, userVars
    <3> QED
      BY <1>2, <3>1, <3>2 DEF ExpireWrite
  <2> QED
    BY <1>2, <2>1, DoneStep, TypedNow, HistoryStays DEF ExpireWrite
<1> QED
  BY <1>1, <1>2

\* A step that no call makes.
LEMMA OtherStep ==
    ASSUME TypeInv, UNCHANGED request, UsersTyped', InvitesTyped', HistoryTyped',
           clock' \in 0 .. MaxTime
    PROVE  TypeInv'
<1>1. request' = [r \in Requests |-> request'[r]]
  BY DEF TypeInv, TypeOK
<1> QED
  BY <1>1, TypeInvKept

LEMMA InvitationSteps ==
    ASSUME TypeInv, NEW i \in InviteIds,
           (\E status \in Status : Update(i, status)) \/ Accept(i) \/ DeleteInvitation(i)
    PROVE  TypeInv'
<1>1. ASSUME NEW status \in Status, Update(i, status) PROVE TypeInv'
  <2>1. i \in Invites /\ SetStatus(i, status)
    BY <1>1 DEF Update, Reachable
  <2>2. UsersTyped' /\ InvitesTyped'
    BY <1>1, <2>1, StatusSet, Rewritten DEF Update
  <2> QED
    BY <1>1, <2>2, OtherStep, TypedNow, HistoryStays DEF Update
<1>2. ASSUME DeleteInvitation(i) PROVE TypeInv'
  <2>1. UsersTyped' /\ InvitesTyped'
    <3>1. invitations' \in [InviteIds -> Invitation \cup {NoRow}]
      BY <1>2, TypedNow DEF DeleteInvitation, InvitesTyped
    <3>2. \A j \in InviteIds : invitations'[j] # NoRow =>
              /\ j \in Invites /\ invitations'[j].invitedBy = invitations[j].invitedBy
              /\ invitations'[j].company = invitations[j].company
      BY <1>2, TypedNow DEF DeleteInvitation, InvitesTyped, Invites
    <3> QED
      BY <1>2, <3>1, <3>2, Rewritten DEF DeleteInvitation
  <2> QED
    BY <1>2, <2>1, OtherStep, TypedNow, HistoryStays DEF DeleteInvitation
<1> QED
  BY <1>1, <1>2 DEF Accept, Status

LEMMA ResendSteps ==
    ASSUME TypeInv, NEW r \in Requests,
           (\E i \in InviteIds : ResendRead(r, i)) \/ ResendWrite(r) \/ ResendGone(r)
    PROVE  TypeInv'
<1>1. ASSUME NEW i \in InviteIds, ResendRead(r, i) PROVE TypeInv'
  <2> PICK q : q = [pc |-> "resend", invite |-> i]
    OBVIOUS
  <2>1. q \in Request /\ InviterKnown(q)
    BY RequestMade DEF InviterKnown, OnboardingPCs
  <2> QED
    BY <1>1, <2>1, ReadStep DEF ResendRead
<1>2. ASSUME ResendWrite(r) PROVE TypeInv'
  <2> PICK i : i = request[r].invite
    OBVIOUS
  <2>1. i \in Invites /\ minted[i] \in 1 .. MaxResends
    BY <1>2 DEF ResendWrite
  <2> PICK row : row = [invitations[i] EXCEPT !.link = [invitation |-> i, n |-> minted[i]],
                                              !.expiresAt = clock + InviteTTL]
    OBVIOUS
  <2>2. /\ row \in Invitation /\ row.invitedBy = invitations[i].invitedBy
        /\ row.company = invitations[i].company
    <3>1. clock + InviteTTL \in Nat /\ minted[i] \in 0 .. MaxResends
      BY <2>1, TypedNow, RegistrationAssumption
    <3>2. [invitation |-> i, n |-> minted[i]] \in Link
      BY <2>1, <3>1 DEF Link, Invites
    <3> QED
      BY <2>1, <3>1, <3>2, InviteFields DEF Invitation
  <2>3. invitations \in [InviteIds -> Invitation \cup {NoRow}] /\ i \in InviteIds
    BY <2>1, TypedNow DEF InvitesTyped, Invites
  <2>4. invitations' = [invitations EXCEPT ![i] = row]
    BY <1>2, <2>3 DEF ResendWrite
  <2>5. UsersTyped' /\ Users' = Users
    BY <1>2, TypedNow, UsersStay DEF ResendWrite
  <2>6. InvitesTyped'
    <3>1. minted' \in [InviteIds -> 0 .. MaxResends + 1]
      <4>1. minted \in [InviteIds -> 0 .. MaxResends + 1]
        BY TypedNow DEF InvitesTyped
      <4>2. minted[i] + 1 \in 0 .. MaxResends + 1
        BY <2>1, RegistrationAssumption
      <4>3. minted' = [minted EXCEPT ![i] = minted[i] + 1]
        BY <1>2 DEF ResendWrite
      <4> QED
        BY <4>1, <4>2, <4>3
    <3>2. invitations' \in [InviteIds -> Invitation \cup {NoRow}]
      BY <2>2, <2>3, <2>4
    <3>3. \A j \in Invites' : Referred(invitations'[j])
      BY <2>1, <2>2, <2>3, <2>4, TypedNow DEF Invites, InvitesTyped, Referred
    <3> QED
      <4>1. companies' = companies
        BY <1>2 DEF ResendWrite, userVars
      <4> QED
        BY <2>5, <3>1, <3>2, <3>3, <4>1 DEF InvitesTyped, Referred
  <2> QED
    BY <1>2, <2>5, <2>6, DoneStep, TypedNow, HistoryStays DEF ResendWrite
<1>3. ASSUME ResendGone(r) PROVE TypeInv'
  BY <1>3, ReadStep, IdleStep, RequestMade DEF ResendGone, Done
<1> QED
  BY <1>1, <1>2, <1>3

LEMMA LookupSteps ==
    ASSUME TypeInv, NEW r \in Requests,
           \/ \E e \in Emails, link \in Sent \cup {NoLink} : RegisterFind(r, e, link)
           \/ RegisterLookup(r) \/ RegisterTaken(r)
    PROVE  TypeInv'
<1>1. ASSUME NEW e \in Emails, NEW link \in Sent \cup {NoLink}, RegisterFind(r, e, link)
      PROVE  TypeInv'
  <2> PICK q : q = [pc |-> IF link = NoLink THEN "insert" ELSE "lookup", email |-> e,
                    link |-> link, invite |-> NoInvite, inviter |-> NoInvite]
    OBVIOUS
  <2>1. q \in Request
    BY RequestMade DEF Registering, Sent
  <2>2. InviterKnown(q)
    BY RegistrationAssumption DEF InviterKnown
  <2> QED
    BY <1>1, <2>1, <2>2, ReadStep DEF RegisterFind
<1>2. ASSUME RegisterLookup(r) PROVE TypeInv'
  <2> PICK q : q = request[r]
    OBVIOUS
  <2>0. q \in Registering
    BY <1>2, Holds, RequestFields DEF RegisterLookup, At
  <2>1. UNCHANGED <<clock, userVars, invitations, minted, history>>
    BY <1>2 DEF RegisterLookup
  <2>2. ASSUME NEW i \in Invites,
               Become(r, [q EXCEPT !.pc = "insert", !.link = NoLink, !.invite = i,
                                   !.inviter = invitations[i].invitedBy])
        PROVE  TypeInv'
    <3> PICK s : s = [q EXCEPT !.pc = "insert", !.link = NoLink, !.invite = i,
                               !.inviter = invitations[i].invitedBy]
      OBVIOUS
    <3>1. s \in Registering /\ s.inviter \in UserIds
      BY <2>0, InviteFields DEF Registering
    <3> QED
      BY <2>1, <2>2, <3>1, ReadStep, RequestMade DEF InviterKnown
  <2>3. ASSUME NEW i \in Invites, Become(r, [pc |-> "expire", invite |-> i]) PROVE TypeInv'
    <3> PICK s : s = [pc |-> "expire", invite |-> i]
      OBVIOUS
    <3>1. s \in Request /\ InviterKnown(s)
      BY RequestMade DEF Invites, InviterKnown, OnboardingPCs
    <3> QED
      BY <2>1, <2>3, <3>1, ReadStep
  <2>4. ASSUME Done(r) PROVE TypeInv'
    BY <2>1, <2>4, ReadStep, IdleStep, RequestMade DEF Done
  <2> QED
    BY <1>2, <2>2, <2>3, <2>4 DEF RegisterLookup, findByToken
<1>3. ASSUME RegisterTaken(r) PROVE TypeInv'
  BY <1>3, ReadStep, IdleStep, RequestMade DEF RegisterTaken, Done
<1> QED
  BY <1>1, <1>2, <1>3

\* A user inserted, by a registration or by an administrator.
LEMMA UserInserted ==
    ASSUME TypeInv, NEW u \in UserIds, NEW e \in Emails,
           email' = [email EXCEPT ![u] = e], born' = born \cup {u},
           UNCHANGED <<companies, freelancers, clients, relations, invitations, minted>>
    PROVE  UsersTyped' /\ InvitesTyped' /\ Users' = Users \cup {u}
<1>1. email' \in [UserIds -> Emails \cup {NoRow}] /\ Users' = Users \cup {u}
  BY RegistrationAssumption DEF TypeInv, TypeOK, Users
<1>2. UsersTyped'
  BY <1>1, TypedNow DEF UsersTyped
<1> QED
  BY <1>1, <1>2, InvitesStay, TypedNow

LEMMA RegisterInsertStep ==
    ASSUME TypeInv, NEW r \in Requests, NEW u \in UserIds, RegisterInsert(r, u)
    PROVE  /\ TypeInv'
           /\ \E q \in Onboarding : Become(r, q) /\ q.user = u /\ q.pc \in {"freelancer", "acceptUser"}
<1> PICK old : old = request[r]
  OBVIOUS
<1>1. old \in Registering /\ old.pc = "insert" /\ InviterKnown(old)
  BY Holds, RequestFields DEF RegisterInsert, At
<1> PICK q : q = [pc |-> IF old.invite = NoInvite THEN "freelancer" ELSE "acceptUser",
                  user |-> u, email |-> old.email, invite |-> old.invite,
                  inviter |-> old.inviter]
  OBVIOUS
<1>2. q \in Onboarding /\ q.user = u /\ q.pc \in {"freelancer", "acceptUser"}
  BY <1>1 DEF Registering, Onboarding
<1>3. InviterKnown(q)
  BY <1>1 DEF InviterKnown
<1>4. Become(r, q) /\ UNCHANGED <<clock, history>>
  BY DEF RegisterInsert
<1>5. UsersTyped' /\ InvitesTyped'
  BY <1>1, UserInserted DEF RegisterInsert, Registering
<1> QED
  BY <1>2, <1>3, <1>4, <1>5, CallStep, RequestMade, TypedNow, HistoryStays

LEMMA AcceptSteps ==
    ASSUME TypeInv, NEW r \in Requests,
           AcceptReadUser(r) \/ AcceptReadInvite(r) \/ AcceptWrite(r)
    PROVE  TypeInv'
<1>0. request[r].pc \in {"acceptUser", "acceptInvite", "acceptWrite"}
  BY DEF AcceptReadUser, AcceptReadInvite, AcceptWrite, At
<1>1. request[r] \in Onboarding /\ InviterKnown(request[r])
  BY <1>0, Holds, RequestFields DEF OnboardingPCs
<1>2. CASE Abort(r)
  BY <1>0, <1>2, AbortStep DEF OnboardingPCs
<1>3. ASSUME AcceptReadUser(r), ~ Abort(r) PROVE TypeInv'
  <2> PICK u : u = request[r].user
    OBVIOUS
  <2> PICK q : q = [request[r] EXCEPT !.pc = "acceptInvite", !.email = email[u]]
    OBVIOUS
  <2>0. u \in Users /\ request' = [request EXCEPT ![r].pc = "acceptInvite", ![r].email = email[u]]
    BY <1>3 DEF AcceptReadUser
  <2>1. email[u] \in Emails
    BY <2>0, TypedNow DEF UsersTyped, Users
  <2>2. q \in Onboarding /\ q.invite = request[r].invite /\ q.inviter = request[r].inviter
    BY <1>1, <2>1 DEF Onboarding
  <2>3. InviterKnown(q)
    BY <1>0, <1>1, <2>2 DEF InviterKnown, OnboardingPCs
  <2>4. Become(r, q)
    BY <2>0 DEF Become, TypeInv, TypeOK
  <2> QED
    BY <1>3, <2>2, <2>3, <2>4, ReadStep, RequestMade DEF AcceptReadUser
<1>4. ASSUME AcceptReadInvite(r), ~ Abort(r) PROVE TypeInv'
  <2>1. Next1(r, "acceptWrite") /\ UNCHANGED <<clock, userVars, invitations, minted, history>>
    BY <1>4 DEF AcceptReadInvite
  <2>2. PICK q \in Onboarding : Become(r, q) /\ InviterKnown(q)
    BY <1>0, <2>1, GoesOn DEF OnboardingPCs
  <2> QED
    BY <2>1, <2>2, ReadStep, RequestMade
<1>5. ASSUME AcceptWrite(r), ~ Abort(r) PROVE TypeInv'
  <2>1. /\ request[r].invite \in Invites /\ SetStatus(request[r].invite, "ACCEPTED")
        /\ Next1(r, "role") /\ UNCHANGED <<clock, userVars, minted, signedIn, provisioned, cut>>
    BY <1>5 DEF AcceptWrite
  <2>2. UsersTyped' /\ InvitesTyped'
    BY <2>1, StatusSet, Rewritten DEF Status
  <2>3. HistoryTyped'
    <3>1. request[r].inviter \in UserIds /\ request[r].invite \in InviteIds
      BY <1>0, <1>1, <2>1 DEF InviterKnown, Invites, OnboardingPCs
    <3>2. [invite |-> request[r].invite, invited |-> Lower[invitations[request[r].invite].email],
           inviter |-> request[r].inviter, user |-> request[r].user,
           email |-> Lower[request[r].email]] \in Acceptance
      BY <1>1, <2>1, <3>1, InviteFields, RegistrationAssumption DEF Acceptance, Onboarding
    <3>3. accepted' \in SUBSET Acceptance
      BY <1>5, <2>1, <3>2, TypedNow DEF AcceptWrite, HistoryTyped, Abort
    <3> QED
      BY <2>1, <3>3, TypedNow DEF HistoryTyped
  <2>4. PICK q \in Onboarding : Become(r, q) /\ InviterKnown(q)
    BY <1>0, <2>1, GoesOn DEF OnboardingPCs
  <2> QED
    BY <2>1, <2>2, <2>3, <2>4, CallStep, RequestMade
<1> QED
  BY <1>2, <1>3, <1>4, <1>5

\* A step that adds profiles or relations of users that exist.
LEMMA Provided ==
    ASSUME TypeInv, UNCHANGED <<companies, email, born, invitations, minted>>,
           freelancers' \subseteq Users, clients' \subseteq Users,
           relations' \subseteq freelancers' \X clients'
    PROVE  UsersTyped' /\ InvitesTyped'
<1>1. Users' = Users /\ Users \subseteq UserIds
  BY DEF Users
<1>2. relations' \in SUBSET (UserIds \X UserIds)
  BY <1>1
<1>3. UsersTyped'
  BY <1>1, <1>2, TypedNow DEF UsersTyped
<1> QED
  BY <1>1, <1>3, TypedNow, InvitesStay

LEMMA OnboardingSteps ==
    ASSUME TypeInv, NEW r \in Requests,
           AddRole(r) \/ SetupClient(r) \/ CreateFreelancer(r) \/ RegisterSession(r)
    PROVE  TypeInv'
<1>0. request[r].pc \in {"role", "client", "freelancer", "session"}
  BY DEF AddRole, SetupClient, CreateFreelancer, RegisterSession, At
<1>1. request[r].user \in UserIds
  BY <1>0, Holds, RequestFields DEF OnboardingPCs, Onboarding
<1> PICK u : u = request[r].user
  OBVIOUS
<1>2. CASE Abort(r)
  BY <1>0, <1>2, AbortStep DEF OnboardingPCs
<1>3. UsersTyped /\ HistoryTyped
  BY TypedNow
<1>4. ASSUME AddRole(r), ~ Abort(r) PROVE TypeInv'
  <2>1. Next1(r, "client") /\ UNCHANGED <<clock, userVars, invitations, minted, history>>
    BY <1>4 DEF AddRole
  <2>2. PICK q \in Onboarding : Become(r, q) /\ InviterKnown(q)
    BY <1>0, <2>1, GoesOn DEF OnboardingPCs
  <2> QED
    BY <2>1, <2>2, ReadStep, RequestMade
<1>5. ASSUME SetupClient(r), ~ Abort(r) PROVE TypeInv'
  <2>1. /\ u \in Users /\ clients' = clients \cup {u}
        /\ relations' = IF isFreelancer(request[r].inviter)
                        THEN relations \cup {<<request[r].inviter, u>>} ELSE relations
        /\ Next1(r, "session") /\ UNCHANGED <<clock, companies, email, born, freelancers,
                                             invitations, minted, history>>
    BY <1>5 DEF SetupClient
  <2>2. relations' \subseteq freelancers \X clients'
    BY <1>3, <2>1 DEF UsersTyped, isFreelancer
  <2>3. UsersTyped' /\ InvitesTyped'
    BY <1>3, <2>1, <2>2, Provided DEF UsersTyped
  <2>4. PICK q \in Onboarding : Become(r, q) /\ InviterKnown(q)
    BY <1>0, <2>1, GoesOn DEF OnboardingPCs
  <2> QED
    BY <1>3, <2>1, <2>3, <2>4, CallStep, RequestMade, HistoryStays
<1>6. ASSUME CreateFreelancer(r), ~ Abort(r) PROVE TypeInv'
  <2>1. /\ u \in Users /\ freelancers' = freelancers \cup {u}
        /\ Next1(r, "session") /\ UNCHANGED <<clock, companies, email, born, clients, relations,
                                             invitations, minted, history>>
    BY <1>6 DEF CreateFreelancer
  <2>2. relations' \subseteq freelancers' \X clients'
    BY <1>3, <2>1 DEF UsersTyped
  <2>3. UsersTyped' /\ InvitesTyped'
    BY <1>3, <2>1, <2>2, Provided DEF UsersTyped
  <2>4. PICK q \in Onboarding : Become(r, q) /\ InviterKnown(q)
    BY <1>0, <2>1, GoesOn DEF OnboardingPCs
  <2> QED
    BY <1>3, <2>1, <2>3, <2>4, CallStep, RequestMade, HistoryStays
<1>7. ASSUME RegisterSession(r), ~ Abort(r) PROVE TypeInv'
  <2>1. /\ u \in Users /\ signedIn' = signedIn \cup {u} /\ Done(r)
        /\ UNCHANGED <<clock, userVars, invitations, minted, accepted, provisioned, cut>>
    BY <1>7 DEF RegisterSession
  <2>2. HistoryTyped'
    BY <1>1, <1>3, <2>1 DEF HistoryTyped
  <2> QED
    BY <2>1, <2>2, DoneStep, TypedNow, UsersStay, InvitesStay DEF userVars
<1> QED
  BY <1>2, <1>4, <1>5, <1>6, <1>7

LEMMA CompanySteps ==
    ASSUME TypeInv, NEW r \in Requests,
           (\E u \in UserIds : CompanyFind(r, u)) \/ CompanyInsert(r)
    PROVE  TypeInv'
<1>1. ASSUME NEW u \in UserIds, CompanyFind(r, u) PROVE TypeInv'
  <2> PICK q : q = [pc |-> "company", user |-> u]
    OBVIOUS
  <2>1. q \in Request /\ InviterKnown(q)
    BY RequestMade DEF InviterKnown, OnboardingPCs
  <2> QED
    BY <1>1, <2>1, ReadStep DEF CompanyFind
<1>2. ASSUME CompanyInsert(r) PROVE TypeInv'
  <2>1. /\ clients \subseteq clients' /\ clients' \subseteq Users
        /\ Done(r) /\ UNCHANGED <<clock, companies, email, born, freelancers, relations,
                                 invitations, minted, history>>
    BY <1>2, TypedNow DEF CompanyInsert, UsersTyped
  <2>2. UsersTyped' /\ InvitesTyped'
    BY <2>1, Provided, TypedNow DEF UsersTyped
  <2> QED
    BY <2>1, <2>2, DoneStep, TypedNow, HistoryStays
<1> QED
  BY <1>1, <1>2

LEMMA UserSteps ==
    ASSUME TypeInv, NEW u \in UserIds,
           (\E e \in Emails : CreateUser(u, e) \/ UpdateEmail(u, e)) \/ DeleteUser(u)
    PROVE  TypeInv'
<1>1. ASSUME NEW e \in Emails, CreateUser(u, e) PROVE TypeInv'
  <2>1. UsersTyped' /\ InvitesTyped'
    BY <1>1, UserInserted DEF CreateUser
  <2>2. HistoryTyped'
    BY <1>1, TypedNow DEF CreateUser, HistoryTyped
  <2> QED
    BY <1>1, <2>1, <2>2, OtherStep, TypedNow DEF CreateUser
<1>2. ASSUME NEW e \in Emails, UpdateEmail(u, e) PROVE TypeInv'
  <2>1. email' \in [UserIds -> Emails \cup {NoRow}] /\ Users' = Users
    BY <1>2, RegistrationAssumption DEF UpdateEmail, TypeInv, TypeOK, Users
  <2>2. UsersTyped'
    BY <1>2, <2>1, TypedNow DEF UpdateEmail, UsersTyped
  <2>3. InvitesTyped'
    BY <1>2, <2>1, InvitesStay, TypedNow DEF UpdateEmail
  <2> QED
    BY <1>2, <2>2, <2>3, OtherStep, TypedNow, HistoryStays DEF UpdateEmail
<1>3. ASSUME DeleteUser(u) PROVE TypeInv'
  <2>1. email' \in [UserIds -> Emails \cup {NoRow}] /\ Users' = Users \ {u}
    BY <1>3, TypedNow DEF DeleteUser, UsersTyped, Users
  <2>2. relations' \subseteq freelancers' \X clients'
    <3>1. ASSUME NEW p \in relations' PROVE p \in freelancers' \X clients'
      BY <1>3, <3>1, TypedNow DEF DeleteUser, UsersTyped
    <3> QED
      BY <3>1
  <2>3. UsersTyped'
    <3>1. /\ born' \in SUBSET UserIds /\ companies' \in SUBSET Companies
          /\ freelancers' \in SUBSET UserIds /\ clients' \in SUBSET UserIds
          /\ freelancers' \cup clients' \subseteq Users'
      BY <1>3, <2>1, TypedNow DEF DeleteUser, UsersTyped
    <3> QED
      BY <2>1, <2>2, <3>1 DEF UsersTyped
  <2>4. InvitesTyped'
    <3>1. invitations' \in [InviteIds -> Invitation \cup {NoRow}]
      BY <1>3, TypedNow DEF DeleteUser, InvitesTyped
    <3>2. \A i \in Invites' : /\ invitations'[i].invitedBy \in Users'
                             /\ invitations'[i].company \in companies' \cup {NoCompany}
      BY <1>3, <2>1, TypedNow DEF DeleteUser, InvitesTyped, Invites, Referred
    <3>3. minted' \in [InviteIds -> 0 .. MaxResends + 1]
      BY <1>3, TypedNow DEF DeleteUser, InvitesTyped
    <3> QED
      BY <3>1, <3>2, <3>3 DEF InvitesTyped, Referred
  <2> QED
    BY <1>3, <2>3, <2>4, OtherStep, TypedNow, HistoryStays DEF DeleteUser
<1> QED
  BY <1>1, <1>2, <1>3

\* ON DELETE SET NULL.
LEMMA CompanyDeleted ==
    ASSUME TypeInv, NEW c \in Companies, DeleteCompany(c)
    PROVE  /\ Invites' = Invites
           /\ invitations' \in [InviteIds -> Invitation \cup {NoRow}]
           /\ \A i \in Invites :
                 /\ invitations'[i].email = invitations[i].email
                 /\ invitations'[i].invitedBy = invitations[i].invitedBy
                 /\ invitations'[i].company \in companies' \cup {NoCompany}
<1> DEFINE row(i) == [invitations[i] EXCEPT !.company = NoCompany]
<1>1. ASSUME NEW i \in Invites
      PROVE  /\ row(i) \in Invitation /\ row(i) # NoRow
             /\ row(i).email = invitations[i].email
             /\ row(i).invitedBy = invitations[i].invitedBy /\ row(i).company = NoCompany
  BY InviteFields, RegistrationAssumption DEF Invitation
<1>2. \A i \in InviteIds :
         invitations'[i] = IF i \in Invites /\ invitations[i].company = c
                           THEN row(i) ELSE invitations[i]
  BY DEF DeleteCompany
<1> HIDE DEF row
<1>3. Invites' = Invites
  BY <1>1, <1>2 DEF Invites
<1>4. invitations' \in [InviteIds -> Invitation \cup {NoRow}]
  BY <1>1, <1>2, TypedNow DEF DeleteCompany, InvitesTyped
<1>5. \A i \in Invites : invitations[i].company \in companies \cup {NoCompany}
  BY TypedNow DEF InvitesTyped, Referred
<1> QED
  BY <1>1, <1>2, <1>3, <1>4, <1>5, InviteFields DEF DeleteCompany

LEMMA CompanyDeletedStep ==
    ASSUME TypeInv, NEW c \in Companies, DeleteCompany(c)
    PROVE  TypeInv'
<1>1. Users' = Users /\ UsersTyped'
  BY TypedNow DEF DeleteCompany, UsersTyped, Users
<1>2. InvitesTyped'
  <2>1. minted' \in [InviteIds -> 0 .. MaxResends + 1]
    BY TypedNow DEF DeleteCompany, InvitesTyped
  <2>2. \A i \in Invites' : /\ invitations'[i].invitedBy \in Users'
                           /\ invitations'[i].company \in companies' \cup {NoCompany}
    BY <1>1, CompanyDeleted, InviteFields
  <2> QED
    BY <2>1, <2>2, CompanyDeleted DEF InvitesTyped, Referred
<1> QED
  BY <1>1, <1>2, OtherStep, TypedNow, HistoryStays DEF DeleteCompany

LEMMA ClockSteps == TypeInv /\ (Tick \/ Restart) => TypeInv'
<1>1. ASSUME TypeInv, Tick PROVE TypeInv'
  <2>1. clock' \in 0 .. MaxTime
    BY <1>1, TypedNow, RegistrationAssumption DEF Tick
  <2> QED
    BY <1>1, <2>1, OtherStep, TypedNow, UsersStay, InvitesStay, HistoryStays DEF Tick, userVars
<1>2. ASSUME TypeInv, Restart PROVE TypeInv'
  <2>1. \A r \in Requests : request'[r] = Idle
    BY <1>2 DEF Restart
  <2>2. request' = [r \in Requests |-> request'[r]]
    BY <1>2 DEF Restart
  <2>3. {request[r].user : r \in InFlight} \subseteq UserIds
    BY <1>2, Holds, RequestFields DEF InFlight, Onboarding
  <2>4. HistoryTyped'
    BY <1>2, <2>3, TypedNow DEF Restart, HistoryTyped
  <2>5. UsersTyped' /\ InvitesTyped' /\ clock' \in 0 .. MaxTime
    BY <1>2, TypedNow, UsersStay, InvitesStay DEF Restart, userVars
  <2> QED
    BY <1>2, <2>1, <2>2, <2>4, <2>5, TypeInvKept, IdleStep, RequestMade
<1> QED
  BY <1>1, <1>2

LEMMA TypeInvNext == TypeInv /\ [Next]_vars => TypeInv'
<1>1. ASSUME TypeInv, Next PROVE TypeInv'
  BY <1>1, InviteSteps, ExpireSteps, InvitationSteps, ResendSteps, LookupSteps,
     RegisterInsertStep, AcceptSteps, OnboardingSteps, CompanySteps, UserSteps, ClockSteps,
     CompanyDeletedStep, RegistrationAssumption DEF Next
<1>2. ASSUME TypeInv, UNCHANGED vars PROVE TypeInv'
  BY <1>2, OtherStep, TypedNow, UsersStay, InvitesStay, HistoryStays DEF vars, userVars
<1> QED
  BY <1>1, <1>2

\* Whatever is cut short, removed or overtaken, no row refers to a row that is
\* gone: profiles to users, relations to profiles, invitations to their
\* inviters and companies; and no call holds what its next statement cannot use.
THEOREM NoOrphanedInvitations == Spec => []TypeOK
<1>1. Spec => []TypeInv
  BY TypeOKInit, TypeInvNext, PTL DEF Spec
<1>2. TypeInv => TypeOK
  BY DEF TypeInv
<1> QED
  BY <1>1, <1>2, PTL

-----------------------------------------------------------------------------
(* The three invariants.  What a call has read stays true only in part: the *)
(* invitation it is to accept may be rewritten or gone, the user deleted;   *)
(* CallRight says what is left at each statement.                           *)

Onboarded(u) == u \in freelancers \/ (u \in clients /\ \E a \in accepted : a.user = u)

CallRight(q) ==
    /\ q.pc \in OnboardingPCs => q.user \in born
    /\ q.pc = "acceptWrite" =>
          /\ q.invite \in InviteIds /\ minted[q.invite] # 0
          /\ q.invite \in Invites => sameAddress(invitations[q.invite].email, q.email)
    /\ q.pc \in {"role", "client"} =>
          \E a \in accepted : /\ a.inviter = q.inviter /\ a.user = q.user
                              /\ a.invited = a.email
    /\ q.pc = "session" /\ q.user \in Users => Onboarded(q.user)

OnboardingInv ==
    /\ RelationsFromInvitations
    /\ EveryAccountAccountedFor
    /\ SignedInMeansOnboarded
    /\ Users \cup signedIn \subseteq born
    /\ \A i \in Invites : minted[i] # 0
    /\ \A r \in Requests : CallRight(request[r])

\* A removed invitation never comes back, and its address never changes.
InvitesGrow ==
    /\ \A i \in InviteIds : minted[i] # 0 => minted'[i] # 0
    /\ \A i \in Invites' :
          /\ minted'[i] # 0
          /\ minted[i] # 0 => i \in Invites /\ invitations'[i].email = invitations[i].email

\* A removed user never comes back, and those that stay keep their profiles.
Grows ==
    /\ InvitesGrow
    /\ born \subseteq born' /\ accepted \subseteq accepted'
    /\ provisioned \subseteq provisioned' /\ cut \subseteq cut'
    /\ Users' \cap born \subseteq Users
    /\ freelancers \cap Users' \subseteq freelancers' /\ clients \cap Users' \subseteq clients'
    /\ Users' \cup signedIn' \subseteq born'

\* What a step adds is right.
AddsRight ==
    /\ \A p \in relations' : p \notin relations =>
          \E a \in accepted' : /\ a.inviter = p[1] /\ a.user = p[2]
                               /\ a.invited = a.email
    /\ \A u \in signedIn' : u \notin signedIn /\ u \in Users' => Onboarded(u)'
    /\ \A u \in Users' : u \notin Users =>
          u \in provisioned' \/ \E r \in InFlight' : request'[r].user = u

\* A call that is onboarding u goes on, or u needs it no longer.
Attended(r) ==
    \/ r \in InFlight' /\ request'[r].user = request[r].user
    \/ request[r].user \in freelancers' \cup clients' \cup cut'
    \/ request[r].user \notin Users'

LEMMA OnboardedStays ==
    ASSUME OnboardingInv, Grows, NEW u \in born, Onboarded(u), u \in Users'
    PROVE  Onboarded(u)'
  BY DEF Grows, Onboarded

LEMMA CallRightStays ==
    ASSUME TypeInv, OnboardingInv, Grows, NEW q \in Request, CallRight(q)
    PROVE  CallRight(q)'
<1>1. q.pc \in OnboardingPCs => q.user \in born'
  BY DEF CallRight, Grows
<1>2. ASSUME q.pc = "acceptWrite"
      PROVE  /\ q.invite \in InviteIds /\ minted'[q.invite] # 0
             /\ q.invite \in Invites' => sameAddress(invitations'[q.invite].email, q.email)
  <2>1. q.invite \in InviteIds /\ minted[q.invite] # 0
    BY <1>2 DEF CallRight
  <2>2. q.invite \in Invites => sameAddress(invitations[q.invite].email, q.email)
    BY <1>2 DEF CallRight
  <2> QED
    BY <2>1, <2>2 DEF Grows, InvitesGrow
<1>3. q.pc \in {"role", "client"} =>
        \E a \in accepted' : /\ a.inviter = q.inviter /\ a.user = q.user
                             /\ a.invited = a.email
  BY DEF CallRight, Grows
<1>4. ASSUME q.pc = "session", q.user \in Users' PROVE Onboarded(q.user)'
  <2>1. q.user \in born
    BY <1>4 DEF CallRight, OnboardingPCs
  <2>2. q.user \in Users
    BY <1>4, <2>1 DEF Grows
  <2> QED
    BY <1>4, <2>1, <2>2, OnboardedStays DEF CallRight
<1> QED
  BY <1>1, <1>2, <1>3, <1>4 DEF CallRight, sameAddress

LEMMA OnboardingKept ==
    ASSUME TypeInv, OnboardingInv, Grows, AddsRight,
           \A r \in Requests : request'[r] = request[r] \/ CallRight(request[r])',
           \A r \in InFlight : Attended(r)
    PROVE  OnboardingInv'
<1>1. RelationsFromInvitations'
  BY DEF OnboardingInv, RelationsFromInvitations, AddsRight, Grows
<1>2. EveryAccountAccountedFor'
  <2> SUFFICES ASSUME NEW u \in Users'
               PROVE  \/ u \in freelancers' \cup clients' \cup provisioned' \cup cut'
                      \/ \E r \in InFlight' : request'[r].user = u
    BY DEF EveryAccountAccountedFor
  <2>1. CASE u \notin Users
    BY <2>1 DEF AddsRight
  <2>2. CASE u \in freelancers \cup clients \cup provisioned \cup cut
    BY <2>2 DEF Grows
  <2>3. CASE \E r \in InFlight : request[r].user = u
    BY <2>3 DEF Attended
  <2> QED
    BY <2>1, <2>2, <2>3 DEF OnboardingInv, EveryAccountAccountedFor
<1>3. SignedInMeansOnboarded'
  <2> SUFFICES ASSUME NEW u \in signedIn', u \in Users' PROVE Onboarded(u)'
    BY DEF SignedInMeansOnboarded, Onboarded
  <2>1. CASE u \notin signedIn
    BY <2>1 DEF AddsRight
  <2>2. CASE u \in signedIn
    <3>1. u \in born /\ u \in Users
      BY <2>2 DEF OnboardingInv, Grows
    <3>2. Onboarded(u)
      BY <2>2, <3>1 DEF OnboardingInv, SignedInMeansOnboarded, Onboarded
    <3> QED
      BY <3>1, <3>2, OnboardedStays
  <2> QED
    BY <2>1, <2>2
<1>4. (Users \cup signedIn \subseteq born)' /\ (\A i \in Invites : minted[i] # 0)'
  BY DEF Grows, InvitesGrow
<1>5. ASSUME NEW r \in Requests PROVE CallRight(request[r])'
  <2>1. CASE request'[r] = request[r]
    <3> PICK q : q = request[r]
      OBVIOUS
    <3>1. q \in Request /\ CallRight(q)
      BY Holds DEF OnboardingInv
    <3>2. CallRight(q)'
      BY <3>1, CallRightStays
    <3>3. q = request'[r]
      BY <2>1
    <3> QED
      BY <3>2, <3>3 DEF CallRight
  <2> QED
    BY <2>1
<1> QED
  BY <1>1, <1>2, <1>3, <1>4, <1>5 DEF OnboardingInv

\* A step of one call, and a step of none.
LEMMA OneCallKeeps ==
    ASSUME TypeInv, OnboardingInv, NEW r \in Requests, NEW q, Become(r, q),
           Grows, AddsRight, CallRight(q)', r \in InFlight => Attended(r)
    PROVE  OnboardingInv'
<1>1. request'[r] = q /\ \A s \in Requests \ {r} : request'[s] = request[s]
  BY BecomeRequest
<1>2. \A s \in InFlight : Attended(s)
  BY <1>1 DEF InFlight, Attended
<1>3. \A s \in Requests : request'[s] = request[s] \/ CallRight(request[s])'
  BY <1>1 DEF CallRight
<1> QED
  BY <1>2, <1>3, OnboardingKept

LEMMA NoCallKeeps ==
    ASSUME TypeInv, OnboardingInv, UNCHANGED request, Grows, AddsRight
    PROVE  OnboardingInv'
<1>1. \A s \in InFlight : Attended(s)
  BY DEF InFlight, Attended
<1> QED
  BY <1>1, OnboardingKept

LEMMA InvitesGrowUnchanged ==
    OnboardingInv /\ UNCHANGED <<invitations, minted>> => InvitesGrow
  BY DEF OnboardingInv, InvitesGrow, Invites

\* Steps that change no table but the invitations.
LEMMA TablesKeep ==
    ASSUME OnboardingInv, InvitesGrow, cut \subseteq cut',
           UNCHANGED <<userVars, accepted, signedIn, provisioned>>
    PROVE  Grows /\ AddsRight
<1>1. Users' = Users
  BY DEF userVars, Users
<1> QED
  BY <1>1 DEF OnboardingInv, Grows, AddsRight, userVars

LEMMA NotOnboarding ==
    ASSUME NEW q, q.pc \notin OnboardingPCs PROVE CallRight(q)'
  BY DEF CallRight, OnboardingPCs

\* A call that is not a registration past its insert.
LEMMA ElsewhereKeeps ==
    ASSUME TypeInv, OnboardingInv, NEW r \in Requests, NEW q, Become(r, q),
           request[r].pc \notin OnboardingPCs, q.pc \notin OnboardingPCs,
           InvitesGrow, UNCHANGED <<userVars, history>>
    PROVE  OnboardingInv'
<1>1. Grows /\ AddsRight
  BY TablesKeep DEF history
<1> QED
  BY <1>1, OneCallKeeps, NotOnboarding DEF InFlight

LEMMA ElsewhereDone ==
    ASSUME TypeInv, OnboardingInv, NEW r \in Requests, Done(r),
           request[r].pc \notin OnboardingPCs,
           InvitesGrow, UNCHANGED <<userVars, history>>
    PROVE  OnboardingInv'
  BY ElsewhereKeeps DEF Done, Idle, OnboardingPCs

LEMMA InviteKeeps ==
    ASSUME TypeInv, OnboardingInv, NEW r \in Requests,
           \/ \E u \in UserIds, e \in Emails, c \in Companies \cup {NoCompany} :
                 InviteCheck(r, u, e, c)
           \/ \E i \in InviteIds : InviteInsert(r, i) \/ ResendRead(r, i)
           \/ InviteOrphaned(r) \/ ResendWrite(r) \/ ResendGone(r)
    PROVE  OnboardingInv'
<1>0. \A pc \in {"idle", "invite", "resend"} : pc \notin OnboardingPCs
  BY DEF OnboardingPCs
<1>1. ASSUME NEW u \in UserIds, NEW e \in Emails, NEW c \in Companies \cup {NoCompany},
             InviteCheck(r, u, e, c)
      PROVE  OnboardingInv'
  <2> PICK q : q = [pc |-> "invite", row |-> [email |-> e, by |-> u, company |-> c]]
    OBVIOUS
  <2> QED
    BY <1>0, <1>1, ElsewhereKeeps, InvitesGrowUnchanged DEF InviteCheck, At
<1>2. ASSUME NEW i \in InviteIds, InviteInsert(r, i) PROVE OnboardingInv'
  <2>1. InvitesGrow
    <3>1. /\ \A j \in InviteIds \ {i} : invitations'[j] = invitations[j] /\ minted'[j] = minted[j]
          /\ minted'[i] = 1
      BY <1>2 DEF InviteInsert, TypeInv, TypeOK
    <3> QED
      BY <1>2, <3>1 DEF InviteInsert, InvitesGrow, Invites, OnboardingInv
  <2> QED
    BY <1>0, <1>2, <2>1, ElsewhereDone DEF InviteInsert, At
<1>3. ASSUME InviteOrphaned(r) PROVE OnboardingInv'
  BY <1>0, <1>3, ElsewhereDone, InvitesGrowUnchanged DEF InviteOrphaned, At
<1>4. ASSUME NEW i \in InviteIds, ResendRead(r, i) PROVE OnboardingInv'
  <2> PICK q : q = [pc |-> "resend", invite |-> i]
    OBVIOUS
  <2> QED
    BY <1>0, <1>4, ElsewhereKeeps, InvitesGrowUnchanged DEF ResendRead, At
<1>5. ASSUME ResendWrite(r) PROVE OnboardingInv'
  <2>1. InvitesGrow
    <3> PICK i : i = request[r].invite
      OBVIOUS
    <3>1. i \in Invites /\ minted[i] \in 1 .. MaxResends
      BY <1>5 DEF ResendWrite
    <3>2. invitations[i] \in Invitation
      BY <3>1, InviteFields
    <3>3. /\ \A j \in InviteIds \ {i} : invitations'[j] = invitations[j] /\ minted'[j] = minted[j]
          /\ invitations'[i].email = invitations[i].email
          /\ minted'[i] = minted[i] + 1
      BY <1>5, <3>1, <3>2 DEF ResendWrite, TypeInv, TypeOK, Invites, Invitation
    <3>4. minted'[i] # 0
      BY <3>1, <3>3, RegistrationAssumption
    <3> QED
      BY <3>1, <3>3, <3>4 DEF InvitesGrow, Invites, OnboardingInv
  <2> QED
    BY <1>0, <1>5, <2>1, ElsewhereDone DEF ResendWrite, At
<1>6. ASSUME ResendGone(r) PROVE OnboardingInv'
  BY <1>0, <1>6, ElsewhereDone, InvitesGrowUnchanged DEF ResendGone, At
<1> QED
  BY <1>1, <1>2, <1>3, <1>4, <1>5, <1>6

LEMMA StatusGrows ==
    ASSUME TypeInv, OnboardingInv, NEW i \in Invites, NEW status \in Status,
           SetStatus(i, status), UNCHANGED minted
    PROVE  InvitesGrow
  BY StatusSet DEF InvitesGrow, OnboardingInv, Invites

LEMMA ExpireKeeps ==
    ASSUME TypeInv, OnboardingInv, NEW r \in Requests,
           (\E link \in Sent : LookupExpired(r, link)) \/ ExpireWrite(r)
    PROVE  OnboardingInv'
<1>1. ASSUME NEW link \in Sent, LookupExpired(r, link) PROVE OnboardingInv'
  <2>1. PICK i \in Invites : Become(r, [pc |-> "expire", invite |-> i])
    BY <1>1 DEF LookupExpired, findByToken
  <2> PICK q : q = [pc |-> "expire", invite |-> i]
    OBVIOUS
  <2> QED
    BY <1>1, <2>1, ElsewhereKeeps, InvitesGrowUnchanged DEF LookupExpired, At, OnboardingPCs
<1>2. ASSUME ExpireWrite(r) PROVE OnboardingInv'
  <2>1. InvitesGrow
    BY <1>2, StatusGrows, InvitesGrowUnchanged DEF ExpireWrite, Status
  <2> QED
    BY <1>2, <2>1, ElsewhereDone DEF ExpireWrite, At, OnboardingPCs
<1> QED
  BY <1>1, <1>2

LEMMA InvitationKeeps ==
    ASSUME TypeInv, OnboardingInv, NEW i \in InviteIds,
           (\E status \in Status : Update(i, status)) \/ Accept(i) \/ DeleteInvitation(i)
    PROVE  OnboardingInv'
<1>1. InvitesGrow /\ UNCHANGED <<userVars, request, history>>
  <2>1. ASSUME NEW status \in Status, Update(i, status)
        PROVE  InvitesGrow /\ UNCHANGED <<userVars, request, history>>
    BY <2>1, StatusGrows DEF Update, Reachable
  <2>2. ASSUME DeleteInvitation(i)
        PROVE  InvitesGrow /\ UNCHANGED <<userVars, request, history>>
    <3>1. \A j \in InviteIds : invitations'[j] = invitations[j] \/ invitations'[j] = NoRow
      BY <2>2 DEF DeleteInvitation, TypeInv, TypeOK
    <3> QED
      BY <2>2, <3>1 DEF DeleteInvitation, InvitesGrow, Invites, OnboardingInv
  <2> QED
    BY <2>1, <2>2 DEF Accept, Status
<1>2. Grows /\ AddsRight
  BY <1>1, TablesKeep DEF history
<1> QED
  BY <1>1, <1>2, NoCallKeeps

LEMMA LookupKeeps ==
    ASSUME TypeInv, OnboardingInv, NEW r \in Requests,
           \/ \E e \in Emails, link \in Sent \cup {NoLink} : RegisterFind(r, e, link)
           \/ RegisterLookup(r) \/ RegisterTaken(r)
    PROVE  OnboardingInv'
<1>0. \A pc \in {"idle", "lookup", "insert", "expire"} : pc \notin OnboardingPCs
  BY DEF OnboardingPCs
<1>1. ASSUME NEW e \in Emails, NEW link \in Sent \cup {NoLink}, RegisterFind(r, e, link)
      PROVE  OnboardingInv'
  <2> PICK q : q = [pc |-> IF link = NoLink THEN "insert" ELSE "lookup", email |-> e,
                    link |-> link, invite |-> NoInvite, inviter |-> NoInvite]
    OBVIOUS
  <2> QED
    BY <1>0, <1>1, ElsewhereKeeps, InvitesGrowUnchanged DEF RegisterFind, At
<1>2. ASSUME RegisterLookup(r) PROVE OnboardingInv'
  <2> PICK q : q = request[r]
    OBVIOUS
  <2>0. q \in Registering /\ q.pc \notin OnboardingPCs
    BY <1>0, <1>2, Holds, RequestFields DEF RegisterLookup, At
  <2>1. InvitesGrow /\ UNCHANGED <<userVars, history>>
    BY <1>2, InvitesGrowUnchanged DEF RegisterLookup
  <2>2. ASSUME NEW i \in Invites,
               Become(r, [q EXCEPT !.pc = "insert", !.link = NoLink, !.invite = i,
                                   !.inviter = invitations[i].invitedBy])
        PROVE  OnboardingInv'
    <3> PICK s : s = [q EXCEPT !.pc = "insert", !.link = NoLink, !.invite = i,
                               !.inviter = invitations[i].invitedBy]
      OBVIOUS
    <3>1. s.pc = "insert"
      BY <2>0 DEF Registering
    <3> QED
      BY <1>0, <2>0, <2>1, <2>2, <3>1, ElsewhereKeeps
  <2>3. ASSUME NEW i \in Invites, Become(r, [pc |-> "expire", invite |-> i])
        PROVE  OnboardingInv'
    <3> PICK s : s = [pc |-> "expire", invite |-> i]
      OBVIOUS
    <3> QED
      BY <1>0, <2>0, <2>1, <2>3, ElsewhereKeeps
  <2>4. ASSUME Done(r) PROVE OnboardingInv'
    BY <2>0, <2>1, <2>4, ElsewhereDone
  <2> QED
    BY <1>2, <2>2, <2>3, <2>4 DEF RegisterLookup, findByToken
<1>3. ASSUME RegisterTaken(r) PROVE OnboardingInv'
  BY <1>0, <1>3, ElsewhereDone, InvitesGrowUnchanged DEF RegisterTaken, At
<1> QED
  BY <1>1, <1>2, <1>3

LEMMA RegisterInsertKeeps ==
    ASSUME TypeInv, OnboardingInv, NEW r \in Requests, NEW u \in UserIds, RegisterInsert(r, u)
    PROVE  OnboardingInv'
<1>1. PICK q \in Onboarding :
          Become(r, q) /\ q.user = u /\ q.pc \in {"freelancer", "acceptUser"}
  BY RegisterInsertStep
<1>2. request[r] \in Registering /\ request[r].pc = "insert"
  BY Holds, RequestFields DEF RegisterInsert, At
<1>3. Users' = Users \cup {u} /\ u \notin born /\ born' = born \cup {u}
  BY <1>2, UserInserted DEF RegisterInsert, Registering
<1>4. /\ InvitesGrow
      /\ UNCHANGED <<freelancers, clients, relations, history>>
  BY InvitesGrowUnchanged DEF RegisterInsert
<1>5. Grows
  BY <1>3, <1>4 DEF Grows, OnboardingInv, history
<1>6. request'[r] = q
  BY <1>1, BecomeRequest
<1>7. r \in InFlight' /\ request'[r].user = u
  BY <1>1, <1>6 DEF InFlight, OnboardingPCs
<1>8. AddsRight
  BY <1>3, <1>4, <1>7 DEF AddsRight, history
<1>9. CallRight(q)'
  BY <1>1, <1>3 DEF CallRight
<1> QED
  BY <1>1, <1>2, <1>5, <1>8, <1>9, OneCallKeeps DEF InFlight, OnboardingPCs

\* A registration past its insert that throws.
LEMMA AbortKeeps ==
    ASSUME TypeInv, OnboardingInv, NEW r \in Requests, Abort(r)
    PROVE  OnboardingInv'
<1>1. InvitesGrow /\ cut \subseteq cut' /\ request[r].user \in cut'
  BY InvitesGrowUnchanged DEF Abort
<1>2. Grows /\ AddsRight
  BY <1>1, TablesKeep DEF Abort
<1>3. CallRight(Idle)'
  BY DEF CallRight, Idle, OnboardingPCs
<1> QED
  BY <1>1, <1>2, <1>3, OneCallKeeps DEF Abort, Done, Attended

\* A registration past its insert that goes on to the statement pc.
LEMMA OnwardKeeps ==
    ASSUME TypeInv, OnboardingInv, NEW r \in Requests, NEW q \in Onboarding, Become(r, q),
           q.user = request[r].user, request[r].pc \in OnboardingPCs,
           Grows, AddsRight, CallRight(q)'
    PROVE  OnboardingInv'
<1>1. q.pc \in OnboardingPCs
  BY DEF Onboarding, OnboardingPCs
<1>2. request'[r] = q
  BY BecomeRequest
<1>3. Attended(r)
  BY <1>1, <1>2 DEF Attended, InFlight
<1> QED
  BY <1>3, OneCallKeeps

LEMMA BornWhileOnboarding ==
    ASSUME OnboardingInv, NEW r \in Requests, request[r].pc \in OnboardingPCs
    PROVE  request[r].user \in born
  BY DEF OnboardingInv, CallRight

LEMMA AcceptKeeps ==
    ASSUME TypeInv, OnboardingInv, NEW r \in Requests,
           AcceptReadUser(r) \/ AcceptReadInvite(r) \/ AcceptWrite(r)
    PROVE  OnboardingInv'
<1>0. request[r].pc \in {"acceptUser", "acceptInvite", "acceptWrite"}
  BY DEF AcceptReadUser, AcceptReadInvite, AcceptWrite, At
<1>1. request[r] \in Onboarding /\ request[r].user \in born /\ request[r].pc \in OnboardingPCs
  BY <1>0, Holds, RequestFields, BornWhileOnboarding DEF OnboardingPCs
<1>2. CASE Abort(r)
  BY <1>2, AbortKeeps
<1>3. ASSUME AcceptReadUser(r), ~ Abort(r) PROVE OnboardingInv'
  <2> PICK u : u = request[r].user
    OBVIOUS
  <2> PICK q : q = [request[r] EXCEPT !.pc = "acceptInvite", !.email = email[u]]
    OBVIOUS
  <2>0. /\ u \in Users
        /\ request' = [request EXCEPT ![r].pc = "acceptInvite", ![r].email = email[u]]
        /\ UNCHANGED <<clock, userVars, invitations, minted, history>>
    BY <1>3 DEF AcceptReadUser
  <2>1. email[u] \in Emails
    BY <2>0, TypedNow DEF UsersTyped, Users
  <2>2. q \in Onboarding /\ q.user = u /\ q.pc = "acceptInvite"
    BY <1>1, <2>1 DEF Onboarding
  <2>3. Become(r, q)
    BY <2>0 DEF Become, TypeInv, TypeOK
  <2>4. Grows /\ AddsRight
    BY <2>0, InvitesGrowUnchanged, TablesKeep DEF history
  <2>5. CallRight(q)'
    BY <1>1, <2>0, <2>2 DEF CallRight, userVars
  <2> QED
    BY <1>1, <2>2, <2>3, <2>4, <2>5, OnwardKeeps
<1>4. ASSUME AcceptReadInvite(r), ~ Abort(r) PROVE OnboardingInv'
  <2>1. /\ acceptable(request[r].invite, request[r].email) /\ Next1(r, "acceptWrite")
        /\ UNCHANGED <<clock, userVars, invitations, minted, history>>
    BY <1>4 DEF AcceptReadInvite
  <2>2. PICK q \in Onboarding :
            /\ Become(r, q) /\ q.pc = "acceptWrite" /\ q.user = request[r].user
            /\ q.email = request[r].email /\ q.invite = request[r].invite
    BY <1>1, <2>1, GoesOn DEF OnboardingPCs
  <2>3. Grows /\ AddsRight
    BY <2>1, InvitesGrowUnchanged, TablesKeep DEF history
  <2>4. q.invite \in Invites /\ sameAddress(invitations[q.invite].email, q.email)
    BY <2>1, <2>2 DEF acceptable
  <2>5. q.invite \in InviteIds /\ minted[q.invite] # 0
    BY <2>4 DEF OnboardingInv, Invites
  <2>6. CallRight(q)'
    BY <1>1, <2>1, <2>2, <2>4, <2>5 DEF CallRight, userVars, sameAddress
  <2> QED
    BY <1>1, <2>2, <2>3, <2>6, OnwardKeeps
<1>5. ASSUME AcceptWrite(r), ~ Abort(r) PROVE OnboardingInv'
  <2> PICK i, a : /\ i = request[r].invite
                  /\ a = [invite |-> i, invited |-> Lower[invitations[i].email],
                          inviter |-> request[r].inviter, user |-> request[r].user,
                          email |-> Lower[request[r].email]]
    OBVIOUS
  <2>1. /\ i \in Invites /\ SetStatus(i, "ACCEPTED") /\ accepted' = accepted \cup {a}
        /\ Next1(r, "role") /\ UNCHANGED <<clock, userVars, minted, signedIn, provisioned, cut>>
    BY <1>5 DEF AcceptWrite
  <2>2. a.invited = a.email
    BY <1>0, <1>5, <2>1 DEF AcceptWrite, At, OnboardingInv, CallRight, sameAddress
  <2>3. InvitesGrow
    BY <2>1, StatusGrows DEF Status
  <2>4. Users' = Users
    BY <2>1 DEF userVars, Users
  <2>5. Grows /\ AddsRight
    BY <2>1, <2>3, <2>4 DEF Grows, AddsRight, userVars, OnboardingInv
  <2>6. PICK q \in Onboarding :
            /\ Become(r, q) /\ q.pc = "role" /\ q.user = request[r].user
            /\ q.inviter = request[r].inviter
    BY <1>1, <2>1, GoesOn DEF OnboardingPCs
  <2>7. CallRight(q)'
    <3>1. a \in accepted' /\ a.inviter = q.inviter /\ a.user = q.user
          /\ a.invited = a.email
      BY <2>1, <2>2, <2>6
    <3>2. q.user \in born'
      BY <1>1, <2>1, <2>6 DEF userVars
    <3> QED
      BY <2>6, <3>1, <3>2 DEF CallRight
  <2> QED
    BY <1>1, <2>5, <2>6, <2>7, OnwardKeeps
<1> QED
  BY <1>2, <1>3, <1>4, <1>5

\* A step that provides for users that exist.
LEMMA ProvidedGrows ==
    ASSUME OnboardingInv, UNCHANGED <<email, born, invitations, minted>>,
           accepted' = accepted, provisioned' = provisioned, cut' = cut,
           freelancers \subseteq freelancers', clients \subseteq clients',
           signedIn' \subseteq born
    PROVE  Grows /\ Users' = Users
<1>1. Users' = Users /\ InvitesGrow
  BY InvitesGrowUnchanged DEF Users
<1> QED
  BY <1>1 DEF Grows, OnboardingInv

LEMMA OnboardingKeeps ==
    ASSUME TypeInv, OnboardingInv, NEW r \in Requests,
           AddRole(r) \/ SetupClient(r) \/ CreateFreelancer(r) \/ RegisterSession(r)
    PROVE  OnboardingInv'
<1>0. request[r].pc \in {"role", "client", "freelancer", "session"}
  BY DEF AddRole, SetupClient, CreateFreelancer, RegisterSession, At
<1>1. request[r] \in Onboarding /\ request[r].user \in born /\ request[r].pc \in OnboardingPCs
  BY <1>0, Holds, RequestFields, BornWhileOnboarding DEF OnboardingPCs
<1> PICK u, by : u = request[r].user /\ by = request[r].inviter
  OBVIOUS
<1>2. CASE Abort(r)
  BY <1>2, AbortKeeps
<1>3. signedIn \subseteq born /\ CallRight(request[r])
  BY DEF OnboardingInv
<1>4. request[r].pc \in {"role", "client"} =>
         \E a \in accepted : /\ a.inviter = by /\ a.user = u
                             /\ a.invited = a.email
  BY <1>3 DEF CallRight
<1>5. ASSUME AddRole(r), ~ Abort(r) PROVE OnboardingInv'
  <2>1. /\ Next1(r, "client") /\ UNCHANGED <<clock, userVars, invitations, minted, history>>
        /\ request[r].pc = "role"
    BY <1>5 DEF AddRole, At
  <2>2. PICK q \in Onboarding :
            /\ Become(r, q) /\ q.pc = "client" /\ q.user = u /\ q.inviter = by
    BY <1>1, <2>1, GoesOn DEF OnboardingPCs
  <2>3. Grows /\ AddsRight
    BY <2>1, InvitesGrowUnchanged, TablesKeep DEF history
  <2>4. CallRight(q)'
    BY <1>1, <1>4, <2>1, <2>2 DEF CallRight, history, userVars
  <2> QED
    BY <1>1, <2>2, <2>3, <2>4, OnwardKeeps
<1>6. ASSUME SetupClient(r), ~ Abort(r) PROVE OnboardingInv'
  <2>1. /\ u \in Users /\ clients' = clients \cup {u}
        /\ relations' = IF isFreelancer(by)
                        THEN relations \cup {<<by, u>>} ELSE relations
        /\ Next1(r, "session") /\ UNCHANGED <<clock, companies, email, born, freelancers,
                                             invitations, minted, history>>
        /\ request[r].pc = "client"
    BY <1>6 DEF SetupClient, At
  <2>2. PICK q \in Onboarding : Become(r, q) /\ q.pc = "session" /\ q.user = u
    BY <1>1, <2>1, GoesOn DEF OnboardingPCs
  <2>3. Grows /\ Users' = Users
    BY <1>3, <2>1, ProvidedGrows DEF history
  <2>4. PICK a \in accepted : /\ a.inviter = by /\ a.user = u
                              /\ a.invited = a.email
    BY <1>4, <2>1
  <2>5. ASSUME NEW p \in relations', p \notin relations
        PROVE  p[1] = by /\ p[2] = u
    BY <2>1, <2>5
  <2>6. AddsRight
    BY <2>1, <2>3, <2>4, <2>5 DEF AddsRight, history
  <2>7. CallRight(q)'
    BY <1>1, <2>1, <2>2, <2>4 DEF CallRight, Onboarded, history
  <2> QED
    BY <1>1, <2>2, <2>3, <2>6, <2>7, OnwardKeeps
<1>7. ASSUME CreateFreelancer(r), ~ Abort(r) PROVE OnboardingInv'
  <2>1. /\ u \in Users /\ freelancers' = freelancers \cup {u}
        /\ Next1(r, "session") /\ UNCHANGED <<clock, companies, email, born, clients, relations,
                                             invitations, minted, history>>
    BY <1>7 DEF CreateFreelancer
  <2>2. PICK q \in Onboarding : Become(r, q) /\ q.pc = "session" /\ q.user = u
    BY <1>1, <2>1, GoesOn DEF OnboardingPCs
  <2>3. Grows /\ Users' = Users
    BY <1>3, <2>1, ProvidedGrows DEF history
  <2>4. AddsRight
    BY <2>1, <2>3 DEF AddsRight, history
  <2>5. CallRight(q)'
    BY <1>1, <2>1, <2>2 DEF CallRight, Onboarded
  <2> QED
    BY <1>1, <2>2, <2>3, <2>4, <2>5, OnwardKeeps
<1>8. ASSUME RegisterSession(r), ~ Abort(r) PROVE OnboardingInv'
  <2>1. /\ u \in Users /\ signedIn' = signedIn \cup {u} /\ Done(r)
        /\ UNCHANGED <<clock, userVars, invitations, minted, accepted, provisioned, cut>>
        /\ request[r].pc = "session"
    BY <1>8 DEF RegisterSession, At
  <2>2. Grows /\ Users' = Users
    BY <1>1, <1>3, <2>1, ProvidedGrows DEF userVars
  <2>3. Onboarded(u) /\ Onboarded(u)'
    BY <1>3, <2>1 DEF CallRight, Onboarded, userVars
  <2>4. AddsRight
    BY <2>1, <2>2, <2>3 DEF AddsRight, userVars
  <2>5. CallRight(Idle)'
    BY DEF CallRight, Idle, OnboardingPCs
  <2>6. u \in freelancers' \cup clients'
    BY <2>3 DEF Onboarded
  <2> QED
    BY <2>1, <2>2, <2>4, <2>5, <2>6, OneCallKeeps DEF Done, Attended
<1> QED
  BY <1>2, <1>5, <1>6, <1>7, <1>8

LEMMA CompanyKeeps ==
    ASSUME TypeInv, OnboardingInv, NEW r \in Requests,
           (\E u \in UserIds : CompanyFind(r, u)) \/ CompanyInsert(r)
    PROVE  OnboardingInv'
<1>1. ASSUME NEW u \in UserIds, CompanyFind(r, u) PROVE OnboardingInv'
  <2>1. PICK q : q.pc = "company" /\ Become(r, q)
    BY <1>1 DEF CompanyFind
  <2> QED
    BY <1>1, <2>1, ElsewhereKeeps, InvitesGrowUnchanged DEF CompanyFind, At, OnboardingPCs
<1>2. ASSUME CompanyInsert(r) PROVE OnboardingInv'
  <2>1. /\ clients \subseteq clients' /\ Done(r) /\ request[r].pc = "company"
        /\ UNCHANGED <<clock, companies, email, born, freelancers, relations,
                       invitations, minted, history>>
    BY <1>2 DEF CompanyInsert, At
  <2>2. Grows /\ Users' = Users
    BY <2>1, ProvidedGrows DEF history, OnboardingInv
  <2>3. AddsRight
    BY <2>1, <2>2 DEF AddsRight, history
  <2>4. CallRight(Idle)'
    BY DEF CallRight, Idle, OnboardingPCs
  <2> QED
    BY <2>1, <2>2, <2>3, <2>4, OneCallKeeps DEF Done, InFlight, OnboardingPCs
<1> QED
  BY <1>1, <1>2

LEMMA UserKeeps ==
    ASSUME TypeInv, OnboardingInv, NEW u \in UserIds,
           (\E e \in Emails : CreateUser(u, e) \/ UpdateEmail(u, e)) \/ DeleteUser(u)
    PROVE  OnboardingInv'
<1>1. ASSUME NEW e \in Emails, CreateUser(u, e) PROVE OnboardingInv'
  <2>1. Users' = Users \cup {u}
    BY <1>1, UserInserted DEF CreateUser
  <2>2. InvitesGrow
    BY <1>1, InvitesGrowUnchanged DEF CreateUser
  <2>3. Grows /\ AddsRight
    BY <1>1, <2>1, <2>2 DEF CreateUser, Grows, AddsRight, OnboardingInv
  <2> QED
    BY <1>1, <2>3, NoCallKeeps DEF CreateUser
<1>2. ASSUME NEW e \in Emails, UpdateEmail(u, e) PROVE OnboardingInv'
  <2>1. Users' = Users
    BY <1>2, RegistrationAssumption DEF UpdateEmail, TypeInv, TypeOK, Users
  <2>2. InvitesGrow
    BY <1>2, InvitesGrowUnchanged DEF UpdateEmail
  <2>3. Grows /\ AddsRight
    BY <1>2, <2>1, <2>2 DEF UpdateEmail, Grows, AddsRight, OnboardingInv, history
  <2> QED
    BY <1>2, <2>3, NoCallKeeps DEF UpdateEmail
<1>3. ASSUME DeleteUser(u) PROVE OnboardingInv'
  <2>1. Users' = Users \ {u}
    BY <1>3, TypedNow DEF DeleteUser, UsersTyped, Users
  <2>2. InvitesGrow
    BY <1>3 DEF DeleteUser, InvitesGrow, Invites, OnboardingInv
  <2>3. relations' \subseteq relations /\ freelancers' = freelancers \ {u} /\ clients' = clients \ {u}
    BY <1>3 DEF DeleteUser
  <2>4. Grows
    BY <1>3, <2>1, <2>2, <2>3 DEF DeleteUser, Grows, OnboardingInv, history
  <2>5. AddsRight
    BY <1>3, <2>1, <2>3 DEF DeleteUser, AddsRight, history
  <2> QED
    BY <1>3, <2>4, <2>5, NoCallKeeps DEF DeleteUser
<1> QED
  BY <1>1, <1>2, <1>3

\* A company deleted touches only what its invitations refer to.
LEMMA CompanyDeletedKeeps ==
    ASSUME TypeInv, OnboardingInv, NEW c \in Companies, DeleteCompany(c)
    PROVE  OnboardingInv'
<1>1. InvitesGrow
  BY CompanyDeleted DEF DeleteCompany, InvitesGrow, OnboardingInv
<1>2. Users' = Users
  BY DEF DeleteCompany, Users
<1>3. Grows /\ AddsRight
  BY <1>1, <1>2 DEF DeleteCompany, Grows, AddsRight, OnboardingInv, history
<1> QED
  BY <1>3, NoCallKeeps DEF DeleteCompany

LEMMA ClockKeeps == TypeInv /\ OnboardingInv /\ (Tick \/ Restart) => OnboardingInv'
<1>1. ASSUME TypeInv, OnboardingInv, Tick PROVE OnboardingInv'
  <2>1. Grows /\ AddsRight
    BY <1>1, InvitesGrowUnchanged, TablesKeep DEF Tick, history
  <2> QED
    BY <1>1, <2>1, NoCallKeeps DEF Tick
<1>2. ASSUME TypeInv, OnboardingInv, Restart PROVE OnboardingInv'
  <2>1. Grows /\ AddsRight
    BY <1>2, InvitesGrowUnchanged, TablesKeep DEF Restart
  <2>2. \A r \in Requests : CallRight(request[r])'
    BY <1>2 DEF Restart, CallRight, Idle, OnboardingPCs
  <2>3. \A r \in InFlight : Attended(r)
    BY <1>2 DEF Restart, Attended
  <2> QED
    BY <1>2, <2>1, <2>2, <2>3, OnboardingKept
<1> QED
  BY <1>1, <1>2

LEMMA OnboardingInvInit == Init => OnboardingInv
<1> SUFFICES ASSUME Init PROVE OnboardingInv
  OBVIOUS
<1>1. Users \subseteq Founders /\ Invites = {}
  BY RegistrationAssumption DEF Init, Users, Invites
<1>2. \A r \in Requests : CallRight(request[r])
  BY DEF Init, CallRight, Idle, OnboardingPCs
<1> QED
  BY <1>1, <1>2 DEF Init, OnboardingInv, RelationsFromInvitations, EveryAccountAccountedFor,
     SignedInMeansOnboarded

LEMMA OnboardingInvNext == TypeInv /\ OnboardingInv /\ [Next]_vars => OnboardingInv'
<1>1. ASSUME TypeInv, OnboardingInv, Next PROVE OnboardingInv'
  BY <1>1, InviteKeeps, ExpireKeeps, InvitationKeeps, LookupKeeps, RegisterInsertKeeps,
     AcceptKeeps, OnboardingKeeps, CompanyKeeps, UserKeeps, ClockKeeps,
     CompanyDeletedKeeps, RegistrationAssumption DEF Next
<1>2. ASSUME TypeInv, OnboardingInv, UNCHANGED vars PROVE OnboardingInv'
  <2>1. Grows /\ AddsRight
    BY <1>2, InvitesGrowUnchanged, TablesKeep DEF vars, history
  <2> QED
    BY <1>2, <2>1, NoCallKeeps DEF vars
<1> QED
  BY <1>1, <1>2

LEMMA OnboardingInvAlways == Spec => []OnboardingInv
  BY TypeOKInit, OnboardingInvInit, TypeInvNext, OnboardingInvNext, PTL DEF Spec

\* A client relationship rests on an invitation its freelancer sent and its
\* client accepted at the invited address, through every interleaving of
\* acceptance with renames, resends, deletions and restarts.
THEOREM OnlyInvitedClients == Spec => []RelationsFromInvitations
<1>1. OnboardingInv => RelationsFromInvitations
  BY DEF OnboardingInv
<1> QED
  BY <1>1, OnboardingInvAlways, PTL

\* No account is left without a profile unnoticed, wherever its registration
\* stops.
THEOREM NoForgottenAccount == Spec => []EveryAccountAccountedFor
<1>1. OnboardingInv => EveryAccountAccountedFor
  BY DEF OnboardingInv
<1> QED
  BY <1>1, OnboardingInvAlways, PTL

\* A session from POST /auth/register belongs to a freelancer, or to a client
\* that accepted an invitation.
THEOREM SessionsAfterOnboarding == Spec => []SignedInMeansOnboarded
<1>1. OnboardingInv => SignedInMeansOnboarded
  BY DEF OnboardingInv
<1> QED
  BY <1>1, OnboardingInvAlways, PTL

-----------------------------------------------------------------------------
(* The lifecycle of accounts: a step moves one account to its next stage,  *)
(* signs it in, or leaves all where they are.                              *)

Profiled == freelancers \cup clients

\* What the stage of an account rests on.
Staged == Users \subseteq born /\ Profiled \subseteq Users

LEMMA StagedNow == TypeInv /\ OnboardingInv => Staged
  BY DEF TypeInv, TypeOK, OnboardingInv, Staged, Profiled

LEMMA StageOf ==
    ASSUME Staged, NEW u \in UserIds
    PROVE  /\ Stage[u] = "unborn" <=> u \notin born
           /\ Stage[u] = "deleted" <=> u \in born \ Users
           /\ Stage[u] = "bare" <=> u \in Users \ Profiled
           /\ Stage[u] = "profiled" <=> u \in Profiled
  BY DEF Stage, Staged, Profiled, Users

\* Steps that no account feels.
LEMMA InvisibleStep ==
    ASSUME Users' = Users, Profiled' = Profiled, UNCHANGED <<born, signedIn>>
    PROVE  UNCHANGED Accounts!vars
  BY DEF Accounts!vars, Stage, Profiled, Users

\* Steps that one account feels.
LEMMA StageMoves ==
    ASSUME NEW u \in UserIds, born' \ {u} = born \ {u}, Users' \ {u} = Users \ {u},
           Profiled' \ {u} = Profiled \ {u}
    PROVE  Stage' = [Stage EXCEPT ![u] = Stage'[u]]
<1>1. \A v \in UserIds \ {u} : Stage'[v] = Stage[v]
  BY DEF Stage, Profiled, Users
<1>2. Stage = [v \in UserIds |-> Stage[v]] /\ Stage' = [v \in UserIds |-> Stage'[v]]
  BY DEF Stage
<1> QED
  BY <1>1, <1>2

LEMMA CreateRefines ==
    ASSUME Staged, NEW u \in UserIds, u \notin born, born' = born \cup {u},
           Users' = Users \cup {u}, Profiled' = Profiled, UNCHANGED signedIn
    PROVE  Accounts!Advance(u)
<1>1. Staged'
  BY DEF Staged
<1>2. Stage[u] = "unborn" /\ Stage'[u] = "bare"
  BY <1>1, StageOf DEF Staged, Stage, Profiled, Users
<1>3. Stage' = [Stage EXCEPT ![u] = "bare"]
  BY <1>2, StageMoves
<1> QED
  BY <1>2, <1>3 DEF Accounts!Advance, Accounts!Order

LEMMA ProfileRefines ==
    ASSUME Staged, NEW u \in Users, Users' = Users, Profiled' = Profiled \cup {u},
           UNCHANGED <<born, signedIn>>
    PROVE  Accounts!Advance(u) \/ UNCHANGED Accounts!vars
<1>0. u \in UserIds
  BY DEF Users
<1>1. CASE u \in Profiled
  BY <1>1, InvisibleStep
<1>2. CASE u \notin Profiled
  <2>1. Stage[u] = "bare" /\ Stage'[u] = "profiled"
    BY <1>0, <1>2 DEF Stage, Profiled, Staged, Users
  <2>2. Stage' = [Stage EXCEPT ![u] = "profiled"]
    BY <1>0, <2>1, StageMoves
  <2> QED
    BY <2>1, <2>2 DEF Accounts!Advance, Accounts!Order
<1> QED
  BY <1>1, <1>2

LEMMA DeleteUserRefines ==
    ASSUME TypeInv, Staged, NEW u \in UserIds, DeleteUser(u)
    PROVE  Accounts!Advance(u)
<1>1. /\ u \in Users /\ Users' = Users \ {u} /\ Profiled' = Profiled \ {u}
      /\ UNCHANGED <<born, signedIn>>
  BY TypedNow DEF DeleteUser, UsersTyped, Users, Profiled, history
<1>2. Stage[u] \in {"bare", "profiled"} /\ Stage'[u] = "deleted"
  BY <1>1 DEF Stage, Staged, Users
<1>3. Stage' = [Stage EXCEPT ![u] = "deleted"]
  BY <1>1, <1>2, StageMoves
<1> QED
  BY <1>1, <1>2, <1>3 DEF Accounts!Advance, Accounts!Order

LEMMA InsertUserRefines ==
    ASSUME TypeInv, Staged, NEW u \in UserIds,
           \/ \E r \in Requests : RegisterInsert(r, u)
           \/ \E e \in Emails : CreateUser(u, e)
    PROVE  Accounts!Advance(u)
<1>1. PICK e \in Emails : email' = [email EXCEPT ![u] = e]
  <2>1. CASE \E r \in Requests : RegisterInsert(r, u)
    <3>1. PICK r \in Requests : RegisterInsert(r, u)
      BY <2>1
    <3>2. request[r] \in Registering
      BY <3>1, Holds, RequestFields DEF RegisterInsert, At
    <3>3. request[r].email \in Emails
      BY <3>2 DEF Registering
    <3> QED
      BY <3>1, <3>3 DEF RegisterInsert
  <2>2. CASE \E e \in Emails : CreateUser(u, e)
    BY <2>2 DEF CreateUser
  <2> QED
    BY <2>1, <2>2
<1>2. u \notin born /\ born' = born \cup {u} /\ UNCHANGED <<freelancers, clients, signedIn>>
  BY DEF RegisterInsert, CreateUser, history
<1>3. Users' = Users \cup {u}
  BY <1>1, TypedNow, RegistrationAssumption DEF UsersTyped, Users
<1> QED
  BY <1>2, <1>3, CreateRefines DEF Profiled

LEMMA ProfileStepRefines ==
    ASSUME Staged, NEW r \in Requests, SetupClient(r) \/ CreateFreelancer(r) \/ CompanyInsert(r)
    PROVE  (\E u \in UserIds : Accounts!Advance(u)) \/ UNCHANGED Accounts!vars
<1> PICK u : u = request[r].user
  OBVIOUS
<1>1. /\ UNCHANGED <<born, signedIn>> /\ Users' = Users
      /\ Profiled' = Profiled \/ (u \in Users /\ Profiled' = Profiled \cup {u})
  BY DEF SetupClient, CreateFreelancer, CompanyInsert, Abort, userVars, history, Users, Profiled
<1>2. u \in Users => u \in UserIds
  BY DEF Users
<1> QED
  BY <1>1, <1>2, InvisibleStep, ProfileRefines

LEMMA SessionRefines ==
    ASSUME OnboardingInv, Staged, NEW r \in Requests, RegisterSession(r)
    PROVE  (\E u \in UserIds : Accounts!SignIn(u)) \/ UNCHANGED Accounts!vars
<1> PICK u : u = request[r].user
  OBVIOUS
<1>0. UNCHANGED userVars
  BY DEF RegisterSession, Abort
<1>1. Users' = Users /\ Profiled' = Profiled /\ born' = born /\ Stage' = Stage
  BY <1>0 DEF userVars, Users, Profiled, Stage
<1>2. CASE u \in Users /\ signedIn' = signedIn \cup {u}
  <2>1. Onboarded(u)
    BY <1>2 DEF OnboardingInv, CallRight, RegisterSession, At
  <2>2. u \in UserIds /\ Stage[u] = "profiled"
    BY <1>2, <2>1, StageOf DEF Users, Onboarded, Profiled
  <2>3. CASE u \in signedIn
    BY <1>1, <1>2, <2>3, InvisibleStep
  <2>4. CASE u \notin signedIn
    BY <1>1, <1>2, <2>2, <2>4 DEF Accounts!SignIn
  <2> QED
    BY <2>3, <2>4
<1>3. CASE UNCHANGED signedIn
  BY <1>1, <1>3, InvisibleStep
<1> QED
  BY <1>2, <1>3 DEF RegisterSession, Abort

LEMMA NextRefines == TypeInv /\ OnboardingInv /\ [Next]_vars => [Accounts!Next]_(Accounts!vars)
<1> SUFFICES ASSUME TypeInv, OnboardingInv, [Next]_vars PROVE [Accounts!Next]_(Accounts!vars)
  OBVIOUS
<1>s. Staged
  BY StagedNow
<1>1. ASSUME UNCHANGED <<email, born, freelancers, clients, signedIn>>
      PROVE  UNCHANGED Accounts!vars
  BY <1>1, InvisibleStep DEF Users, Profiled
<1>2. ASSUME NEW r \in Requests,
             \/ \E u \in UserIds, e \in Emails, c \in Companies \cup {NoCompany} :
                   InviteCheck(r, u, e, c)
             \/ \E i \in InviteIds : InviteInsert(r, i) \/ ResendRead(r, i)
             \/ \E link \in Sent : LookupExpired(r, link)
             \/ \E e \in Emails, link \in Sent \cup {NoLink} : RegisterFind(r, e, link)
             \/ \E u \in UserIds : CompanyFind(r, u)
             \/ InviteOrphaned(r) \/ ExpireWrite(r) \/ ResendWrite(r) \/ ResendGone(r)
             \/ RegisterLookup(r) \/ RegisterTaken(r)
      PROVE  UNCHANGED Accounts!vars
  BY <1>1, <1>2
  DEF InviteCheck, InviteInsert, ResendRead, LookupExpired, RegisterFind, CompanyFind,
      InviteOrphaned, ExpireWrite, ResendWrite, ResendGone, RegisterLookup, RegisterTaken,
      userVars, history
<1>3. ASSUME NEW r \in Requests,
             AcceptReadUser(r) \/ AcceptReadInvite(r) \/ AcceptWrite(r) \/ AddRole(r)
      PROVE  UNCHANGED Accounts!vars
  BY <1>1, <1>3
  DEF AcceptReadUser, AcceptReadInvite, AcceptWrite, AddRole, Abort, userVars, history
<1>4. ASSUME \/ \E i \in InviteIds :
                   (\E status \in Status : Update(i, status)) \/ Accept(i) \/ DeleteInvitation(i)
             \/ \E c \in Companies : DeleteCompany(c)
             \/ Tick \/ Restart \/ UNCHANGED vars
      PROVE  UNCHANGED Accounts!vars
  BY <1>1, <1>4 DEF Accept, Update, DeleteInvitation, DeleteCompany, Tick, Restart, vars,
     userVars, history
<1>5. ASSUME NEW u \in UserIds, NEW e \in Emails, UpdateEmail(u, e)
      PROVE  UNCHANGED Accounts!vars
  <2>1. Users' = Users
    BY <1>5, RegistrationAssumption DEF UpdateEmail, TypeInv, TypeOK, Users
  <2> QED
    BY <1>5, <2>1, InvisibleStep DEF UpdateEmail, history, Profiled
<1>6. \A u \in UserIds :
         Accounts!Advance(u) \/ Accounts!SignIn(u) => Accounts!Next
  BY DEF Accounts!Next
<1> QED
  BY <1>s, <1>2, <1>3, <1>4, <1>5, <1>6, InsertUserRefines, ProfileStepRefines, SessionRefines,
     DeleteUserRefines, RegistrationAssumption DEF Next

LEMMA InitRefines == Init => Accounts!Init
<1> SUFFICES ASSUME Init PROVE Accounts!Init
  OBVIOUS
<1>1. Users = Founders /\ born = Founders /\ signedIn = {}
  BY RegistrationAssumption DEF Init, Users
<1>2. \A u \in UserIds : Stage[u] \in {"unborn", "bare", "profiled"}
  BY <1>1 DEF Stage, Users
<1>3. Stage = [u \in UserIds |-> Stage[u]]
  BY DEF Stage
<1> QED
  BY <1>1, <1>2, <1>3 DEF Accounts!Init

\* Registration implements the lifecycle of accounts: no overlapping of
\* registrations, companies, renames and deletions takes a profile away, signs
\* in a user without one, or brings an account back.
THEOREM Refinement == Spec => RefinesAccounts
<1>1. TypeInv /\ OnboardingInv /\ [Next]_vars => [Accounts!Next]_(Accounts!vars)
  BY NextRefines
<1>2. Spec => []TypeInv
  BY TypeOKInit, TypeInvNext, PTL DEF Spec
<1> QED
  BY InitRefines, <1>1, <1>2, OnboardingInvAlways, PTL DEF Spec, RefinesAccounts, Accounts!Spec
=============================================================================
