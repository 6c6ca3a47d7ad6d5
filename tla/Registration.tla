---------------------------- MODULE Registration ----------------------------
(***************************************************************************)
(* Invitations and registration, as concurrent requests.  POST             *)
(* /auth/register is a chain of separate statements: look the address up,  *)
(* look the invitation up, insert the user, accept the invitation, give    *)
(* the client role, insert the profiles, insert the session.  Nothing but  *)
(* the last insert of profiles is a transaction, so another request, a     *)
(* failure or a restart may come between any two of them.                  *)
(*                                                                         *)
(* An e-mail is compared with `=' by the database and with toLowerCase by  *)
(* the services; Lower is that function.                                   *)
(***************************************************************************)
EXTENDS Naturals, FiniteSets

CONSTANTS
    UserIds,        \* cuids of users
    Inviters,       \* users whose roles grant invitations.* when they exist
    Founders,       \* users that exist at first
    Emails,
    Invitable,      \* e-mails that invitations are sent to
    Lower,          \* e-mail |-> its lower-case form
    FounderEmail,   \* founder |-> e-mail
    Companies,      \* companies that exist at first; no other is ever invited to
    InScope,        \* user |-> those in its companyIds and managedCompanyIds
    InviteIds,      \* cuids of invitations
    Requests,       \* slots for requests in flight
    InviteTTL,      \* INVITATION_EXPIRY_DAYS
    MaxTime,        \* bound on the clock
    MaxResends,     \* bound on the tokens minted for one invitation
    NoRow, NoCompany, NoInvite, NoLink

Status == {"PENDING", "ACCEPTED", "EXPIRED"}

\* A random token is never guessed and never repeats: the n-th one made for i.
Link == [invitation : InviteIds, n : 0 .. MaxResends]

Invitation == [email : Emails, link : Link, status : Status, invitedBy : UserIds,
               company : Companies \cup {NoCompany}, expiresAt : Nat]

ASSUME RegistrationAssumption ==
    /\ Founders \subseteq UserIds /\ Inviters \subseteq UserIds
    /\ Invitable \subseteq Emails
    /\ Lower \in [Emails -> Emails] /\ FounderEmail \in [Founders -> Emails]
    /\ InScope \in [UserIds -> SUBSET Companies]
    /\ InviteTTL \in Nat /\ MaxTime \in Nat /\ MaxResends \in Nat
    /\ NoRow \notin Emails /\ NoRow \notin Invitation
    /\ NoCompany \notin Companies /\ NoInvite \notin InviteIds /\ NoLink \notin Link

VARIABLES
    clock,
    email,          \* users: id |-> e-mail, or NoRow
    born,           \* ids of all users ever inserted
    freelancers,    \* users with a freelancer profile
    clients,        \* users with a client profile
    relations,      \* client_relationships: <<freelancer, client>>
    companies,      \* rows of the companies table
    invitations,    \* id |-> row or NoRow
    minted,         \* id |-> number of tokens made for it, 0 before the insert
    request,        \* per slot: where the handler is and what it holds
    accepted,       \* history: invitations accepted by registrations, with the
                    \* invited address and the user's own in lower case
    signedIn,       \* history: users that got a session from POST /auth/register
    provisioned,    \* history: users inserted by the seed or an administrator
    cut             \* history: users whose registration failed after the insert

userVars == <<email, born, freelancers, clients, relations, companies>>
history == <<accepted, signedIn, provisioned, cut>>
vars == <<clock, userVars, invitations, minted, request, history>>

-----------------------------------------------------------------------------
Idle == [pc |-> "idle"]

\* A registration: what register() keeps in its local variables.
Registering == [pc : {"lookup", "insert"}, email : Emails, link : Link \cup {NoLink},
                invite : InviteIds \cup {NoInvite}, inviter : UserIds \cup {NoInvite}]
Onboarding ==
    [pc : {"acceptUser", "acceptInvite", "acceptWrite", "role", "client", "freelancer", "session"},
     user : UserIds, email : Emails,
     invite : InviteIds \cup {NoInvite}, inviter : UserIds \cup {NoInvite}]

Request ==
    [pc : {"idle"}] \cup Registering \cup Onboarding
    \cup [pc : {"invite"}, row : [email : Emails, by : UserIds, company : Companies \cup {NoCompany}]]
    \cup [pc : {"expire", "resend"}, invite : InviteIds]
    \cup [pc : {"company"}, user : UserIds]

Users == {u \in UserIds : email[u] # NoRow}
Invites == {i \in InviteIds : invitations[i] # NoRow}

Become(r, state) == request' = [request EXCEPT ![r] = state]
Done(r) == Become(r, Idle)
At(r, pc) == request[r].pc = pc

Init ==
    /\ clock = 0
    /\ email = [u \in UserIds |-> IF u \in Founders THEN FounderEmail[u] ELSE NoRow]
    /\ born = Founders
    /\ clients = {} /\ relations = {}
    /\ freelancers \in SUBSET Founders
    /\ companies = Companies
    /\ invitations = [i \in InviteIds |-> NoRow]
    /\ minted = [i \in InviteIds |-> 0]
    /\ request = [r \in Requests |-> Idle]
    /\ accepted = {} /\ signedIn = {} /\ provisioned = Founders /\ cut = {}

-----------------------------------------------------------------------------
(* Queries on invitations (InvitationsRepository).                         *)

\* The tokens that were ever sent: nobody has another one.
Sent == {link \in Link : link.n < minted[link.invitation]}

findByToken(link) == {i \in Invites : invitations[i].link = link}

findByEmailAndCompany(e, c) ==
    {i \in Invites : /\ invitations[i].email = e /\ invitations[i].company = c
                     /\ invitations[i].status = "PENDING"}

Expired(i) == invitations[i].expiresAt < clock

\* update by id: P2025 when the row is gone.
SetStatus(i, status) == invitations' = [invitations EXCEPT ![i].status = status]

assertCompanyInScope(u, c) == c = NoCompany \/ c \in InScope[u] \cap companies

canAccessInvitation(i, u) ==
    invitations[i].invitedBy = u \/ invitations[i].company \in InScope[u]

\* A caller that passed the guards and may reach the row.
Reachable(i) == i \in Invites /\ \E u \in Users \cap Inviters : canAccessInvitation(i, u)

-----------------------------------------------------------------------------
(* POST /invitations: look for a pending row, then insert one.             *)

InviteCheck(r, u, e, c) ==
    /\ At(r, "idle")
    /\ u \in Users \cap Inviters
    /\ assertCompanyInScope(u, c)
    /\ findByEmailAndCompany(e, c) = {}
    /\ Become(r, [pc |-> "invite", row |-> [email |-> e, by |-> u, company |-> c]])
    /\ UNCHANGED <<clock, userVars, invitations, minted, history>>

InviteInsert(r, i) ==
    LET row == request[r].row
    IN  /\ At(r, "invite")
        /\ row.by \in Users /\ row.company \in companies \cup {NoCompany}
        /\ minted[i] = 0
        /\ minted' = [minted EXCEPT ![i] = 1]
        /\ invitations' = [invitations EXCEPT ![i] =
               [email |-> row.email, link |-> [invitation |-> i, n |-> 0],
                status |-> "PENDING", invitedBy |-> row.by, company |-> row.company,
                expiresAt |-> clock + InviteTTL]]
        /\ Done(r)
        /\ UNCHANGED <<clock, userVars, history>>

\* The inviter or the company was deleted meanwhile: the insert breaks a
\* foreign key.
InviteOrphaned(r) ==
    /\ At(r, "invite")
    /\ \/ request[r].row.by \notin Users
       \/ request[r].row.company \notin companies \cup {NoCompany}
    /\ Done(r)
    /\ UNCHANGED <<clock, userVars, invitations, minted, history>>

(* GET /invitations/token/:token, and the lookup of a registration: a      *)
(* pending row past its deadline is written EXPIRED by a second statement. *)

LookupExpired(r, link) ==
    /\ At(r, "idle")
    /\ \E i \in findByToken(link) :
          /\ invitations[i].status = "PENDING" /\ Expired(i)
          /\ Become(r, [pc |-> "expire", invite |-> i])
    /\ UNCHANGED <<clock, userVars, invitations, minted, history>>

ExpireWrite(r) ==
    LET i == request[r].invite
    IN  /\ At(r, "expire")
        /\ \/ i \in Invites /\ SetStatus(i, "EXPIRED")
           \/ i \notin Invites /\ UNCHANGED invitations
        /\ Done(r)
        /\ UNCHANGED <<clock, userVars, minted, history>>

(* PATCH /invitations/:id and /:id/accept, DELETE /invitations/:id.  The   *)
(* lookup and the write by id are one step: a row whose company is deleted *)
(* in between is still its inviter's, who exists as long as the row does,  *)
(* and the step leaves open who the caller is.                             *)

Update(i, status) ==
    /\ Reachable(i)
    /\ SetStatus(i, status)
    /\ UNCHANGED <<clock, userVars, minted, request, history>>

Accept(i) == Update(i, "ACCEPTED")

DeleteInvitation(i) ==
    /\ Reachable(i)
    /\ invitations' = [invitations EXCEPT ![i] = NoRow]
    /\ UNCHANGED <<clock, userVars, minted, request, history>>

(* POST /invitations/:id/resend: check that it is pending, then write.     *)

ResendRead(r, i) ==
    /\ At(r, "idle")
    /\ Reachable(i)
    /\ invitations[i].status = "PENDING"
    /\ Become(r, [pc |-> "resend", invite |-> i])
    /\ UNCHANGED <<clock, userVars, invitations, minted, history>>

ResendWrite(r) ==
    LET i == request[r].invite
    IN  /\ At(r, "resend")
        /\ i \in Invites
        /\ minted[i] \in 1 .. MaxResends
        /\ minted' = [minted EXCEPT ![i] = @ + 1]
        /\ invitations' = [invitations EXCEPT
               ![i].link = [invitation |-> i, n |-> minted[i]],
               ![i].expiresAt = clock + InviteTTL]
        /\ Done(r)
        /\ UNCHANGED <<clock, userVars, history>>

ResendGone(r) ==
    /\ At(r, "resend")
    /\ request[r].invite \notin Invites
    /\ Done(r)
    /\ UNCHANGED <<clock, userVars, invitations, minted, history>>

-----------------------------------------------------------------------------
(* POST /auth/register.                                                    *)

\* findForAuth: the address must be free, compared with case.
RegisterFind(r, e, link) ==
    /\ At(r, "idle")
    /\ \A u \in Users : email[u] # e
    /\ Become(r, [pc |-> IF link = NoLink THEN "insert" ELSE "lookup", email |-> e,
                  link |-> link, invite |-> NoInvite, inviter |-> NoInvite])
    /\ UNCHANGED <<clock, userVars, invitations, minted, history>>

\* register() compares the two addresses before it goes on.
emailsMatch(invited, given) == Lower[invited] = Lower[given]

RegisterLookup(r) ==
    LET q == request[r]
        found == {i \in findByToken(q.link) : invitations[i].status = "PENDING"}
        usable == {i \in found : ~ Expired(i) /\ emailsMatch(invitations[i].email, q.email)}
        late == {i \in found : Expired(i)}
    IN  /\ At(r, "lookup")
        /\ \/ \E i \in usable :
                 Become(r, [q EXCEPT !.pc = "insert", !.link = NoLink, !.invite = i,
                                     !.inviter = invitations[i].invitedBy])
           \/ \E i \in late : Become(r, [pc |-> "expire", invite |-> i])
           \/ usable \cup late = {} /\ Done(r)
        /\ UNCHANGED <<clock, userVars, invitations, minted, history>>

RegisterInsert(r, u) ==
    LET q == request[r]
    IN  /\ At(r, "insert")
        /\ \A v \in Users : email[v] # q.email
        /\ u \notin born
        /\ email' = [email EXCEPT ![u] = q.email]
        /\ born' = born \cup {u}
        /\ Become(r, [pc |-> IF q.invite = NoInvite THEN "freelancer" ELSE "acceptUser",
                      user |-> u, email |-> q.email, invite |-> q.invite,
                      inviter |-> q.inviter])
        /\ UNCHANGED <<clock, companies, freelancers, clients, relations,
                       invitations, minted, history>>

\* Another registration took the address since: the unique index answers P2002.
RegisterTaken(r) ==
    /\ At(r, "insert")
    /\ \E v \in Users : email[v] = request[r].email
    /\ Done(r)
    /\ UNCHANGED <<clock, userVars, invitations, minted, history>>

\* The handler goes on to its next statement.
Next1(r, pc) == request' = [request EXCEPT ![r].pc = pc]

\* It throws: the account stays, and nothing will finish it.
Abort(r) ==
    /\ Done(r)
    /\ cut' = cut \cup {request[r].user}
    /\ UNCHANGED <<clock, userVars, invitations, minted, accepted, signedIn, provisioned>>

\* acceptForRegisteredUser reads the user, then the invitation, then writes.
AcceptReadUser(r) ==
    LET u == request[r].user
    IN  /\ At(r, "acceptUser")
        /\ \/ /\ u \in Users
              /\ request' = [request EXCEPT ![r].pc = "acceptInvite", ![r].email = email[u]]
              /\ UNCHANGED <<clock, userVars, invitations, minted, history>>
           \/ u \notin Users /\ Abort(r)

\* Mutant: the second comparison of addresses is left out as redundant.
AnyAddress(invited, own) == TRUE

sameAddress(invited, own) == Lower[invited] = Lower[own]

acceptable(i, own) ==
    /\ i \in Invites
    /\ sameAddress(invitations[i].email, own)
    /\ invitations[i].status = "PENDING"

\* Mutant: an invitation that is not pending is passed over in silence.
AcceptReadLeniently(r) ==
    LET q == request[r]
    IN  /\ At(r, "acceptInvite")
        /\ Next1(r, IF acceptable(q.invite, q.email) THEN "acceptWrite" ELSE "role")
        /\ UNCHANGED <<clock, userVars, invitations, minted, history>>

AcceptReadInvite(r) ==
    LET q == request[r]
    IN  /\ At(r, "acceptInvite")
        /\ \/ /\ acceptable(q.invite, q.email)
              /\ Next1(r, "acceptWrite")
              /\ UNCHANGED <<clock, userVars, invitations, minted, history>>
           \/ ~ acceptable(q.invite, q.email) /\ Abort(r)

AcceptWrite(r) ==
    LET q == request[r]
    IN  /\ At(r, "acceptWrite")
        /\ \/ /\ q.invite \in Invites
              /\ SetStatus(q.invite, "ACCEPTED")
              /\ accepted' = accepted \cup
                    {[invite |-> q.invite, invited |-> Lower[invitations[q.invite].email],
                      inviter |-> q.inviter, user |-> q.user, email |-> Lower[q.email]]}
              /\ Next1(r, "role")
              /\ UNCHANGED <<clock, userVars, minted, signedIn, provisioned, cut>>
           \/ q.invite \notin Invites /\ Abort(r)

\* Mutant: without the role there is nothing left to do.
AddRoleOrStop(r) ==
    /\ At(r, "role")
    /\ Next1(r, "client") \/ Next1(r, "session")
    /\ UNCHANGED <<clock, userVars, invitations, minted, history>>

\* addRoleBySlug.  Administrators assign and remove the role `client' at any
\* moment, so who holds it is not recorded here: whoever asks may get either
\* answer.
AddRole(r) ==
    /\ At(r, "role")
    /\ \/ \* the role is given, or no role has the slug
          /\ Next1(r, "client")
          /\ UNCHANGED <<clock, userVars, invitations, minted, history>>
       \/ \* the user is gone, or the role was deleted after its lookup
          Abort(r)

\* Mutant: an inviter is taken to be a freelancer.
AnyInviter(u) == TRUE

isFreelancer(u) == u \in freelancers

\* setupClientFromInvitation, one transaction.
SetupClient(r) ==
    LET q == request[r]
    IN  /\ At(r, "client")
        /\ \/ /\ q.user \in Users \ clients
              /\ clients' = clients \cup {q.user}
              /\ relations' = IF isFreelancer(q.inviter)
                            THEN relations \cup {<<q.inviter, q.user>>} ELSE relations
              /\ Next1(r, "session")
              /\ UNCHANGED <<clock, companies, email, born, freelancers,
                             invitations, minted, history>>
           \/ \* P2003 or P2002; or the inviter was deleted inside the transaction
              /\ q.user \notin Users \/ q.user \in clients \/ q.inviter \notin Users
              /\ Abort(r)

CreateFreelancer(r) ==
    LET u == request[r].user
    IN  /\ At(r, "freelancer")
        /\ \/ /\ u \in Users
              /\ freelancers' = freelancers \cup {u}
              /\ Next1(r, "session")
              /\ UNCHANGED <<clock, companies, email, born, clients, relations,
                             invitations, minted, history>>
           \/ u \notin Users /\ Abort(r)

RegisterSession(r) ==
    LET u == request[r].user
    IN  /\ At(r, "session")
        /\ \/ /\ u \in Users
              /\ signedIn' = signedIn \cup {u}
              /\ Done(r)
              /\ UNCHANGED <<clock, userVars, invitations, minted, accepted, provisioned, cut>>
           \/ u \notin Users /\ Abort(r)

-----------------------------------------------------------------------------
(* The other handlers that change what a registration relies on.           *)

\* POST /companies: a user with the client role, whoever gave it, and without a
\* profile gets that of a client; one who has it keeps it.
CompanyFind(r, u) ==
    /\ At(r, "idle")
    /\ u \in Users \ (freelancers \cup clients)
    /\ Become(r, [pc |-> "company", user |-> u])
    /\ UNCHANGED <<clock, userVars, invitations, minted, history>>

CompanyInsert(r) ==
    LET u == request[r].user
    IN  /\ At(r, "company")
        /\ Done(r)
        /\ \/ u \in Users /\ clients' = clients \cup {u}
           \/ \* the user is gone, or another company took the slug meanwhile
              clients' = clients
        /\ UNCHANGED <<clock, companies, email, born, freelancers, relations,
                       invitations, minted, history>>

\* DELETE /companies/:id: its invitations stay, without a company.
DeleteCompany(c) ==
    /\ c \in companies
    /\ companies' = companies \ {c}
    /\ invitations' = [i \in InviteIds |->
           IF i \in Invites /\ invitations[i].company = c
           THEN [invitations[i] EXCEPT !.company = NoCompany] ELSE invitations[i]]
    /\ UNCHANGED <<clock, email, born, freelancers, clients, relations,
                   minted, request, history>>

\* POST /users by an administrator.
CreateUser(u, e) ==
    /\ u \notin born
    /\ \A v \in Users : email[v] # e
    /\ email' = [email EXCEPT ![u] = e]
    /\ born' = born \cup {u}
    /\ provisioned' = provisioned \cup {u}
    /\ UNCHANGED <<clock, companies, freelancers, clients, relations,
                   invitations, minted, request, accepted, signedIn, cut>>

\* PATCH /users/:id with another e-mail, or PATCH /profile with one's own.
UpdateEmail(u, e) ==
    /\ u \in Users
    /\ \A v \in Users \ {u} : email[v] # e
    /\ email' = [email EXCEPT ![u] = e]
    /\ UNCHANGED <<clock, companies, born, freelancers, clients, relations,
                   invitations, minted, request, history>>

\* DELETE /users/:id, with the rows that cascade.
DeleteUser(u) ==
    /\ u \in Users
    /\ email' = [email EXCEPT ![u] = NoRow]
    /\ freelancers' = freelancers \ {u}
    /\ clients' = clients \ {u}
    /\ relations' = {p \in relations : p[1] # u /\ p[2] # u}
    /\ invitations' = [i \in InviteIds |->
           IF i \in Invites /\ invitations[i].invitedBy = u THEN NoRow ELSE invitations[i]]
    /\ UNCHANGED <<clock, companies, born, minted, request, history>>

Tick ==
    /\ clock < MaxTime
    /\ clock' = clock + 1
    /\ UNCHANGED <<userVars, invitations, minted, request, history>>

OnboardingPCs ==
    {"acceptUser", "acceptInvite", "acceptWrite", "role", "client", "freelancer", "session"}

InFlight == {r \in Requests : request[r].pc \in OnboardingPCs}

Restart ==
    /\ request' = [r \in Requests |-> Idle]
    /\ cut' = cut \cup {request[r].user : r \in InFlight}
    /\ UNCHANGED <<clock, userVars, invitations, minted, accepted, signedIn, provisioned>>

Next ==
    \/ \E r \in Requests, u \in UserIds, e \in Invitable, c \in Companies \cup {NoCompany} :
          InviteCheck(r, u, e, c)
    \/ \E r \in Requests, i \in InviteIds : InviteInsert(r, i) \/ ResendRead(r, i)
    \/ \E r \in Requests, link \in Sent : LookupExpired(r, link)
    \/ \E i \in InviteIds :
          (\E status \in Status : Update(i, status)) \/ Accept(i) \/ DeleteInvitation(i)
    \/ \E r \in Requests, e \in Emails, link \in Sent \cup {NoLink} : RegisterFind(r, e, link)
    \/ \E r \in Requests, u \in UserIds : RegisterInsert(r, u) \/ CompanyFind(r, u)
    \/ \E r \in Requests :
          \/ InviteOrphaned(r) \/ ExpireWrite(r) \/ ResendWrite(r) \/ ResendGone(r)
          \/ RegisterLookup(r) \/ RegisterTaken(r)
          \/ AcceptReadUser(r) \/ AcceptReadInvite(r) \/ AcceptWrite(r)
          \/ AddRole(r) \/ SetupClient(r) \/ CreateFreelancer(r) \/ RegisterSession(r)
          \/ CompanyInsert(r)
    \/ \E u \in UserIds, e \in Emails : CreateUser(u, e) \/ UpdateEmail(u, e)
    \/ \E u \in UserIds : DeleteUser(u)
    \/ \E c \in Companies : DeleteCompany(c)
    \/ Tick
    \/ Restart

Spec == Init /\ [][Next]_vars

-----------------------------------------------------------------------------
Acceptance == [invite : InviteIds, invited : Emails, inviter : UserIds,
               user : UserIds, email : Emails]

\* Every table, every request in flight and every history variable keeps its
\* shape, and a row refers to rows that exist.
TypeOK ==
    /\ clock \in 0 .. MaxTime
    /\ email \in [UserIds -> Emails \cup {NoRow}]
    /\ born \in SUBSET UserIds
    /\ freelancers \in SUBSET UserIds /\ clients \in SUBSET UserIds
    /\ relations \in SUBSET (UserIds \X UserIds)
    /\ companies \in SUBSET Companies
    /\ invitations \in [InviteIds -> Invitation \cup {NoRow}]
    /\ minted \in [InviteIds -> 0 .. MaxResends + 1]
    /\ request \in [Requests -> Request]
    /\ accepted \in SUBSET Acceptance
    /\ signedIn \in SUBSET UserIds /\ provisioned \in SUBSET UserIds
    /\ cut \in SUBSET UserIds
    /\ freelancers \cup clients \subseteq Users
    /\ relations \subseteq freelancers \X clients
    /\ \A i \in Invites : /\ invitations[i].invitedBy \in Users
                          /\ invitations[i].company \in companies \cup {NoCompany}

\* A client relationship exists only between a freelancer and a user who
\* accepted that freelancer's own invitation while holding the invited
\* address, whatever administrators rename, delete or resend meanwhile.
RelationsFromInvitations ==
    \A p \in relations : \E a \in accepted :
        /\ a.inviter = p[1] /\ a.user = p[2]
        /\ a.invited = a.email

\* An account is never left without a profile unnoticed: it has one, or an
\* administrator made it, or its registration is still running or has failed
\* (its caller got an error, or the process stopped).
EveryAccountAccountedFor ==
    \A u \in Users :
        \/ u \in freelancers \cup clients \cup provisioned \cup cut
        \/ \E r \in InFlight : request[r].user = u

\* A session out of POST /auth/register belongs to a user whose onboarding is
\* complete: a freelancer, or a client with an invitation it accepted.
SignedInMeansOnboarded ==
    \A u \in signedIn \cap Users :
        \/ u \in freelancers
        \/ u \in clients /\ \E a \in accepted : a.user = u

\* How far each account has come.
Stage ==
    [u \in UserIds |->
        IF u \notin born THEN "unborn" ELSE IF email[u] = NoRow THEN "deleted"
        ELSE IF u \in freelancers \cup clients THEN "profiled" ELSE "bare"]

Accounts == INSTANCE AccountLifecycle WITH Users <- UserIds, stage <- Stage

\* Registration implements the lifecycle of accounts: however registrations,
\* companies and deletions overlap, none takes a profile away, signs a user in
\* who has none at that moment, or brings an account back.
RefinesAccounts == Accounts!Spec

\* The rule POST /invitations enforces with 409 `An invitation for this email
\* already exists for this company': one pending row per address and company.
OnePendingPerAddress ==
    \A e \in Emails, c \in Companies \cup {NoCompany} :
        Cardinality(findByEmailAndCompany(e, c)) <= 1
=============================================================================
