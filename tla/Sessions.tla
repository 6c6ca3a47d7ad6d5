------------------------------ MODULE Sessions ------------------------------
(***************************************************************************)
(* Login, refresh-token rotation, logout and revocation, as concurrent     *)
(* requests over the sessions table.  Every await of a query is a point    *)
(* where another request, a clock tick or a restart may come in between.   *)
(*                                                                         *)
(* One tick is one second, the resolution of a JWT's iat and exp: a refresh*)
(* token is determined by its user and the second it was signed in.        *)
(***************************************************************************)
EXTENDS Naturals

CONSTANTS
    Users,          \* user ids
    SessionIds,     \* the cuids session rows may get
    Clients,        \* browsers: a cookie jar and an access token in memory
    Requests,       \* slots for requests in flight
    RefreshTTL,     \* tokens.refreshToken.expiresIn
    AccessTTL,      \* tokens.accessToken.expiresIn
    MaxTime,        \* bound on the clock
    NoRow,          \* a row that is not in the table
    NoToken         \* an empty cookie, an empty access token

Time == 0 .. MaxTime

ASSUME TimeAssumption ==
    MaxTime \in Nat /\ RefreshTTL \in Nat \ {0} /\ AccessTTL \in Nat \ {0}

RefreshToken == [userId : Users, iat : Time]
AccessToken  == [userId : Users, sessionId : SessionIds, exp : Nat]
TokenHash    == [sha256 : RefreshToken]
Session      == [userId : Users, refreshToken : TokenHash, expiresAt : Nat]

ASSUME NullAssumption ==
    /\ NoRow \notin Session /\ NoRow \notin Users
    /\ NoToken \notin RefreshToken /\ NoToken \notin AccessToken

VARIABLES
    clock,
    users,          \* the users table: ids of the rows
    sessions,       \* the sessions table
    created,        \* ids of all sessions ever inserted: a cuid is never reused
    cookie,         \* per client: the refresh cookie
    access,         \* per client: the access token
    request,        \* per slot: where the handler is and what it holds
    revokedLog      \* per session id: "Session revoked" audit entries enqueued

dbVars == <<users, sessions, created, revokedLog>>
clientVars == <<cookie, access>>
vars == <<clock, dbVars, clientVars, request>>

-----------------------------------------------------------------------------
(* Tokens (TokensService).                                                 *)

generateRefreshToken(u) == [userId |-> u, iat |-> clock]

verifyRefreshToken(t) == clock < t.iat + RefreshTTL

generateAccessToken(u, s) == [userId |-> u, sessionId |-> s, exp |-> clock + AccessTTL]

\* SHA-256 is taken to be injective.
hashToken(t) == [sha256 |-> t]

RefreshDeadline == clock + RefreshTTL

-----------------------------------------------------------------------------
(* The sessions table (SessionsRepository).                                *)

Rows == {s \in SessionIds : sessions[s] # NoRow}

\* Mutant: the lookup compares less than the whole hash.
FindOneBySecond(h) == {s \in Rows : sessions[s].refreshToken.sha256.iat = h.sha256.iat}

\* findFirst has no order: any row that holds the hash may be the answer.
findOneByToken(h) == {s \in Rows : sessions[s].refreshToken = h}

\* Mutant: rotation that forgets to move the deadline.
UpdateTokenOnly(s, h, deadline) ==
    sessions' = [sessions EXCEPT ![s].refreshToken = h]

\* update by id, which throws P2025 when there is no such row (see RefreshGone).
updateRefreshToken(s, h, deadline) ==
    sessions' = [sessions EXCEPT ![s] =
        [userId |-> sessions[s].userId, refreshToken |-> h, expiresAt |-> deadline]]

deletableForUser(s, u) == s \in Rows /\ sessions[s].userId = u

-----------------------------------------------------------------------------
(* Requests in flight.                                                     *)

Idle == [pc |-> "idle"]

Request ==
    [pc : {"idle"}]
    \cup [pc : {"login"}, client : Clients, userId : Users]
    \cup [pc : {"refresh"}, client : Clients, token : RefreshToken, sessionId : SessionIds,
          access : AccessToken, refresh : RefreshToken, expiresAt : Nat]
    \cup [pc : {"context"}, client : Clients, token : AccessToken,
          now : Time, toRead : SUBSET {"user", "session"}, target : SessionIds, logout : BOOLEAN]
    \cup [pc : {"handler"}, client : Clients, userId : Users, target : SessionIds,
          logout : BOOLEAN]
    \cup [pc : {"tokens"}, client : Clients, access : AccessToken, refresh : RefreshToken]
    \cup [pc : {"clear"}, client : Clients]

Init ==
    /\ clock = 0
    /\ users = Users
    /\ sessions = [s \in SessionIds |-> NoRow]
    /\ created = {}
    /\ cookie = [c \in Clients |-> NoToken]
    /\ access = [c \in Clients |-> NoToken]
    /\ request = [r \in Requests |-> Idle]
    /\ revokedLog = [s \in SessionIds |-> 0]

Become(r, state) == request' = [request EXCEPT ![r] = state]

(* POST /auth/login.  A wrong e-mail or password answers 401 and changes   *)
(* nothing, so only a login that finds its user is a step.                 *)

LoginFind(r, c, u) ==
    /\ request[r].pc = "idle"
    /\ u \in users
    /\ Become(r, [pc |-> "login", client |-> c, userId |-> u])
    /\ UNCHANGED <<clock, dbVars, clientVars>>

\* createAuthSession: sign a refresh token, insert the row, sign an access token.
LoginCreate(r, s) ==
    LET q == request[r]
        refresh == generateRefreshToken(q.userId)
    IN  /\ q.pc = "login"
        /\ q.userId \in users
        /\ s \notin created
        /\ created' = created \cup {s}
        /\ sessions' = [sessions EXCEPT ![s] =
               [userId |-> q.userId, refreshToken |-> hashToken(refresh),
                expiresAt |-> RefreshDeadline]]
        /\ Become(r, [pc |-> "tokens", client |-> q.client, refresh |-> refresh,
                      access |-> generateAccessToken(q.userId, s)])
        /\ UNCHANGED <<clock, users, revokedLog, clientVars>>

\* The user was deleted meanwhile: the insert breaks the foreign key (P2003).
LoginOrphaned(r) ==
    /\ request[r].pc = "login"
    /\ request[r].userId \notin users
    /\ Become(r, Idle)
    /\ UNCHANGED <<clock, dbVars, clientVars>>

(* POST /auth/refresh.  Tokens and deadline are computed as soon as the    *)
(* lookup returns, before the update is sent.                              *)

RefreshFind(r, c, s) ==
    LET token == cookie[c]
        u == sessions[s].userId
    IN  /\ request[r].pc = "idle"
        /\ token # NoToken
        /\ verifyRefreshToken(token)
        /\ s \in findOneByToken(hashToken(token))
        /\ sessions[s].expiresAt >= clock
        /\ Become(r, [pc |-> "refresh", client |-> c, token |-> token, sessionId |-> s,
                      access |-> generateAccessToken(u, s),
                      refresh |-> generateRefreshToken(u),
                      expiresAt |-> RefreshDeadline])
        /\ UNCHANGED <<clock, dbVars, clientVars>>

\* Mutant: an upsert, which inserts the row when it is gone.
RefreshUpsert(r) ==
    LET q == request[r]
    IN  /\ q.pc = "refresh"
        /\ sessions' = [sessions EXCEPT ![q.sessionId] =
               [userId |-> q.access.userId, refreshToken |-> hashToken(q.refresh),
                expiresAt |-> q.expiresAt]]
        /\ Become(r, [pc |-> "tokens", client |-> q.client, refresh |-> q.refresh,
                      access |-> q.access])
        /\ UNCHANGED <<clock, users, created, revokedLog, clientVars>>

RefreshUpdate(r) ==
    LET q == request[r]
    IN  /\ q.pc = "refresh"
        /\ q.sessionId \in Rows
        /\ updateRefreshToken(q.sessionId, hashToken(q.refresh), q.expiresAt)
        /\ Become(r, [pc |-> "tokens", client |-> q.client, refresh |-> q.refresh,
                      access |-> q.access])
        /\ UNCHANGED <<clock, users, created, revokedLog, clientVars>>

\* The row is gone: update throws P2025, the client gets 404 and no tokens.
RefreshGone(r) ==
    /\ request[r].pc = "refresh"
    /\ request[r].sessionId \notin Rows
    /\ Become(r, Idle)
    /\ UNCHANGED <<clock, dbVars, clientVars>>

(* DELETE /sessions/:id and POST /auth/logout, which is the same call for  *)
(* the session the access token names.  JwtStrategy first loads the user   *)
(* and the session, two queries of one Promise.all.                        *)

RequestArrives(r, c, target, logout) ==
    /\ request[r].pc = "idle"
    /\ access[c] # NoToken
    /\ clock < access[c].exp
    /\ logout => target = access[c].sessionId
    /\ Become(r, [pc |-> "context", client |-> c, token |-> access[c], now |-> clock,
                  toRead |-> {"user", "session"}, target |-> target, logout |-> logout])
    /\ UNCHANGED <<clock, dbVars, clientVars>>

ContextHas(q, what) ==
    \/ what = "user" /\ q.token.userId \in users
    \/ /\ what = "session"
       /\ deletableForUser(q.token.sessionId, q.token.userId)
       /\ sessions[q.token.sessionId].expiresAt >= q.now

ContextRead(r, what) ==
    LET q == request[r]
    IN  /\ q.pc = "context"
        /\ what \in q.toRead
        /\ ContextHas(q, what)
        /\ Become(r, IF q.toRead = {what}
                     THEN [pc |-> "handler", client |-> q.client, userId |-> q.token.userId,
                           target |-> q.target, logout |-> q.logout]
                     ELSE [q EXCEPT !.toRead = @ \ {what}])
        /\ UNCHANGED <<clock, dbVars, clientVars>>

\* loadContext returns null: 401.
ContextRejected(r) ==
    /\ request[r].pc = "context"
    /\ \E what \in request[r].toRead : ~ContextHas(request[r], what)
    /\ Become(r, Idle)
    /\ UNCHANGED <<clock, dbVars, clientVars>>

\* Mutants: the count of deleted rows is not looked at; the row is blanked, not deleted.
DeleteUncounted(r) ==
    LET q == request[r]
    IN  /\ q.pc = "handler"
        /\ sessions' = [sessions EXCEPT ![q.target] = NoRow]
        /\ revokedLog' = [revokedLog EXCEPT ![q.target] = @ + 1]
        /\ Become(r, IF q.logout THEN [pc |-> "clear", client |-> q.client] ELSE Idle)
        /\ UNCHANGED <<clock, users, created, clientVars>>

BlankForUser(r) ==
    LET q == request[r]
    IN  /\ q.pc = "handler"
        /\ deletableForUser(q.target, q.userId)
        /\ sessions' = [sessions EXCEPT ![q.target].refreshToken = NoToken]
        /\ revokedLog' = [revokedLog EXCEPT ![q.target] = @ + 1]
        /\ Become(r, Idle)
        /\ UNCHANGED <<clock, users, created, clientVars>>

\* deleteMany where id and userId match; a count of one is logged.
DeleteForUser(r) ==
    LET q == request[r]
    IN  /\ q.pc = "handler"
        /\ deletableForUser(q.target, q.userId)
        /\ sessions' = [sessions EXCEPT ![q.target] = NoRow]
        /\ revokedLog' = [revokedLog EXCEPT ![q.target] = @ + 1]
        /\ Become(r, IF q.logout THEN [pc |-> "clear", client |-> q.client] ELSE Idle)
        /\ UNCHANGED <<clock, users, created, clientVars>>

\* A count of zero answers 404: nothing is logged and no cookie is cleared.
DeleteNotFound(r) ==
    /\ request[r].pc = "handler"
    /\ ~deletableForUser(request[r].target, request[r].userId)
    /\ Become(r, Idle)
    /\ UNCHANGED <<clock, dbVars, clientVars>>

(* The reply reaches the browser, in any order, or is lost.                *)

DeliverTokens(r) ==
    LET q == request[r]
    IN  /\ q.pc = "tokens"
        /\ cookie' = [cookie EXCEPT ![q.client] = q.refresh]
        /\ access' = [access EXCEPT ![q.client] = q.access]
        /\ Become(r, Idle)
        /\ UNCHANGED <<clock, dbVars>>

DeliverClear(r) ==
    LET q == request[r]
    IN  /\ q.pc = "clear"
        /\ cookie' = [cookie EXCEPT ![q.client] = NoToken]
        /\ Become(r, Idle)
        /\ UNCHANGED <<clock, dbVars, access>>

LoseReply(r) ==
    /\ request[r].pc \in {"tokens", "clear"}
    /\ Become(r, Idle)
    /\ UNCHANGED <<clock, dbVars, clientVars>>

(* The rest of the world.                                                  *)

\* DELETE /users/:id, whose row takes the user's sessions along (ON DELETE CASCADE).
DeleteUser(u) ==
    /\ u \in users
    /\ users' = users \ {u}
    /\ sessions' = [s \in SessionIds |->
           IF s \in Rows /\ sessions[s].userId = u THEN NoRow ELSE sessions[s]]
    /\ UNCHANGED <<clock, created, revokedLog, clientVars, request>>

Tick ==
    /\ clock < MaxTime
    /\ clock' = clock + 1
    /\ UNCHANGED <<dbVars, clientVars, request>>

\* The process restarts: every request in flight is dropped where it stands.
Restart ==
    /\ \E r \in Requests : request[r].pc # "idle"
    /\ request' = [r \in Requests |-> Idle]
    /\ UNCHANGED <<clock, dbVars, clientVars>>

Next ==
    \/ \E r \in Requests :
          \/ \E c \in Clients, u \in Users : LoginFind(r, c, u)
          \/ \E s \in SessionIds : LoginCreate(r, s)
          \/ LoginOrphaned(r)
          \/ \E c \in Clients, s \in SessionIds : RefreshFind(r, c, s)
          \/ RefreshUpdate(r)
          \/ RefreshGone(r)
          \/ \E c \in Clients, s \in SessionIds, logout \in BOOLEAN :
                RequestArrives(r, c, s, logout)
          \/ \E what \in {"user", "session"} : ContextRead(r, what)
          \/ ContextRejected(r)
          \/ DeleteForUser(r)
          \/ DeleteNotFound(r)
          \/ DeliverTokens(r)
          \/ DeliverClear(r)
          \/ LoseReply(r)
    \/ \E u \in Users : DeleteUser(u)
    \/ Tick
    \/ Restart

Spec == Init /\ [][Next]_vars

-----------------------------------------------------------------------------
(* Properties.                                                             *)

\* Every variable has its type.
TypeOK ==
    /\ clock \in Time
    /\ users \subseteq Users
    /\ sessions \in [SessionIds -> Session \cup {NoRow}]
    /\ created \subseteq SessionIds
    /\ cookie \in [Clients -> RefreshToken \cup {NoToken}]
    /\ access \in [Clients -> AccessToken \cup {NoToken}]
    /\ request \in [Requests -> Request]
    /\ revokedLog \in [SessionIds -> Nat]

\* Refresh tokens carry only the user and the second, and the hash column is
\* not unique, so rows may share a token: but never rows of two users.  A refresh
\* answers with tokens of the user whose token was presented, never another's.
TokensNeverCrossUsers ==
    /\ \A s \in Rows : \A t \in RefreshToken :
          sessions[s].refreshToken = hashToken(t) => t.userId = sessions[s].userId
    /\ \A r \in Requests :
          /\ request[r].pc \in {"refresh", "tokens"} =>
                request[r].access.userId = request[r].refresh.userId
          /\ request[r].pc = "refresh" =>
                request[r].access.userId = request[r].token.userId
    /\ \A c \in Clients :
          cookie[c] # NoToken /\ access[c] # NoToken => cookie[c].userId = access[c].userId

\* However refreshes overlap, the deadline of a row is that of the token it
\* stores: no update pairs the token of one refresh with the deadline of another.
ExpiryAgrees ==
    \A s \in Rows : \A t \in RefreshToken :
        sessions[s].refreshToken = hashToken(t) => sessions[s].expiresAt = t.iat + RefreshTTL

\* A session is reported revoked at most once, and only when it is gone, even
\* if logout and revocation of the same session run side by side.
RevokedLoggedOnce ==
    \A s \in SessionIds :
        /\ revokedLog[s] <= 1
        /\ revokedLog[s] = 1 => s \in created /\ sessions[s] = NoRow

\* What the proofs add to make the three invariants inductive: every row was
\* inserted and has a user, and a refresh in flight still holds the identity of
\* its session, whatever became of the row.
ForeignKey ==
    \A s \in Rows : s \in created /\ sessions[s].userId \in users

RefreshCoherent ==
    \A r \in Requests :
        LET q == request[r]
        IN  q.pc = "refresh" =>
              /\ q.sessionId \in created
              /\ q.expiresAt = q.refresh.iat + RefreshTTL
              /\ q.sessionId \in Rows => sessions[q.sessionId].userId = q.refresh.userId

IInv ==
    /\ TypeOK
    /\ TokensNeverCrossUsers
    /\ ExpiryAgrees
    /\ RevokedLoggedOnce
    /\ ForeignKey
    /\ RefreshCoherent

\* Whose each session is.
Owner == [s \in SessionIds |-> IF sessions[s] = NoRow THEN NoRow ELSE sessions[s].userId]

Owned ==
    INSTANCE OwnedRows WITH Ids <- SessionIds, NoUser <- NoRow,
        members <- users, joined <- Users, born <- created, owner <- Owner

\* Sessions are rows of their users: in particular a refresh whose row was
\* revoked or cascaded away after its lookup does not bring it back, and no
\* login leaves a session behind for a user deleted meanwhile.
RefinesOwnedRows == Owned!Spec
=============================================================================
