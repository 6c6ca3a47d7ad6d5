--------------------------- MODULE SessionsProofs ---------------------------
(***************************************************************************)
(* Theorems about Sessions, for every set of users, sessions, clients and  *)
(* request slots and every token lifetime.                                 *)
(***************************************************************************)
EXTENDS Sessions, TLAPS

\* Every variable keeps its type, through every step of every request.
THEOREM TypeCorrect == Spec => []TypeOK
<1> USE TimeAssumption, NullAssumption
    DEF TypeOK, Time, RefreshToken, AccessToken, TokenHash, Session, Request
<1>1. Init => TypeOK
  BY DEF Init, Idle
<1>2. TypeOK /\ [Next]_vars => TypeOK'
  <2> SUFFICES ASSUME TypeOK, [Next]_vars PROVE TypeOK'
    OBVIOUS
  <2> USE DEF vars, dbVars, clientVars, Become, Idle
  <2>1. ASSUME NEW r \in Requests, NEW c \in Clients, NEW u \in Users, LoginFind(r, c, u)
        PROVE TypeOK'
    BY <2>1 DEF LoginFind
  <2>2. ASSUME NEW r \in Requests, NEW s \in SessionIds, LoginCreate(r, s)
        PROVE TypeOK'
    BY <2>2 DEF LoginCreate, generateRefreshToken, generateAccessToken, hashToken, RefreshDeadline
  <2>3. ASSUME NEW r \in Requests, LoginOrphaned(r)
        PROVE TypeOK'
    BY <2>3 DEF LoginOrphaned
  <2>4. ASSUME NEW r \in Requests, NEW c \in Clients, NEW s \in SessionIds, RefreshFind(r, c, s)
        PROVE TypeOK'
    BY <2>4 DEF RefreshFind, findOneByToken, Rows, generateRefreshToken, generateAccessToken,
                RefreshDeadline
  <2>5. ASSUME NEW r \in Requests, RefreshUpdate(r)
        PROVE TypeOK'
    BY <2>5 DEF RefreshUpdate, Rows, updateRefreshToken, hashToken
  <2>6. ASSUME NEW r \in Requests, RefreshGone(r)
        PROVE TypeOK'
    BY <2>6 DEF RefreshGone
  <2>7. ASSUME NEW r \in Requests, NEW c \in Clients, NEW s \in SessionIds,
               NEW logout \in BOOLEAN, RequestArrives(r, c, s, logout)
        PROVE TypeOK'
    BY <2>7 DEF RequestArrives
  <2>8. ASSUME NEW r \in Requests, NEW what \in {"user", "session"}, ContextRead(r, what)
        PROVE TypeOK'
    BY <2>8 DEF ContextRead
  <2>9. ASSUME NEW r \in Requests, ContextRejected(r)
        PROVE TypeOK'
    BY <2>9 DEF ContextRejected
  <2>10. ASSUME NEW r \in Requests, DeleteForUser(r)
         PROVE TypeOK'
    BY <2>10 DEF DeleteForUser
  <2>11. ASSUME NEW r \in Requests, DeleteNotFound(r)
         PROVE TypeOK'
    BY <2>11 DEF DeleteNotFound
  <2>12. ASSUME NEW r \in Requests, DeliverTokens(r)
         PROVE TypeOK'
    BY <2>12 DEF DeliverTokens
  <2>13. ASSUME NEW r \in Requests, DeliverClear(r)
         PROVE TypeOK'
    BY <2>13 DEF DeliverClear
  <2>14. ASSUME NEW r \in Requests, LoseReply(r)
         PROVE TypeOK'
    BY <2>14 DEF LoseReply
  <2>15. ASSUME NEW u \in Users, DeleteUser(u)
         PROVE TypeOK'
    BY <2>15 DEF DeleteUser
  <2>16. CASE Tick
    BY <2>16 DEF Tick
  <2>17. CASE Restart
    BY <2>17 DEF Restart
  <2>18. CASE UNCHANGED vars
    BY <2>18
  <2> HIDE DEF TypeOK, Time, RefreshToken, AccessToken, TokenHash, Session, Request,
               vars, dbVars, clientVars, Become, Idle
  <2> QED
    BY <2>1, <2>2, <2>3, <2>4, <2>5, <2>6, <2>7, <2>8, <2>9, <2>10, <2>11, <2>12, <2>13,
       <2>14, <2>15, <2>16, <2>17, <2>18 DEF Next
<1>3. QED
  BY <1>1, <1>2, PTL DEF Spec

-----------------------------------------------------------------------------
(* The inductive invariant.  RefreshCoherent is what carries the identity  *)
(* of a session across the await between lookup and update.                *)

\* What a request in flight holds at the steps that write to the table.
LEMMA RequestFields ==
    ASSUME NEW q \in Request
    PROVE  /\ q.pc = "refresh" =>
                 /\ q.sessionId \in SessionIds
                 /\ q.refresh \in RefreshToken
                 /\ q.access \in AccessToken
                 /\ q.expiresAt \in Nat
           /\ q.pc = "handler" => q.target \in SessionIds /\ q.userId \in Users
  BY DEF Request

LEMMA BelowOne == \A n \in Nat : n <= 1 /\ n # 1 => n = 0
  OBVIOUS

LEMMA IInvInit == Init /\ TypeOK => IInv
  BY NullAssumption
  DEF Init, IInv, TokensNeverCrossUsers, ExpiryAgrees, RevokedLoggedOnce, ForeignKey,
      RefreshCoherent, Rows, Idle

LEMMA IInvNext == IInv /\ TypeOK' /\ [Next]_vars => IInv'
<1> SUFFICES ASSUME IInv, TypeOK', [Next]_vars PROVE IInv'
  OBVIOUS
<1> USE TimeAssumption, NullAssumption
    DEF IInv, TypeOK, TokensNeverCrossUsers, ExpiryAgrees, RevokedLoggedOnce, ForeignKey,
        RefreshCoherent, Rows, Time, RefreshToken, AccessToken, TokenHash, Session, Request,
        vars, dbVars, clientVars, Become, Idle, hashToken
<1>1. ASSUME NEW r \in Requests, NEW c \in Clients, NEW u \in Users, LoginFind(r, c, u)
     PROVE IInv'
  BY <1>1 DEF LoginFind
<1>2. ASSUME NEW r \in Requests, NEW s \in SessionIds, LoginCreate(r, s)
     PROVE IInv'
  BY <1>2 DEF LoginCreate, generateRefreshToken, generateAccessToken, RefreshDeadline
<1>3. ASSUME NEW r \in Requests, LoginOrphaned(r)
     PROVE IInv'
  BY <1>3 DEF LoginOrphaned
<1>4. ASSUME NEW r \in Requests, NEW c \in Clients, NEW s \in SessionIds, RefreshFind(r, c, s)
     PROVE IInv'
  BY <1>4 DEF RefreshFind, findOneByToken, generateRefreshToken, generateAccessToken,
                RefreshDeadline
<1>5. ASSUME NEW r \in Requests, RefreshUpdate(r)
     PROVE IInv'
  <2> HIDE DEF Request, Become
  <2> DEFINE q == request[r]
             s == q.sessionId
             row == [userId |-> q.refresh.userId, refreshToken |-> hashToken(q.refresh),
                     expiresAt |-> q.expiresAt]
  <2>1. /\ q.pc = "refresh"
        /\ s \in SessionIds
        /\ q.refresh \in RefreshToken
        /\ q.expiresAt = q.refresh.iat + RefreshTTL
        /\ sessions[s] \in Session
        /\ sessions[s].userId = q.refresh.userId
    BY <1>5, RequestFields DEF RefreshUpdate
  <2>2. /\ sessions' = [sessions EXCEPT ![s] = row]
        /\ UNCHANGED <<users, created, cookie, access, revokedLog>>
    BY <1>5, <2>1 DEF RefreshUpdate, updateRefreshToken
  <2>3. request' = [request EXCEPT ![r] = [pc |-> "tokens", client |-> q.client,
                                           refresh |-> q.refresh, access |-> q.access]]
    BY <1>5 DEF RefreshUpdate, Become
  <2>4. row \in Session /\ row.userId = sessions[s].userId /\ row.userId \in users
    BY <2>1
  <2>5. \A x \in SessionIds : sessions'[x] = IF x = s THEN row ELSE sessions[x]
    BY <2>2
  <2>6. TokensNeverCrossUsers'
    <3>1. \A t \in RefreshToken : row.refreshToken = hashToken(t) => t.userId = row.userId
      OBVIOUS
    <3> HIDE DEF row
    <3> QED
      BY <2>1, <2>2, <2>3, <2>5, <3>1
  <2>7. ExpiryAgrees'
    <3>1. \A t \in RefreshToken :
             row.refreshToken = hashToken(t) => row.expiresAt = t.iat + RefreshTTL
      BY <2>1
    <3> HIDE DEF row
    <3> QED
      BY <2>5, <3>1
  <2> HIDE DEF row
  <2>8. RevokedLoggedOnce'
    BY <2>1, <2>2, <2>5
  <2>9. ForeignKey' /\ RefreshCoherent'
    BY <2>1, <2>2, <2>3, <2>4, <2>5
  <2> QED
    BY <2>6, <2>7, <2>8, <2>9
<1>6. ASSUME NEW r \in Requests, RefreshGone(r)
     PROVE IInv'
  BY <1>6 DEF RefreshGone
<1>7. ASSUME NEW r \in Requests, NEW c \in Clients, NEW s \in SessionIds,
               NEW logout \in BOOLEAN, RequestArrives(r, c, s, logout)
     PROVE IInv'
  BY <1>7 DEF RequestArrives
<1>8. ASSUME NEW r \in Requests, NEW what \in {"user", "session"}, ContextRead(r, what)
     PROVE IInv'
  BY <1>8 DEF ContextRead
<1>9. ASSUME NEW r \in Requests, ContextRejected(r)
     PROVE IInv'
  BY <1>9 DEF ContextRejected
<1>10. ASSUME NEW r \in Requests, DeleteForUser(r)
      PROVE IInv'
  <2> DEFINE q == request[r]
  <2> HIDE DEF Request
  <2> USE <1>10 DEF DeleteForUser, deletableForUser
  <2>1. q.target \in SessionIds /\ q.target \in created /\ revokedLog[q.target] = 0
    <3>1. q.target \in Rows
      OBVIOUS
    <3>2. q.target \in SessionIds /\ q.target \in created /\ sessions[q.target] # NoRow
      BY <3>1
    <3> HIDE DEF q
    <3>3. revokedLog[q.target] \in Nat /\ revokedLog[q.target] <= 1 /\ revokedLog[q.target] # 1
      BY <3>2
    <3> QED
      BY <3>2, <3>3, BelowOne
  <2>2. RevokedLoggedOnce'
    BY <2>1
  <2>3. TokensNeverCrossUsers' /\ ExpiryAgrees' /\ ForeignKey' /\ RefreshCoherent'
    BY <2>1
  <2> QED
    BY <2>2, <2>3
<1>11. ASSUME NEW r \in Requests, DeleteNotFound(r)
      PROVE IInv'
  BY <1>11 DEF DeleteNotFound
<1>12. ASSUME NEW r \in Requests, DeliverTokens(r)
      PROVE IInv'
  BY <1>12 DEF DeliverTokens
<1>13. ASSUME NEW r \in Requests, DeliverClear(r)
      PROVE IInv'
  BY <1>13 DEF DeliverClear
<1>14. ASSUME NEW r \in Requests, LoseReply(r)
      PROVE IInv'
  BY <1>14 DEF LoseReply
<1>15. ASSUME NEW u \in Users, DeleteUser(u)
      PROVE IInv'
  BY <1>15 DEF DeleteUser
<1>16. CASE Tick
  BY <1>16 DEF Tick
<1>17. CASE Restart
  BY <1>17 DEF Restart
<1>18. CASE UNCHANGED vars
  BY <1>18
<1> HIDE DEF IInv, TypeOK, TokensNeverCrossUsers, ExpiryAgrees, RevokedLoggedOnce, ForeignKey,
             RefreshCoherent, Rows, Time, RefreshToken, AccessToken, TokenHash, Session, Request,
             vars, dbVars, clientVars, Become, Idle, hashToken
<1> QED
  BY <1>1, <1>2, <1>3, <1>4, <1>5, <1>6, <1>7, <1>8, <1>9, <1>10, <1>11, <1>12, <1>13, <1>14, <1>15, <1>16, <1>17, <1>18 DEF Next

LEMMA IInvCorrect == Spec => []IInv
<1>1. IInv /\ TypeOK' /\ [Next]_vars => IInv'
  BY IInvNext
<1> QED
  BY IInvInit, <1>1, TypeCorrect, PTL DEF Spec

\* Refreshing never hands a client the tokens of another user, although token
\* hashes are not unique in the table.
THEOREM TokenIsolation == Spec => []TokensNeverCrossUsers
<1>1. IInv => TokensNeverCrossUsers
  BY DEF IInv
<1> QED
  BY <1>1, IInvCorrect, PTL

\* Overlapping refreshes never mix the token of one with the deadline of another.
THEOREM ExpiryAgreement == Spec => []ExpiryAgrees
<1>1. IInv => ExpiryAgrees
  BY DEF IInv
<1> QED
  BY <1>1, IInvCorrect, PTL

\* A revocation is reported once, and only for a session that is gone.
THEOREM RevocationReported == Spec => []RevokedLoggedOnce
<1>1. IInv => RevokedLoggedOnce
  BY DEF IInv
<1> QED
  BY <1>1, IInvCorrect, PTL

-----------------------------------------------------------------------------
(* Refinement: what a step does to the sessions is an insert, a removal, an *)
(* expulsion or nothing.                                                   *)

LEMMA InitRefines == Init => Owned!Init
  BY NullAssumption DEF Init, Owned!Init, Owner

\* Steps that leave the users, the rows' owners and the issued ids alone are invisible.
LEMMA InvisibleStep ==
    ASSUME UNCHANGED <<users, created>>,
           \A s \in SessionIds : sessions'[s] = NoRow <=> sessions[s] = NoRow,
           \A s \in Rows : sessions'[s].userId = sessions[s].userId
    PROVE  UNCHANGED Owned!vars
  BY DEF Owned!vars, Owner, Rows

LEMMA NextRefines == IInv /\ [Next]_vars => [Owned!Next]_(Owned!vars)
<1> SUFFICES ASSUME IInv, [Next]_vars PROVE [Owned!Next]_(Owned!vars)
  OBVIOUS
<1>1. ASSUME UNCHANGED <<users, created, sessions>>
      PROVE UNCHANGED Owned!vars
  BY <1>1 DEF Owned!vars, Owner
<1>2. ASSUME NEW r \in Requests, NEW s \in SessionIds, LoginCreate(r, s)
      PROVE Owned!Insert(s, request[r].userId) /\ request[r].userId \in Users
  <2> DEFINE u == request[r].userId
             row == [userId |-> u, refreshToken |-> hashToken(generateRefreshToken(u)),
                     expiresAt |-> RefreshDeadline]
  <2>1. /\ u \in users /\ u \in Users
        /\ s \notin created
        /\ created' = created \cup {s} /\ users' = users
        /\ sessions' = [sessions EXCEPT ![s] = row]
    BY <1>2 DEF LoginCreate, IInv, TypeOK
  <2>2. row # NoRow /\ row.userId = u
    <3>1. row \in Session
      BY <2>1, TimeAssumption
      DEF Session, TokenHash, RefreshToken, hashToken, generateRefreshToken, RefreshDeadline,
          IInv, TypeOK, Time
    <3> QED
      BY <3>1, NullAssumption
  <2>3. sessions'[s] = row /\ \A x \in SessionIds \ {s} : sessions'[x] = sessions[x]
    BY <2>1 DEF IInv, TypeOK
  <2> HIDE DEF row
  <2>4. Owner' = [Owner EXCEPT ![s] = u]
    <3>1. Owner'[s] = u
      BY <2>1, <2>2, <2>3 DEF Owner
    <3>2. \A x \in SessionIds \ {s} : Owner'[x] = Owner[x]
      BY <2>1, <2>2, <2>3 DEF Owner
    <3> QED
      BY <3>1, <3>2 DEF Owner
  <2> QED
    BY <2>1, <2>4 DEF Owned!Insert
<1>3. ASSUME NEW r \in Requests, RefreshUpdate(r)
      PROVE UNCHANGED Owned!vars
  <2>1. /\ \A s \in SessionIds : sessions'[s] = NoRow <=> sessions[s] = NoRow
        /\ \A s \in Rows : sessions'[s].userId = sessions[s].userId
    BY <1>3, NullAssumption
    DEF RefreshUpdate, updateRefreshToken, Rows, IInv, TypeOK, Session, Request, TokenHash,
        hashToken
  <2> QED
    BY <1>3, <2>1, InvisibleStep DEF RefreshUpdate
<1>4. ASSUME NEW r \in Requests, DeleteForUser(r)
      PROVE \E s \in SessionIds : Owned!Remove(s)
  <2> DEFINE s == request[r].target
  <2>1. /\ s \in Rows /\ s \in SessionIds /\ sessions[s] \in Session
        /\ sessions' = [sessions EXCEPT ![s] = NoRow]
        /\ UNCHANGED <<users, created>>
    BY <1>4 DEF DeleteForUser, deletableForUser, IInv, TypeOK, Rows
  <2>2. sessions'[s] = NoRow /\ \A x \in SessionIds \ {s} : sessions'[x] = sessions[x]
    BY <2>1 DEF IInv, TypeOK
  <2>3. Owner' = [Owner EXCEPT ![s] = NoRow]
    <3>1. Owner'[s] = NoRow
      BY <2>1, <2>2 DEF Owner
    <3>2. \A x \in SessionIds \ {s} : Owner'[x] = Owner[x]
      BY <2>1, <2>2 DEF Owner
    <3> QED
      BY <3>1, <3>2 DEF Owner
  <2>4. Owner[s] # NoRow
    BY <2>1, NullAssumption DEF Owner, Rows, Session
  <2> QED
    BY <2>1, <2>3, <2>4 DEF Owned!Remove
<1>5. ASSUME NEW u \in Users, DeleteUser(u)
      PROVE Owned!Expel(u)
  <2>1. \A s \in SessionIds : Owner[s] = u <=> s \in Rows /\ sessions[s].userId = u
    BY NullAssumption DEF Owner, Rows
  <2>2. \A s \in SessionIds : sessions'[s] = IF Owner[s] = u THEN NoRow ELSE sessions[s]
    BY <1>5, <2>1 DEF DeleteUser
  <2>3. Owner' = [s \in SessionIds |-> IF Owner[s] = u THEN NoRow ELSE Owner[s]]
    BY <2>2 DEF Owner
  <2> QED
    BY <1>5, <2>3 DEF Owned!Expel, DeleteUser
<1>6. ASSUME NEW r \in Requests,
             \/ \E c \in Clients, u \in Users : LoginFind(r, c, u)
             \/ LoginOrphaned(r)
             \/ \E c \in Clients, s \in SessionIds : RefreshFind(r, c, s)
             \/ RefreshGone(r)
             \/ \E c \in Clients, s \in SessionIds, logout \in BOOLEAN :
                   RequestArrives(r, c, s, logout)
             \/ \E what \in {"user", "session"} : ContextRead(r, what)
             \/ ContextRejected(r)
             \/ DeleteNotFound(r)
             \/ DeliverTokens(r)
             \/ DeliverClear(r)
             \/ LoseReply(r)
      PROVE UNCHANGED <<users, created, sessions>>
  BY <1>6 DEF LoginFind, LoginOrphaned, RefreshFind, RefreshGone, RequestArrives, ContextRead,
              ContextRejected, DeleteNotFound, DeliverTokens, DeliverClear, LoseReply, dbVars
<1>7. ASSUME Tick \/ Restart \/ UNCHANGED vars
      PROVE UNCHANGED <<users, created, sessions>>
  BY <1>7 DEF Tick, Restart, vars, dbVars
<1> QED
  BY <1>1, <1>2, <1>3, <1>4, <1>5, <1>6, <1>7 DEF Next, Owned!Next

\* Sessions are rows of their users: no interleaving of refresh, logout,
\* revocation, user deletion and restart brings a session back.
THEOREM Refinement == Spec => RefinesOwnedRows
<1>1. IInv /\ [Next]_vars => [Owned!Next]_(Owned!vars)
  BY NextRefines
<1> QED
  BY InitRefines, <1>1, IInvCorrect, PTL DEF Spec, RefinesOwnedRows, Owned!Spec
=============================================================================
