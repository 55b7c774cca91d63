--------------------------- MODULE SessionsProofs ---------------------------
(***************************************************************************)
(* Theorems about Sessions, for every set of names, requests and questions *)
(* and every bound.                                                        *)
(***************************************************************************)
EXTENDS Sessions, TableProofs

-----------------------------------------------------------------------------
(* Rows and requests *)

LoginRequest == [phase : {"login"}, operator : OperatorIds, at : Nat]
ArrivedRequest ==
  [phase : {"arrived"}, token : SessionIds, ask : AskTypes, wasUsable : BOOLEAN]
ReadRequest ==
  [phase : {"read"}, token : SessionIds, ask : AskTypes, wasUsable : BOOLEAN, row : Session]
CheckedRequest ==
  [phase : {"checked"}, token : SessionIds, ask : AskTypes, wasUsable : BOOLEAN,
   operator : OperatorIds, seenAt : Nat]
AuthenticatedRequest ==
  [phase : {"authenticated"}, token : SessionIds, ask : AskTypes, wasUsable : BOOLEAN,
   operator : OperatorIds]
RevokingRequest ==
  [phase : {"revoking"}, token : SessionIds, ask : AskTypes, wasUsable : BOOLEAN,
   operator : OperatorIds, at : Nat]

(* The phase of a request says what else is known of it. *)
LEMMA RequestShape ==
  ASSUME NEW request \in Request
  PROVE  /\ request.phase = "login" => request \in LoginRequest
         /\ request.phase = "arrived" => request \in ArrivedRequest
         /\ request.phase = "read" => request \in ReadRequest
         /\ request.phase = "checked" => request \in CheckedRequest
         /\ request.phase = "authenticated" => request \in AuthenticatedRequest
         /\ request.phase = "revoking" => request \in RevokingRequest
BY DEF Request, Idle, LoginRequest, ArrivedRequest, ReadRequest, CheckedRequest,
       AuthenticatedRequest, RevokingRequest

(* A request of a shape is a request. *)
LEMMA ShapesAreRequests ==
  /\ Idle \in Request
  /\ LoginRequest \subseteq Request
  /\ ArrivedRequest \subseteq Request
  /\ ReadRequest \subseteq Request
  /\ CheckedRequest \subseteq Request
  /\ AuthenticatedRequest \subseteq Request
  /\ RevokingRequest \subseteq Request
BY DEF Request, LoginRequest, ArrivedRequest, ReadRequest, CheckedRequest, AuthenticatedRequest,
       RevokingRequest

(* Becoming another request leaves the others. *)
LEMMA BecomeChanges ==
  ASSUME requests \in [Requests -> Request], NEW r \in Requests, NEW request \in Request,
         Become(r, request)
  PROVE  /\ requests' \in [Requests -> Request]
         /\ requests'[r] = request
         /\ \A other \in Requests \ {r} : requests'[other] = requests[other]
BY DEF Become

(* What may become of a row: it is revoked, as of a moment since its issue, or seen. *)
Later(old, new) ==
  \E revokedAt \in {old.revokedAt} \cup old.issuedAt..now, lastSeenAt \in 0..now :
    /\ new = [old EXCEPT !.revokedAt = revokedAt, !.lastSeenAt = lastSeenAt]
    /\ Revoked(old) => revokedAt = old.revokedAt

(* A row of later is still a row, of the same operator and validity. *)
LEMMA LaterTyped ==
  ASSUME NEW old \in Session, NEW new, Later(old, new), now \in Nat
  PROVE  /\ new \in Session
         /\ new.operator = old.operator
         /\ new.issuedAt = old.issuedAt
         /\ new.expiresAt = old.expiresAt
         /\ new.revokedAt \in {old.revokedAt} \cup old.issuedAt..now
         /\ new.lastSeenAt \in 0..now
         /\ Revoked(old) => new.revokedAt = old.revokedAt
<1>1. PICK revokedAt \in {old.revokedAt} \cup old.issuedAt..now, lastSeenAt \in 0..now :
        /\ new = [old EXCEPT !.revokedAt = revokedAt, !.lastSeenAt = lastSeenAt]
        /\ Revoked(old) => revokedAt = old.revokedAt
  BY DEF Later
<1>2. revokedAt \in Nat \cup {Never} /\ lastSeenAt \in Nat
  BY DEF Session
<1> QED BY <1>1, <1>2 DEF Session

(* A row that does not change, or is revoked for the first time, or seen. *)
LEMMA LaterRows ==
  ASSUME NEW old \in Session, old.lastSeenAt <= now, now \in Nat
  PROVE  /\ Later(old, old)
         /\ \A at \in old.issuedAt..now :
              ~Revoked(old) => Later(old, [old EXCEPT !.revokedAt = at])
         /\ \A moment \in 0..now : Later(old, [old EXCEPT !.lastSeenAt = moment])
<1>1. old.lastSeenAt \in 0..now
  BY DEF Session
<1>2. old = [old EXCEPT !.revokedAt = old.revokedAt, !.lastSeenAt = old.lastSeenAt]
  BY DEF Session
<1>3. \A at : [old EXCEPT !.revokedAt = at] =
                [old EXCEPT !.revokedAt = at, !.lastSeenAt = old.lastSeenAt]
  BY DEF Session
<1>4. \A moment : [old EXCEPT !.lastSeenAt = moment] =
                    [old EXCEPT !.revokedAt = old.revokedAt, !.lastSeenAt = moment]
  BY DEF Session
<1> QED BY <1>1, <1>2, <1>3, <1>4 DEF Later

-----------------------------------------------------------------------------
(* Type correctness *)

(* Nothing is remembered of a moment that is still to come, and tokens and operators
   that requests carry were given out before.  A revocation has read the clock since
   every session there is was issued: it holds the mutex. *)
TimesInv ==
  /\ \A s \in DOMAIN sessions :
       /\ sessions[s].issuedAt <= now
       /\ sessions[s].lastSeenAt <= now
       /\ Revoked(sessions[s]) => sessions[s].revokedAt <= now
  /\ \A r \in Requests :
       /\ requests[r].phase = "login" =>
            requests[r].at <= now /\ requests[r].operator \in DOMAIN operators
       /\ requests[r].phase \in {"arrived", "read", "checked", "authenticated", "revoking"} =>
            requests[r].token <= lastId
       /\ requests[r].phase = "checked" => requests[r].seenAt <= now
       /\ requests[r].phase = "revoking" =>
            /\ requests[r].at <= now
            /\ \A s \in DOMAIN sessions : sessions[s].issuedAt <= requests[r].at

SessionsInv == SessionsTypeOK /\ TimesInv

(* The sessions there are after a step that logs nobody in: each as it was, revoked
   or seen, and only expired ones are gone. *)
SessionsKept ==
  /\ DOMAIN sessions' \subseteq DOMAIN sessions
  /\ IsTable(sessions', SessionIds, Session)
  /\ \A s \in DOMAIN sessions' : Later(sessions[s], sessions'[s])
  /\ \A s \in DOMAIN sessions \ DOMAIN sessions' : Expired(sessions[s], now)
  /\ lastId' = lastId

(* A row for each session, unchanged or of later, is what SessionsKept asks for. *)
LEMMA RewriteKeeps ==
  ASSUME SessionsInv, UNCHANGED lastId, sessions' = [s \in DOMAIN sessions |-> sessions'[s]],
         \A s \in DOMAIN sessions : Later(sessions[s], sessions'[s])
  PROVE  SessionsKept
<1>1. now \in Nat /\ IsTable(sessions, SessionIds, Session)
  BY DEF SessionsInv, SessionsTypeOK
<1>2. \A s \in DOMAIN sessions : sessions'[s] \in Session
  BY <1>1, LaterTyped DEF IsTable
<1>3. DOMAIN sessions' = DOMAIN sessions /\ sessions' \in [DOMAIN sessions -> Session]
  BY <1>2
<1>4. IsTable(sessions', SessionIds, Session)
  BY <1>1, <1>2, <1>3 DEF IsTable
<1> QED BY <1>3, <1>4 DEF SessionsKept

(* A step that does not touch the sessions keeps them. *)
LEMMA UnchangedKeeps == ASSUME SessionsInv, UNCHANGED <<sessions, lastId>> PROVE SessionsKept
<1>1. now \in Nat /\ IsTable(sessions, SessionIds, Session)
  BY DEF SessionsInv, SessionsTypeOK
<1>2. \A s \in DOMAIN sessions : Later(sessions[s], sessions[s])
  BY <1>1, LaterRows DEF SessionsInv, TimesInv, IsTable
<1> QED BY <1>1, <1>2 DEF SessionsKept

(* What a revocation read of the clock is at most now, and since every issue. *)
LEMMA RevocationIsSinceIssue ==
  ASSUME SessionsInv, NEW r \in Requests, requests[r].phase = "revoking"
  PROVE  /\ requests[r] \in RevokingRequest
         /\ requests[r].at \in 0..now
         /\ \A s \in DOMAIN sessions : requests[r].at \in sessions[s].issuedAt..now
<1>1. requests[r] \in RevokingRequest /\ now \in Nat
  BY RequestShape DEF SessionsInv, SessionsTypeOK
<1>2. requests[r].at \in Nat
  BY <1>1 DEF RevokingRequest
<1>3. \A s \in DOMAIN sessions : sessions[s].issuedAt \in Nat
  BY DEF SessionsInv, SessionsTypeOK, IsTable, Session
<1>4. /\ requests[r].at <= now
      /\ \A s \in DOMAIN sessions : sessions[s].issuedAt <= requests[r].at
  BY DEF SessionsInv, TimesInv
<1> QED BY <1>1, <1>2, <1>3, <1>4

(* A revocation reaches the rows it is meant for, those not revoked before. *)
LEMMA RevokeKeeps ==
  ASSUME SessionsInv, NEW ids, NEW at, RevokeSessions(ids, at), UNCHANGED lastId,
         \A s \in DOMAIN sessions : at \in sessions[s].issuedAt..now
  PROVE  SessionsKept
<1>1. now \in Nat /\ IsTable(sessions, SessionIds, Session)
  BY DEF SessionsInv, SessionsTypeOK
<1> DEFINE Row(s) == IF s \in ids /\ ~Revoked(sessions[s])
                     THEN [sessions[s] EXCEPT !.revokedAt = at] ELSE sessions[s]
<1>2. \A s \in DOMAIN sessions : Later(sessions[s], Row(s))
  BY <1>1, LaterRows DEF SessionsInv, TimesInv, IsTable
<1>3. sessions' = [s \in DOMAIN sessions |-> Row(s)]
  BY DEF RevokeSessions
<1> HIDE DEF Row
<1>4. /\ sessions' = [s \in DOMAIN sessions |-> sessions'[s]]
      /\ \A s \in DOMAIN sessions : sessions'[s] = Row(s)
  BY <1>3
<1> QED BY <1>2, <1>4, RewriteKeeps

(* last_seen_at is written with the moment the session was checked at. *)
LEMMA TouchKeeps ==
  ASSUME SessionsInv, NEW r \in Requests, TouchLastSeen(r) PROVE SessionsKept
<1>1. now \in Nat /\ IsTable(sessions, SessionIds, Session)
      /\ requests[r] \in Request /\ requests[r].phase = "checked"
  BY DEF SessionsInv, SessionsTypeOK, TouchLastSeen
<1>2. requests[r].seenAt \in 0..now
  BY <1>1, RequestShape DEF SessionsInv, TimesInv, CheckedRequest
<1> DEFINE Row(s) == IF s = requests[r].token
                     THEN [sessions[s] EXCEPT !.lastSeenAt = requests[r].seenAt]
                     ELSE sessions[s]
<1>3. \A s \in DOMAIN sessions : Later(sessions[s], Row(s))
  BY <1>1, <1>2, LaterRows DEF SessionsInv, TimesInv, IsTable
<1>4. sessions' = [s \in DOMAIN sessions |-> Row(s)] /\ UNCHANGED lastId
  BY DEF TouchLastSeen
<1> HIDE DEF Row
<1>5. /\ sessions' = [s \in DOMAIN sessions |-> sessions'[s]]
      /\ \A s \in DOMAIN sessions : sessions'[s] = Row(s)
  BY <1>4
<1> QED BY <1>3, <1>4, <1>5, RewriteKeeps

(* The purge deletes what has expired. *)
LEMMA PurgeKeeps == ASSUME SessionsInv, PurgeSessions PROVE SessionsKept
<1>1. now \in Nat /\ IsTable(sessions, SessionIds, Session)
  BY DEF SessionsInv, SessionsTypeOK
<1>2. \A s \in DOMAIN sessions : Later(sessions[s], sessions[s])
  BY <1>1, LaterRows DEF SessionsInv, TimesInv, IsTable
<1>3. /\ DOMAIN sessions' = {s \in DOMAIN sessions : sessions[s].expiresAt >= now}
      /\ \A s \in DOMAIN sessions' : sessions'[s] = sessions[s]
      /\ IsTable(sessions', SessionIds, Session)
      /\ lastId' = lastId
  BY <1>1 DEF PurgeSessions, DeleteExpired, IsTable
<1>4. \A s \in DOMAIN sessions \ DOMAIN sessions' : now >= sessions[s].expiresAt
  BY <1>1, <1>3 DEF IsTable, Session
<1> QED BY <1>2, <1>3, <1>4 DEF SessionsKept, Expired

(* A login adds a session of its operator under an id that none ever had. *)
LEMMA LoginAdds ==
  ASSUME SessionsInv, NEW r \in Requests, CommitLogin(r)
  PROVE  /\ lastId' = lastId + 1 /\ lastId' \in SessionIds /\ lastId' \notin DOMAIN sessions
         /\ DOMAIN sessions' = DOMAIN sessions \cup {lastId'}
         /\ \A s \in DOMAIN sessions : sessions'[s] = sessions[s]
         /\ sessions'[lastId'] \in Session
         /\ sessions'[lastId'].operator \in DOMAIN operators
         /\ sessions'[lastId'].issuedAt <= now
         /\ sessions'[lastId'].revokedAt = Never
         /\ sessions'[lastId'].lastSeenAt <= now
         /\ IsTable(sessions', SessionIds, Session)
         /\ MutexIsFree
<1>1. /\ lastId \in 0..MaxSessions /\ lastId < MaxSessions /\ MaxSessions \in Nat
      /\ DOMAIN sessions \subseteq 1..lastId
      /\ IsTable(sessions, SessionIds, Session)
      /\ requests[r] \in Request /\ requests[r].phase = "login"
  BY SessionBounds DEF SessionsInv, SessionsTypeOK, CommitLogin
<1> DEFINE at == requests[r].at
           row == [operator |-> requests[r].operator, issuedAt |-> at, expiresAt |-> at + TTL,
                   revokedAt |-> Never, lastSeenAt |-> at]
<1>2. at \in Nat /\ at <= now /\ requests[r].operator \in OperatorIds \cap DOMAIN operators
  BY <1>1, RequestShape DEF LoginRequest, SessionsInv, TimesInv
<1>3. at + TTL \in Nat
  BY <1>2, SessionBounds
<1>4. row \in Session
  BY <1>2, <1>3 DEF Session
<1>5. lastId + 1 \in SessionIds /\ lastId + 1 \notin DOMAIN sessions
  BY <1>1 DEF SessionIds
<1>6. sessions' = Insert(sessions, lastId + 1, row) /\ lastId' = lastId + 1 /\ MutexIsFree
  BY DEF CommitLogin
<1>7. row.operator = requests[r].operator /\ row.issuedAt = at
      /\ row.revokedAt = Never /\ row.lastSeenAt = at
  OBVIOUS
<1> HIDE DEF row, at
<1>8. IsTable(sessions', SessionIds, Session)
  BY <1>1, <1>4, <1>5, <1>6, InsertTyped
<1>9. /\ DOMAIN sessions' = DOMAIN sessions \cup {lastId + 1}
      /\ sessions'[lastId + 1] = row
      /\ \A s \in DOMAIN sessions : sessions'[s] = sessions[s]
  BY <1>5, <1>6 DEF Insert
<1> QED BY <1>2, <1>4, <1>5, <1>6, <1>7, <1>8, <1>9

(* A step logs somebody in, or keeps the sessions there are. *)
LEMMA SessionsChange ==
  ASSUME SessionsInv, [Next]_vars
  PROVE  SessionsKept \/ \E r \in Requests : CommitLogin(r)
<1>1. ASSUME NEW r \in Requests, Logout(r) \/ RevokeOperatorSessions(r) PROVE SessionsKept
  <2>1. /\ requests[r].phase = "revoking" /\ UNCHANGED lastId
        /\ \E ids : RevokeSessions(ids, requests[r].at)
    BY <1>1 DEF Logout, RevokeOperatorSessions, Revoking
  <2>2. \A s \in DOMAIN sessions : requests[r].at \in sessions[s].issuedAt..now
    BY <2>1, RevocationIsSinceIssue
  <2> QED BY <2>1, <2>2, RevokeKeeps
<1>2. ASSUME NEW r \in Requests, TouchLastSeen(r) PROVE SessionsKept
  BY <1>2, TouchKeeps
<1>3. CASE PurgeSessions
  BY <1>3, PurgeKeeps
<1>4. CASE UNCHANGED <<sessions, lastId>>
  BY <1>4, UnchangedKeeps
<1> QED BY <1>1, <1>2, <1>3, <1>4
        DEF Next, RequestStep, BeginLogin, Arrive, ReadSession, CheckSession, BeginRevocation,
            Register, EndRequest, Restart, Tick, tables, vars

(* Operators are only added, under names that are free. *)
LEMMA OperatorsGrow ==
  ASSUME SessionsInv, [Next]_vars
  PROVE  /\ IsTable(operators', OperatorIds, Operator)
         /\ DOMAIN operators \subseteq DOMAIN operators'
         /\ \A o, p \in DOMAIN operators' : operators'[o].name = operators'[p].name => o = p
<1>a. /\ IsTable(operators, OperatorIds, Operator)
      /\ \A o, p \in DOMAIN operators : operators[o].name = operators[p].name => o = p
      /\ requests \in [Requests -> Request]
  BY DEF SessionsInv, SessionsTypeOK
<1>1. ASSUME NEW name \in Names, NEW role \in Roles, CreateOperator(name, role)
      PROVE  /\ IsTable(operators', OperatorIds, Operator)
             /\ DOMAIN operators \subseteq DOMAIN operators'
             /\ \A o, p \in DOMAIN operators' : operators'[o].name = operators'[p].name => o = p
  <2> DEFINE row == [name |-> name, role |-> role]
  <2>1. row \in Operator /\ row.name = name
    BY DEF Operator
  <2>2. PICK o \in FreshId(operators, OperatorIds) : operators' = Insert(operators, o, row)
    BY <1>1 DEF CreateOperator
  <2> HIDE DEF row
  <2>3. o \in OperatorIds /\ o \notin DOMAIN operators
    BY FreshIdIsFree
  <2>4. IsTable(operators', OperatorIds, Operator)
    BY <1>a, <2>1, <2>2, <2>3, InsertTyped
  <2>5. /\ DOMAIN operators' = DOMAIN operators \cup {o} /\ operators'[o] = row
        /\ \A p \in DOMAIN operators : operators'[p] = operators[p]
    BY <2>2, <2>3 DEF Insert
  <2>6. \A p \in DOMAIN operators : operators[p].name # name
    BY <1>1 DEF CreateOperator, ByUsername
  <2> QED BY <1>a, <2>1, <2>4, <2>5, <2>6
<1>2. ASSUME NEW r \in Requests, Register(r)
      PROVE  /\ requests[r].ask.name \in Names /\ requests[r].ask.role \in Roles
             /\ CreateOperator(requests[r].ask.name, requests[r].ask.role)
  <2>1. requests[r] \in AuthenticatedRequest
    BY <1>2, <1>a, RequestShape DEF Register, Asked
  <2>2. requests[r].ask \in AskTypes /\ requests[r].ask.op = "register"
    BY <1>2, <2>1 DEF Register, Asked, AuthenticatedRequest
  <2>3. requests[r].ask \in [op : {"register"}, name : Names, role : Roles]
    BY <2>2 DEF AskTypes
  <2> QED BY <1>2, <2>3 DEF Register
<1>3. CASE Restart
  BY <1>1, <1>3, <1>a, BootstrapIsAName DEF Restart, Roles
<1>4. CASE UNCHANGED operators
  BY <1>4, <1>a
<1> QED BY <1>1, <1>2, <1>3, <1>4
        DEF Next, RequestStep, BeginLogin, CommitLogin, Arrive, ReadSession, CheckSession,
            TouchLastSeen, BeginRevocation, Logout, RevokeOperatorSessions, EndRequest,
            PurgeSessions, Tick, tables, vars

(* What the requests become: idle, or another shape with what was known before. *)
LEMMA RequestsChange ==
  ASSUME SessionsInv, [Next]_vars, NEW r \in Requests
  PROVE  \/ requests'[r] = requests[r]
         \/ requests'[r] = Idle
         \/ /\ requests'[r] \in LoginRequest
            /\ requests'[r].at = now /\ requests'[r].operator \in DOMAIN operators
         \/ /\ requests'[r] \in ArrivedRequest
            /\ requests'[r].token <= lastId
            /\ requests'[r].wasUsable = UsableNow(requests'[r].token)
         \/ /\ ReadSession(r) /\ requests'[r] \in ReadRequest
            /\ requests'[r].token = requests[r].token
            /\ requests'[r].wasUsable = requests[r].wasUsable
            /\ requests'[r].token \in DOMAIN sessions
            /\ requests'[r].row = sessions[requests'[r].token]
         \/ /\ CheckSession(r) /\ requests'[r] \in CheckedRequest
            /\ requests'[r].token = requests[r].token
            /\ requests'[r].wasUsable = requests[r].wasUsable
            /\ requests'[r].seenAt = now
         \/ /\ TouchLastSeen(r) /\ requests'[r] \in AuthenticatedRequest
            /\ requests'[r].token = requests[r].token
            /\ requests'[r].wasUsable = requests[r].wasUsable
         \/ /\ BeginRevocation(r) /\ requests'[r] \in RevokingRequest
            /\ requests'[r].token = requests[r].token
            /\ requests'[r].wasUsable = requests[r].wasUsable
            /\ requests'[r].at = now
<1>a. /\ requests \in [Requests -> Request] /\ requests[r] \in Request
      /\ IsTable(sessions, SessionIds, Session) /\ IsTable(operators, OperatorIds, Operator)
      /\ now \in Nat
  BY DEF SessionsInv, SessionsTypeOK
<1>b. requests[r].phase \in {"arrived", "read", "checked", "authenticated"} =>
        /\ requests[r].token \in SessionIds /\ requests[r].ask \in AskTypes
        /\ requests[r].wasUsable \in BOOLEAN
  BY <1>a, RequestShape DEF ArrivedRequest, ReadRequest, CheckedRequest, AuthenticatedRequest
<1>1. ASSUME NEW name \in Names, BeginLogin(r, name)
      PROVE  /\ requests'[r] \in LoginRequest
             /\ requests'[r].at = now /\ requests'[r].operator \in DOMAIN operators
  <2>1. PICK o \in ByUsername(name) : Become(r, [phase |-> "login", operator |-> o, at |-> now])
    BY <1>1 DEF BeginLogin
  <2>2. o \in DOMAIN operators /\ o \in OperatorIds
    BY <1>a DEF ByUsername, IsTable
  <2> QED BY <1>a, <2>1, <2>2 DEF Become, LoginRequest
<1>2. ASSUME NEW token \in SessionIds, NEW ask \in Asks, Arrive(r, token, ask)
      PROVE  /\ requests'[r] \in ArrivedRequest
             /\ requests'[r].token <= lastId
             /\ requests'[r].wasUsable = UsableNow(requests'[r].token)
  <2>1. UsableNow(token) \in BOOLEAN /\ ask \in AskTypes
    BY AsksTyped DEF UsableNow
  <2> DEFINE it == [phase |-> "arrived", token |-> token, ask |-> ask,
                    wasUsable |-> UsableNow(token)]
  <2>2. it \in ArrivedRequest /\ it.token = token /\ it.wasUsable = UsableNow(token)
    BY <2>1 DEF ArrivedRequest
  <2>3. requests'[r] = it /\ token <= lastId
    BY <1>a, <1>2 DEF Arrive, Become
  <2> HIDE DEF it
  <2> QED BY <2>2, <2>3
<1>3. CASE ReadSession(r)
  <2> DEFINE it == [phase |-> "read", token |-> requests[r].token, ask |-> requests[r].ask,
                    wasUsable |-> requests[r].wasUsable, row |-> sessions[requests[r].token]]
  <2>1. requests[r].token \in DOMAIN sessions /\ requests'[r] = it /\ requests[r].phase = "arrived"
    BY <1>a, <1>3 DEF ReadSession, Become
  <2>2. sessions[requests[r].token] \in Session
    BY <1>a, <2>1 DEF IsTable
  <2>3. it \in ReadRequest /\ it.token = requests[r].token
        /\ it.wasUsable = requests[r].wasUsable /\ it.row = sessions[requests[r].token]
    BY <1>b, <2>1, <2>2 DEF ReadRequest
  <2> HIDE DEF it
  <2> QED BY <1>3, <2>1, <2>3
<1>4. CASE CheckSession(r)
  <2> DEFINE it == [phase |-> "checked", token |-> requests[r].token, ask |-> requests[r].ask,
                    wasUsable |-> requests[r].wasUsable, operator |-> requests[r].row.operator,
                    seenAt |-> now]
  <2>1. requests'[r] = it /\ requests[r].phase = "read"
    BY <1>a, <1>4 DEF CheckSession, Become
  <2>2. requests[r].row.operator \in OperatorIds
    BY <1>a, <2>1, RequestShape DEF ReadRequest, Session
  <2>3. it \in CheckedRequest /\ it.token = requests[r].token
        /\ it.wasUsable = requests[r].wasUsable /\ it.seenAt = now
    BY <1>a, <1>b, <2>1, <2>2 DEF CheckedRequest
  <2> HIDE DEF it
  <2> QED BY <1>4, <2>1, <2>3
<1>5. CASE TouchLastSeen(r)
  <2> DEFINE it == [phase |-> "authenticated", token |-> requests[r].token,
                    ask |-> requests[r].ask, wasUsable |-> requests[r].wasUsable,
                    operator |-> requests[r].operator]
  <2>1. requests'[r] = it /\ requests[r].phase = "checked"
    BY <1>a, <1>5 DEF TouchLastSeen, Become
  <2>2. requests[r].operator \in OperatorIds
    BY <1>a, <2>1, RequestShape DEF CheckedRequest
  <2>3. it \in AuthenticatedRequest /\ it.token = requests[r].token
        /\ it.wasUsable = requests[r].wasUsable
    BY <1>b, <2>1, <2>2 DEF AuthenticatedRequest
  <2> HIDE DEF it
  <2> QED BY <1>5, <2>1, <2>3
<1>9. CASE BeginRevocation(r)
  <2> DEFINE it == [phase |-> "revoking", token |-> requests[r].token,
                    ask |-> requests[r].ask, wasUsable |-> requests[r].wasUsable,
                    operator |-> requests[r].operator, at |-> now]
  <2>1. requests'[r] = it /\ requests[r].phase = "authenticated"
    BY <1>a, <1>9 DEF BeginRevocation, Asked, Become
  <2>2. requests[r].operator \in OperatorIds
    BY <1>a, <2>1, RequestShape DEF AuthenticatedRequest
  <2>3. it \in RevokingRequest /\ it.token = requests[r].token
        /\ it.wasUsable = requests[r].wasUsable /\ it.at = now
    BY <1>a, <1>b, <2>1, <2>2 DEF RevokingRequest
  <2> HIDE DEF it
  <2> QED BY <1>9, <2>1, <2>3
<1>6. CASE CommitLogin(r) \/ Logout(r) \/ RevokeOperatorSessions(r) \/ Register(r)
             \/ EndRequest(r) \/ Restart
  BY <1>a, <1>6 DEF CommitLogin, Logout, RevokeOperatorSessions, Register, EndRequest, Restart,
                   Become
<1>7. ASSUME NEW other \in Requests, RequestStep(other), other # r
      PROVE  requests'[r] = requests[r]
  BY <1>a, <1>7 DEF RequestStep, BeginLogin, CommitLogin, Arrive, ReadSession, CheckSession,
                   TouchLastSeen, BeginRevocation, Logout, RevokeOperatorSessions, Register,
                   EndRequest, Become
<1>8. CASE PurgeSessions \/ Tick \/ UNCHANGED vars
  BY <1>8 DEF PurgeSessions, Tick, vars
<1> QED BY <1>1, <1>2, <1>3, <1>4, <1>5, <1>6, <1>7, <1>8, <1>9 DEF Next, RequestStep

(* The clock does not go back. *)
LEMMA TimePasses ==
  ASSUME SessionsInv, [Next]_vars
  PROVE  now \in Nat /\ now' \in Nat /\ now <= now'
<1>1. now \in Nat
  BY DEF SessionsInv, SessionsTypeOK
<1>2. now' = now \/ now' = now + 1
  BY DEF Next, RequestStep, BeginLogin, CommitLogin, Arrive, ReadSession, CheckSession,
         TouchLastSeen, BeginRevocation, Logout, RevokeOperatorSessions, Register, EndRequest,
         PurgeSessions, Restart, Tick, vars
<1> QED BY <1>1, <1>2

(* Every step keeps the tables and the requests typed, and their times past. *)
LEMMA SessionsNext == SessionsInv /\ [Next]_vars => SessionsInv'
<1> SUFFICES ASSUME SessionsInv, [Next]_vars PROVE SessionsInv'
  OBVIOUS
<1>a. /\ IsTable(sessions, SessionIds, Session) /\ DOMAIN sessions \subseteq 1..lastId
      /\ \A s \in DOMAIN sessions : sessions[s].operator \in DOMAIN operators
      /\ lastId \in 0..MaxSessions /\ MaxSessions \in Nat
      /\ requests \in [Requests -> Request]
      /\ now \in Nat
  BY SessionBounds DEF SessionsInv, SessionsTypeOK
<1>1. now' \in Nat /\ now <= now'
  BY TimePasses
<1>2. /\ IsTable(sessions', SessionIds, Session) /\ DOMAIN sessions' \subseteq 1..lastId'
      /\ lastId' \in 0..MaxSessions /\ lastId <= lastId'
      /\ \A s \in DOMAIN sessions' : sessions'[s].operator \in DOMAIN operators
      /\ \A s \in DOMAIN sessions' :
           /\ sessions'[s].issuedAt <= now
           /\ sessions'[s].lastSeenAt <= now
           /\ Revoked(sessions'[s]) => sessions'[s].revokedAt <= now
  <2>1. CASE SessionsKept
    <3>1. ASSUME NEW s \in DOMAIN sessions'
          PROVE  /\ sessions'[s].operator \in DOMAIN operators
                 /\ sessions'[s].issuedAt <= now
                 /\ sessions'[s].lastSeenAt <= now
                 /\ Revoked(sessions'[s]) => sessions'[s].revokedAt <= now
      <4>1. s \in DOMAIN sessions /\ sessions[s] \in Session /\ Later(sessions[s], sessions'[s])
        BY <1>a, <2>1 DEF SessionsKept, IsTable
      <4>2. /\ sessions'[s].operator = sessions[s].operator
            /\ sessions'[s].issuedAt = sessions[s].issuedAt
            /\ sessions'[s].revokedAt \in {sessions[s].revokedAt} \cup sessions[s].issuedAt..now
            /\ sessions'[s].lastSeenAt \in 0..now
        BY <1>a, <4>1, LaterTyped
      <4>3. /\ sessions[s].issuedAt <= now /\ sessions[s].issuedAt \in Nat
            /\ Revoked(sessions[s]) => sessions[s].revokedAt <= now
        BY <4>1 DEF SessionsInv, TimesInv, Session
      <4> QED BY <1>a, <4>1, <4>2, <4>3 DEF Revoked
    <3> QED BY <1>a, <2>1, <3>1 DEF SessionsKept
  <2>2. CASE \E r \in Requests : CommitLogin(r)
    <3>1. /\ lastId' = lastId + 1 /\ lastId' \in SessionIds
          /\ DOMAIN sessions' = DOMAIN sessions \cup {lastId'}
          /\ \A s \in DOMAIN sessions : sessions'[s] = sessions[s]
          /\ sessions'[lastId'].operator \in DOMAIN operators
          /\ sessions'[lastId'].issuedAt <= now
          /\ sessions'[lastId'].revokedAt = Never
          /\ sessions'[lastId'].lastSeenAt <= now
          /\ IsTable(sessions', SessionIds, Session)
      BY <2>2, LoginAdds
    <3>2. lastId' \in 0..MaxSessions /\ lastId <= lastId' /\ DOMAIN sessions' \subseteq 1..lastId'
      BY <1>a, <3>1 DEF SessionIds
    <3>3. \A s \in DOMAIN sessions' : s \in DOMAIN sessions \/ s = lastId'
      BY <3>1
    <3> QED BY <1>a, <3>1, <3>2, <3>3 DEF SessionsInv, TimesInv, Revoked
  <2> QED BY <2>1, <2>2, SessionsChange
<1>3. \A r \in Requests : requests'[r] \in Request
  BY <1>a, RequestsChange, ShapesAreRequests
<1>4. requests' \in [Requests -> Request]
  <2>1. requests' = [r \in Requests |-> requests'[r]]
    BY <1>a DEF Next, RequestStep, BeginLogin, CommitLogin, Arrive, ReadSession, CheckSession,
                TouchLastSeen, BeginRevocation, Logout, RevokeOperatorSessions, Register,
                EndRequest, PurgeSessions, Restart, Tick, vars, Become
  <2> QED BY <1>3, <2>1
<1>5. SessionsTypeOK'
  BY <1>1, <1>2, <1>4, OperatorsGrow DEF SessionsTypeOK
<1>6. ASSUME NEW r \in Requests
      PROVE  /\ requests'[r].phase = "login" =>
                  requests'[r].at <= now /\ requests'[r].operator \in DOMAIN operators
             /\ requests'[r].phase \in {"arrived", "read", "checked", "authenticated",
                                        "revoking"} =>
                  requests'[r].token <= lastId
             /\ requests'[r].phase = "checked" => requests'[r].seenAt <= now
             /\ requests'[r].phase = "revoking" => requests'[r].at <= now
  <2>1. /\ requests[r].phase = "login" =>
             requests[r].at <= now /\ requests[r].operator \in DOMAIN operators
        /\ requests[r].phase \in {"arrived", "read", "checked", "authenticated", "revoking"} =>
             requests[r].token <= lastId
        /\ requests[r].phase = "checked" => requests[r].seenAt <= now
        /\ requests[r].phase = "revoking" => requests[r].at <= now
    BY DEF SessionsInv, TimesInv
  <2>2. ReadSession(r) \/ CheckSession(r) \/ TouchLastSeen(r) \/ BeginRevocation(r) =>
          requests[r].token <= lastId
    BY <2>1 DEF ReadSession, CheckSession, TouchLastSeen, BeginRevocation, Asked
  <2> QED BY <1>a, <2>1, <2>2, RequestsChange
          DEF Idle, LoginRequest, ArrivedRequest, ReadRequest, CheckedRequest,
              AuthenticatedRequest, RevokingRequest
<1>10. ASSUME NEW r \in Requests, requests'[r].phase = "revoking", NEW s \in DOMAIN sessions'
       PROVE  sessions'[s].issuedAt <= requests'[r].at
  <2>1. CASE BeginRevocation(r) /\ requests'[r].at = now
    BY <1>2, <2>1
  <2>2. CASE requests'[r] = requests[r]
    <3>1. ~MutexIsFree
      BY <1>10, <2>2 DEF MutexIsFree
    <3>2. SessionsKept
      BY <3>1, SessionsChange, LoginAdds
    <3>3. s \in DOMAIN sessions /\ sessions'[s].issuedAt = sessions[s].issuedAt
      BY <1>a, <3>2, LaterTyped DEF SessionsKept, IsTable
    <3> QED BY <1>10, <2>2, <3>3 DEF SessionsInv, TimesInv
  <2> QED BY <1>10, <2>1, <2>2, RequestsChange
          DEF Idle, LoginRequest, ArrivedRequest, ReadRequest, CheckedRequest,
              AuthenticatedRequest
<1>7. \A r \in Requests :
        /\ requests'[r].phase = "login" => requests'[r].at \in Nat
        /\ requests'[r].phase \in {"arrived", "read", "checked", "authenticated", "revoking"} =>
             requests'[r].token \in Nat
        /\ requests'[r].phase = "checked" => requests'[r].seenAt \in Nat
        /\ requests'[r].phase = "revoking" => requests'[r].at \in Nat
  BY <1>3, RequestShape
  DEF LoginRequest, ArrivedRequest, ReadRequest, CheckedRequest, AuthenticatedRequest,
      RevokingRequest, SessionIds
<1>8. \A s \in DOMAIN sessions' :
        /\ sessions'[s].issuedAt \in Nat /\ sessions'[s].lastSeenAt \in Nat
        /\ Revoked(sessions'[s]) => sessions'[s].revokedAt \in Nat
  BY <1>2 DEF IsTable, Session, Revoked
<1>9. TimesInv'
  <2>1. \A s \in DOMAIN sessions' :
          /\ sessions'[s].issuedAt <= now'
          /\ sessions'[s].lastSeenAt <= now'
          /\ Revoked(sessions'[s]) => sessions'[s].revokedAt <= now'
    BY <1>a, <1>1, <1>2, <1>8
  <2>2. ASSUME NEW r \in Requests
        PROVE  /\ requests'[r].phase = "login" =>
                    requests'[r].at <= now' /\ requests'[r].operator \in DOMAIN operators'
               /\ requests'[r].phase \in {"arrived", "read", "checked", "authenticated",
                                          "revoking"} =>
                    requests'[r].token <= lastId'
               /\ requests'[r].phase = "checked" => requests'[r].seenAt <= now'
               /\ requests'[r].phase = "revoking" =>
                    /\ requests'[r].at <= now'
                    /\ \A s \in DOMAIN sessions' : sessions'[s].issuedAt <= requests'[r].at
    BY <1>a, <1>1, <1>2, <1>6, <1>7, <1>10, OperatorsGrow
  <2> QED BY <2>1, <2>2 DEF TimesInv, Revoked
<1> QED BY <1>5, <1>9 DEF SessionsInv

LEMMA SessionsInit == Init => SessionsInv
<1> SUFFICES ASSUME Init PROVE SessionsInv
  OBVIOUS
<1>1. Idle \in Request /\ Idle.phase = "idle"
  BY DEF Request, Idle
<1>2. IsTable(operators, OperatorIds, Operator) /\ IsTable(sessions, SessionIds, Session)
  BY EmptyTableTyped DEF Init
<1> QED BY <1>1, <1>2, SessionBounds DEF Init, SessionsInv, SessionsTypeOK, TimesInv, EmptyTable

(* Rows and requests are well formed, names are unique, and sessions belong to
   operators and have ids that were given out. *)
THEOREM SessionsTypeCorrect == Spec => []SessionsTypeOK
<1>1. SessionsInv => SessionsTypeOK
  BY DEF SessionsInv
<1> QED BY <1>1, SessionsInit, SessionsNext, PTL DEF Spec

-----------------------------------------------------------------------------
(* Which sessions authenticate *)

(* A session that was not usable when a request arrived is not usable now; a row of
   it that was read says so; and no such request passed the check. *)
OnlyUsable(r) ==
  /\ requests[r].phase = "arrived" /\ ~requests[r].wasUsable => ~UsableNow(requests[r].token)
  /\ requests[r].phase = "read" /\ ~requests[r].wasUsable => ~EnsureUsable(requests[r].row, now)
  /\ requests[r].phase \in {"checked", "authenticated", "revoking"} => requests[r].wasUsable

UsableInv == \A r \in Requests : OnlyUsable(r)

(* What is not usable never becomes usable again: a revocation stays, time passes, and
   a deleted row does not come back. *)
LEMMA UnusableStays ==
  ASSUME SessionsInv, [Next]_vars, NEW s \in 1..lastId, ~UsableNow(s)
  PROVE  ~UsableNow(s)'
<1>a. /\ IsTable(sessions, SessionIds, Session) /\ now \in Nat /\ now' \in Nat /\ now <= now'
      /\ lastId \in Nat
  BY SessionBounds, TimePasses DEF SessionsInv, SessionsTypeOK
<1> SUFFICES ASSUME UsableNow(s)' PROVE FALSE
  OBVIOUS
<1>1. s \in DOMAIN sessions' /\ sessions'[s].revokedAt = Never /\ now' < sessions'[s].expiresAt
  BY DEF UsableNow
<1>2. CASE SessionsKept
  <2>1. s \in DOMAIN sessions /\ sessions[s] \in Session /\ Later(sessions[s], sessions'[s])
    BY <1>a, <1>1, <1>2 DEF SessionsKept, IsTable
  <2>2. /\ sessions'[s].expiresAt = sessions[s].expiresAt
        /\ Revoked(sessions[s]) => sessions'[s].revokedAt = sessions[s].revokedAt
    BY <1>a, <2>1, LaterTyped
  <2>3. sessions[s].expiresAt \in Nat
    BY <2>1 DEF Session
  <2> QED BY <1>a, <1>1, <2>1, <2>2, <2>3 DEF UsableNow, Revoked
<1>3. CASE \E r \in Requests : CommitLogin(r)
  <2>1. s # lastId'
    BY <1>a, <1>3, LoginAdds
  <2>2. s \in DOMAIN sessions /\ sessions'[s] = sessions[s]
    BY <1>1, <1>3, <2>1, LoginAdds
  <2>3. sessions[s].expiresAt \in Nat
    BY <1>a, <2>2 DEF IsTable, Session
  <2> QED BY <1>a, <1>1, <2>2, <2>3 DEF UsableNow
<1> QED BY <1>2, <1>3, SessionsChange

(* Every step keeps requests that came with an unusable session out. *)
LEMMA UsableNext == SessionsInv /\ UsableInv /\ [Next]_vars => UsableInv'
<1> SUFFICES ASSUME SessionsInv, UsableInv, [Next]_vars, NEW r \in Requests
             PROVE  OnlyUsable(r)'
  BY DEF UsableInv
<1>b. OnlyUsable(r)
  BY DEF UsableInv
<1>a. /\ requests[r] \in Request /\ requests'[r] \in Request /\ lastId \in Nat
      /\ now \in Nat /\ now' \in Nat /\ now <= now'
  <2>2. requests[r] \in Request /\ lastId \in Nat
    BY SessionBounds DEF SessionsInv, SessionsTypeOK
  <2>3. SessionsInv'
    BY SessionsNext
  <2>4. requests'[r] \in Request
    BY <2>3 DEF SessionsInv, SessionsTypeOK
  <2> QED BY <2>2, <2>4, TimePasses
<1>1. CASE requests'[r].phase = "arrived"
  <2>1. requests'[r].token \in SessionIds
    BY <1>1, <1>a, RequestShape DEF ArrivedRequest
  <2>2. requests'[r].token <= lastId
    BY <1>1, RequestsChange
    DEF Idle, LoginRequest, ArrivedRequest, ReadRequest, CheckedRequest, AuthenticatedRequest,
        RevokingRequest, SessionsInv, TimesInv
  <2>3. requests'[r].token \in 1..lastId
    BY <1>a, <2>1, <2>2 DEF SessionIds
  <2>4. ~requests'[r].wasUsable => ~UsableNow(requests'[r].token)
    BY <1>1, <1>b, RequestsChange
    DEF Idle, LoginRequest, ArrivedRequest, ReadRequest, CheckedRequest, AuthenticatedRequest,
        RevokingRequest, OnlyUsable
  <2>5. ~requests'[r].wasUsable => ~UsableNow(requests[r].token)'
    <3>1. ASSUME NEW s \in 1..lastId, ~UsableNow(s) PROVE ~UsableNow(s)'
      BY <3>1, UnusableStays
    <3>2. \A s \in 1..lastId : ~UsableNow(s) =>
            ~(/\ s \in DOMAIN sessions' /\ sessions'[s].revokedAt = Never
              /\ now' < sessions'[s].expiresAt)
      BY <3>1 DEF UsableNow
    <3> QED BY <2>3, <2>4, <3>2 DEF UsableNow
  <2> QED BY <1>1, <2>5 DEF OnlyUsable
<1>2. CASE requests'[r].phase = "read"
  <2>1. CASE requests'[r] = requests[r]
    <3>1. requests[r].row.expiresAt \in Nat
      BY <1>2, <1>a, <2>1, RequestShape DEF ReadRequest, Session
    <3>2. ~requests[r].wasUsable => ~EnsureUsable(requests[r].row, now)
      BY <1>2, <1>b, <2>1 DEF OnlyUsable
    <3> QED BY <1>2, <1>a, <2>1, <3>1, <3>2 DEF EnsureUsable, Expired, OnlyUsable
  <2>2. CASE /\ ReadSession(r)
             /\ requests'[r].token = requests[r].token
             /\ requests'[r].wasUsable = requests[r].wasUsable
             /\ requests'[r].token \in DOMAIN sessions
             /\ requests'[r].row = sessions[requests'[r].token]
    <3>1. /\ requests[r].phase = "arrived"
          /\ requests'[r].wasUsable = requests[r].wasUsable
          /\ requests[r].token \in DOMAIN sessions
          /\ requests'[r].row = sessions[requests[r].token]
          /\ now' = now
      BY <2>2 DEF ReadSession
    <3>2. sessions[requests[r].token].expiresAt \in Nat
      BY <3>1 DEF SessionsInv, SessionsTypeOK, IsTable, Session
    <3>3. ~requests[r].wasUsable => ~UsableNow(requests[r].token)
      BY <1>b, <3>1 DEF OnlyUsable
    <3> QED BY <1>2, <1>a, <3>1, <3>2, <3>3 DEF UsableNow, EnsureUsable, Expired, Revoked, OnlyUsable
  <2> QED BY <1>2, <2>1, <2>2, RequestsChange
          DEF Idle, LoginRequest, ArrivedRequest, CheckedRequest, AuthenticatedRequest,
              RevokingRequest
<1>3. CASE requests'[r].phase = "checked"
  <2>1. CASE requests'[r] = requests[r]
    BY <1>3, <1>b, <2>1 DEF OnlyUsable
  <2>2. CASE CheckSession(r) /\ requests'[r].wasUsable = requests[r].wasUsable
    BY <1>3, <1>b, <2>2 DEF CheckSession, OnlyUsable
  <2> QED BY <1>3, <2>1, <2>2, RequestsChange
          DEF Idle, LoginRequest, ArrivedRequest, ReadRequest, AuthenticatedRequest,
              RevokingRequest
<1>4. CASE requests'[r].phase = "authenticated"
  <2>1. CASE requests'[r] = requests[r]
    BY <1>4, <1>b, <2>1 DEF OnlyUsable
  <2>2. CASE TouchLastSeen(r) /\ requests'[r].wasUsable = requests[r].wasUsable
    BY <1>4, <1>b, <2>2 DEF TouchLastSeen, OnlyUsable
  <2> QED BY <1>4, <2>1, <2>2, RequestsChange
          DEF Idle, LoginRequest, ArrivedRequest, ReadRequest, CheckedRequest, RevokingRequest
<1>5. CASE requests'[r].phase = "revoking"
  <2>1. CASE requests'[r] = requests[r]
    BY <1>5, <1>b, <2>1 DEF OnlyUsable
  <2>2. CASE BeginRevocation(r) /\ requests'[r].wasUsable = requests[r].wasUsable
    BY <1>5, <1>b, <2>2 DEF BeginRevocation, Asked, OnlyUsable
  <2> QED BY <1>5, <2>1, <2>2, RequestsChange
          DEF Idle, LoginRequest, ArrivedRequest, ReadRequest, CheckedRequest,
              AuthenticatedRequest
<1> QED BY <1>1, <1>2, <1>3, <1>4, <1>5 DEF OnlyUsable

(* A session that was revoked, expired or deleted before a request arrived does not
   authenticate it, however its reads and writes fall between those of others. *)
THEOREM UnusableDoesNotAuthenticate == Spec => []AuthenticatedWasUsable
<1>1. Init => UsableInv
  BY DEF Init, UsableInv, OnlyUsable, Idle
<1>2. UsableInv => AuthenticatedWasUsable
  BY DEF UsableInv, OnlyUsable, AuthenticatedWasUsable
<1> QED BY <1>1, <1>2, SessionsInit, SessionsNext, UsableNext, PTL DEF Spec

-----------------------------------------------------------------------------
(* How sessions end *)

(* A session only ends: it keeps its operator and validity, is revoked once and for
   good, is deleted only when it has expired, and does not come back. *)
THEOREM SessionsEndOnce == Spec => SessionsOnlyEnd
<1>1. ASSUME SessionsInv, [Next]_vars, NEW s \in 1..lastId
      PROVE  /\ s \in (DOMAIN sessions)' =>
                  /\ s \in DOMAIN sessions
                  /\ Later(sessions[s], sessions'[s])
                  /\ Revoked(sessions[s]) => sessions'[s].revokedAt = sessions[s].revokedAt
             /\ s \in DOMAIN sessions \ (DOMAIN sessions)' => Expired(sessions[s], now)
  <2>a. IsTable(sessions, SessionIds, Session) /\ now \in Nat /\ lastId \in Nat
    BY <1>1, SessionBounds DEF SessionsInv, SessionsTypeOK
  <2>b. \A i \in DOMAIN sessions : sessions[i] \in Session /\ sessions[i].lastSeenAt <= now
    BY <1>1, <2>a DEF SessionsInv, TimesInv, IsTable
  <2>1. CASE SessionsKept
    BY <2>a, <2>b, <2>1, LaterTyped DEF SessionsKept
  <2>2. CASE \E r \in Requests : CommitLogin(r)
    <3>1. s # lastId'
      BY <1>1, <2>a, <2>2, LoginAdds
    <3>2. /\ DOMAIN sessions' = DOMAIN sessions \cup {lastId'}
          /\ \A i \in DOMAIN sessions : sessions'[i] = sessions[i]
      BY <1>1, <2>2, LoginAdds
    <3> QED BY <2>a, <2>b, <3>1, <3>2, LaterRows
  <2> QED BY <1>1, <2>1, <2>2, SessionsChange
<1>2. SessionsInv /\ [Next]_vars =>
        [\A s \in 1..lastId :
           /\ s \in (DOMAIN sessions)' =>
                /\ s \in DOMAIN sessions
                /\ \E revokedAt \in {sessions[s].revokedAt} \cup sessions[s].issuedAt..now,
                      lastSeenAt \in 0..now :
                     sessions'[s] = [sessions[s] EXCEPT !.revokedAt = revokedAt,
                                                        !.lastSeenAt = lastSeenAt]
                /\ Revoked(sessions[s]) => sessions'[s].revokedAt = sessions[s].revokedAt
           /\ s \in DOMAIN sessions \ (DOMAIN sessions)' => Expired(sessions[s], now)]_vars
  <2> SUFFICES ASSUME SessionsInv, [Next]_vars, NEW s \in 1..lastId
               PROVE  /\ s \in (DOMAIN sessions)' =>
                           /\ s \in DOMAIN sessions
                           /\ \E revokedAt \in {sessions[s].revokedAt}
                                                 \cup sessions[s].issuedAt..now,
                                 lastSeenAt \in 0..now :
                                sessions'[s] = [sessions[s] EXCEPT
                                                  !.revokedAt = revokedAt,
                                                  !.lastSeenAt = lastSeenAt]
                           /\ Revoked(sessions[s]) =>
                                sessions'[s].revokedAt = sessions[s].revokedAt
                      /\ s \in DOMAIN sessions \ (DOMAIN sessions)' =>
                           Expired(sessions[s], now)
    OBVIOUS
  <2>1. s \in (DOMAIN sessions)' =>
          /\ s \in DOMAIN sessions
          /\ Later(sessions[s], sessions'[s])
          /\ Revoked(sessions[s]) => sessions'[s].revokedAt = sessions[s].revokedAt
    BY <1>1
  <2>2. s \in DOMAIN sessions \ (DOMAIN sessions)' => Expired(sessions[s], now)
    BY <1>1
  <2>3. Later(sessions[s], sessions'[s]) =>
          \E revokedAt \in {sessions[s].revokedAt} \cup sessions[s].issuedAt..now,
             lastSeenAt \in 0..now :
            sessions'[s] = [sessions[s] EXCEPT !.revokedAt = revokedAt,
                                               !.lastSeenAt = lastSeenAt]
    BY Zenon DEF Later
  <2> QED BY <2>1, <2>2, <2>3, Zenon
<1> QED BY <1>2, SessionsInit, SessionsNext, PTL DEF Spec, SessionsOnlyEnd

-----------------------------------------------------------------------------
(* The audit trail *)

Event(action, object) == [action |-> action, object |-> object, at |-> now]

IsLogin(e)     == e.action = "session.login"
IsLogout(e)    == e.action = "session.logout"
IsRevokeAll(e) == e.action = "session.revoke_all"

(* Every operator is told of, and nobody else. *)
RegisteredInv ==
  /\ \A e \in audit : e.at \in 0..now
  /\ \A e \in audit : e.action = "operator.register" => e.object \in DOMAIN operators
  /\ \A o \in DOMAIN operators : \E at \in 0..now : Audited("operator.register", o, at)

(* Events lie in the past and name sessions that exist or existed; every login is
   told; what was logged out, or existed when all of its operator were revoked, is
   revoked since; and what is revoked was told to be. *)
EventsInv ==
  /\ \A e \in audit :
       /\ e.at \in 0..now
       /\ IsLogin(e) \/ IsLogout(e) => e.object \in 1..lastId
       /\ IsLogout(e) /\ e.object \in DOMAIN sessions =>
            sessions[e.object].revokedAt \in 0..e.at
  /\ \A e, f \in audit : IsLogout(e) /\ IsLogout(f) /\ e.object = f.object => e.at = f.at
  /\ \A e, f \in audit :
       /\ IsLogin(e) /\ IsRevokeAll(f) /\ e.at < f.at
       /\ e.object \in DOMAIN sessions /\ sessions[e.object].operator = f.object
       => sessions[e.object].revokedAt \in 0..f.at
  /\ \A s \in 1..lastId : \E at \in 0..now : Audited("session.login", s, at)
  /\ \A s \in DOMAIN sessions :
       Revoked(sessions[s]) =>
         \E at \in sessions[s].revokedAt..now :
           \/ Audited("session.logout", s, at)
           \/ Audited("session.revoke_all", sessions[s].operator, at)

(* Sessions are revoked as before, and no session is told of: the trail stays true. *)
LEMMA QuietEvents ==
  ASSUME SessionsInv, EventsInv, [Next]_vars, SessionsKept,
         \A s \in DOMAIN sessions' : sessions'[s].revokedAt = sessions[s].revokedAt,
         audit \subseteq audit',
         \A e \in audit' \ audit : e.at = now /\ e.action = "operator.register"
  PROVE  EventsInv'
<1>a. IsTable(sessions, SessionIds, Session) /\ lastId' = lastId
      /\ now \in Nat /\ now' \in Nat /\ now <= now'
  BY TimePasses DEF SessionsInv, SessionsTypeOK, SessionsKept
<1>1. \A s \in DOMAIN sessions' : s \in DOMAIN sessions /\ sessions'[s].operator = sessions[s].operator
  BY <1>a, LaterTyped DEF SessionsKept, IsTable
<1>2. \A e \in audit' :
        /\ e.at \in 0..now'
        /\ IsLogin(e) \/ IsLogout(e) \/ IsRevokeAll(e) => e \in audit
  BY <1>a DEF EventsInv, IsLogin, IsLogout, IsRevokeAll
<1>3. \A e \in audit' :
        /\ IsLogin(e) \/ IsLogout(e) => e.object \in 1..lastId'
        /\ IsLogout(e) /\ e.object \in DOMAIN sessions' => sessions'[e.object].revokedAt \in 0..e.at
  BY <1>a, <1>1, <1>2 DEF EventsInv
<1>4. \A e, f \in audit' : IsLogout(e) /\ IsLogout(f) /\ e.object = f.object => e.at = f.at
  BY <1>2 DEF EventsInv
<1>5. \A e, f \in audit' :
        /\ IsLogin(e) /\ IsRevokeAll(f) /\ e.at < f.at
        /\ e.object \in DOMAIN sessions' /\ sessions'[e.object].operator = f.object
        => sessions'[e.object].revokedAt \in 0..f.at
  BY <1>1, <1>2 DEF EventsInv
<1>6. \A s \in 1..lastId' : \E at \in 0..now' : [action |-> "session.login", object |-> s, at |-> at] \in audit'
  BY <1>a DEF EventsInv, Audited
<1>7. ASSUME NEW s \in DOMAIN sessions', Revoked(sessions'[s])
      PROVE  \E at \in sessions'[s].revokedAt..now' :
               \/ [action |-> "session.logout", object |-> s, at |-> at] \in audit'
               \/ [action |-> "session.revoke_all", object |-> sessions'[s].operator,
                   at |-> at] \in audit'
  <2>1. /\ s \in DOMAIN sessions /\ Revoked(sessions[s])
        /\ sessions'[s].operator = sessions[s].operator
        /\ sessions'[s].revokedAt = sessions[s].revokedAt
        /\ sessions[s].revokedAt \in Nat
    BY <1>a, <1>1, <1>7 DEF Revoked, IsTable, Session
  <2>2. PICK at \in sessions[s].revokedAt..now :
          \/ Audited("session.logout", s, at)
          \/ Audited("session.revoke_all", sessions[s].operator, at)
    BY <2>1 DEF EventsInv
  <2>3. at \in sessions'[s].revokedAt..now'
    BY <1>a, <2>1
  <2> QED BY <2>1, <2>2, <2>3 DEF Audited
<1> QED BY <1>2, <1>3, <1>4, <1>5, <1>6, <1>7 DEF EventsInv, Audited, Revoked

(* A login is told of its own session, which is not revoked. *)
LEMMA LoginEvents ==
  ASSUME SessionsInv, EventsInv, NEW r \in Requests, CommitLogin(r) PROVE EventsInv'
<1>a. /\ lastId \in Nat /\ now \in Nat /\ DOMAIN sessions \subseteq 1..lastId
      /\ lastId' = lastId + 1 /\ lastId' \notin DOMAIN sessions
      /\ DOMAIN sessions' = DOMAIN sessions \cup {lastId'}
      /\ \A s \in DOMAIN sessions : sessions'[s] = sessions[s]
      /\ sessions'[lastId'].revokedAt = Never
  <2>1. lastId \in Nat /\ now \in Nat /\ DOMAIN sessions \subseteq 1..lastId
    BY SessionBounds DEF SessionsInv, SessionsTypeOK
  <2> QED BY <2>1, LoginAdds
<1>b. now' = now /\ audit' = audit \cup {Event("session.login", lastId')}
  BY DEF CommitLogin, Record, Event
<1>c. /\ Event("session.login", lastId').at = now
      /\ Event("session.login", lastId').action = "session.login"
      /\ Event("session.login", lastId').object = lastId'
  BY DEF Event
<1>1. \A e \in audit' :
        /\ e.at \in 0..now
        /\ IsLogin(e) \/ IsLogout(e) => e.object \in 1..lastId'
        /\ IsLogout(e) \/ IsRevokeAll(e) => e \in audit
        /\ e \in audit \/ e.at = now
  BY <1>a, <1>b, <1>c DEF EventsInv, IsLogin, IsLogout, IsRevokeAll
<1>2. \A e \in audit' :
        IsLogout(e) /\ e.object \in DOMAIN sessions' => sessions'[e.object].revokedAt \in 0..e.at
  BY <1>a, <1>1 DEF EventsInv
<1>3. \A e, f \in audit' : IsLogout(e) /\ IsLogout(f) /\ e.object = f.object => e.at = f.at
  BY <1>1 DEF EventsInv
<1>4. ASSUME NEW e \in audit', NEW f \in audit', IsLogin(e), IsRevokeAll(f), e.at < f.at,
             e.object \in DOMAIN sessions', sessions'[e.object].operator = f.object
      PROVE  sessions'[e.object].revokedAt \in 0..f.at
  <2>1. f \in audit /\ f.at \in 0..now
    BY <1>1, <1>4
  <2>2. e \in audit
    BY <1>a, <1>1, <1>4, <2>1
  <2>3. e.object \in 1..lastId
    BY <1>4, <2>2 DEF EventsInv
  <2>4. e.object \in DOMAIN sessions /\ sessions'[e.object] = sessions[e.object]
    BY <1>a, <1>4, <2>3
  <2> QED BY <1>4, <2>1, <2>2, <2>4 DEF EventsInv
<1>5. \A s \in 1..lastId' : s \in 1..lastId \/ s = lastId'
  BY <1>a
<1>6. Event("session.login", lastId') =
        [action |-> "session.login", object |-> lastId', at |-> now] /\ now \in 0..now
  BY <1>a DEF Event
<1>7. \A s \in 1..lastId' : \E at \in 0..now : [action |-> "session.login", object |-> s, at |-> at] \in audit'
  BY <1>b, <1>5, <1>6 DEF EventsInv, Audited
<1>8. \A s \in DOMAIN sessions' :
        Revoked(sessions'[s]) =>
          \E at \in sessions'[s].revokedAt..now :
            \/ [action |-> "session.logout", object |-> s, at |-> at] \in audit'
            \/ [action |-> "session.revoke_all", object |-> sessions'[s].operator,
                at |-> at] \in audit'
  BY <1>a, <1>b DEF EventsInv, Audited, Revoked
<1> QED BY <1>b, <1>1, <1>2, <1>3, <1>4, <1>7, <1>8 DEF EventsInv, Audited, Revoked

(* A revocation is told when it is committed, for what it revoked. *)
LEMMA RevokeEvents ==
  ASSUME SessionsInv, EventsInv, NEW ids \in SUBSET DOMAIN sessions, NEW at \in 0..now,
         NEW action, NEW object,
         RevokeSessions(ids, at), Record(action, object), UNCHANGED <<lastId, now>>,
         \/ action = "session.revoke_all" /\ ids = SessionsOf(object)
         \/ /\ action = "session.logout" /\ ids = {object} /\ ~Revoked(sessions[object])
  PROVE  EventsInv'
<1>a. /\ lastId \in Nat /\ now \in Nat /\ DOMAIN sessions \subseteq 1..lastId
      /\ IsTable(sessions, SessionIds, Session)
      /\ \A s \in DOMAIN sessions : Revoked(sessions[s]) => sessions[s].revokedAt \in 0..now
  BY SessionBounds DEF SessionsInv, SessionsTypeOK, TimesInv, IsTable, Session, Revoked
<1>b. /\ DOMAIN sessions' = DOMAIN sessions
      /\ \A s \in DOMAIN sessions :
           /\ sessions'[s].operator = sessions[s].operator
           /\ s \in ids /\ ~Revoked(sessions[s]) => sessions'[s].revokedAt = at
           /\ s \notin ids \/ Revoked(sessions[s]) => sessions'[s].revokedAt = sessions[s].revokedAt
  BY <1>a DEF RevokeSessions, IsTable, Session
<1>c. audit' = audit \cup {Event(action, object)}
  BY DEF Record, Event
<1>d. Event(action, object).at = now /\ Event(action, object).action = action
      /\ Event(action, object).object = object
  BY DEF Event
<1>e. \A s \in ids : sessions'[s].revokedAt \in 0..now
  BY <1>a, <1>b
<1>f. \A s \in DOMAIN sessions, moment \in Nat :
        sessions[s].revokedAt \in 0..moment => Revoked(sessions[s])
  BY DEF Revoked, Never
<1>1. ASSUME NEW e \in audit'
      PROVE  /\ e.at \in 0..now
             /\ IsLogin(e) \/ IsLogout(e) => e.object \in 1..lastId
             /\ IsLogout(e) /\ e.object \in DOMAIN sessions =>
                  sessions'[e.object].revokedAt \in 0..e.at
  <2>1. CASE e \in audit
    <3>1. /\ e.at \in 0..now
          /\ IsLogin(e) \/ IsLogout(e) => e.object \in 1..lastId
          /\ IsLogout(e) /\ e.object \in DOMAIN sessions =>
               sessions[e.object].revokedAt \in 0..e.at
      BY <2>1 DEF EventsInv
    <3>2. IsLogout(e) /\ e.object \in DOMAIN sessions => Revoked(sessions[e.object])
      BY <1>a, <1>f, <3>1
    <3> QED BY <1>b, <3>1, <3>2
  <2>2. CASE e = Event(action, object)
    <3>1. e.at = now /\ e.action = action /\ e.object = object
      BY <1>d, <2>2
    <3>2. IsLogout(e) \/ IsLogin(e) => ids = {object} /\ object \in DOMAIN sessions
      BY <3>1 DEF IsLogout, IsLogin
    <3> QED BY <1>a, <1>e, <3>1, <3>2
  <2> QED BY <1>c, <2>1, <2>2
<1>2. ASSUME NEW e \in audit', NEW f \in audit', IsLogout(e), IsLogout(f), e.object = f.object
      PROVE  e.at = f.at
  <2>1. ASSUME NEW g \in audit, IsLogout(g), action = "session.logout" PROVE g.object # object
    <3>1. g.object \in DOMAIN sessions => Revoked(sessions[g.object])
      BY <1>a, <1>f, <2>1 DEF EventsInv
    <3> QED BY <2>1, <3>1
  <2>2. CASE e \in audit /\ f \in audit
    BY <1>2, <2>2 DEF EventsInv
  <2>3. CASE e \in audit /\ f = Event(action, object)
    BY <1>2, <1>d, <2>1, <2>3 DEF IsLogout
  <2>4. CASE f \in audit /\ e = Event(action, object)
    BY <1>2, <1>d, <2>1, <2>4 DEF IsLogout
  <2> QED BY <1>c, <2>2, <2>3, <2>4
<1>3. ASSUME NEW e \in audit', NEW f \in audit', IsLogin(e), IsRevokeAll(f), e.at < f.at,
             e.object \in DOMAIN sessions', sessions'[e.object].operator = f.object
      PROVE  sessions'[e.object].revokedAt \in 0..f.at
  <2>1. e \in audit
    BY <1>3, <1>c, <1>d DEF IsLogin
  <2>2. e.object \in DOMAIN sessions /\ sessions[e.object].operator = f.object
    BY <1>3, <1>b
  <2>3. CASE f \in audit
    <3>1. sessions[e.object].revokedAt \in 0..f.at /\ f.at \in Nat
      BY <1>3, <1>a, <2>1, <2>2, <2>3 DEF EventsInv
    <3> QED BY <1>b, <1>f, <2>2, <3>1
  <2>4. CASE f = Event(action, object)
    <3>1. f.at = now /\ f.action = action /\ f.object = object
      BY <1>d, <2>4
    <3>2. e.object \in ids
      BY <1>3, <2>2, <3>1 DEF IsRevokeAll, SessionsOf
    <3> QED BY <1>e, <3>1, <3>2
  <2> QED BY <1>c, <2>3, <2>4
<1>4. \A s \in 1..lastId : \E m \in 0..now : [action |-> "session.login", object |-> s, at |-> m] \in audit'
  BY <1>c DEF EventsInv, Audited
<1>5. ASSUME NEW s \in DOMAIN sessions, Revoked(sessions'[s])
      PROVE  \E m \in sessions'[s].revokedAt..now :
               \/ [action |-> "session.logout", object |-> s, at |-> m] \in audit'
               \/ [action |-> "session.revoke_all", object |-> sessions[s].operator,
                   at |-> m] \in audit'
  <2>1. CASE Revoked(sessions[s])
    BY <1>b, <1>c, <2>1 DEF EventsInv, Audited
  <2>2. CASE ~Revoked(sessions[s])
    <3>1. s \in ids /\ sessions'[s].revokedAt = at
      BY <1>b, <1>5, <2>2 DEF Revoked
    <3>2. now \in sessions'[s].revokedAt..now
      BY <1>a, <3>1
    <3>3. \/ [action |-> "session.logout", object |-> s, at |-> now] \in audit'
          \/ [action |-> "session.revoke_all", object |-> sessions[s].operator,
              at |-> now] \in audit'
      BY <1>c, <3>1 DEF Event, SessionsOf
    <3> QED BY <3>2, <3>3
  <2> QED BY <2>1, <2>2
<1> QED BY <1>b, <1>1, <1>2, <1>3, <1>4, <1>5 DEF EventsInv, Audited, Revoked

(* Every step tells what it does to the sessions. *)
LEMMA EventsNext == SessionsInv /\ EventsInv /\ [Next]_vars => EventsInv'
<1> SUFFICES ASSUME SessionsInv, EventsInv, [Next]_vars PROVE EventsInv'
  OBVIOUS
<1>a. IsTable(sessions, SessionIds, Session) /\ requests \in [Requests -> Request]
  BY DEF SessionsInv, SessionsTypeOK
<1>1. ASSUME NEW r \in Requests, Logout(r) PROVE EventsInv'
  <2>1. requests[r].at \in 0..now
    BY <1>1, RevocationIsSinceIssue DEF Logout, Revoking
  <2> QED BY <1>1, <2>1, RevokeEvents DEF Logout
<1>2. ASSUME NEW r \in Requests, RevokeOperatorSessions(r) PROVE EventsInv'
  <2>1. requests[r].at \in 0..now
    BY <1>2, RevocationIsSinceIssue DEF RevokeOperatorSessions, Revoking
  <2>2. SessionsOf(requests[r].ask.of) \in SUBSET DOMAIN sessions
    BY DEF SessionsOf
  <2> QED BY <1>2, <2>1, <2>2, RevokeEvents DEF RevokeOperatorSessions
<1>3. ASSUME NEW r \in Requests, CommitLogin(r) PROVE EventsInv'
  BY <1>3, LoginEvents
<1>4. ASSUME NEW name, NEW role, CreateOperator(name, role), UNCHANGED <<sessions, lastId>>
      PROVE  EventsInv'
  <2>1. audit \subseteq audit' /\ \A e \in audit' \ audit : e.at = now /\ e.action = "operator.register"
    BY <1>4 DEF CreateOperator, Record
  <2>2. \A s \in DOMAIN sessions' : sessions'[s].revokedAt = sessions[s].revokedAt
    BY <1>4
  <2> QED BY <1>4, <2>1, <2>2, QuietEvents, UnchangedKeeps
<1>5. ASSUME NEW r \in Requests, TouchLastSeen(r) PROVE EventsInv'
  <2>1. \A s \in DOMAIN sessions' : sessions'[s].revokedAt = sessions[s].revokedAt
    BY <1>5, <1>a DEF TouchLastSeen, IsTable, Session
  <2> QED BY <1>5, <2>1, QuietEvents, TouchKeeps DEF TouchLastSeen
<1>6. CASE PurgeSessions
  <2>1. \A s \in DOMAIN sessions' : sessions'[s].revokedAt = sessions[s].revokedAt
    BY <1>6 DEF PurgeSessions, DeleteExpired
  <2> QED BY <1>6, <2>1, QuietEvents, PurgeKeeps DEF PurgeSessions
<1>7. CASE UNCHANGED <<sessions, lastId, audit>>
  BY <1>7, QuietEvents, UnchangedKeeps
<1> QED BY <1>1, <1>2, <1>3, <1>4, <1>5, <1>6, <1>7
        DEF Next, RequestStep, BeginLogin, Arrive, ReadSession, CheckSession, BeginRevocation,
            Register, EndRequest, Restart, Tick, tables, vars

(* An operator is told of when it is added, and nothing else tells of operators. *)
LEMMA RegisteredNext == SessionsInv /\ RegisteredInv /\ [Next]_vars => RegisteredInv'
<1> SUFFICES ASSUME SessionsInv, RegisteredInv, [Next]_vars PROVE RegisteredInv'
  OBVIOUS
<1>a. now \in Nat /\ now' \in Nat /\ now <= now'
  BY TimePasses
<1>b. \A moment \in 0..now : moment \in 0..now'
  BY <1>a
<1>1. ASSUME NEW name, NEW role, CreateOperator(name, role) PROVE RegisteredInv'
  <2>1. PICK o : /\ o \in FreshId(operators, OperatorIds)
                 /\ operators' = Insert(operators, o, [name |-> name, role |-> role])
                 /\ Record("operator.register", o)
    BY <1>1 DEF CreateOperator
  <2>2. DOMAIN operators' = DOMAIN operators \cup {o}
    BY <2>1, FreshIdIsFree DEF Insert
  <2>3. audit' = audit \cup {Event("operator.register", o)}
    BY <2>1 DEF Record, Event
  <2>4. /\ Event("operator.register", o).at = now /\ now \in 0..now'
        /\ Event("operator.register", o).object = o
        /\ Event("operator.register", o) = [action |-> "operator.register", object |-> o, at |-> now]
    BY <1>a DEF Event
  <2>5. \A e \in audit' :
          e.at \in 0..now' /\ (e.action = "operator.register" => e.object \in DOMAIN operators')
    BY <1>b, <2>2, <2>3, <2>4 DEF RegisteredInv
  <2>6. \A p \in DOMAIN operators' : \E at \in 0..now' :
          [action |-> "operator.register", object |-> p, at |-> at] \in audit'
    BY <1>b, <2>2, <2>3, <2>4 DEF RegisteredInv, Audited
  <2> QED BY <2>5, <2>6 DEF RegisteredInv, Audited
<1>2. ASSUME UNCHANGED operators, audit \subseteq audit',
             \A e \in audit' \ audit : e.at = now /\ e.action # "operator.register"
      PROVE  RegisteredInv'
  <2>1. \A e \in audit' :
          e.at \in 0..now' /\ (e.action = "operator.register" => e.object \in DOMAIN operators')
    BY <1>a, <1>b, <1>2 DEF RegisteredInv
  <2>2. \A p \in DOMAIN operators' : \E at \in 0..now' :
          [action |-> "operator.register", object |-> p, at |-> at] \in audit'
    BY <1>b, <1>2 DEF RegisteredInv, Audited
  <2> QED BY <2>1, <2>2 DEF RegisteredInv, Audited
<1>3. ASSUME NEW action, NEW object, Record(action, object), action # "operator.register"
      PROVE  audit \subseteq audit' /\ \A e \in audit' \ audit : e.at = now /\ e.action # "operator.register"
  BY <1>3 DEF Record
<1>4. ASSUME NEW r \in Requests, CommitLogin(r) \/ Logout(r) \/ RevokeOperatorSessions(r)
      PROVE  RegisteredInv'
  <2>1. UNCHANGED operators /\ \E action, object : Record(action, object) /\ action # "operator.register"
    BY <1>4 DEF CommitLogin, Logout, RevokeOperatorSessions
  <2> QED BY <1>2, <1>3, <2>1
<1>5. CASE UNCHANGED <<operators, audit>>
  BY <1>2, <1>5
<1> QED BY <1>1, <1>4, <1>5
        DEF Next, RequestStep, BeginLogin, Arrive, ReadSession, CheckSession, TouchLastSeen,
            BeginRevocation, Register, EndRequest, PurgeSessions, Restart, Tick, tables, vars

(* The trail tells of every operator and every login, and why each revoked session was
   revoked: by its one logout, or by a revocation of all sessions of its operator,
   which misses none that was logged in before. *)
THEOREM SessionsAreAudited == Spec => []SessionAuditTrail
<1>1. Init => EventsInv /\ RegisteredInv
  BY DEF Init, EventsInv, RegisteredInv, EmptyTable
<1>2. SessionsInv /\ EventsInv /\ RegisteredInv => SessionAuditTrail
  <2> SUFFICES ASSUME SessionsInv, EventsInv, RegisteredInv PROVE SessionAuditTrail
    OBVIOUS
  <2>a. lastId \in 0..MaxSessions /\ MaxSessions \in Nat
    BY SessionBounds DEF SessionsInv, SessionsTypeOK
  <2>1. \A s \in SessionIds : \A at : Audited("session.login", s, at) => s \in 1..lastId
    BY DEF EventsInv, Audited, IsLogin
  <2>2. \A s \in SessionIds : s <= lastId <=> \E at \in 0..now : Audited("session.login", s, at)
    BY <2>a, <2>1 DEF EventsInv, SessionIds
  <2>3. \A s \in SessionIds, at \in 0..now :
          Audited("session.logout", s, at) =>
            /\ s \in DOMAIN sessions => sessions[s].revokedAt \in 0..at
            /\ \A other \in 0..now : Audited("session.logout", s, other) => other = at
    <3>1. ASSUME NEW s \in SessionIds, NEW at \in 0..now, Audited("session.logout", s, at)
          PROVE  /\ s \in DOMAIN sessions => sessions[s].revokedAt \in 0..at
                 /\ \A other \in 0..now : Audited("session.logout", s, other) => other = at
      <4> DEFINE Told(moment) == [action |-> "session.logout", object |-> s, at |-> moment]
      <4>1. \A moment : /\ IsLogout(Told(moment))
                        /\ Told(moment).object = s /\ Told(moment).at = moment
        BY DEF IsLogout
      <4>2. \A moment : Audited("session.logout", s, moment) => Told(moment) \in audit
        BY DEF Audited
      <4> HIDE DEF Told
      <4> QED BY <3>1, <4>1, <4>2 DEF EventsInv
    <3> QED BY <3>1
  <2>4. ASSUME NEW s \in DOMAIN sessions, NEW login \in 0..now, NEW at \in 0..now,
               Audited("session.login", s, login),
               Audited("session.revoke_all", sessions[s].operator, at), login < at
        PROVE  sessions[s].revokedAt \in 0..at
    <3> DEFINE e == [action |-> "session.login", object |-> s, at |-> login]
               f == [action |-> "session.revoke_all", object |-> sessions[s].operator, at |-> at]
    <3>1. e \in audit /\ f \in audit
      BY <2>4 DEF Audited
    <3>2. /\ IsLogin(e) /\ e.object = s /\ e.at = login
          /\ IsRevokeAll(f) /\ f.object = sessions[s].operator /\ f.at = at
      BY DEF IsLogin, IsRevokeAll
    <3> HIDE DEF e, f
    <3> QED BY <2>4, <3>1, <3>2 DEF EventsInv
  <2>5. ASSUME NEW o \in OperatorIds
        PROVE  o \in DOMAIN operators <=> \E at \in 0..now : Audited("operator.register", o, at)
    BY DEF RegisteredInv, Audited
  <2> QED BY <2>2, <2>3, <2>4, <2>5 DEF EventsInv, SessionAuditTrail
<1> QED BY <1>1, <1>2, SessionsInit, SessionsNext, EventsNext, RegisteredNext, PTL DEF Spec
=============================================================================
