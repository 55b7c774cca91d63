------------------------------ MODULE Sessions ------------------------------
(***************************************************************************)
(* Operators, their login sessions, and the requests that authenticate     *)
(* with them: internal/service/auth, the Authenticate middleware, the      *)
(* handlers of internal/httpapi/auth_handlers.go, the purge of             *)
(* internal/worker and the bootstrap account of cmd/server.                *)
(*                                                                         *)
(* Logging in and authenticating are several statements each, so requests  *)
(* are in flight: between any two of their steps sessions may be revoked,  *)
(* expire or be deleted, and the process may stop.  The transaction of a   *)
(* handler is one action, except that a revocation reads the clock twice,  *)
(* for the row and for its audit event, and so takes two: in between it    *)
(* holds the mutex of WithTx.  A request may be refused, or lose its       *)
(* context, at every step.                                                 *)
(*                                                                         *)
(* A session's token is its id: ids are never reused (AUTOINCREMENT) and   *)
(* digests do not collide.  No production code calls SetActive, so every   *)
(* operator is active and the check of it is left out.                     *)
(***************************************************************************)
EXTENDS Tables, FiniteSets

CONSTANTS
  Names,           \* login names
  BootstrapAdmin,  \* the name of the account made at the start
  Asks,            \* what authenticated requests may ask for
  Requests,        \* requests in flight at a time
  TTL,             \* how long a session is valid
  \* bounds of the model
  MaxOperators, MaxSessions, MaxTime

OperatorIds == 1..MaxOperators
SessionIds  == 1..MaxSessions

Roles == {"fleet_admin", "safety_operator"}

(* other: what no handler here is asked, or refuses as it stands, such as a logout whose
   header spells the scheme other than "Bearer" (the middleware takes any case). *)
AskTypes ==
  [op : {"other", "logout"}]
    \cup [op : {"register"}, name : Names, role : Roles]
    \cup [op : {"revoke_all"}, of : OperatorIds]

ASSUME BootstrapIsAName == BootstrapAdmin \in Names
ASSUME AsksTyped == Asks \subseteq AskTypes
ASSUME SessionBounds ==
  /\ {MaxOperators, MaxSessions, MaxTime} \subseteq Nat
  /\ TTL \in Nat \ {0}

VARIABLES
  operators,  \* operators
  sessions,   \* sessions
  lastId,     \* the highest id a session ever had (sqlite_sequence)
  audit,      \* the audit events written so far
  requests,   \* the requests in flight
  now         \* clock.Now()

tables == <<operators, sessions, lastId, audit>>
vars   == <<tables, requests, now>>

Never == -1

Operator == [name : Names, role : Roles]
Session  == [operator : OperatorIds, issuedAt : Nat, expiresAt : Nat,
             revokedAt : Nat \cup {Never}, lastSeenAt : Nat]

(* wasUsable is not part of the code: whether the session was usable when the
   request arrived, for AuthenticatedWasUsable. *)
Idle    == [phase |-> "idle"]
Request ==
  {Idle}
    \cup [phase : {"login"}, operator : OperatorIds, at : Nat]
    \cup [phase : {"arrived"}, token : SessionIds, ask : AskTypes, wasUsable : BOOLEAN]
    \cup [phase : {"read"}, token : SessionIds, ask : AskTypes, wasUsable : BOOLEAN, row : Session]
    \cup [phase : {"checked"}, token : SessionIds, ask : AskTypes, wasUsable : BOOLEAN,
          operator : OperatorIds, seenAt : Nat]
    \cup [phase : {"authenticated"}, token : SessionIds, ask : AskTypes, wasUsable : BOOLEAN,
          operator : OperatorIds]
    \cup [phase : {"revoking"}, token : SessionIds, ask : AskTypes, wasUsable : BOOLEAN,
          operator : OperatorIds, at : Nat]

(* Each event reads the clock when it is recorded. *)
Record(action, object) ==
  audit' = audit \cup {[action |-> action, object |-> object, at |-> now]}

Become(r, request) == requests' = [requests EXCEPT ![r] = request]

(* The mutex of WithTx: no other transaction is between its two readings. *)
MutexIsFree == \A r \in Requests : requests[r].phase # "revoking"

-----------------------------------------------------------------------------
(* Entities and repositories *)

ByUsername(name) == {o \in DOMAIN operators : operators[o].name = name}

Revoked(session) == session.revokedAt # Never

Expired(session, moment) == moment >= session.expiresAt

(* Mutant: only the validity window is looked at. *)
EnsureUsable_IfRevoked(session, moment) == ~Expired(session, moment)

EnsureUsable(session, moment) == ~Revoked(session) /\ ~Expired(session, moment)

(* Mutant: no "revoked_at IS NULL". *)
RevokeSessions_Again(ids, at) ==
  sessions' = [s \in DOMAIN sessions |->
    IF s \in ids THEN [sessions[s] EXCEPT !.revokedAt = at] ELSE sessions[s]]

(* Revoke and RevokeAllForOperator leave what is revoked already. *)
RevokeSessions(ids, at) ==
  sessions' = [s \in DOMAIN sessions |->
    IF s \in ids /\ ~Revoked(sessions[s])
    THEN [sessions[s] EXCEPT !.revokedAt = at] ELSE sessions[s]]

SessionsOf(o) == {s \in DOMAIN sessions : sessions[s].operator = o}

CreateOperator(name, role) ==
  /\ ByUsername(name) = {}
  /\ \E o \in FreshId(operators, OperatorIds) :
       /\ operators' = Insert(operators, o, [name |-> name, role |-> role])
       /\ Record("operator.register", o)

-----------------------------------------------------------------------------
(* Login: operator and password are read on a connection of their own, the clock
   is read, then a transaction inserts the session. *)

BeginLogin(r, name) ==
  /\ requests[r] = Idle
  /\ \E o \in ByUsername(name) : Become(r, [phase |-> "login", operator |-> o, at |-> now])
  /\ UNCHANGED <<tables, now>>

CommitLogin(r) ==
  /\ requests[r].phase = "login"
  /\ MutexIsFree
  /\ lastId < MaxSessions
  /\ LET at == requests[r].at
     IN  sessions' = Insert(sessions, lastId + 1,
           [operator |-> requests[r].operator, issuedAt |-> at, expiresAt |-> at + TTL,
            revokedAt |-> Never, lastSeenAt |-> at])
  /\ lastId' = lastId + 1
  /\ Record("session.login", lastId + 1)
  /\ Become(r, Idle)
  /\ UNCHANGED <<operators, now>>

-----------------------------------------------------------------------------
(* Authenticate *)

(* Only for wasUsable. *)
UsableNow(s) ==
  s \in DOMAIN sessions /\ sessions[s].revokedAt = Never /\ now < sessions[s].expiresAt

Arrive(r, token, ask) ==
  /\ requests[r] = Idle
  /\ token <= lastId
  /\ Become(r, [phase |-> "arrived", token |-> token, ask |-> ask,
                wasUsable |-> UsableNow(token)])
  /\ UNCHANGED <<tables, now>>

ReadSession(r) ==
  /\ requests[r].phase = "arrived"
  /\ LET request == requests[r]
     IN  /\ request.token \in DOMAIN sessions
         /\ Become(r, [phase |-> "read", token |-> request.token, ask |-> request.ask,
                       wasUsable |-> request.wasUsable, row |-> sessions[request.token]])
  /\ UNCHANGED <<tables, now>>

(* The clock is read after the session, and the row that was read is checked. *)
CheckSession(r) ==
  /\ requests[r].phase = "read"
  /\ EnsureUsable(requests[r].row, now)
  /\ LET request == requests[r]
     IN  Become(r, [phase |-> "checked", token |-> request.token, ask |-> request.ask,
                    wasUsable |-> request.wasUsable, operator |-> request.row.operator,
                    seenAt |-> now])
  /\ UNCHANGED <<tables, now>>

(* A statement of its own, outside WithTx, that is content with no row. *)
TouchLastSeen(r) ==
  /\ requests[r].phase = "checked"
  /\ LET request == requests[r]
     IN  /\ sessions' = [s \in DOMAIN sessions |->
              IF s = request.token THEN [sessions[s] EXCEPT !.lastSeenAt = request.seenAt]
                                   ELSE sessions[s]]
         /\ Become(r, [phase |-> "authenticated", token |-> request.token, ask |-> request.ask,
                       wasUsable |-> request.wasUsable, operator |-> request.operator])
  /\ UNCHANGED <<operators, lastId, audit, now>>

-----------------------------------------------------------------------------
(* The handlers *)

Asked(r, op) == requests[r].phase = "authenticated" /\ requests[r].ask.op = op

IsAdmin(r) == operators[requests[r].operator].role = "fleet_admin"

(* The transaction of a revocation begins, and reads the clock for revoked_at. *)
BeginRevocation(r) ==
  /\ \/ Asked(r, "logout") /\ requests[r].token \in DOMAIN sessions
     \/ Asked(r, "revoke_all") /\ IsAdmin(r)
  /\ MutexIsFree
  /\ LET request == requests[r]
     IN  Become(r, [phase |-> "revoking", token |-> request.token, ask |-> request.ask,
                    wasUsable |-> request.wasUsable, operator |-> request.operator, at |-> now])
  /\ UNCHANGED <<tables, now>>

Revoking(r, op) == requests[r].phase = "revoking" /\ requests[r].ask.op = op

(* Mutant: a logout that revokes nothing is recorded as well. *)
Logout_AlwaysRecorded(r) ==
  /\ Revoking(r, "logout")
  /\ RevokeSessions({requests[r].token}, requests[r].at)
  /\ Record("session.logout", requests[r].token)
  /\ Become(r, Idle)
  /\ UNCHANGED <<operators, lastId, now>>

Logout(r) ==
  /\ Revoking(r, "logout")
  /\ requests[r].token \in DOMAIN sessions
  /\ ~Revoked(sessions[requests[r].token])
  /\ RevokeSessions({requests[r].token}, requests[r].at)
  /\ Record("session.logout", requests[r].token)
  /\ Become(r, Idle)
  /\ UNCHANGED <<operators, lastId, now>>

RevokeOperatorSessions(r) ==
  /\ Revoking(r, "revoke_all")
  /\ RevokeSessions(SessionsOf(requests[r].ask.of), requests[r].at)
  /\ Record("session.revoke_all", requests[r].ask.of)
  /\ Become(r, Idle)
  /\ UNCHANGED <<operators, lastId, now>>

Register(r) ==
  /\ Asked(r, "register")
  /\ IsAdmin(r)
  /\ MutexIsFree
  /\ CreateOperator(requests[r].ask.name, requests[r].ask.role)
  /\ Become(r, Idle)
  /\ UNCHANGED <<sessions, lastId, now>>

(* The request is answered, refused, or its context ends; or its handler is one of
   another service. *)
EndRequest(r) ==
  /\ requests[r] # Idle
  /\ Become(r, Idle)
  /\ UNCHANGED <<tables, now>>

-----------------------------------------------------------------------------
(* The purge, as a job or called on the service. *)

DeleteExpired ==
  sessions' = [s \in {s \in DOMAIN sessions : sessions[s].expiresAt >= now} |-> sessions[s]]

PurgeSessions == DeleteExpired /\ UNCHANGED <<operators, lastId, audit, requests, now>>

(* The process stops and starts again on the same database.  At the start the
   bootstrap account is made; any error of that is taken for its presence. *)
Restart ==
  /\ requests' = [r \in Requests |-> Idle]
  /\ \/ CreateOperator(BootstrapAdmin, "fleet_admin")
     \/ UNCHANGED <<operators, audit>>
  /\ UNCHANGED <<sessions, lastId, now>>

Tick == now < MaxTime /\ now' = now + 1 /\ UNCHANGED <<tables, requests>>

Init ==
  /\ operators = EmptyTable
  /\ sessions = EmptyTable
  /\ lastId = 0
  /\ audit = {}
  /\ requests = [r \in Requests |-> Idle]
  /\ now = 0

RequestStep(r) ==
  \/ \E name \in Names : BeginLogin(r, name)
  \/ CommitLogin(r)
  \/ \E token \in SessionIds, ask \in Asks : Arrive(r, token, ask)
  \/ ReadSession(r)
  \/ CheckSession(r)
  \/ TouchLastSeen(r)
  \/ BeginRevocation(r)
  \/ Logout(r)
  \/ RevokeOperatorSessions(r)
  \/ Register(r)
  \/ EndRequest(r)

Next ==
  \/ \E r \in Requests : RequestStep(r)
  \/ PurgeSessions
  \/ Restart
  \/ Tick

Spec == Init /\ [][Next]_vars

-----------------------------------------------------------------------------
(* Properties *)

(* The tables and the requests are well formed, and names are unique. *)
SessionsTypeOK ==
  /\ IsTable(operators, OperatorIds, Operator)
  /\ \A o, p \in DOMAIN operators : operators[o].name = operators[p].name => o = p
  /\ IsTable(sessions, SessionIds, Session)
  /\ lastId \in 0..MaxSessions
  /\ DOMAIN sessions \subseteq 1..lastId
  /\ \A s \in DOMAIN sessions : sessions[s].operator \in DOMAIN operators
  /\ requests \in [Requests -> Request]
  /\ now \in Nat

(* A session that was revoked, had expired or was deleted when a request arrived
   does not authenticate it, although session, clock and last_seen_at are read and
   written one after the other beside every logout, revocation, purge and restart.
   (One that is revoked later may: the row was read before.) *)
AuthenticatedWasUsable ==
  \A r \in Requests :
    requests[r].phase \in {"authenticated", "revoking"} => requests[r].wasUsable

(* A session only ever ends.  It keeps its operator and its validity; it is revoked
   once, as of a moment since it was issued, and the moment of that stays; only an
   expired one is deleted, and none comes back: a late write of last_seen_at revives
   nothing. *)
SessionsOnlyEnd ==
  [][\A s \in 1..lastId :
       /\ s \in (DOMAIN sessions)' =>
            /\ s \in DOMAIN sessions
            /\ \E revokedAt \in {sessions[s].revokedAt} \cup sessions[s].issuedAt..now,
                  lastSeenAt \in 0..now :
                 sessions'[s] = [sessions[s] EXCEPT !.revokedAt = revokedAt,
                                                    !.lastSeenAt = lastSeenAt]
            /\ Revoked(sessions[s]) => sessions'[s].revokedAt = sessions[s].revokedAt
       /\ s \in DOMAIN sessions \ (DOMAIN sessions)' => Expired(sessions[s], now)]_vars

Audited(action, object, at) == [action |-> action, object |-> object, at |-> at] \in audit

(* The audit trail tells which operators and which sessions there ever were, and why
   a session was revoked.  The row and the event of a revocation have a moment each,
   the event's not before the row's.  A session is logged out once, and it is revoked
   then; and whoever logged in before all sessions of its operator were revoked has a
   session that is revoked as well: the revocation missed none. *)
SessionAuditTrail ==
  /\ \A o \in OperatorIds :
       o \in DOMAIN operators <=> \E at \in 0..now : Audited("operator.register", o, at)
  /\ \A s \in SessionIds : s <= lastId <=> \E at \in 0..now : Audited("session.login", s, at)
  /\ \A s \in DOMAIN sessions :
       Revoked(sessions[s]) =>
         \E at \in sessions[s].revokedAt..now :
           \/ Audited("session.logout", s, at)
           \/ Audited("session.revoke_all", sessions[s].operator, at)
  /\ \A s \in SessionIds, at \in 0..now :
       Audited("session.logout", s, at) =>
         /\ s \in DOMAIN sessions => sessions[s].revokedAt \in 0..at
         /\ \A other \in 0..now : Audited("session.logout", s, other) => other = at
  /\ \A s \in DOMAIN sessions, login \in 0..now, at \in 0..now :
       /\ Audited("session.login", s, login)
       /\ Audited("session.revoke_all", sessions[s].operator, at)
       /\ login < at
       => sessions[s].revokedAt \in 0..at
=============================================================================
