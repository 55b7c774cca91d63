------------------------------ MODULE TxStore ------------------------------
(***************************************************************************)
(* Store of internal/storage/sqlite/db.go and what runs on it: requests,   *)
(* which write last_seen_at by a statement of its own when they are        *)
(* authenticated and then run their handler in WithTx, and the dispatcher, *)
(* which runs WithTx only.  All share a mutex, a pool of connections and   *)
(* the database, of which SQLite is modelled as the code uses it (WAL,     *)
(* deferred transactions, busy_timeout):                                   *)
(*                                                                         *)
(*  - a transaction reads from the snapshot of its first statement;        *)
(*  - one connection may write at a time, and a transaction that has read  *)
(*    may only begin to write if nothing was committed since: otherwise    *)
(*    the statement fails at once, without the busy handler;               *)
(*  - a single statement, or a transaction that begins with a write, waits *)
(*    for the writer, until its busy handler gives up.                     *)
(*                                                                         *)
(* A write is what a transaction has written of Parts; the rows are left   *)
(* out.                                                                    *)
(***************************************************************************)
EXTENDS Integers, Sequences, FiniteSets

CONSTANTS
  Handlers,       \* requests in flight at a time
  Dispatcher,     \* the job dispatcher
  NoOne,          \* none of them
  MaxOpenConns,   \* the size of the pool
  MaxCommits      \* bound of the model

Clients == Handlers \cup {Dispatcher}

(* The statements of a transaction that writes, and the one of Authenticate. *)
Parts == {"rows", "audit"}
Touched == {"last_seen_at"}

None == -1

ASSUME DispatcherIsNoHandler == Dispatcher \notin Handlers /\ NoOne \notin Clients
ASSUME PoolIsNotEmpty == MaxOpenConns \in Nat \ {0} /\ MaxCommits \in Nat

VARIABLES
  log,      \* the commits, in order: what each had seen and wrote
  writer,   \* who holds SQLite's write lock
  mutex,    \* who holds writeMu
  clients   \* client -> where it is, its snapshot, what it has written

storeVars == <<log, writer, mutex, clients>>

Phases == {"idle", "arrived", "touching", "ready", "waiting", "locked", "open"}

Idle == [phase |-> "idle", snapshot |-> None, wrote |-> {}]

StoreTypeOK ==
  /\ log \in Seq([saw : Nat, wrote : SUBSET (Parts \cup Touched)])
  /\ writer \in Clients \cup {NoOne}
  /\ mutex \in Clients \cup {NoOne}
  /\ clients \in [Clients -> [phase : Phases, snapshot : Nat \cup {None}, wrote : SUBSET Parts]]

At(c, phase) == clients[c].phase = phase

Go(c, phase) == clients' = [clients EXCEPT ![c].phase = phase]

Connected == {c \in Clients : clients[c].phase \in {"touching", "open"}}

(* database/sql: no more connections than MaxOpenConns. *)
ConnectionIsFree == Cardinality(Connected) < MaxOpenConns

-----------------------------------------------------------------------------
(* Requests *)

InFlight == {c \in Clients : ~At(c, "idle")}

(* Every client in flight may commit twice. *)
RoomToCommit == Len(log) + 2 * Cardinality(InFlight) + 2 <= MaxCommits

(* A login does not authenticate and goes to its transaction. *)
Arrive(h) ==
  /\ At(h, "idle") /\ RoomToCommit
  /\ Go(h, "arrived") \/ Go(h, "ready")
  /\ UNCHANGED <<log, writer, mutex>>

(* Authenticate takes a connection for each of its statements; the two reads
   before the write are not distinguished from the wait for it. *)
Authenticate(h) ==
  /\ At(h, "arrived")
  /\ ConnectionIsFree
  /\ Go(h, "touching")
  /\ UNCHANGED <<log, writer, mutex>>

(* Beside the mutex: it waits in the busy handler while a transaction writes. *)
TouchLastSeen(h) ==
  /\ At(h, "touching")
  /\ writer = NoOne
  /\ log' = Append(log, [saw |-> Len(log), wrote |-> Touched])
  /\ Go(h, "ready")
  /\ UNCHANGED <<writer, mutex>>

(* ctx.Err() is nil. *)
EnterWithTx(h) ==
  /\ At(h, "ready")
  /\ Go(h, "waiting")
  /\ UNCHANGED <<log, writer, mutex>>

(* Refused by Authenticate, the busy handler gave up, the context ended before the
   mutex was asked for, or the request only reads. *)
EndRequest(h) ==
  /\ clients[h].phase \in {"arrived", "touching", "ready"}
  /\ Go(h, "idle")
  /\ UNCHANGED <<log, writer, mutex>>

(* RunOnce, MarkJob and ReleaseJob. *)
DispatcherBegins ==
  /\ At(Dispatcher, "idle") /\ RoomToCommit
  /\ Go(Dispatcher, "waiting")
  /\ UNCHANGED <<log, writer, mutex>>

-----------------------------------------------------------------------------
(* WithTx *)

(* writeMu.Lock() waits whatever becomes of the context. *)
LockWriteMu(c) ==
  /\ At(c, "waiting")
  /\ mutex = NoOne
  /\ mutex' = c
  /\ Go(c, "locked")
  /\ UNCHANGED <<log, writer>>

BeginTx(c) ==
  /\ At(c, "locked")
  /\ ConnectionIsFree
  /\ Go(c, "open")
  /\ UNCHANGED <<log, writer, mutex>>

Read(c) ==
  /\ At(c, "open")
  /\ clients[c].snapshot = None
  /\ clients' = [clients EXCEPT ![c].snapshot = Len(log)]
  /\ UNCHANGED <<log, writer, mutex>>

(* SQLite, when c begins to write: nobody else writes, and c has read nothing or
   nothing old. *)
MayBeginToWrite(c) == writer = NoOne /\ clients[c].snapshot \in {None, Len(log)}

(* It never may: the snapshot stays old, or the upgrade is refused at once. *)
WriteRefused(c) ==
  /\ writer # c
  /\ clients[c].snapshot # None
  /\ ~MayBeginToWrite(c)

Write(c, part) ==
  /\ At(c, "open")
  /\ part \notin clients[c].wrote
  /\ writer = c \/ MayBeginToWrite(c)
  /\ writer' = c
  /\ clients' = [clients EXCEPT
       ![c].snapshot = IF @ = None THEN Len(log) ELSE @,
       ![c].wrote = @ \cup {part}]
  /\ UNCHANGED <<log, mutex>>

(* What every end of WithTx leaves: the deferred Rollback and Unlock. *)
Release(c) ==
  /\ writer' = IF writer = c THEN NoOne ELSE writer
  /\ mutex' = NoOne
  /\ clients' = [clients EXCEPT ![c] = Idle]

Commit(c) ==
  /\ At(c, "open")
  /\ clients[c].wrote = Parts
  /\ log' = Append(log, [saw |-> clients[c].snapshot, wrote |-> clients[c].wrote])
  /\ Release(c)

(* Mutant: what was written before the error is committed. *)
Rollback_Commits(c) ==
  /\ clients[c].phase \in {"locked", "open"}
  /\ log' = IF writer = c
            THEN Append(log, [saw |-> clients[c].snapshot, wrote |-> clients[c].wrote]) ELSE log
  /\ Release(c)

(* Mutant: the mutex is unlocked after a commit, not by a defer. *)
Rollback_KeepsMutex(c) ==
  /\ clients[c].phase \in {"locked", "open"}
  /\ writer' = IF writer = c THEN NoOne ELSE writer
  /\ clients' = [clients EXCEPT ![c] = Idle]
  /\ UNCHANGED <<log, mutex>>

(* BeginTx failed, fn returned an error, or the context ended. *)
Rollback(c) ==
  /\ clients[c].phase \in {"locked", "open"}
  /\ Release(c)
  /\ UNCHANGED log

-----------------------------------------------------------------------------
(* What a client does by itself; a statement that SQLite refuses ends fn. *)
TxRuns(c) ==
  \/ LockWriteMu(c)
  \/ BeginTx(c)
  \/ Read(c)
  \/ \E part \in Parts : Write(c, part)
  \/ Commit(c)
  \/ WriteRefused(c) /\ Rollback(c)

HandlerRuns(h) == Authenticate(h) \/ TouchLastSeen(h) \/ EnterWithTx(h)

ClientStep ==
  \/ \E h \in Handlers : HandlerRuns(h) \/ EndRequest(h)
  \/ \E c \in Clients : TxRuns(c) \/ Rollback(c)

StoreInit ==
  /\ log = << >>
  /\ writer = NoOne
  /\ mutex = NoOne
  /\ clients = [c \in Clients |-> Idle]

(* The connections are gone, and with them what was not committed. *)
ForgetClients ==
  /\ writer' = NoOne
  /\ mutex' = NoOne
  /\ clients' = [c \in Clients |-> Idle]
  /\ UNCHANGED log

-----------------------------------------------------------------------------
(* Properties *)

(* Whatever runs beside the mutex, whichever statement fails or is cut off, the
   commits are those of a store without concurrency: a transaction saw all commits
   before its own, and what it wrote is there in full or not at all.  This is what
   lets Fleet, DataLoop and Sessions take a handler for one step. *)
Serial == INSTANCE SerialStore WITH Writes <- {Parts, Touched}

ImplementsSerialStore == Serial!Spec
=============================================================================
