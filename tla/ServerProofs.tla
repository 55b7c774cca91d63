---------------------------- MODULE ServerProofs ----------------------------
(***************************************************************************)
(* Theorems about TxStore and Server, for every set of requests, size of   *)
(* the pool, number of commits and set of builds.                          *)
(***************************************************************************)
EXTENDS Server, WellFoundedInduction, TLAPS

-----------------------------------------------------------------------------
(* The store is serial *)

(* Who has written something holds SQLite's write lock, and who holds it has seen
   every commit. *)
WriterIsUpToDate ==
  \A c \in Clients :
    /\ clients[c].wrote # {} => writer = c
    /\ writer = c => clients[c].snapshot = Len(log)

StoreInv == StoreTypeOK /\ WriterIsUpToDate

(* Everything that happens to the store while the process lives or dies. *)
StoreNext ==
  \/ \E h \in Handlers : Arrive(h)
  \/ DispatcherBegins
  \/ ClientStep
  \/ ForgetClients

ClientRecord == [phase : Phases, snapshot : Nat \cup {None}, wrote : SUBSET Parts]

LEMMA IdleTyped == Idle \in ClientRecord /\ Idle.wrote = {}
BY DEF Idle, ClientRecord, Phases

(* A change of phase keeps what a client has seen and written. *)
LEMMA GoKeepsStore ==
  ASSUME StoreInv, NEW c \in Clients, NEW phase \in Phases, Go(c, phase),
         UNCHANGED <<log, writer>>, mutex' \in Clients \cup {NoOne}
  PROVE  StoreInv'
<1>1. clients[c] \in ClientRecord
  BY DEF StoreInv, StoreTypeOK, ClientRecord
<1> DEFINE it == [clients[c] EXCEPT !.phase = phase]
<1>2. it \in ClientRecord /\ it.snapshot = clients[c].snapshot /\ it.wrote = clients[c].wrote
  BY <1>1 DEF ClientRecord
<1>3. clients' = [clients EXCEPT ![c] = it]
  BY DEF Go
<1> HIDE DEF it
<1> QED BY <1>2, <1>3 DEF StoreInv, StoreTypeOK, WriterIsUpToDate, ClientRecord

(* Whoever lets go of the store leaves nothing written. *)
LEMMA ReleaseKeepsStore ==
  ASSUME StoreInv, NEW c \in Clients, Release(c),
         log' \in Seq([saw : Nat, wrote : SUBSET (Parts \cup Touched)]),
         log' = log \/ writer = c
  PROVE  StoreInv'
<1>1. /\ clients' \in [Clients -> ClientRecord]
      /\ clients'[c] = Idle
      /\ \A d \in Clients \ {c} : clients'[d] = clients[d]
  BY IdleTyped DEF StoreInv, StoreTypeOK, Release, ClientRecord
<1>2. writer' = IF writer = c THEN NoOne ELSE writer
  BY DEF Release
<1>3. StoreTypeOK'
  BY <1>1, <1>2 DEF StoreInv, StoreTypeOK, Release, ClientRecord
<1>4. WriterIsUpToDate'
  <2>1. writer' # c
    BY <1>2, DispatcherIsNoHandler
  <2>2. ASSUME NEW d \in Clients, d # c
        PROVE  /\ clients'[d].wrote # {} => writer' = d
               /\ writer' = d => clients'[d].snapshot = Len(log')
    BY <1>1, <1>2, <2>2, DispatcherIsNoHandler DEF StoreInv, WriterIsUpToDate
  <2> QED BY <1>1, <2>1, <2>2, IdleTyped DEF WriterIsUpToDate
<1> QED BY <1>3, <1>4 DEF StoreInv

(* A commit appends what a serial store would. *)
LEMMA CommitIsSerial ==
  ASSUME StoreInv, NEW c \in Clients, Commit(c)
  PROVE  /\ log' = Append(log, [saw |-> Len(log), wrote |-> Parts])
         /\ writer = c
<1>1. clients[c].wrote = Parts /\ Parts # {}
  BY DEF Commit, Parts
<1>2. writer = c /\ clients[c].snapshot = Len(log)
  BY <1>1 DEF StoreInv, WriterIsUpToDate
<1> QED BY <1>1, <1>2 DEF Commit

(* A step of the store keeps its invariant, and is one write of the serial store or
   none. *)
LEMMA StoreStep ==
  ASSUME StoreInv, StoreNext \/ UNCHANGED storeVars
  PROVE  StoreInv' /\ [Serial!Next]_log
<1> DEFINE Appends(wrote) == log' = Append(log, [saw |-> Len(log), wrote |-> wrote])
<1>a. /\ log \in Seq([saw : Nat, wrote : SUBSET (Parts \cup Touched)])
      /\ mutex \in Clients \cup {NoOne} /\ writer \in Clients \cup {NoOne}
      /\ clients \in [Clients -> ClientRecord]
      /\ Handlers \subseteq Clients /\ Dispatcher \in Clients
      /\ Len(log) \in Nat
  BY DEF StoreInv, StoreTypeOK, ClientRecord, Clients
<1>b. \A wrote \in {Parts, Touched} :
        Append(log, [saw |-> Len(log), wrote |-> wrote])
          \in Seq([saw : Nat, wrote : SUBSET (Parts \cup Touched)])
  BY <1>a
<1>1. ASSUME NEW c \in Clients, NEW phase \in Phases, Go(c, phase), UNCHANGED <<log, writer>>,
             mutex' \in Clients \cup {NoOne}
      PROVE  StoreInv' /\ UNCHANGED log
  BY <1>1, GoKeepsStore
<1>2. ASSUME NEW h \in Handlers,
             Arrive(h) \/ Authenticate(h) \/ EnterWithTx(h) \/ EndRequest(h)
      PROVE  StoreInv' /\ UNCHANGED log
  <2>1. PICK phase \in {"arrived", "ready", "touching", "waiting", "idle"} : Go(h, phase)
    BY <1>2 DEF Arrive, Authenticate, EnterWithTx, EndRequest
  <2>2. UNCHANGED <<log, writer, mutex>>
    BY <1>2 DEF Arrive, Authenticate, EnterWithTx, EndRequest
  <2> QED BY <1>a, <1>1, <2>1, <2>2 DEF Phases
<1>3. ASSUME NEW h \in Handlers, TouchLastSeen(h)
      PROVE  StoreInv' /\ Appends(Touched)
  <2>1. writer = NoOne /\ \A c \in Clients : clients[c].wrote = {}
    BY <1>3, DispatcherIsNoHandler DEF TouchLastSeen, StoreInv, WriterIsUpToDate
  <2> DEFINE it == [clients[h] EXCEPT !.phase = "ready"]
  <2>2. it \in ClientRecord /\ it.wrote = {}
    BY <1>a, <2>1 DEF ClientRecord, Phases
  <2>3. /\ clients' = [clients EXCEPT ![h] = it]
        /\ Appends(Touched) /\ UNCHANGED <<writer, mutex>>
    BY <1>3 DEF TouchLastSeen, Go
  <2> HIDE DEF it
  <2>4. clients' \in [Clients -> ClientRecord] /\ \A c \in Clients : clients'[c].wrote = {}
    BY <1>a, <2>1, <2>2, <2>3
  <2>5. StoreTypeOK'
    BY <1>a, <1>b, <2>3, <2>4 DEF StoreTypeOK, ClientRecord
  <2>6. WriterIsUpToDate'
    BY <2>1, <2>3, <2>4, DispatcherIsNoHandler DEF WriterIsUpToDate
  <2> QED BY <2>3, <2>5, <2>6 DEF StoreInv
<1>4. CASE DispatcherBegins
  BY <1>a, <1>1, <1>4 DEF DispatcherBegins, Phases
<1>5. ASSUME NEW c \in Clients, LockWriteMu(c) \/ BeginTx(c)
      PROVE  StoreInv' /\ UNCHANGED log
  <2>1. PICK phase \in {"locked", "open"} : Go(c, phase)
    BY <1>5 DEF LockWriteMu, BeginTx
  <2>2. UNCHANGED <<log, writer>> /\ mutex' \in Clients \cup {NoOne}
    BY <1>a, <1>5 DEF LockWriteMu, BeginTx
  <2> QED BY <1>1, <2>1, <2>2 DEF Phases
<1>6. ASSUME NEW c \in Clients, Read(c) PROVE StoreInv' /\ UNCHANGED log
  <2> DEFINE it == [clients[c] EXCEPT !.snapshot = Len(log)]
  <2>1. it \in ClientRecord /\ it.wrote = clients[c].wrote /\ it.snapshot = Len(log)
    BY <1>a DEF ClientRecord
  <2>2. clients' = [clients EXCEPT ![c] = it] /\ UNCHANGED <<log, writer, mutex>>
    BY <1>6 DEF Read
  <2> HIDE DEF it
  <2> QED BY <1>a, <2>1, <2>2 DEF StoreInv, StoreTypeOK, WriterIsUpToDate, ClientRecord
<1>7. ASSUME NEW c \in Clients, NEW part \in Parts, Write(c, part)
      PROVE  StoreInv' /\ UNCHANGED log
  <2> DEFINE seen == IF clients[c].snapshot = None THEN Len(log) ELSE clients[c].snapshot
             it == [clients[c] EXCEPT !.snapshot = seen, !.wrote = @ \cup {part}]
  <2>1. seen = Len(log)
    BY <1>7 DEF Write, MayBeginToWrite, StoreInv, WriterIsUpToDate
  <2>2. clients' = [clients EXCEPT ![c] = it] /\ writer' = c /\ UNCHANGED <<log, mutex>>
    BY <1>7 DEF Write
  <2> HIDE DEF seen
  <2>3. it \in ClientRecord /\ it.snapshot = Len(log)
    BY <1>a, <2>1 DEF ClientRecord
  <2> HIDE DEF it
  <2>4. \A d \in Clients \ {c} : clients[d].wrote = {}
    BY <1>7, DispatcherIsNoHandler
    DEF Write, MayBeginToWrite, StoreInv, WriterIsUpToDate
  <2>5. /\ clients' \in [Clients -> ClientRecord] /\ clients'[c] = it
        /\ \A d \in Clients \ {c} : clients'[d] = clients[d]
    BY <1>a, <2>2, <2>3
  <2>6. StoreTypeOK'
    BY <1>a, <2>2, <2>5 DEF StoreTypeOK, ClientRecord
  <2>7. WriterIsUpToDate'
    BY <2>2, <2>3, <2>4, <2>5 DEF WriterIsUpToDate
  <2> QED BY <2>2, <2>6, <2>7 DEF StoreInv
<1>8. ASSUME NEW c \in Clients, Commit(c) PROVE StoreInv' /\ Appends(Parts)
  BY <1>b, <1>8, CommitIsSerial, ReleaseKeepsStore DEF Commit
<1>9. ASSUME NEW c \in Clients, Rollback(c) PROVE StoreInv' /\ UNCHANGED log
  BY <1>a, <1>9, ReleaseKeepsStore DEF Rollback
<1>10. CASE ForgetClients
  BY <1>10, <1>a, IdleTyped, DispatcherIsNoHandler
  DEF ForgetClients, StoreInv, StoreTypeOK, WriterIsUpToDate, ClientRecord
<1>11. CASE UNCHANGED storeVars
  BY <1>11 DEF storeVars, StoreInv, StoreTypeOK, WriterIsUpToDate
<1>12. ASSUME StoreInv' /\ (UNCHANGED log \/ Appends(Touched) \/ Appends(Parts))
       PROVE  StoreInv' /\ [Serial!Next]_log
  BY <1>12 DEF Serial!Next
<1> HIDE DEF Appends
<1> QED BY <1>2, <1>3, <1>4, <1>5, <1>6, <1>7, <1>8, <1>9, <1>10, <1>11, <1>12
        DEF StoreNext, ClientStep, HandlerRuns, TxRuns, ForgetClients, DispatcherBegins, storeVars

(* The process reaches the store in no other way. *)
LEMMA ServerStepIsStoreStep ==
  ASSUME [ServerNext]_serverVars PROVE StoreNext \/ UNCHANGED storeVars
BY DEF ServerNext, serverVars, Start, ApplyMigration, StartFails, Serve, AcceptRequest,
       DispatcherRuns, ClientsRun, ListenFails, Signal, Drained, DrainTimesOut, Exit, Crash,
       StoreNext

LEMMA StoreInvInit == StoreInit => StoreInv
<1> SUFFICES ASSUME StoreInit PROVE StoreInv
  OBVIOUS
<1>1. clients \in [Clients -> ClientRecord] /\ \A c \in Clients : clients[c].wrote = {}
  BY IdleTyped DEF StoreInit
<1>2. log \in Seq([saw : Nat, wrote : SUBSET (Parts \cup Touched)])
  BY DEF StoreInit
<1> QED BY <1>1, <1>2, DispatcherIsNoHandler
        DEF StoreInit, StoreInv, StoreTypeOK, WriterIsUpToDate, ClientRecord

(* Whatever runs beside the mutex, and whatever is cut off, the commits are those of
   a store that makes one write after the other: this is what the handlers of Fleet,
   DataLoop and Sessions are built on. *)
THEOREM StoreIsSerial == ServerSpec => ImplementsSerialStore
<1>1. ServerInit => StoreInv /\ Serial!Init
  BY StoreInvInit DEF ServerInit, StoreInit, Serial!Init
<1>2. StoreInv /\ [ServerNext]_serverVars => StoreInv' /\ [Serial!Next]_log
  BY ServerStepIsStoreStep, StoreStep
<1> QED BY <1>1, <1>2, PTL DEF ServerSpec, ImplementsSerialStore, Serial!Spec

-----------------------------------------------------------------------------
(* The schema *)

(* A set of versions that is not empty has a lowest one. *)
LEMMA LowestVersion ==
  ASSUME NEW versions \in SUBSET Nat, versions # {}
  PROVE  Min(versions) \in versions /\ \A other \in versions : Min(versions) <= other
<1>1. IsWellFoundedOn({pair \in Nat \X Nat : pair[1] < pair[2]}, Nat)
  BY NatLessThanWellFounded DEF OpToRel
<1>2. PICK lowest \in versions :
        \A other \in versions : <<other, lowest>> \notin {pair \in Nat \X Nat : pair[1] < pair[2]}
  BY <1>1, WFMin
<1>3. ASSUME NEW other \in versions PROVE lowest <= other
  <2>1. lowest \in Nat /\ other \in Nat
    OBVIOUS
  <2>2. ~(other < lowest)
    BY <1>2, <2>1
  <2> QED BY <2>1, <2>2
<1> QED BY <1>3 DEF Min

(* Of two builds the newer has the migrations of the older and, after them, its own.
   The numbers of the files under migrations/ are given so; no code looks at it. *)
BuildsAppend ==
  \A old, new \in Builds :
    \/ old \subseteq new /\ \A kept \in old, added \in new \ old : kept < added
    \/ new \subseteq old /\ \A kept \in new, added \in old \ new : kept < added

(* The process runs some build, and the database was migrated by some build. *)
SchemaInv ==
  /\ process \in ProcessPhases
  /\ process # "down" => known \in Builds
  /\ process \in {"serving", "draining", "stopping"} => applied = known
  /\ \E build \in Builds : applied \subseteq build

(* What was migrated so far by some build was so by every build that has all of it. *)
LEMMA MigratedByNewer ==
  ASSUME BuildsAppend, NEW old \in Builds, NEW new \in Builds, MigratedSoFar(old),
         applied \subseteq new
  PROVE  MigratedSoFar(new)
<1>1. ASSUME NEW done \in applied, NEW missing \in new \ applied PROVE done < missing
  <2>1. CASE missing \in old
    BY <2>1 DEF MigratedSoFar
  <2>2. CASE missing \notin old
    BY <2>2 DEF BuildsAppend, MigratedSoFar
  <2> QED BY <2>1, <2>2
<1> QED BY <1>1 DEF MigratedSoFar

(* A migration takes the lowest version that is pending. *)
LEMMA MigratedFurther ==
  ASSUME known \in Builds, MigratedSoFar(known), ApplyMigration
  PROVE  MigratedSoFar(known)'
<1> DEFINE lowest == Min(Pending)
<1>1. Pending \in SUBSET Nat /\ Pending # {}
  BY BuildsTyped DEF Pending, ApplyMigration
<1>2. lowest \in Pending /\ \A other \in Pending : lowest <= other
  BY <1>1, LowestVersion
<1>3. applied' = applied \cup {lowest} /\ known' = known
  BY DEF ApplyMigration
<1> HIDE DEF lowest
<1>4. ASSUME NEW missing \in known \ applied' PROVE lowest < missing
  <2>1. missing \in Pending /\ missing # lowest
    BY <1>3 DEF Pending
  <2>2. missing \in Nat /\ lowest \in Nat /\ lowest <= missing
    BY <1>1, <1>2, <2>1
  <2> QED BY <2>1, <2>2
<1> QED BY <1>2, <1>3, <1>4 DEF MigratedSoFar, Pending

(* Every step of the process keeps what it knows of its schema. *)
LEMMA SchemaNext == SchemaInv /\ [ServerNext]_serverVars => SchemaInv'
<1> SUFFICES ASSUME SchemaInv, [ServerNext]_serverVars PROVE SchemaInv'
  OBVIOUS
<1> USE DEF SchemaInv, ProcessPhases
<1>1. ASSUME NEW build \in Builds, Start(build) PROVE SchemaInv'
  BY <1>1 DEF Start
<1>2. CASE ApplyMigration
  <2>1. Min(Pending) \in known
    BY <1>2, BuildsTyped, LowestVersion DEF ApplyMigration, Pending
  <2> QED BY <1>2, <2>1 DEF ApplyMigration, Compatible
<1>3. CASE Serve
  BY <1>3 DEF Serve, Compatible, Pending
<1>4. CASE StartFails
  BY <1>4 DEF StartFails
<1>5. CASE ListenFails \/ Signal \/ Drained \/ DrainTimesOut
  BY <1>5 DEF ListenFails, Signal, Drained, DrainTimesOut
<1>6. CASE Exit \/ Crash
  BY <1>6 DEF Exit, Crash
<1>7. CASE UNCHANGED processVars
  BY <1>7 DEF processVars
<1> QED BY <1>1, <1>2, <1>3, <1>4, <1>5, <1>6, <1>7
        DEF ServerNext, AcceptRequest, DispatcherRuns, ClientsRun, serverVars

LEMMA SchemaInit == ServerInit => SchemaInv /\ \E build \in Builds : MigratedSoFar(build)
BY BuildsTyped DEF ServerInit, SchemaInv, ProcessPhases, MigratedSoFar

(* Any step of any build keeps the database migrated so far by some build, if builds
   only append. *)
LEMMA MigratedNext ==
  ASSUME BuildsAppend, SchemaInv, \E build \in Builds : MigratedSoFar(build),
         [ServerNext]_serverVars
  PROVE  (\E build \in Builds : MigratedSoFar(build))'
<1>1. CASE ApplyMigration
  <2>1. known \in Builds /\ applied \subseteq known
    BY <1>1 DEF ApplyMigration, Compatible, SchemaInv
  <2>2. MigratedSoFar(known)
    BY <2>1, MigratedByNewer
  <2>3. MigratedSoFar(known)' /\ known' = known
    BY <1>1, <2>1, <2>2, MigratedFurther DEF ApplyMigration
  <2> QED BY <2>1, <2>3
<1>2. CASE UNCHANGED applied
  BY <1>2 DEF MigratedSoFar
<1> QED BY <1>1, <1>2 DEF ServerNext, serverVars, processVars, Start, StartFails, Serve,
           AcceptRequest, DispatcherRuns, ClientsRun, ListenFails, Signal, Drained,
           DrainTimesOut, Exit, Crash

(* A process serves only when the database has every migration of its build and no
   other, and no database has migrations that no build has: whatever the builds. *)
THEOREM ServesWhatItKnows ==
  ServerSpec => [](/\ \E build \in Builds : applied \subseteq build
                   /\ process \in {"serving", "draining", "stopping"} => applied = known)
<1>1. ServerInit => SchemaInv
  BY SchemaInit
<1>2. SchemaInv => /\ \E build \in Builds : applied \subseteq build
                   /\ process \in {"serving", "draining", "stopping"} => applied = known
  BY DEF SchemaInv
<1> QED BY <1>1, <1>2, SchemaNext, PTL DEF ServerSpec

(* When builds only append migrations, the database is moreover one that some build
   has migrated so far, wherever processes crashed between two migrations. *)
THEOREM SchemaIsServed == ASSUME BuildsAppend PROVE ServerSpec => []ServesItsSchema
<1> DEFINE SomeBuild == \E build \in Builds : MigratedSoFar(build)
<1>1. ServerInit => SchemaInv /\ SomeBuild
  BY SchemaInit
<1>2. SchemaInv /\ SomeBuild /\ [ServerNext]_serverVars => SomeBuild'
  BY MigratedNext
<1>3. SchemaInv /\ SomeBuild => ServesItsSchema
  BY DEF SchemaInv, ServesItsSchema
<1> HIDE DEF SomeBuild
<1> QED BY <1>1, <1>2, <1>3, SchemaNext, PTL DEF ServerSpec
=============================================================================
