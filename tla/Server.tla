------------------------------- MODULE Server -------------------------------
(***************************************************************************)
(* The life of the process, cmd/server/main.go, around TxStore: the        *)
(* migrations of internal/storage/sqlite/migrate.go at its start, requests *)
(* and the dispatcher, a signal, the shutdown of the HTTP server with its  *)
(* timeout, the end of the dispatcher, and a crash at any moment.  The     *)
(* database stays; the next process may be another build of the program,   *)
(* newer or older.                                                         *)
(*                                                                         *)
(* At most one process uses the database at a time.                        *)
(***************************************************************************)
EXTENDS TxStore, FiniteSetsExt

CONSTANT Builds    \* the migrations each build of the program brings along

ASSUME BuildsTyped == Builds # {} /\ Builds \subseteq SUBSET Nat

VARIABLES
  process,  \* where the process is in run()
  known,    \* the migrations of its build
  applied   \* the migrations the database has had, as schema_migrations records them

processVars == <<process, known, applied>>
serverVars  == <<storeVars, processVars>>

ProcessPhases == {"down", "migrating", "serving", "draining", "stopping"}

ServerTypeOK ==
  /\ StoreTypeOK
  /\ process \in ProcessPhases
  /\ known \in Builds \cup {{}}
  /\ applied \subseteq Nat

-----------------------------------------------------------------------------
(* Migrate *)

Pending == known \ applied

(* Mutant: unknown versions are not looked for. *)
Compatible_AnyVersion == TRUE

Compatible == applied \subseteq known

Start(build) ==
  /\ process = "down"
  /\ process' = "migrating"
  /\ known' = build
  /\ UNCHANGED <<storeVars, applied>>

(* The statements and the record of a migration are one transaction. *)
ApplyMigration ==
  /\ process = "migrating"
  /\ Compatible
  /\ Pending # {}
  /\ applied' = applied \cup {Min(Pending)}
  /\ UNCHANGED <<storeVars, process, known>>

(* A version this build does not know. *)
StartFails ==
  /\ process = "migrating"
  /\ ~Compatible
  /\ process' = "down"
  /\ UNCHANGED <<storeVars, known, applied>>

Serve ==
  /\ process = "migrating"
  /\ Compatible
  /\ Pending = {}
  /\ process' = "serving"
  /\ UNCHANGED <<storeVars, known, applied>>

-----------------------------------------------------------------------------
(* Serving and stopping *)

AcceptRequest(h) == process = "serving" /\ Arrive(h) /\ UNCHANGED processVars

(* Until its loop ends the dispatcher may have jobs to mark or to release. *)
DispatcherRuns ==
  /\ process \in {"serving", "draining", "stopping"}
  /\ DispatcherBegins
  /\ UNCHANGED processVars

ClientsRun == ClientStep /\ UNCHANGED processVars

(* ListenAndServe returned an error: run() returns it, through its deferred calls. *)
ListenFails ==
  /\ process = "serving"
  /\ process' = "stopping"
  /\ UNCHANGED <<storeVars, known, applied>>

Signal ==
  /\ process = "serving"
  /\ process' = "draining"
  /\ UNCHANGED <<storeVars, known, applied>>

(* Shutdown returns: no request is left, or ShutdownTimeout has passed. *)
Drained ==
  /\ process = "draining"
  /\ \A h \in Handlers : At(h, "idle")
  /\ process' = "stopping"
  /\ UNCHANGED <<storeVars, known, applied>>

DrainTimesOut ==
  /\ process = "draining"
  /\ process' = "stopping"
  /\ UNCHANGED <<storeVars, known, applied>>

(* dispatcher.Stop() has waited for the loop; the store is closed and run()
   returns, whatever requests a timeout has left behind. *)
Exit ==
  /\ process = "stopping"
  /\ At(Dispatcher, "idle")
  /\ process' = "down"
  /\ ForgetClients
  /\ UNCHANGED <<known, applied>>

Crash ==
  /\ process # "down"
  /\ process' = "down"
  /\ ForgetClients
  /\ UNCHANGED <<known, applied>>

ServerInit ==
  /\ StoreInit
  /\ process = "down"
  /\ known = {}
  /\ applied = {}

ServerNext ==
  \/ \E build \in Builds : Start(build)
  \/ ApplyMigration
  \/ StartFails
  \/ Serve
  \/ \E h \in Handlers : AcceptRequest(h)
  \/ DispatcherRuns
  \/ ClientsRun
  \/ ListenFails
  \/ Signal
  \/ Drained
  \/ DrainTimesOut
  \/ Exit
  \/ Crash

ServerSpec == ServerInit /\ [][ServerNext]_serverVars

(* Goroutines run; Shutdown looks at its requests and at its timeout.  The dispatcher
   has finitely many jobs to mark when its loop is told to end, so it is idle for
   good in the end: strong fairness of Exit. *)
ServerFairness ==
  /\ \A c \in Clients : WF_serverVars(TxRuns(c) /\ UNCHANGED processVars)
  /\ \A h \in Handlers : WF_serverVars(HandlerRuns(h) /\ UNCHANGED processVars)
  /\ WF_serverVars(Drained \/ DrainTimesOut)
  /\ SF_serverVars(Exit)

FairServerSpec == ServerSpec /\ ServerFairness

-----------------------------------------------------------------------------
(* Properties *)

(* What the database has had of the migrations of build comes before all it lacks. *)
MigratedSoFar(build) ==
  /\ applied \subseteq build
  /\ \A done \in applied, missing \in build \ applied : done < missing

(* Whichever builds ran and wherever they crashed between two migrations, the
   database is one that some build has migrated so far; and a process serves only
   when it has every migration of its build and no other. *)
ServesItsSchema ==
  /\ \E build \in Builds : MigratedSoFar(build)
  /\ process \in {"serving", "draining", "stopping"} => applied = known

(* After a signal the process ends, also when Shutdown gave up on a request that
   still holds the mutex, a connection or the write lock the dispatcher waits for. *)
ShutdownEnds == process \in {"draining", "stopping"} ~> process = "down"
=============================================================================
