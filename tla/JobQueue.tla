------------------------------ MODULE JobQueue ------------------------------
(***************************************************************************)
(* The background jobs: the table worker_jobs (storage/sqlite/job_repo.go) *)
(* and the dispatchers that claim, run and mark jobs (internal/worker).    *)
(*                                                                         *)
(* A dispatcher claims a batch in one transaction, then runs the jobs one  *)
(* by one outside of any transaction, and writes each verdict in another.  *)
(* Its context may be cancelled (a signal), its loop told to stop, or its  *)
(* process killed between any two of these steps.  A transaction under a   *)
(* cancelled context fails and writes nothing; storage errors of another   *)
(* kind are left out.  The metrics of the dispatcher are left out too:     *)
(* no code reads them.                                                     *)
(***************************************************************************)
EXTENDS Tables, FiniteSets

CONSTANTS
  Dispatchers,        \* the dispatchers that work on the table, one per process
  Kinds,              \* job kinds
  Registered,         \* the kinds with a handler
  AttemptLimits,      \* maxAttempts that may be asked for; 0 means the default
  BatchSize, BaseBackoff, MaxBackoff,
  \* bounds of the model
  MaxJobs, MaxTime, MaxRestarts

JobIds == 1..MaxJobs

ASSUME KindsTyped == Registered \subseteq Kinds
ASSUME LimitsTyped == AttemptLimits \subseteq Nat
ASSUME QueueBounds ==
  /\ BatchSize \in Nat \ {0}
  /\ {BaseBackoff, MaxBackoff} \subseteq Nat \ {0}
  /\ {MaxJobs, MaxTime, MaxRestarts} \subseteq Nat

VARIABLES
  jobs,         \* the rows of worker_jobs
  dispatchers,  \* the loop of each dispatcher
  runs,         \* how often a handler was called with the job
  restarts,     \* how often a dispatcher was started again
  now           \* clock.Now()

vars == <<jobs, dispatchers, runs, restarts, now>>

JobStatus == {"queued", "running", "succeeded", "dead"}

Job == [kind : Kinds, status : JobStatus, attempts : Nat, maxAttempts : Nat \ {0}, due : Nat]

(* held: the claimed jobs that RunOnce has not dealt with yet.  verdict: what the
   job it deals with is about to be marked as. *)
Dispatcher ==
  [phase : {"idle", "loop", "handling", "marking", "stopped", "crashed"},
   held : SUBSET JobIds, verdict : {"none", "succeeded", "dead", "queued"},
   cancelled : BOOLEAN, stopping : BOOLEAN]

Started ==
  [phase |-> "idle", held |-> {}, verdict |-> "none", cancelled |-> FALSE, stopping |-> FALSE]

Up(w) == dispatchers[w].phase \notin {"stopped", "crashed"}

-----------------------------------------------------------------------------
(* The delay doubles with every attempt and saturates; it is positive from the start. *)
Backoff(attempt) ==
  LET delay[i \in Nat] ==
        IF i <= 1 THEN BaseBackoff
        ELSE IF 2 * delay[i - 1] >= MaxBackoff THEN MaxBackoff ELSE 2 * delay[i - 1]
  IN  IF delay[attempt] \in 1..MaxBackoff THEN delay[attempt] ELSE MaxBackoff

DefaultAttempts == 3

Enqueue(kind, maxAttempts, due) ==
  \E j \in FreshId(jobs, JobIds) :
    /\ jobs' = Insert(jobs, j,
         [kind |-> kind, status |-> "queued", attempts |-> 0, due |-> due,
          maxAttempts |-> IF maxAttempts = 0 THEN DefaultAttempts ELSE maxAttempts])
    /\ UNCHANGED <<dispatchers, runs, restarts, now>>

(* Mutant: a job that is running is claimed again. *)
DueJobs_RunningToo ==
  {j \in DOMAIN jobs : jobs[j].status \in {"queued", "running"} /\ jobs[j].due <= now}

(* Mutant: the status is not looked at. *)
DueJobs_AnyStatus == {j \in DOMAIN jobs : jobs[j].due <= now}

(* Mutant: a job is due only after its moment. *)
DueJobs_Late == {j \in DOMAIN jobs : jobs[j].status = "queued" /\ jobs[j].due < now}

DueJobs == {j \in DOMAIN jobs : jobs[j].status = "queued" /\ jobs[j].due <= now}

(* ORDER BY next_run_at, id *)
Before(i, j) ==
  jobs[i].due < jobs[j].due \/ (jobs[i].due = jobs[j].due /\ i < j)

(* LIMIT BatchSize: as many as there are, at most a batch, the first ones. *)
Batches ==
  {S \in SUBSET DueJobs :
     /\ Cardinality(S) <= BatchSize
     /\ Cardinality(S) < BatchSize => S = DueJobs
     /\ \A i \in S, j \in DueJobs \ S : Before(i, j)}

Claim(S) ==
  jobs' = [j \in DOMAIN jobs |->
             IF j \in S THEN [jobs[j] EXCEPT !.status = "running", !.attempts = @ + 1]
                        ELSE jobs[j]]

(* RunOnce up to the loop.  A run that finds nothing due changes nothing. *)
ClaimDue(w) ==
  /\ dispatchers[w].phase = "idle"
  /\ ~dispatchers[w].cancelled
  /\ DueJobs # {}
  /\ \E S \in Batches :
       /\ Claim(S)
       /\ dispatchers' = [dispatchers EXCEPT ![w].phase = "loop", ![w].held = S]
  /\ UNCHANGED <<runs, restarts, now>>

(* The job that the loop of RunOnce is at. *)
AtJob(w, j) ==
  /\ j \in dispatchers[w].held
  /\ \A other \in dispatchers[w].held \ {j} : Before(j, other)

LeaveJob(w, j) ==
  dispatchers' = [dispatchers EXCEPT ![w].phase = "loop", ![w].held = @ \ {j},
                                     ![w].verdict = "none"]

(* The queued status of a mark is MarkRetry: the job is due again at `due`. *)
Mark(j, status, due) ==
  /\ jobs[j].status = "running"
  /\ jobs' = [jobs EXCEPT ![j].status = status, ![j].due = due]

(* Mutant: the loop goes on to the next job without putting this one back. *)
ReleaseJob_Drops(w, j) ==
  /\ dispatchers[w].phase = "loop"
  /\ dispatchers[w].cancelled
  /\ AtJob(w, j)
  /\ LeaveJob(w, j)
  /\ UNCHANGED <<jobs, runs, restarts, now>>

(* A claimed job after the context was cancelled: release, under a context of its
   own.  The attempt that the claim counted stays counted. *)
ReleaseJob(w, j) ==
  /\ dispatchers[w].phase = "loop"
  /\ dispatchers[w].cancelled
  /\ AtJob(w, j)
  /\ Mark(j, "queued", now)
  /\ LeaveJob(w, j)
  /\ UNCHANGED <<runs, restarts, now>>

(* runJob up to the call of the handler, or to the verdict on a job without one. *)
StartJob(w, j) ==
  /\ dispatchers[w].phase = "loop"
  /\ ~dispatchers[w].cancelled
  /\ AtJob(w, j)
  /\ \/ /\ jobs[j].kind \in Registered
        /\ dispatchers' = [dispatchers EXCEPT ![w].phase = "handling"]
        /\ runs' = [runs EXCEPT ![j] = @ + 1]
     \/ /\ jobs[j].kind \notin Registered
        /\ dispatchers' = [dispatchers EXCEPT ![w].phase = "marking", ![w].verdict = "dead"]
        /\ UNCHANGED runs
  /\ UNCHANGED <<jobs, restarts, now>>

(* Mutant: one attempt too many. *)
Exhausted_OffByOne(j) == jobs[j].attempts > jobs[j].maxAttempts

Exhausted(j) == jobs[j].attempts >= jobs[j].maxAttempts

(* The handler returns no error, an error, or one that wraps ErrPermanent. *)
HandlerReturns(w, j, result) ==
  /\ dispatchers[w].phase = "handling"
  /\ AtJob(w, j)
  /\ dispatchers' = [dispatchers EXCEPT
       ![w].phase = "marking",
       ![w].verdict = CASE result = "ok" -> "succeeded"
                        [] result = "permanent" \/ (result = "error" /\ Exhausted(j)) -> "dead"
                        [] OTHER -> "queued"]
  /\ UNCHANGED <<jobs, runs, restarts, now>>

(* The transaction of the verdict. *)
MarkJob(w, j) ==
  /\ dispatchers[w].phase = "marking"
  /\ ~dispatchers[w].cancelled
  /\ AtJob(w, j)
  /\ Mark(j, dispatchers[w].verdict,
          IF dispatchers[w].verdict = "queued" THEN now + Backoff(jobs[j].attempts)
                                               ELSE jobs[j].due)
  /\ LeaveJob(w, j)
  /\ UNCHANGED <<runs, restarts, now>>

(* The context was cancelled since the loop looked at it: the transaction fails,
   the failure is logged, the loop goes on, the row stays as it is. *)
MarkFails(w, j) ==
  /\ dispatchers[w].phase = "marking"
  /\ dispatchers[w].cancelled
  /\ AtJob(w, j)
  /\ LeaveJob(w, j)
  /\ UNCHANGED <<jobs, runs, restarts, now>>

EndRun(w) ==
  /\ dispatchers[w].phase = "loop"
  /\ dispatchers[w].held = {}
  /\ dispatchers' = [dispatchers EXCEPT ![w].phase = "idle"]
  /\ UNCHANGED <<jobs, runs, restarts, now>>

(* Mutant: the loop does not look at the done channel. *)
LoopExits_IgnoresStop(w) ==
  /\ dispatchers[w].phase = "idle"
  /\ dispatchers[w].cancelled
  /\ dispatchers' = [dispatchers EXCEPT ![w].phase = "stopped"]
  /\ UNCHANGED <<jobs, runs, restarts, now>>

LoopExits(w) ==
  /\ dispatchers[w].phase = "idle"
  /\ dispatchers[w].cancelled \/ dispatchers[w].stopping
  /\ dispatchers' = [dispatchers EXCEPT ![w].phase = "stopped"]
  /\ UNCHANGED <<jobs, runs, restarts, now>>

-----------------------------------------------------------------------------
(* A signal cancels the context of the process. *)
Cancel(w) ==
  /\ Up(w)
  /\ ~dispatchers[w].cancelled
  /\ dispatchers' = [dispatchers EXCEPT ![w].cancelled = TRUE]
  /\ UNCHANGED <<jobs, runs, restarts, now>>

Stop(w) ==
  /\ Up(w)
  /\ ~dispatchers[w].stopping
  /\ dispatchers' = [dispatchers EXCEPT ![w].stopping = TRUE]
  /\ UNCHANGED <<jobs, runs, restarts, now>>

Crash(w) ==
  /\ Up(w)
  /\ dispatchers' = [dispatchers EXCEPT ![w] = [Started EXCEPT !.phase = "crashed"]]
  /\ UNCHANGED <<jobs, runs, restarts, now>>

Restart(w) ==
  /\ ~Up(w)
  /\ restarts < MaxRestarts
  /\ restarts' = restarts + 1
  /\ dispatchers' = [dispatchers EXCEPT ![w] = Started]
  /\ UNCHANGED <<jobs, runs, now>>

Tick ==
  /\ now < MaxTime
  /\ now' = now + 1
  /\ UNCHANGED <<jobs, dispatchers, runs, restarts>>

Init ==
  /\ jobs = EmptyTable
  /\ dispatchers = [w \in Dispatchers |-> Started]
  /\ runs = [j \in JobIds |-> 0]
  /\ restarts = 0
  /\ now = 0

RunOnce(w) ==
  \/ ClaimDue(w)
  \/ \E j \in JobIds :
       \/ ReleaseJob(w, j)
       \/ StartJob(w, j)
       \/ \E result \in {"ok", "error", "permanent"} : HandlerReturns(w, j, result)
       \/ MarkJob(w, j)
       \/ MarkFails(w, j)
  \/ EndRun(w)

Next ==
  \/ \E kind \in Kinds, maxAttempts \in AttemptLimits, due \in 0..MaxTime :
       Enqueue(kind, maxAttempts, due)
  \/ \E w \in Dispatchers :
       \/ RunOnce(w)
       \/ LoopExits(w)
       \/ Cancel(w)
       \/ Stop(w)
       \/ Crash(w)
       \/ Restart(w)
  \/ Tick

Spec == Init /\ [][Next]_vars

(* The ticker of a loop keeps firing and handlers return; `select` picks among
   ready channels at random, so the done channel is not passed over for ever. *)
Fairness == \A w \in Dispatchers : WF_vars(RunOnce(w)) /\ SF_vars(LoopExits(w))

FairSpec == Spec /\ Fairness

-----------------------------------------------------------------------------
(* Properties *)

Held(j) == \E w \in Dispatchers : j \in dispatchers[w].held

(* This step leaves job j running with no dispatcher that will write a verdict. *)
Orphaned(j) == Held(j) /\ ~Held(j)' /\ jobs'[j].status = "running"

(* Rows and dispatchers are well formed, and no claim exceeds the batch size. *)
QueueTypeOK ==
  /\ IsTable(jobs, JobIds, Job)
  /\ dispatchers \in [Dispatchers -> Dispatcher]
  /\ \A w \in Dispatchers : Cardinality(dispatchers[w].held) <= BatchSize
  /\ runs \in [JobIds -> Nat]
  /\ restarts \in 0..MaxRestarts
  /\ now \in Nat

(* Two dispatchers never work on one job, and a job that one works on is running
   in the table (the comment of ClaimDue, job_repo.go:64-66): whoever writes the
   verdict is the one who claimed. *)
OneHolderPerJob ==
  \A w \in Dispatchers : \A j \in dispatchers[w].held :
    /\ j \in DOMAIN jobs
    /\ jobs[j].status = "running"
    /\ \A other \in Dispatchers \ {w} : j \notin dispatchers[other].held

(* No job is handed to its handler more often than it may be attempted, whatever
   is released, cancelled or killed on the way.  Claims are not bounded so: each
   release leaves the attempt counted. *)
RunsWithinAttempts == \A j \in DOMAIN jobs : runs[j] <= jobs[j].maxAttempts

(* A job that succeeded or died is never claimed, run or marked again. *)
VerdictIsFinal ==
  [][\A j \in DOMAIN jobs :
       jobs[j].status \in {"succeeded", "dead"} =>
         jobs'[j] = jobs[j] /\ runs'[j] = runs[j]]_vars

(* Every running job has a dispatcher that will write its verdict, until that
   dispatcher crashes or fails to write it because its context was cancelled while
   the job ran: no other path through RunOnce leaves a job behind, and none of the
   jobs that a cancelled dispatcher has not begun with is lost. *)
OnlyInterruptionOrphansJobs ==
  [][\A j \in DOMAIN jobs :
       Orphaned(j) =>
         \E w \in Dispatchers :
           j \in dispatchers[w].held /\ (Crash(w) \/ MarkFails(w, j))]_vars

Interrupted == \E w \in Dispatchers : ~Up(w) \/ dispatchers[w].cancelled \/ dispatchers[w].stopping

(* A job that is due or running is dealt with: unless a dispatcher is interrupted,
   it gets its verdict or waits for its next attempt. *)
JobsAreDealtWith ==
  \A j \in JobIds :
    (j \in DOMAIN jobs) ~>
      \/ Interrupted
      \/ /\ j \in DOMAIN jobs
         /\ \/ jobs[j].status \in {"succeeded", "dead"}
            \/ jobs[j].status = "queued" /\ jobs[j].due > now

(* Stop waits for the loop, and the loop ends: shutdown does not hang on a batch. *)
StopReturns == \A w \in Dispatchers : dispatchers[w].stopping ~> ~Up(w)

(* The comment in RunOnce (dispatcher.go:174-175): a dispatcher that is stopping
   puts a job back "so that a later run picks it up instead of losing it". *)
StoppingLosesNoJob ==
  [][\A j \in DOMAIN jobs :
       Orphaned(j) => \E w \in Dispatchers : j \in dispatchers[w].held /\ Crash(w)]_vars
=============================================================================
