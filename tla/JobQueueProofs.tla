--------------------------- MODULE JobQueueProofs ---------------------------
(***************************************************************************)
(* Theorems about JobQueue, for every set of dispatchers and kinds, every  *)
(* batch size and backoff, and every bound.                                *)
(***************************************************************************)
EXTENDS JobQueue, TableProofs, FiniteSetTheorems

-----------------------------------------------------------------------------
(* Operators *)

(* A delay is a number, whatever was doubled. *)
LEMMA BackoffTyped == ASSUME NEW attempt PROVE Backoff(attempt) \in Nat
<1>1. MaxBackoff \in Nat
  BY QueueBounds
<1> QED BY <1>1 DEF Backoff

(* The default number of attempts is a number too, and never zero. *)
LEMMA NewJobTyped ==
  ASSUME NEW kind \in Kinds, NEW maxAttempts \in AttemptLimits, NEW due \in Nat
  PROVE  [kind |-> kind, status |-> "queued", attempts |-> 0, due |-> due,
          maxAttempts |-> IF maxAttempts = 0 THEN DefaultAttempts ELSE maxAttempts] \in Job
BY LimitsTyped DEF Job, JobStatus, DefaultAttempts

(* A claimed row stays typed, and only its status and attempts change. *)
LEMMA ClaimedJobTyped ==
  ASSUME NEW job \in Job
  PROVE  LET claimed == [job EXCEPT !.status = "running", !.attempts = @ + 1]
         IN  /\ claimed \in Job
             /\ claimed.due = job.due
             /\ claimed.kind = job.kind
             /\ claimed.maxAttempts = job.maxAttempts
             /\ claimed.status = "running"
             /\ claimed.attempts = job.attempts + 1
<1>1. job.attempts \in Nat
  BY DEF Job
<1>2. "running" \in JobStatus /\ job.attempts + 1 \in Nat
  BY <1>1 DEF JobStatus
<1> QED BY <1>2 DEF Job

(* A claim leaves every row that is not claimed, and of a claimed one all but its
   status and its attempts. *)
LEMMA ClaimChanges ==
  ASSUME NEW S, IsTable(jobs, JobIds, Job), Claim(S)
  PROVE  /\ IsTable(jobs', JobIds, Job)
         /\ DOMAIN jobs' = DOMAIN jobs
         /\ \A j \in DOMAIN jobs :
              /\ jobs'[j].due = jobs[j].due
              /\ jobs'[j].kind = jobs[j].kind
              /\ jobs'[j].maxAttempts = jobs[j].maxAttempts
              /\ j \in S => jobs'[j].status = "running" /\ jobs'[j].attempts = jobs[j].attempts + 1
              /\ j \notin S => jobs'[j] = jobs[j]
<1>1. \A j \in DOMAIN jobs : jobs[j] \in Job
  BY DEF IsTable
<1> QED BY <1>1, ClaimedJobTyped DEF IsTable, Claim

(* A mark leaves every other row, and of its own all but status and due time. *)
LEMMA MarkChanges ==
  ASSUME NEW j \in DOMAIN jobs, NEW status \in JobStatus, NEW due \in Nat,
         IsTable(jobs, JobIds, Job), Mark(j, status, due)
  PROVE  /\ IsTable(jobs', JobIds, Job)
         /\ DOMAIN jobs' = DOMAIN jobs
         /\ \A i \in DOMAIN jobs \ {j} : jobs'[i] = jobs[i]
         /\ jobs[j].status = "running"
         /\ jobs'[j].status = status
         /\ jobs'[j].attempts = jobs[j].attempts
         /\ jobs'[j].maxAttempts = jobs[j].maxAttempts
<1>1. jobs[j] \in Job
  BY DEF IsTable
<1>2. jobs' = [jobs EXCEPT ![j] = [jobs[j] EXCEPT !.status = status, !.due = due]]
  BY DEF Mark, IsTable
<1>3. /\ [jobs[j] EXCEPT !.status = status, !.due = due] \in Job
      /\ [jobs[j] EXCEPT !.status = status, !.due = due].status = status
      /\ [jobs[j] EXCEPT !.status = status, !.due = due].attempts = jobs[j].attempts
      /\ [jobs[j] EXCEPT !.status = status, !.due = due].maxAttempts = jobs[j].maxAttempts
  BY <1>1 DEF Job
<1>4. jobs[j].status = "running"
  BY DEF Mark
<1> HIDE DEF Mark
<1> QED BY <1>2, <1>3, <1>4, UpdateTyped, UpdateKeepsRows

(* The loop is at one job only: due times and ids order the held jobs. *)
LEMMA AtOneJob ==
  ASSUME IsTable(jobs, JobIds, Job), NEW w \in Dispatchers, NEW i, NEW j,
         dispatchers[w].held \subseteq DOMAIN jobs, AtJob(w, i), AtJob(w, j)
  PROVE  i = j
<1>1. i \in DOMAIN jobs /\ j \in DOMAIN jobs
  BY DEF AtJob
<1>2. jobs[i].due \in Nat /\ jobs[j].due \in Nat /\ i \in Nat /\ j \in Nat
  BY <1>1 DEF IsTable, Job, JobIds
<1>3. i # j => Before(i, j) /\ Before(j, i)
  BY DEF AtJob
<1> QED BY <1>2, <1>3 DEF Before

(* Where the loop is depends on the held jobs and their due times only. *)
LEMMA AtJobStays ==
  ASSUME NEW w \in Dispatchers, NEW j, dispatchers'[w].held = dispatchers[w].held,
         \A i \in dispatchers[w].held : jobs'[i].due = jobs[i].due
  PROVE  AtJob(w, j)' <=> AtJob(w, j)
BY DEF AtJob, Before

-----------------------------------------------------------------------------
(* Who holds which job *)

(* A dispatcher holds jobs only inside RunOnce, and marks with a verdict. *)
PhasesMatch ==
  \A w \in Dispatchers :
    /\ dispatchers[w].phase \notin {"loop", "handling", "marking"} => dispatchers[w].held = {}
    /\ dispatchers[w].phase = "marking" => dispatchers[w].verdict # "none"

HolderInv == QueueTypeOK /\ OneHolderPerJob /\ PhasesMatch

(* A set of jobs is finite, and a part of it is not larger. *)
LEMMA HeldIsFinite ==
  ASSUME NEW S \in SUBSET JobIds, NEW T \in SUBSET S
  PROVE  Cardinality(S) \in Nat /\ Cardinality(T) \in Nat /\ Cardinality(T) <= Cardinality(S)
<1>1. IsFiniteSet(JobIds)
  BY FS_Interval, QueueBounds DEF JobIds
<1>2. IsFiniteSet(S)
  BY <1>1, FS_Subset
<1> QED BY <1>2, FS_Subset, FS_CardinalityType

(* Dispatcher w changes to `it` and holds no more than before; the rows do not
   change: the invariant stays, if the new state respects the phases. *)
LEMMA DispatcherSteps ==
  ASSUME HolderInv, NEW w \in Dispatchers, NEW it \in Dispatcher,
         dispatchers' = [dispatchers EXCEPT ![w] = it],
         it.held \subseteq dispatchers[w].held,
         it.phase \notin {"loop", "handling", "marking"} => it.held = {},
         it.phase = "marking" => it.verdict # "none",
         UNCHANGED jobs, runs' \in [JobIds -> Nat], restarts' \in 0..MaxRestarts, UNCHANGED now
  PROVE  HolderInv'
<1> USE DEF HolderInv, QueueTypeOK
<1>1. /\ dispatchers' \in [Dispatchers -> Dispatcher]
      /\ dispatchers'[w] = it
      /\ \A other \in Dispatchers \ {w} : dispatchers'[other] = dispatchers[other]
  OBVIOUS
<1>2. Cardinality(it.held) <= BatchSize
  <2>1. dispatchers[w].held \in SUBSET JobIds
    BY DEF Dispatcher
  <2>2. Cardinality(it.held) \in Nat /\ Cardinality(dispatchers[w].held) \in Nat
        /\ Cardinality(it.held) <= Cardinality(dispatchers[w].held)
    BY <2>1, HeldIsFinite
  <2> QED BY <2>2, QueueBounds
<1>3. QueueTypeOK'
  BY <1>1, <1>2
<1>4. OneHolderPerJob'
  BY <1>1 DEF OneHolderPerJob
<1>5. PhasesMatch'
  BY <1>1 DEF PhasesMatch
<1> QED BY <1>3, <1>4, <1>5

(* Dispatcher w leaves job j, whose row gets a verdict: the invariant stays. *)
LEMMA DispatcherMarks ==
  ASSUME HolderInv, NEW w \in Dispatchers, NEW j \in JobIds,
         NEW status \in {"succeeded", "dead", "queued"}, NEW due \in Nat,
         dispatchers[w].phase \in {"loop", "marking"},
         AtJob(w, j), Mark(j, status, due), LeaveJob(w, j), UNCHANGED <<runs, restarts, now>>
  PROVE  HolderInv'
<1> USE DEF HolderInv, QueueTypeOK
<1> DEFINE it == [dispatchers[w] EXCEPT !.phase = "loop", !.held = @ \ {j}, !.verdict = "none"]
<1>1. dispatchers[w] \in Dispatcher /\ dispatchers[w].held \in SUBSET JobIds
  BY DEF Dispatcher
<1>2. /\ it \in Dispatcher
      /\ it.held = dispatchers[w].held \ {j} /\ it.phase = "loop" /\ it.verdict = "none"
  BY <1>1 DEF Dispatcher
<1>3. dispatchers' = [dispatchers EXCEPT ![w] = it]
  BY DEF LeaveJob
<1> HIDE DEF it
<1>4. /\ dispatchers' \in [Dispatchers -> Dispatcher]
      /\ dispatchers'[w] = it
      /\ \A other \in Dispatchers \ {w} : dispatchers'[other] = dispatchers[other]
  BY <1>2, <1>3
<1>5. j \in dispatchers[w].held /\ j \in DOMAIN jobs
  BY DEF AtJob, OneHolderPerJob
<1>6. IsTable(jobs', JobIds, Job) /\ DOMAIN jobs' = DOMAIN jobs
      /\ \A i \in DOMAIN jobs \ {j} : jobs'[i] = jobs[i]
  BY <1>5, MarkChanges DEF JobStatus
<1>7. Cardinality(it.held) <= BatchSize
  <2>1. Cardinality(it.held) \in Nat /\ Cardinality(dispatchers[w].held) \in Nat
        /\ Cardinality(it.held) <= Cardinality(dispatchers[w].held)
    BY <1>1, <1>2, HeldIsFinite
  <2> QED BY <2>1, QueueBounds
<1>8. QueueTypeOK'
  BY <1>4, <1>6, <1>7
<1>9. OneHolderPerJob'
  BY <1>2, <1>4, <1>5, <1>6 DEF OneHolderPerJob
<1>10. PhasesMatch'
  BY <1>2, <1>4 DEF PhasesMatch
<1> QED BY <1>8, <1>9, <1>10

(* A claim: the batch was queued, so nobody held any of it. *)
LEMMA ClaimKeepsHolders ==
  ASSUME HolderInv, NEW w \in Dispatchers, ClaimDue(w)
  PROVE  HolderInv'
<1> USE DEF HolderInv, QueueTypeOK
<1>1. PICK S \in Batches :
        Claim(S) /\ dispatchers' = [dispatchers EXCEPT ![w].phase = "loop", ![w].held = S]
  BY DEF ClaimDue
<1> DEFINE it == [dispatchers[w] EXCEPT !.phase = "loop", !.held = S]
<1>2. S \in SUBSET DueJobs /\ Cardinality(S) <= BatchSize
  BY DEF Batches
<1>3. S \in SUBSET JobIds /\ S \subseteq DOMAIN jobs /\ \A j \in S : jobs[j].status = "queued"
  BY <1>2 DEF DueJobs, IsTable
<1>4. it \in Dispatcher /\ it.held = S /\ it.phase = "loop"
  BY <1>3 DEF Dispatcher
<1>5. dispatchers' = [dispatchers EXCEPT ![w] = it]
  BY <1>1
<1> HIDE DEF it
<1>6. /\ dispatchers' \in [Dispatchers -> Dispatcher]
      /\ dispatchers'[w] = it
      /\ \A other \in Dispatchers \ {w} : dispatchers'[other] = dispatchers[other]
  BY <1>4, <1>5
<1>7. /\ IsTable(jobs', JobIds, Job) /\ DOMAIN jobs' = DOMAIN jobs
      /\ \A j \in S : jobs'[j].status = "running"
      /\ \A j \in DOMAIN jobs \ S : jobs'[j] = jobs[j]
  BY <1>1, <1>3, ClaimChanges
<1>8. QueueTypeOK'
  BY <1>2, <1>4, <1>6, <1>7 DEF ClaimDue
<1>9. OneHolderPerJob'
  BY <1>3, <1>4, <1>6, <1>7 DEF OneHolderPerJob
<1>10. PhasesMatch'
  BY <1>4, <1>6 DEF PhasesMatch
<1> QED BY <1>8, <1>9, <1>10

(* Every step keeps rows and dispatchers typed, and one holder of each job. *)
LEMMA HolderNext == HolderInv /\ [Next]_vars => HolderInv'
<1> SUFFICES ASSUME HolderInv, [Next]_vars PROVE HolderInv'
  OBVIOUS
<1>a. /\ dispatchers \in [Dispatchers -> Dispatcher] /\ runs \in [JobIds -> Nat]
      /\ restarts \in 0..MaxRestarts /\ now \in Nat
      /\ IsTable(jobs, JobIds, Job)
      /\ \A w \in Dispatchers : Cardinality(dispatchers[w].held) <= BatchSize
  BY DEF HolderInv, QueueTypeOK
<1>b. \A w \in Dispatchers : dispatchers[w] \in Dispatcher
  BY <1>a
<1>1. ASSUME NEW kind \in Kinds, NEW maxAttempts \in AttemptLimits, NEW due \in 0..MaxTime,
             Enqueue(kind, maxAttempts, due)
      PROVE  HolderInv'
  <2>1. PICK j \in FreshId(jobs, JobIds) :
          jobs' = Insert(jobs, j,
            [kind |-> kind, status |-> "queued", attempts |-> 0, due |-> due,
             maxAttempts |-> IF maxAttempts = 0 THEN DefaultAttempts ELSE maxAttempts])
    BY <1>1 DEF Enqueue
  <2>2. due \in Nat
    BY QueueBounds
  <2>3. IsTable(jobs', JobIds, Job) /\ \A i \in DOMAIN jobs : i \in DOMAIN jobs' /\ jobs'[i] = jobs[i]
    BY <1>a, <2>1, <2>2, NewJobTyped, InsertTyped, FreshIdIsFree, InsertKeepsRows
  <2> QED BY <1>1, <2>3 DEF Enqueue, HolderInv, QueueTypeOK, OneHolderPerJob, PhasesMatch
<1>2. ASSUME NEW w \in Dispatchers, ClaimDue(w) PROVE HolderInv'
  BY <1>2, ClaimKeepsHolders
<1>3. ASSUME NEW w \in Dispatchers, NEW j \in JobIds, ReleaseJob(w, j) PROVE HolderInv'
  BY <1>a, <1>3, DispatcherMarks DEF ReleaseJob
<1>4. ASSUME NEW w \in Dispatchers, NEW j \in JobIds, StartJob(w, j) PROVE HolderInv'
  <2>1. CASE jobs[j].kind \in Registered
    <3> DEFINE it == [dispatchers[w] EXCEPT !.phase = "handling"]
    <3>1. it \in Dispatcher /\ it.held = dispatchers[w].held /\ it.phase = "handling"
      BY <1>b DEF Dispatcher
    <3>2. dispatchers' = [dispatchers EXCEPT ![w] = it] /\ runs' \in [JobIds -> Nat]
      BY <1>a, <1>4, <2>1 DEF StartJob
    <3> HIDE DEF it
    <3> QED BY <1>a, <1>4, <3>1, <3>2, DispatcherSteps DEF StartJob
  <2>2. CASE jobs[j].kind \notin Registered
    <3> DEFINE it == [dispatchers[w] EXCEPT !.phase = "marking", !.verdict = "dead"]
    <3>1. /\ it \in Dispatcher /\ it.held = dispatchers[w].held
          /\ it.phase = "marking" /\ it.verdict = "dead"
      BY <1>b DEF Dispatcher
    <3>2. dispatchers' = [dispatchers EXCEPT ![w] = it] /\ runs' \in [JobIds -> Nat]
      BY <1>a, <1>4, <2>2 DEF StartJob
    <3> HIDE DEF it
    <3> QED BY <1>a, <1>4, <3>1, <3>2, DispatcherSteps DEF StartJob
  <2> QED BY <2>1, <2>2
<1>5. ASSUME NEW w \in Dispatchers, NEW j \in JobIds, NEW result \in {"ok", "error", "permanent"},
             HandlerReturns(w, j, result)
      PROVE  HolderInv'
  <2> DEFINE verdict == CASE result = "ok" -> "succeeded"
                          [] result = "permanent" \/ (result = "error" /\ Exhausted(j)) -> "dead"
                          [] OTHER -> "queued"
             it == [dispatchers[w] EXCEPT !.phase = "marking", !.verdict = verdict]
  <2>1. verdict \in {"succeeded", "dead", "queued"}
    OBVIOUS
  <2>2. dispatchers' = [dispatchers EXCEPT ![w] = it]
    BY <1>5 DEF HandlerReturns
  <2> HIDE DEF verdict
  <2>3. /\ it \in Dispatcher /\ it.held = dispatchers[w].held
        /\ it.phase = "marking" /\ it.verdict = verdict
    BY <1>b, <2>1 DEF Dispatcher
  <2> HIDE DEF it
  <2> QED BY <1>a, <1>5, <2>1, <2>2, <2>3, DispatcherSteps DEF HandlerReturns
<1>6. ASSUME NEW w \in Dispatchers, NEW j \in JobIds, MarkJob(w, j) PROVE HolderInv'
  <2> DEFINE due == IF dispatchers[w].verdict = "queued" THEN now + Backoff(jobs[j].attempts)
                                                         ELSE jobs[j].due
  <2>1. dispatchers[w].verdict \in {"succeeded", "dead", "queued"}
    BY <1>b, <1>6 DEF MarkJob, HolderInv, PhasesMatch, Dispatcher
  <2>2. j \in DOMAIN jobs
    BY <1>6 DEF MarkJob, AtJob, HolderInv, OneHolderPerJob
  <2>3. jobs[j].due \in Nat
    BY <1>a, <2>2 DEF IsTable, Job
  <2>4. due \in Nat
    BY <1>a, <2>3, BackoffTyped
  <2>5. Mark(j, dispatchers[w].verdict, due)
    BY <1>6 DEF MarkJob
  <2> HIDE DEF due
  <2> QED BY <1>6, <2>1, <2>4, <2>5, DispatcherMarks DEF MarkJob
<1>7. ASSUME NEW w \in Dispatchers, NEW j \in JobIds, MarkFails(w, j) PROVE HolderInv'
  <2> DEFINE it == [dispatchers[w] EXCEPT !.phase = "loop", !.held = @ \ {j}, !.verdict = "none"]
  <2>1. it \in Dispatcher /\ it.held = dispatchers[w].held \ {j} /\ it.phase = "loop"
    BY <1>b DEF Dispatcher
  <2>2. dispatchers' = [dispatchers EXCEPT ![w] = it]
    BY <1>7 DEF MarkFails, LeaveJob
  <2> HIDE DEF it
  <2>3. UNCHANGED <<jobs, runs, restarts, now>>
    BY <1>7 DEF MarkFails
  <2>4. it.held \subseteq dispatchers[w].held /\ runs' \in [JobIds -> Nat]
        /\ restarts' \in 0..MaxRestarts
    BY <1>a, <2>1, <2>3
  <2> QED BY <2>1, <2>2, <2>3, <2>4, DispatcherSteps
<1>8. ASSUME NEW w \in Dispatchers, EndRun(w) PROVE HolderInv'
  <2> DEFINE it == [dispatchers[w] EXCEPT !.phase = "idle"]
  <2>1. it \in Dispatcher /\ it.held = dispatchers[w].held /\ it.phase = "idle"
    BY <1>b DEF Dispatcher
  <2>2. dispatchers' = [dispatchers EXCEPT ![w] = it]
    BY <1>8 DEF EndRun
  <2> HIDE DEF it
  <2>3. UNCHANGED <<jobs, runs, restarts, now>>
    BY <1>8 DEF EndRun
  <2>4. it.held = {} /\ runs' \in [JobIds -> Nat] /\ restarts' \in 0..MaxRestarts
    BY <1>8, <1>a, <2>1, <2>3 DEF EndRun
  <2> QED BY <2>1, <2>2, <2>3, <2>4, DispatcherSteps
<1>9. ASSUME NEW w \in Dispatchers, LoopExits(w) PROVE HolderInv'
  <2> DEFINE it == [dispatchers[w] EXCEPT !.phase = "stopped"]
  <2>1. it \in Dispatcher /\ it.held = dispatchers[w].held /\ it.phase = "stopped"
    BY <1>b DEF Dispatcher
  <2>2. dispatchers' = [dispatchers EXCEPT ![w] = it]
    BY <1>9 DEF LoopExits
  <2>3. dispatchers[w].held = {}
    BY <1>9 DEF LoopExits, HolderInv, PhasesMatch
  <2> HIDE DEF it
  <2>4. UNCHANGED <<jobs, runs, restarts, now>>
    BY <1>9 DEF LoopExits
  <2>5. it.held = {} /\ runs' \in [JobIds -> Nat] /\ restarts' \in 0..MaxRestarts
    BY <1>a, <2>1, <2>3, <2>4
  <2> QED BY <2>1, <2>2, <2>4, <2>5, DispatcherSteps
<1>10. ASSUME NEW w \in Dispatchers, Cancel(w) \/ Stop(w) PROVE HolderInv'
  <2>1. PICK it \in Dispatcher :
          /\ dispatchers' = [dispatchers EXCEPT ![w] = it]
          /\ it.held = dispatchers[w].held
          /\ it.phase = dispatchers[w].phase
          /\ it.verdict = dispatchers[w].verdict
    <3> DEFINE cancelled == [dispatchers[w] EXCEPT !.cancelled = TRUE]
               stopping == [dispatchers[w] EXCEPT !.stopping = TRUE]
    <3>1. /\ cancelled \in Dispatcher /\ cancelled.held = dispatchers[w].held
          /\ cancelled.phase = dispatchers[w].phase /\ cancelled.verdict = dispatchers[w].verdict
      BY <1>b DEF Dispatcher
    <3>2. /\ stopping \in Dispatcher /\ stopping.held = dispatchers[w].held
          /\ stopping.phase = dispatchers[w].phase /\ stopping.verdict = dispatchers[w].verdict
      BY <1>b DEF Dispatcher
    <3>3. \/ dispatchers' = [dispatchers EXCEPT ![w] = cancelled]
          \/ dispatchers' = [dispatchers EXCEPT ![w] = stopping]
      BY <1>10 DEF Cancel, Stop
    <3> HIDE DEF cancelled, stopping
    <3> QED BY <3>1, <3>2, <3>3
  <2>2. /\ it.phase \notin {"loop", "handling", "marking"} => it.held = {}
        /\ it.phase = "marking" => it.verdict # "none"
    BY <2>1 DEF HolderInv, PhasesMatch
  <2> QED BY <1>a, <1>10, <2>1, <2>2, DispatcherSteps DEF Cancel, Stop
<1>11. ASSUME NEW w \in Dispatchers, Crash(w) PROVE HolderInv'
  <2> DEFINE it == [Started EXCEPT !.phase = "crashed"]
  <2>1. it \in Dispatcher /\ it.held = {} /\ it.phase = "crashed"
    BY DEF Dispatcher, Started
  <2>2. dispatchers' = [dispatchers EXCEPT ![w] = it]
    BY <1>11 DEF Crash
  <2> HIDE DEF it
  <2> QED BY <1>a, <1>11, <2>1, <2>2, DispatcherSteps DEF Crash
<1>12. ASSUME NEW w \in Dispatchers, Restart(w) PROVE HolderInv'
  <2>1. Started \in Dispatcher /\ Started.held = {} /\ Started.phase = "idle"
    BY DEF Dispatcher, Started
  <2>2. restarts' \in 0..MaxRestarts
    BY <1>a, <1>12, QueueBounds DEF Restart
  <2> QED BY <1>a, <1>12, <2>1, <2>2, DispatcherSteps DEF Restart
<1>13. CASE Tick
  BY <1>13 DEF Tick, HolderInv, QueueTypeOK, OneHolderPerJob, PhasesMatch
<1>14. CASE UNCHANGED vars
  BY <1>14 DEF vars, HolderInv, QueueTypeOK, OneHolderPerJob, PhasesMatch
<1> QED BY <1>1, <1>2, <1>3, <1>4, <1>5, <1>6, <1>7, <1>8, <1>9, <1>10, <1>11, <1>12, <1>13,
           <1>14 DEF Next, RunOnce

LEMMA HolderInit == Init => HolderInv
<1> SUFFICES ASSUME Init PROVE HolderInv
  OBVIOUS
<1>1. Started \in Dispatcher /\ Started.held = {} /\ Started.phase = "idle"
  BY DEF Started, Dispatcher
<1>2. \A w \in Dispatchers : dispatchers[w] = Started
  BY DEF Init
<1>3. Cardinality({}) <= BatchSize
  BY FS_EmptySet, QueueBounds
<1>4. IsTable(jobs, JobIds, Job)
  BY EmptyTableTyped DEF Init
<1> QED BY <1>1, <1>2, <1>3, <1>4, QueueBounds
        DEF Init, HolderInv, QueueTypeOK, OneHolderPerJob, PhasesMatch

(* Rows and dispatchers are well formed, and no claim exceeds the batch size. *)
THEOREM QueueTypeCorrect == Spec => []QueueTypeOK
<1>1. HolderInv => QueueTypeOK
  BY DEF HolderInv
<1> QED BY <1>1, HolderInit, HolderNext, PTL DEF Spec

(* No two dispatchers work on one job, and a job one works on is running in the
   table: ClaimDue takes queued rows and marks them in the same transaction. *)
THEOREM JobsHaveOneHolder == Spec => []OneHolderPerJob
<1>1. HolderInv => OneHolderPerJob
  BY DEF HolderInv
<1> QED BY <1>1, HolderInit, HolderNext, PTL DEF Spec

-----------------------------------------------------------------------------
(* How often a job runs *)

(* A row that waits has an attempt left. *)
RunsCounted ==
  /\ \A j \in JobIds \ DOMAIN jobs : runs[j] = 0
  /\ \A j \in DOMAIN jobs :
       /\ runs[j] <= jobs[j].attempts
       /\ runs[j] <= jobs[j].maxAttempts
       /\ jobs[j].status = "queued" => runs[j] < jobs[j].maxAttempts

(* A claim counts its attempt before the handler is called, and a verdict puts back
   only a job that has an attempt left. *)
AttemptsLeft(w) ==
  \A j \in dispatchers[w].held :
    /\ dispatchers[w].phase = "loop" \/ ~AtJob(w, j) =>
         runs[j] < jobs[j].attempts /\ runs[j] < jobs[j].maxAttempts
    /\ dispatchers[w].phase = "marking" /\ dispatchers[w].verdict = "queued" =>
         runs[j] < jobs[j].maxAttempts

RunsInv == RunsCounted /\ \A w \in Dispatchers : AttemptsLeft(w)

(* What a dispatcher has left depends on itself and on the jobs it holds. *)
LEMMA AttemptsLeftStays ==
  ASSUME NEW w \in Dispatchers, AttemptsLeft(w), dispatchers'[w] = dispatchers[w],
         \A j \in dispatchers[w].held : jobs'[j] = jobs[j] /\ runs'[j] = runs[j]
  PROVE  AttemptsLeft(w)'
<1>1. \A j : AtJob(w, j)' <=> AtJob(w, j)
  BY AtJobStays
<1> QED BY <1>1 DEF AttemptsLeft

(* Dispatcher w leaves the job it was at: the jobs it still holds were not started. *)
LEMMA AttemptsLeftWhenLeaving ==
  ASSUME HolderInv, RunsInv, NEW w \in Dispatchers, NEW j, AtJob(w, j), LeaveJob(w, j),
         \A i \in DOMAIN jobs \ {j} : jobs'[i] = jobs[i], UNCHANGED runs
  PROVE  \A v \in Dispatchers : AttemptsLeft(v)'
<1>a. /\ dispatchers \in [Dispatchers -> Dispatcher]
      /\ IsTable(jobs, JobIds, Job)
      /\ \A v \in Dispatchers : dispatchers[v].held \subseteq DOMAIN jobs
      /\ j \in dispatchers[w].held
  BY DEF HolderInv, QueueTypeOK, OneHolderPerJob, AtJob
<1>1. /\ dispatchers'[w].held = dispatchers[w].held \ {j}
      /\ dispatchers'[w].phase = "loop"
      /\ \A v \in Dispatchers \ {w} : dispatchers'[v] = dispatchers[v]
  BY <1>a DEF LeaveJob, Dispatcher
<1>2. ASSUME NEW v \in Dispatchers, v # w PROVE AttemptsLeft(v)'
  <2>1. j \notin dispatchers[v].held
    BY <1>2, <1>a DEF HolderInv, OneHolderPerJob
  <2> QED BY <2>1, <1>2, <1>a, <1>1, AttemptsLeftStays DEF RunsInv
<1>3. AttemptsLeft(w)'
  <2>1. ASSUME NEW i \in dispatchers[w].held, i # j
        PROVE  runs[i] < jobs[i].attempts /\ runs[i] < jobs[i].maxAttempts
    <3>1. ~AtJob(w, i)
      BY <2>1, <1>a, AtOneJob
    <3> QED BY <3>1 DEF RunsInv, AttemptsLeft
  <2> QED BY <2>1, <1>1, <1>a DEF AttemptsLeft
<1> QED BY <1>2, <1>3

(* A step of dispatcher w that writes no row and calls no handler, and after which
   it is outside the loop with no job, or holds the same jobs as before in the same
   phase, keeps the counts. *)
LEMMA QuietStep ==
  ASSUME HolderInv, RunsInv, NEW w \in Dispatchers, NEW it \in Dispatcher,
         dispatchers' = [dispatchers EXCEPT ![w] = it],
         \/ it.held = {}
         \/ /\ it.held = dispatchers[w].held
            /\ it.phase = dispatchers[w].phase /\ it.verdict = dispatchers[w].verdict,
         UNCHANGED <<jobs, runs>>
  PROVE  RunsInv'
<1>1. /\ dispatchers'[w] = it
      /\ \A v \in Dispatchers \ {w} : dispatchers'[v] = dispatchers[v]
  BY DEF HolderInv, QueueTypeOK
<1>2. \A v \in Dispatchers \ {w} : AttemptsLeft(v)'
  BY <1>1, AttemptsLeftStays DEF RunsInv
<1>3. AttemptsLeft(w)'
  <2>1. CASE it.held = {}
    BY <2>1, <1>1 DEF AttemptsLeft
  <2>2. CASE /\ it.held = dispatchers[w].held
             /\ it.phase = dispatchers[w].phase /\ it.verdict = dispatchers[w].verdict
    <3>1. \A j : AtJob(w, j)' <=> AtJob(w, j)
      BY <2>2, <1>1, AtJobStays
    <3> QED BY <2>2, <3>1, <1>1 DEF RunsInv, AttemptsLeft
  <2> QED BY <2>1, <2>2
<1> QED BY <1>2, <1>3 DEF RunsInv, RunsCounted

(* Every step keeps the counts. *)
LEMMA RunsNext == HolderInv /\ RunsInv /\ [Next]_vars => RunsInv'
<1> SUFFICES ASSUME HolderInv, RunsInv, [Next]_vars PROVE RunsInv'
  OBVIOUS
<1>a. /\ dispatchers \in [Dispatchers -> Dispatcher] /\ runs \in [JobIds -> Nat]
      /\ IsTable(jobs, JobIds, Job) /\ now \in Nat
      /\ \A w \in Dispatchers : dispatchers[w].held \subseteq DOMAIN jobs
  BY DEF HolderInv, QueueTypeOK, OneHolderPerJob
<1>b. /\ \A w \in Dispatchers : dispatchers[w] \in Dispatcher
      /\ \A j \in JobIds : runs[j] \in Nat
      /\ \A j \in DOMAIN jobs : j \in JobIds /\ jobs[j] \in Job
  BY <1>a DEF IsTable
<1>c. \A j \in DOMAIN jobs : jobs[j].attempts \in Nat /\ jobs[j].maxAttempts \in Nat \ {0}
  BY <1>b DEF Job
<1>1. ASSUME NEW kind \in Kinds, NEW maxAttempts \in AttemptLimits, NEW due \in 0..MaxTime,
             Enqueue(kind, maxAttempts, due)
      PROVE  RunsInv'
  <2> DEFINE row == [kind |-> kind, status |-> "queued", attempts |-> 0, due |-> due,
                     maxAttempts |-> IF maxAttempts = 0 THEN DefaultAttempts ELSE maxAttempts]
  <2>1. row.attempts = 0 /\ row.maxAttempts \in Nat \ {0}
    BY LimitsTyped DEF DefaultAttempts
  <2>2. PICK j \in FreshId(jobs, JobIds) : jobs' = Insert(jobs, j, row)
    BY <1>1 DEF Enqueue
  <2> HIDE DEF row
  <2>3. /\ DOMAIN jobs' = DOMAIN jobs \cup {j} /\ jobs'[j] = row
        /\ j \in JobIds /\ j \notin DOMAIN jobs
        /\ \A i \in DOMAIN jobs : jobs'[i] = jobs[i]
    <3>1. j \in JobIds /\ j \notin DOMAIN jobs
      BY FreshIdIsFree
    <3>2. /\ DOMAIN jobs' = DOMAIN jobs \cup {j} /\ jobs'[j] = row
          /\ \A i \in DOMAIN jobs \ {j} : jobs'[i] = jobs[i]
      BY <2>2 DEF Insert
    <3> QED BY <3>1, <3>2
  <2>4. UNCHANGED <<dispatchers, runs>>
    BY <1>1 DEF Enqueue
  <2>5. RunsCounted'
    BY <1>b, <2>1, <2>3, <2>4 DEF RunsInv, RunsCounted
  <2>6. \A w \in Dispatchers : AttemptsLeft(w)'
    BY <1>a, <2>3, <2>4, AttemptsLeftStays DEF RunsInv
  <2> QED BY <2>5, <2>6 DEF RunsInv
<1>2. ASSUME NEW w \in Dispatchers, ClaimDue(w) PROVE RunsInv'
  <2>1. PICK S \in Batches :
          Claim(S) /\ dispatchers' = [dispatchers EXCEPT ![w].phase = "loop", ![w].held = S]
    BY <1>2 DEF ClaimDue
  <2>2. S \subseteq DOMAIN jobs /\ \A j \in S : jobs[j].status = "queued"
    BY <2>1 DEF Batches, DueJobs
  <2>3. /\ DOMAIN jobs' = DOMAIN jobs
        /\ \A j \in DOMAIN jobs :
             /\ jobs'[j].maxAttempts = jobs[j].maxAttempts
             /\ j \in S => /\ jobs'[j].status = "running"
                           /\ jobs'[j].attempts = jobs[j].attempts + 1
             /\ j \notin S => jobs'[j] = jobs[j]
    BY <1>a, <2>1, ClaimChanges
  <2>4. /\ dispatchers'[w].held = S
        /\ \A v \in Dispatchers \ {w} : dispatchers'[v] = dispatchers[v]
    BY <1>a, <2>1 DEF Dispatcher
  <2>5. dispatchers'[w].phase = "loop"
    BY <1>a, <2>1 DEF Dispatcher
  <2>6. UNCHANGED runs
    BY <1>2 DEF ClaimDue
  <2>7. RunsCounted'
    BY <1>b, <1>c, <2>3, <2>6 DEF RunsInv, RunsCounted
  <2>8. \A j \in S : runs[j] < jobs'[j].attempts /\ runs[j] < jobs'[j].maxAttempts
    BY <1>b, <1>c, <2>2, <2>3 DEF RunsInv, RunsCounted
  <2>9. AttemptsLeft(w)'
    BY <2>4, <2>5, <2>6, <2>8 DEF AttemptsLeft
  <2>10. ASSUME NEW v \in Dispatchers, v # w PROVE AttemptsLeft(v)'
    <3>1. \A j \in dispatchers[v].held : j \in DOMAIN jobs /\ j \notin S
      BY <2>2 DEF HolderInv, OneHolderPerJob
    <3> QED BY <3>1, <2>3, <2>4, <2>6, <2>10, AttemptsLeftStays DEF RunsInv
  <2> QED BY <2>7, <2>9, <2>10 DEF RunsInv
<1>3. ASSUME NEW w \in Dispatchers, NEW j \in JobIds, ReleaseJob(w, j) PROVE RunsInv'
  <2>1. AtJob(w, j) /\ Mark(j, "queued", now) /\ LeaveJob(w, j) /\ UNCHANGED runs
        /\ dispatchers[w].phase = "loop"
    BY <1>3 DEF ReleaseJob
  <2>2. j \in dispatchers[w].held /\ j \in DOMAIN jobs
    BY <1>a, <2>1 DEF AtJob
  <2>3. /\ DOMAIN jobs' = DOMAIN jobs
        /\ \A i \in DOMAIN jobs \ {j} : jobs'[i] = jobs[i]
        /\ jobs'[j].attempts = jobs[j].attempts /\ jobs'[j].maxAttempts = jobs[j].maxAttempts
    BY <1>a, <2>1, <2>2, MarkChanges DEF JobStatus
  <2>4. runs[j] < jobs[j].maxAttempts
    BY <2>1, <2>2 DEF RunsInv, AttemptsLeft
  <2>5. RunsCounted'
    BY <2>1, <2>3, <2>4 DEF RunsInv, RunsCounted
  <2> QED BY <2>1, <2>3, <2>5, AttemptsLeftWhenLeaving DEF RunsInv
<1>4. ASSUME NEW w \in Dispatchers, NEW j \in JobIds, StartJob(w, j) PROVE RunsInv'
  <2>1. AtJob(w, j) /\ dispatchers[w].phase = "loop" /\ UNCHANGED jobs
    BY <1>4 DEF StartJob
  <2>2. j \in dispatchers[w].held /\ j \in DOMAIN jobs /\ jobs[j].status = "running"
    BY <2>1 DEF AtJob, HolderInv, OneHolderPerJob
  <2>3. runs[j] < jobs[j].attempts /\ runs[j] < jobs[j].maxAttempts
    BY <2>1, <2>2 DEF RunsInv, AttemptsLeft
  <2>4. /\ runs' \in [JobIds -> Nat] /\ \A i \in JobIds \ {j} : runs'[i] = runs[i]
        /\ runs'[j] \in {runs[j], runs[j] + 1}
    BY <1>a, <1>4 DEF StartJob
  <2>5. /\ dispatchers'[w].held = dispatchers[w].held
        /\ \/ dispatchers'[w].phase = "handling"
           \/ dispatchers'[w].phase = "marking" /\ dispatchers'[w].verdict = "dead"
        /\ \A v \in Dispatchers \ {w} : dispatchers'[v] = dispatchers[v]
    BY <1>a, <1>4 DEF StartJob, Dispatcher
  <2>6. RunsCounted'
    <3>1. \A i \in JobIds \ DOMAIN jobs : i # j
      BY <2>2
    <3>2. runs'[j] <= jobs[j].attempts /\ runs'[j] <= jobs[j].maxAttempts
      BY <1>b, <1>c, <2>2, <2>3, <2>4
    <3> QED BY <1>b, <2>1, <2>2, <2>4, <3>1, <3>2 DEF RunsInv, RunsCounted
  <2>7. AttemptsLeft(w)'
    <3>1. \A i : AtJob(w, i)' <=> AtJob(w, i)
      BY <2>1, <2>5, AtJobStays
    <3>2. \A i \in dispatchers[w].held : ~AtJob(w, i) => i # j /\ runs'[i] = runs[i]
      BY <1>a, <1>b, <2>1, <2>4
    <3>3. /\ dispatchers'[w].phase # "loop"
          /\ ~(dispatchers'[w].phase = "marking" /\ dispatchers'[w].verdict = "queued")
      BY <2>5
    <3> QED BY <2>1, <2>5, <3>1, <3>2, <3>3 DEF RunsInv, AttemptsLeft
  <2>8. ASSUME NEW v \in Dispatchers, v # w PROVE AttemptsLeft(v)'
    <3>1. \A i \in dispatchers[v].held : i \in JobIds /\ i # j
      BY <1>a, <1>b, <2>2, <2>8 DEF HolderInv, OneHolderPerJob
    <3> QED BY <2>1, <2>4, <2>5, <2>8, <3>1, AttemptsLeftStays DEF RunsInv
  <2> QED BY <2>6, <2>7, <2>8 DEF RunsInv
<1>5. ASSUME NEW w \in Dispatchers, NEW j \in JobIds, NEW result \in {"ok", "error", "permanent"},
             HandlerReturns(w, j, result)
      PROVE  RunsInv'
  <2>1. AtJob(w, j) /\ dispatchers[w].phase = "handling" /\ UNCHANGED <<jobs, runs>>
    BY <1>5 DEF HandlerReturns
  <2>2. j \in dispatchers[w].held /\ j \in DOMAIN jobs
    BY <1>a, <2>1 DEF AtJob
  <2>3. /\ dispatchers'[w].held = dispatchers[w].held
        /\ dispatchers'[w].phase = "marking"
        /\ \A v \in Dispatchers \ {w} : dispatchers'[v] = dispatchers[v]
    BY <1>a, <1>5 DEF HandlerReturns, Dispatcher
  <2>4. dispatchers'[w].verdict = "queued" => ~Exhausted(j)
    BY <1>a, <1>5 DEF HandlerReturns, Dispatcher
  <2>5. dispatchers'[w].verdict = "queued" => runs[j] < jobs[j].maxAttempts
    BY <1>b, <1>c, <2>2, <2>4 DEF Exhausted, RunsInv, RunsCounted
  <2>6. AttemptsLeft(w)'
    <3>1. \A i : AtJob(w, i)' <=> AtJob(w, i)
      BY <2>1, <2>3, AtJobStays
    <3>2. \A i \in dispatchers[w].held : ~AtJob(w, i) \/ i = j
      BY <1>a, <2>1, AtOneJob
    <3> QED BY <2>1, <2>3, <2>5, <3>1, <3>2 DEF RunsInv, AttemptsLeft
  <2>7. \A v \in Dispatchers \ {w} : AttemptsLeft(v)'
    BY <2>1, <2>3, AttemptsLeftStays DEF RunsInv
  <2> QED BY <2>1, <2>6, <2>7 DEF RunsInv, RunsCounted
<1>6. ASSUME NEW w \in Dispatchers, NEW j \in JobIds, MarkJob(w, j) PROVE RunsInv'
  <2> DEFINE due == IF dispatchers[w].verdict = "queued" THEN now + Backoff(jobs[j].attempts)
                                                         ELSE jobs[j].due
  <2>1. /\ AtJob(w, j) /\ LeaveJob(w, j) /\ UNCHANGED runs
        /\ dispatchers[w].phase = "marking"
        /\ Mark(j, dispatchers[w].verdict, due)
    BY <1>6 DEF MarkJob
  <2>2. j \in dispatchers[w].held /\ j \in DOMAIN jobs
    BY <1>a, <2>1 DEF AtJob
  <2>3. jobs[j].due \in Nat
    BY <1>b, <2>2 DEF Job
  <2>4. due \in Nat
    BY <1>a, <2>3, BackoffTyped
  <2> HIDE DEF due
  <2>5. dispatchers[w].verdict \in JobStatus
    BY <1>b, <2>1 DEF HolderInv, PhasesMatch, Dispatcher, JobStatus
  <2>6. /\ DOMAIN jobs' = DOMAIN jobs
        /\ \A i \in DOMAIN jobs \ {j} : jobs'[i] = jobs[i]
        /\ jobs'[j].status = dispatchers[w].verdict
        /\ jobs'[j].attempts = jobs[j].attempts /\ jobs'[j].maxAttempts = jobs[j].maxAttempts
    BY <1>a, <2>1, <2>2, <2>4, <2>5, MarkChanges
  <2>7. dispatchers[w].verdict = "queued" => runs[j] < jobs[j].maxAttempts
    BY <2>1, <2>2 DEF RunsInv, AttemptsLeft
  <2>8. RunsCounted'
    BY <2>1, <2>6, <2>7 DEF RunsInv, RunsCounted
  <2> QED BY <2>1, <2>6, <2>8, AttemptsLeftWhenLeaving DEF RunsInv
<1>7. ASSUME NEW w \in Dispatchers, NEW j \in JobIds, MarkFails(w, j) PROVE RunsInv'
  <2>1. AtJob(w, j) /\ LeaveJob(w, j) /\ UNCHANGED <<jobs, runs>>
    BY <1>7 DEF MarkFails
  <2>2. \A v \in Dispatchers : AttemptsLeft(v)'
    BY <2>1, AttemptsLeftWhenLeaving
  <2> QED BY <2>1, <2>2 DEF RunsInv, RunsCounted
<1>8. ASSUME NEW w \in Dispatchers, EndRun(w) \/ LoopExits(w) PROVE RunsInv'
  <2>1. dispatchers[w].held = {}
    BY <1>8 DEF EndRun, LoopExits, HolderInv, PhasesMatch
  <2> DEFINE it(phase) == [dispatchers[w] EXCEPT !.phase = phase]
  <2>2. \A phase \in {"idle", "stopped"} : it(phase) \in Dispatcher /\ it(phase).held = {}
    BY <1>b, <2>1 DEF Dispatcher
  <2>3. PICK phase \in {"idle", "stopped"} : dispatchers' = [dispatchers EXCEPT ![w] = it(phase)]
    BY <1>8 DEF EndRun, LoopExits
  <2>4. UNCHANGED <<jobs, runs>>
    BY <1>8 DEF EndRun, LoopExits
  <2> HIDE DEF it
  <2> QED BY <2>2, <2>3, <2>4, QuietStep
<1>9. ASSUME NEW w \in Dispatchers, Cancel(w) \/ Stop(w) PROVE RunsInv'
  <2> DEFINE cancelled == [dispatchers[w] EXCEPT !.cancelled = TRUE]
             stopping == [dispatchers[w] EXCEPT !.stopping = TRUE]
  <2>1. /\ cancelled \in Dispatcher /\ cancelled.held = dispatchers[w].held
        /\ cancelled.phase = dispatchers[w].phase /\ cancelled.verdict = dispatchers[w].verdict
    BY <1>b DEF Dispatcher
  <2>2. /\ stopping \in Dispatcher /\ stopping.held = dispatchers[w].held
        /\ stopping.phase = dispatchers[w].phase /\ stopping.verdict = dispatchers[w].verdict
    BY <1>b DEF Dispatcher
  <2>3. /\ \/ dispatchers' = [dispatchers EXCEPT ![w] = cancelled]
           \/ dispatchers' = [dispatchers EXCEPT ![w] = stopping]
        /\ UNCHANGED <<jobs, runs>>
    BY <1>9 DEF Cancel, Stop
  <2> HIDE DEF cancelled, stopping
  <2> QED BY <2>1, <2>2, <2>3, QuietStep
<1>10. ASSUME NEW w \in Dispatchers, Crash(w) \/ Restart(w) PROVE RunsInv'
  <2> DEFINE crashed == [Started EXCEPT !.phase = "crashed"]
  <2>1. /\ Started \in Dispatcher /\ Started.held = {}
        /\ crashed \in Dispatcher /\ crashed.held = {}
    BY DEF Started, Dispatcher
  <2>2. /\ \/ dispatchers' = [dispatchers EXCEPT ![w] = crashed]
           \/ dispatchers' = [dispatchers EXCEPT ![w] = Started]
        /\ UNCHANGED <<jobs, runs>>
    BY <1>10 DEF Crash, Restart
  <2> HIDE DEF crashed
  <2> QED BY <2>1, <2>2, QuietStep
<1>11. CASE Tick \/ UNCHANGED vars
  <2>1. UNCHANGED <<jobs, dispatchers, runs>>
    BY <1>11 DEF Tick, vars
  <2>2. \A w \in Dispatchers : AttemptsLeft(w)'
    BY <2>1, AttemptsLeftStays DEF RunsInv
  <2> QED BY <2>1, <2>2 DEF RunsInv, RunsCounted
<1> QED BY <1>1, <1>2, <1>3, <1>4, <1>5, <1>6, <1>7, <1>8, <1>9, <1>10, <1>11 DEF Next, RunOnce

(* No handler is called with a job more often than the job may be attempted: a claim
   counts the attempt first, and a verdict or a release puts back only what is left. *)
THEOREM RunsStayWithinAttempts == Spec => []RunsWithinAttempts
<1>1. Init => RunsInv
  <2>1. \A w \in Dispatchers : Started.held = {} /\ (Init => dispatchers[w] = Started)
    BY DEF Init, Started
  <2> QED BY <2>1 DEF Init, RunsInv, RunsCounted, AttemptsLeft, EmptyTable
<1>2. RunsInv => RunsWithinAttempts
  BY DEF RunsInv, RunsCounted, RunsWithinAttempts
<1> QED BY <1>1, <1>2, HolderInit, HolderNext, RunsNext, PTL DEF Spec

-----------------------------------------------------------------------------
(* Steps *)

(* What a step does to the rows there are: nothing, a claim of queued ones, or a
   verdict on one that a dispatcher is at and leaves. *)
LEMMA RowsChange ==
  ASSUME HolderInv, [Next]_vars
  PROVE  \/ \A j \in DOMAIN jobs : j \in DOMAIN jobs' /\ jobs'[j] = jobs[j]
         \/ \E w \in Dispatchers : ClaimDue(w)
         \/ \E w \in Dispatchers, j \in JobIds : ReleaseJob(w, j) \/ MarkJob(w, j)
<1>1. ASSUME NEW kind \in Kinds, NEW maxAttempts \in AttemptLimits, NEW due \in 0..MaxTime,
             Enqueue(kind, maxAttempts, due), NEW j \in DOMAIN jobs
      PROVE  j \in DOMAIN jobs' /\ jobs'[j] = jobs[j]
  BY <1>1, InsertKeepsRows DEF Enqueue
<1>2. ASSUME NEW w, \/ \E j \in JobIds : \/ StartJob(w, j) \/ MarkFails(w, j)
                                         \/ \E r \in {"ok", "error", "permanent"} :
                                              HandlerReturns(w, j, r)
                    \/ EndRun(w)
      PROVE  UNCHANGED jobs
  BY <1>2 DEF StartJob, MarkFails, HandlerReturns, EndRun
<1>3. ASSUME NEW w, \/ LoopExits(w) \/ Cancel(w) \/ Stop(w) \/ Crash(w) \/ Restart(w)
                    \/ Tick \/ UNCHANGED vars
      PROVE  UNCHANGED jobs
  BY <1>3 DEF LoopExits, Cancel, Stop, Crash, Restart, Tick, vars
<1> QED BY <1>1, <1>2, <1>3 DEF Next, RunOnce

(* Handlers are called with a held job only, and every held job is running. *)
LEMMA RunsChange ==
  ASSUME HolderInv, [Next]_vars, NEW j \in JobIds, runs'[j] # runs[j]
  PROVE  j \in DOMAIN jobs /\ jobs[j].status = "running"
<1>1. PICK w \in Dispatchers, i \in JobIds : StartJob(w, i)
  <2>1. ASSUME NEW w, \/ ClaimDue(w) \/ EndRun(w)
                      \/ \E i \in JobIds : \/ ReleaseJob(w, i) \/ MarkJob(w, i) \/ MarkFails(w, i)
                                           \/ \E r \in {"ok", "error", "permanent"} :
                                                HandlerReturns(w, i, r)
        PROVE  UNCHANGED runs
    BY <2>1 DEF ClaimDue, EndRun, ReleaseJob, MarkJob, MarkFails, HandlerReturns
  <2>2. ASSUME NEW w, \/ LoopExits(w) \/ Cancel(w) \/ Stop(w) \/ Crash(w) \/ Restart(w)
                      \/ Tick \/ UNCHANGED vars
                      \/ \E kind \in Kinds, maxAttempts \in AttemptLimits, due \in 0..MaxTime :
                            Enqueue(kind, maxAttempts, due)
        PROVE  UNCHANGED runs
    BY <2>2 DEF LoopExits, Cancel, Stop, Crash, Restart, Tick, vars, Enqueue
  <2> QED BY <2>1, <2>2 DEF Next, RunOnce
<1>2. i = j
  BY <1>1 DEF StartJob, HolderInv, QueueTypeOK
<1> QED BY <1>1, <1>2 DEF StartJob, AtJob, HolderInv, OneHolderPerJob

(* A job that succeeded or died is never claimed, run or marked again. *)
THEOREM VerdictsAreFinal == Spec => VerdictIsFinal
<1>1. ASSUME HolderInv, [Next]_vars, NEW j \in DOMAIN jobs,
             jobs[j].status \in {"succeeded", "dead"}
      PROVE  jobs'[j] = jobs[j] /\ runs'[j] = runs[j]
  <2>a. IsTable(jobs, JobIds, Job) /\ j \in JobIds
    BY <1>1 DEF HolderInv, QueueTypeOK, IsTable
  <2>1. runs'[j] = runs[j]
    BY <1>1, <2>a, RunsChange
  <2>2. ASSUME NEW w \in Dispatchers, ClaimDue(w) PROVE jobs'[j] = jobs[j]
    <3>1. PICK S \in Batches : Claim(S)
      BY <2>2 DEF ClaimDue
    <3>2. j \notin S
      BY <1>1 DEF Batches, DueJobs
    <3> QED BY <2>a, <3>1, <3>2, ClaimChanges
  <2>3. ASSUME NEW w \in Dispatchers, NEW i \in JobIds, ReleaseJob(w, i) \/ MarkJob(w, i)
        PROVE  jobs'[j] = jobs[j]
    <3>1. i # j
      BY <1>1, <2>3 DEF ReleaseJob, MarkJob, Mark
    <3> QED BY <2>a, <2>3, <3>1 DEF ReleaseJob, MarkJob, Mark, IsTable
  <2> QED BY <1>1, <2>1, <2>2, <2>3, RowsChange
<1>2. HolderInv /\ [Next]_vars =>
        [\A j \in DOMAIN jobs :
           jobs[j].status \in {"succeeded", "dead"} =>
             jobs'[j] = jobs[j] /\ runs'[j] = runs[j]]_vars
  BY <1>1
<1> QED BY <1>2, HolderInit, HolderNext, PTL DEF Spec, VerdictIsFinal

(* Which steps make a dispatcher hold less: leaving the job it was at, a crash, or a
   restart of one that was down. *)
LEMMA HoldsLess ==
  ASSUME HolderInv, [Next]_vars, NEW w \in Dispatchers, NEW j \in dispatchers[w].held,
         j \notin dispatchers'[w].held
  PROVE  Crash(w) \/ MarkFails(w, j) \/ ReleaseJob(w, j) \/ MarkJob(w, j)
<1>a. dispatchers \in [Dispatchers -> Dispatcher] /\ j \in JobIds
      /\ dispatchers[w].phase \in {"loop", "handling", "marking"}
  BY DEF HolderInv, QueueTypeOK, PhasesMatch, OneHolderPerJob, IsTable
<1>1. ASSUME NEW v \in Dispatchers, RunOnce(v) \/ LoopExits(v)
      PROVE  MarkFails(w, j) \/ ReleaseJob(w, j) \/ MarkJob(w, j)
  <2>1. v = w
    BY <1>a, <1>1 DEF RunOnce, LoopExits, ClaimDue, ReleaseJob, StartJob, HandlerReturns,
                      MarkJob, MarkFails, LeaveJob, EndRun
  <2>2. PICK i \in JobIds : MarkFails(w, i) \/ ReleaseJob(w, i) \/ MarkJob(w, i)
    BY <1>a, <1>1, <2>1 DEF RunOnce, LoopExits, ClaimDue, StartJob, HandlerReturns, EndRun,
                            Dispatcher
  <2>3. LeaveJob(w, i)
    BY <2>2 DEF MarkFails, ReleaseJob, MarkJob
  <2>4. dispatchers'[w].held = dispatchers[w].held \ {i}
    BY <1>a, <2>3 DEF LeaveJob, Dispatcher
  <2> QED BY <2>2, <2>4
<1>2. ASSUME NEW v \in Dispatchers, Cancel(v) \/ Stop(v) PROVE FALSE
  BY <1>a, <1>2 DEF Cancel, Stop, Dispatcher
<1>3. ASSUME NEW v \in Dispatchers, Crash(v) \/ Restart(v) PROVE Crash(w)
  <2>1. v = w
    BY <1>a, <1>3 DEF Crash, Restart
  <2> QED BY <1>a, <1>3, <2>1 DEF Restart, Up
<1>4. CASE UNCHANGED dispatchers
  BY <1>4
<1> QED BY <1>1, <1>2, <1>3, <1>4 DEF Next, Enqueue, Tick, vars

(* A running job whose dispatcher lets go of it without a verdict is left by a crash
   or by a mark under a cancelled context: no orderly path through RunOnce does. *)
THEOREM OnlyInterruptionOrphans == Spec => OnlyInterruptionOrphansJobs
<1>1. ASSUME HolderInv, [Next]_vars, NEW j \in DOMAIN jobs, Orphaned(j)
      PROVE  \E w \in Dispatchers :
               j \in dispatchers[w].held /\ (Crash(w) \/ MarkFails(w, j))
  <2>1. PICK w \in Dispatchers : j \in dispatchers[w].held /\ j \notin dispatchers'[w].held
    BY <1>1 DEF Orphaned, Held
  <2>2. ~MarkJob(w, j)
    <3>1. SUFFICES ASSUME MarkJob(w, j) PROVE FALSE
      OBVIOUS
    <3>2. dispatchers[w].verdict \in {"succeeded", "dead", "queued"}
      BY <1>1, <3>1 DEF MarkJob, HolderInv, QueueTypeOK, PhasesMatch, Dispatcher
    <3>3. jobs'[j].status = dispatchers[w].verdict
      BY <1>1, <3>1 DEF MarkJob, Mark, HolderInv, QueueTypeOK, IsTable, Job
    <3> QED BY <1>1, <3>2, <3>3 DEF Orphaned
  <2>3. ~ReleaseJob(w, j)
    <3>1. SUFFICES ASSUME ReleaseJob(w, j) PROVE FALSE
      OBVIOUS
    <3>2. jobs'[j].status = "queued"
      BY <1>1, <3>1 DEF ReleaseJob, Mark, HolderInv, QueueTypeOK, IsTable, Job
    <3> QED BY <1>1, <3>2 DEF Orphaned
  <2> QED BY <1>1, <2>1, <2>2, <2>3, HoldsLess
<1>2. HolderInv /\ [Next]_vars =>
        [\A j \in DOMAIN jobs :
           Orphaned(j) =>
             \E w \in Dispatchers :
               j \in dispatchers[w].held /\ (Crash(w) \/ MarkFails(w, j))]_vars
  BY <1>1
<1> QED BY <1>2, HolderInit, HolderNext, PTL DEF Spec, OnlyInterruptionOrphansJobs
=============================================================================
