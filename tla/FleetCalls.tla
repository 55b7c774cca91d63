----------------------------- MODULE FleetCalls -----------------------------
(***************************************************************************)
(* The two handlers of internal/service/fleet/assignment.go that are more  *)
(* than one transaction, running concurrently with each other and with all *)
(* the handlers of Fleet.tla:                                              *)
(*                                                                         *)
(*  - CreateAssignment looks the idempotency key up outside the            *)
(*    transaction that inserts the shift, so any step may come between;    *)
(*  - BatchAbortAssignments commits one transaction per item, looks at its *)
(*    context between two items, and collects an outcome.                  *)
(*                                                                         *)
(* A request may lose its context at any moment (client gone, Timeout      *)
(* middleware, shutdown), and the process may stop and be started again:   *)
(* what was committed stays, requests in flight are gone and their clients *)
(* may ask again.                                                          *)
(***************************************************************************)
EXTENDS Fleet, Sequences

CONSTANTS
  Calls,         \* CreateAssignment requests in flight at a time
  Batches,       \* BatchAbortAssignments requests in flight at a time
  BatchInputs    \* the lists of assignment ids that may be asked for

MaxBatchSize == 50

ASSUME BatchInputsTyped == BatchInputs \subseteq Seq(AssignmentIds)

VARIABLES calls, batches

requests == <<calls, batches>>
allVars  == <<vars, requests>>

Idle == [phase |-> "idle"]

(* asked: what the request asks for.  A call that was answered has the id of
   its shift; a call without a shift was refused or lost its context. *)
Asked == [actor : FleetAdmins, key : Keys, in : Inputs]
Call  == {Idle}
           \cup [phase : {"pending", "refused", "cancelled"}, asked : Asked]
           \cup [phase : {"answered"}, asked : Asked, id : AssignmentIds]

(* outcome[i] says whether the item asked[i] was applied.  The caller sees the
   outcome of a batch that returned; a batch that failed returns an error in
   its place. *)
Batch == {Idle}
           \cup [phase : {"running", "returned", "failed"}, actor : FleetAdmins,
                 asked : BatchInputs, outcome : Seq(BOOLEAN), cancelled : BOOLEAN]

-----------------------------------------------------------------------------
(* CreateAssignment *)

(* Up to the lookup of the key, on a connection of its own.  A request that is
   refused here, without a lock and without a write, stays idle: an empty shift
   before the lookup, a shift without mileage after it. *)
BeginCall(k, asked) ==
  /\ calls[k] = Idle
  /\ WindowValid(asked.in.shift)
  /\ \/ \E a \in ByIdempotencyKey(asked.key) :
          calls' = [calls EXCEPT ![k] = [phase |-> "answered", asked |-> asked, id |-> a]]
     \/ /\ ByIdempotencyKey(asked.key) = {}
        /\ asked.in.plannedKm > 0
        /\ calls' = [calls EXCEPT ![k] = [phase |-> "pending", asked |-> asked]]
  /\ UNCHANGED <<vars, batches>>

CommitCall(k) ==
  /\ calls[k].phase = "pending"
  /\ LET asked == calls[k].asked
     IN  /\ CreateAssignment(asked.actor, asked.key, asked.in)
         /\ \E a \in DOMAIN assignments' \ DOMAIN assignments :
              calls' = [calls EXCEPT ![k] = [phase |-> "answered", asked |-> asked, id |-> a]]
  /\ UNCHANGED batches

EndCallWithError(k, phase) ==
  /\ calls[k].phase = "pending"
  /\ calls' = [calls EXCEPT ![k] = [phase |-> phase, asked |-> calls[k].asked]]
  /\ UNCHANGED <<vars, batches>>

(* Mutant: a refused transaction is tried again instead of being answered. *)
RefuseCall_TriesAgain(k) ==
  /\ calls[k].phase = "pending"
  /\ ~CanCreateAssignment(calls[k].asked.key, calls[k].asked.in)
  /\ UNCHANGED allVars

RefuseCall(k) ==
  /\ calls[k].phase = "pending"
  /\ ~CanCreateAssignment(calls[k].asked.key, calls[k].asked.in)
  /\ EndCallWithError(k, "refused")

CancelCall(k) == EndCallWithError(k, "cancelled")

ReplyToCall(k) ==
  /\ calls[k].phase \in {"answered", "refused", "cancelled"}
  /\ calls' = [calls EXCEPT ![k] = Idle]
  /\ UNCHANGED <<vars, batches>>

-----------------------------------------------------------------------------
(* BatchAbortAssignments *)

BeginBatch(b, actor, asked) ==
  /\ batches[b] = Idle
  /\ Len(asked) \in 1..MaxBatchSize
  /\ batches' = [batches EXCEPT ![b] =
       [phase |-> "running", actor |-> actor, asked |-> asked, outcome |-> << >>,
        cancelled |-> FALSE]]
  /\ UNCHANGED <<vars, calls>>

(* The loop is at an item: there is one left and the context was still alive
   when ctx.Err() was read. *)
AtItem(b) ==
  /\ batches[b].phase = "running"
  /\ ~batches[b].cancelled
  /\ Len(batches[b].outcome) < Len(batches[b].asked)

Item(b) == batches[b].asked[Len(batches[b].outcome) + 1]

AddOutcome(b, applied, cancelled) ==
  batches' = [batches EXCEPT ![b].outcome = Append(@, applied), ![b].cancelled = cancelled]

BatchApplyItem(b) ==
  /\ AtItem(b)
  /\ AbortAssignment(batches[b].actor, Item(b))
  /\ AddOutcome(b, TRUE, FALSE)
  /\ UNCHANGED calls

(* Mutant: the error of an item is not put into its outcome. *)
BatchRejectItem_ReportsApplied(b) ==
  /\ AtItem(b)
  /\ ~CanAbortAssignment(Item(b))
  /\ AddOutcome(b, TRUE, FALSE)
  /\ UNCHANGED <<vars, calls>>

BatchRejectItem(b) ==
  /\ AtItem(b)
  /\ ~CanAbortAssignment(Item(b))
  /\ AddOutcome(b, FALSE, FALSE)
  /\ UNCHANGED <<vars, calls>>

(* Mutant: what the transaction wrote before its context ended stays. *)
BatchCancelItem_Partial(b) ==
  /\ AtItem(b)
  /\ CanAbortAssignment(Item(b))
  /\ assignments' = [assignments EXCEPT ![Item(b)].status = "aborted"]
  /\ AddOutcome(b, FALSE, TRUE)
  /\ UNCHANGED <<campaigns, vehicles, drives, takeovers, settlements, audit, now, calls>>

(* The context ends inside the transaction of an item: the item is rejected,
   whatever the state of its shift. *)
BatchCancelItem(b) ==
  /\ AtItem(b)
  /\ AddOutcome(b, FALSE, TRUE)
  /\ UNCHANGED <<vars, calls>>

(* The context ends between two items. *)
CancelBatch(b) ==
  /\ AtItem(b)
  /\ batches' = [batches EXCEPT ![b].cancelled = TRUE]
  /\ UNCHANGED <<vars, calls>>

FinishBatch(b) ==
  /\ batches[b].phase = "running"
  /\ \/ /\ Len(batches[b].outcome) = Len(batches[b].asked)
        /\ batches' = [batches EXCEPT ![b].phase = "returned"]
     \/ /\ Len(batches[b].outcome) < Len(batches[b].asked)
        /\ batches[b].cancelled
        /\ batches' = [batches EXCEPT ![b].phase = "failed"]
  /\ UNCHANGED <<vars, calls>>

ReplyToBatch(b) ==
  /\ batches[b].phase \in {"returned", "failed"}
  /\ batches' = [batches EXCEPT ![b] = Idle]
  /\ UNCHANGED <<vars, calls>>

-----------------------------------------------------------------------------
(* The process stops and starts again on the same database. *)
Restart ==
  /\ calls' = [k \in Calls |-> Idle]
  /\ batches' = [b \in Batches |-> Idle]
  /\ UNCHANGED vars

(* The handlers of Fleet that are one transaction. *)
SingleTransaction ==
  /\ \/ \E actor \in Operators :
          \/ CampaignStep(actor)
          \/ \E a \in AssignmentIds : AbortAssignment(actor, a)
          \/ DriveStep(actor)
          \/ SettlementStep(actor)
     \/ Tick
  /\ UNCHANGED requests

(* What a request in flight does by itself. *)
CallRuns(k)  == CommitCall(k) \/ RefuseCall(k) \/ ReplyToCall(k)
BatchRuns(b) == BatchApplyItem(b) \/ BatchRejectItem(b) \/ FinishBatch(b) \/ ReplyToBatch(b)

CallStep(k) ==
  \/ \E asked \in Asked : BeginCall(k, asked)
  \/ CallRuns(k)
  \/ CancelCall(k)

BatchStep(b) ==
  \/ \E actor \in FleetAdmins, asked \in BatchInputs : BeginBatch(b, actor, asked)
  \/ BatchRuns(b)
  \/ BatchCancelItem(b)
  \/ CancelBatch(b)

CallsInit ==
  /\ Init
  /\ calls = [k \in Calls |-> Idle]
  /\ batches = [b \in Batches |-> Idle]

CallsNext ==
  \/ SingleTransaction
  \/ \E k \in Calls : CallStep(k)
  \/ \E b \in Batches : BatchStep(b)
  \/ Restart

CallsSpec == CallsInit /\ [][CallsNext]_allVars

(* A goroutine that can take a step takes it in the end: the scheduler is fair
   and so is the mutex of WithTx, which no transaction holds for ever. *)
CallsFairness ==
  /\ \A k \in Calls : WF_allVars(CallRuns(k))
  /\ \A b \in Batches : WF_allVars(BatchRuns(b))

FairCallsSpec == CallsSpec /\ CallsFairness

-----------------------------------------------------------------------------
(* Properties *)

(* Requests in flight are well formed. *)
CallsTypeOK == calls \in [Calls -> Call] /\ batches \in [Batches -> Batch]

(* Whoever got a shift for a key got the one shift of that key, whatever other
   requests with the key were in flight beside it, before or after a restart:
   the lookup of CreateAssignment is outside its transaction. *)
OneShiftPerKey ==
  \A k \in Calls :
    calls[k].phase = "answered" => ByIdempotencyKey(calls[k].asked.key) = {calls[k].id}

(* An item that a batch reports as applied is an aborted shift, and no two items,
   of one batch or of two at the same time, claim the same one: an abort gives
   mileage and vehicle back, and must do so once. *)
BatchOutcomeHonest ==
  \A b, c \in Batches :
    /\ batches[b] # Idle
    /\ batches[c] # Idle
    => \A i \in DOMAIN batches[b].outcome, j \in DOMAIN batches[c].outcome :
         /\ batches[b].outcome[i]
         /\ batches[c].outcome[j]
         /\ batches[b].asked[i] = batches[c].asked[j]
         => /\ batches[b].asked[i] \in DOMAIN assignments
            /\ assignments[batches[b].asked[i]].status = "aborted"
            /\ <<b, i>> = <<c, j>>

(* Every request in flight ends, whatever the others do and however often shifts
   are created and aborted under it: no order of the transactions of others keeps
   a call or the loop of a batch from its end.  (That those who wait for the mutex
   and the connections of WithTx get them is not in this module: see TxStore.) *)
RequestsFinish ==
  /\ \A k \in Calls : []<>(calls[k].phase # "pending")
  /\ \A b \in Batches : []<>(batches[b].phase # "running")
=============================================================================
