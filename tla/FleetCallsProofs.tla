-------------------------- MODULE FleetCallsProofs --------------------------
(***************************************************************************)
(* However requests interleave, lose their context or die with the         *)
(* process, the tables go through steps of Fleet and no others, so every   *)
(* theorem about Fleet holds under FleetCalls too.                         *)
(***************************************************************************)
EXTENDS FleetCalls, FleetProofs

(* Every step of the requests is a step of Fleet or leaves the tables alone. *)
LEMMA CallsStepIsFleetStep ==
  TypeOK /\ CallsTypeOK /\ [CallsNext]_allVars => [Next]_vars
<1> SUFFICES ASSUME TypeOK, CallsTypeOK, CallsNext PROVE [Next]_vars
  BY DEF allVars
<1>1. CASE SingleTransaction
  BY <1>1 DEF SingleTransaction, Next
<1>2. ASSUME NEW k \in Calls, CallStep(k) PROVE [Next]_vars
  <2>1. CASE CommitCall(k)
    <3>1. calls[k].asked \in Asked
      BY <2>1 DEF CommitCall, CallsTypeOK, Call, Idle
    <3>2. calls[k].asked.actor \in Operators
      BY <3>1 DEF Asked, Operators
    <3> QED BY <2>1, <3>1, <3>2 DEF CommitCall, Asked, Next
  <2>2. CASE ~CommitCall(k)
    BY <1>2, <2>2 DEF CallStep, BeginCall, CallRuns, RefuseCall, EndCallWithError, CancelCall,
                      ReplyToCall
  <2> QED BY <2>1, <2>2
<1>3. ASSUME NEW b \in Batches, BatchStep(b) PROVE [Next]_vars
  <2>1. CASE BatchApplyItem(b)
    <3>1. batches[b].actor \in Operators /\ Item(b) \in AssignmentIds
      BY <2>1 DEF BatchApplyItem, AbortAssignment, CanAbortAssignment, Operators, TypeOK, IsTable
    <3> QED BY <2>1, <3>1 DEF BatchApplyItem, Next
  <2>2. CASE ~BatchApplyItem(b)
    BY <1>3, <2>2 DEF BatchStep, BeginBatch, BatchRuns, BatchRejectItem, FinishBatch, ReplyToBatch,
                      BatchCancelItem, CancelBatch
  <2> QED BY <2>1, <2>2
<1>4. CASE Restart
  BY <1>4 DEF Restart
<1> QED BY <1>1, <1>2, <1>3, <1>4 DEF CallsNext

(* A batch in progress. *)
LoopState == [phase : {"running", "returned", "failed"}, actor : FleetAdmins,
              asked : BatchInputs, outcome : Seq(BOOLEAN), cancelled : BOOLEAN]

(* Losing the context keeps a batch well formed. *)
LEMMA CancelTyped ==
  ASSUME NEW batch \in LoopState, NEW cancelled \in BOOLEAN
  PROVE  [batch EXCEPT !.cancelled = cancelled] \in LoopState
BY DEF LoopState

(* Requests stay well formed. *)
LEMMA CallsTypeNext == TypeOK /\ CallsTypeOK /\ [CallsNext]_allVars => CallsTypeOK'
<1> SUFFICES ASSUME TypeOK, CallsTypeOK, [CallsNext]_allVars PROVE CallsTypeOK'
  OBVIOUS
<1> USE DEF CallsTypeOK
<1>1. ASSUME NEW k \in Calls, CallStep(k) PROVE CallsTypeOK'
  <2>1. batches' = batches
    BY <1>1 DEF CallStep, BeginCall, CallRuns, CommitCall, RefuseCall, EndCallWithError, CancelCall,
                ReplyToCall
  <2>2. ASSUME NEW asked \in Asked, BeginCall(k, asked) PROVE calls' \in [Calls -> Call]
    BY <2>2 DEF BeginCall, Call, ByIdempotencyKey, TypeOK, IsTable
  <2>3. ASSUME calls[k].phase = "pending" PROVE calls[k].asked \in Asked
    BY <2>3 DEF Call, Idle
  <2>4. CASE CommitCall(k)
    <3>1. PICK a \in DOMAIN assignments' :
            calls' = [calls EXCEPT ![k] =
                        [phase |-> "answered", asked |-> calls[k].asked, id |-> a]]
      BY <2>4 DEF CommitCall
    <3>2. a \in AssignmentIds
      BY <3>1, CallsStepIsFleetStep, TypeNext DEF TypeOK, IsTable
    <3> QED BY <2>1, <2>3, <2>4, <3>1, <3>2 DEF CommitCall, Call
  <2>5. CASE RefuseCall(k) \/ CancelCall(k)
    BY <2>1, <2>3, <2>5 DEF RefuseCall, CancelCall, EndCallWithError, Call
  <2>6. CASE ReplyToCall(k)
    BY <2>1, <2>6 DEF ReplyToCall, Call
  <2> QED BY <1>1, <2>1, <2>2, <2>4, <2>5, <2>6 DEF CallStep, CallRuns
<1>2. ASSUME NEW b \in Batches, BatchStep(b) PROVE CallsTypeOK'
  <2>1. calls' = calls
    BY <1>2 DEF BatchStep, BeginBatch, BatchRuns, BatchApplyItem, BatchRejectItem, FinishBatch,
                ReplyToBatch, BatchCancelItem, CancelBatch
  <2>2. ASSUME NEW actor \in FleetAdmins, NEW asked \in BatchInputs, BeginBatch(b, actor, asked)
        PROVE  batches' \in [Batches -> Batch]
    BY <2>2 DEF BeginBatch, Batch
  <2>3. ASSUME batches[b].phase = "running"
        PROVE  batches[b] \in LoopState
    BY <2>3 DEF Batch, Idle, LoopState
  <2>4. ASSUME NEW applied \in BOOLEAN, NEW cancelled \in BOOLEAN, AtItem(b),
               AddOutcome(b, applied, cancelled)
        PROVE  batches' \in [Batches -> Batch]
    <3> DEFINE row == [batches[b] EXCEPT !.outcome = Append(@, applied)]
    <3>1. batches[b] \in LoopState
      BY <2>3, <2>4 DEF AtItem
    <3>2. row \in LoopState
      BY <3>1 DEF LoopState
    <3>3. [row EXCEPT !.cancelled = cancelled] \in LoopState
      BY <3>2, CancelTyped
    <3>4. batches' = [batches EXCEPT ![b] = [row EXCEPT !.cancelled = cancelled]]
      BY <2>4, <3>1 DEF AddOutcome, LoopState
    <3> HIDE DEF row
    <3> QED BY <3>3, <3>4 DEF Batch, LoopState
  <2>5. CASE BatchApplyItem(b) \/ BatchRejectItem(b) \/ BatchCancelItem(b)
    BY <2>1, <2>4, <2>5 DEF BatchApplyItem, BatchRejectItem, BatchCancelItem
  <2>6. CASE CancelBatch(b)
    BY <2>1, <2>3, <2>6 DEF CancelBatch, AtItem, Batch, LoopState
  <2>7. CASE FinishBatch(b)
    BY <2>1, <2>3, <2>7 DEF FinishBatch, Batch, LoopState
  <2>8. CASE ReplyToBatch(b)
    BY <2>1, <2>8 DEF ReplyToBatch, Batch
  <2> QED BY <1>2, <2>1, <2>2, <2>5, <2>6, <2>7, <2>8 DEF BatchStep, BatchRuns
<1>3. CASE Restart
  BY <1>3 DEF Restart, Call, Batch
<1>4. CASE SingleTransaction \/ UNCHANGED allVars
  BY <1>4 DEF SingleTransaction, allVars, requests
<1> QED BY <1>1, <1>2, <1>3, <1>4 DEF CallsNext

(* The interleaved handlers implement the handlers that are one step each: the
   tables of FleetCalls behave as Spec says. *)
THEOREM CallsImplementFleet == CallsSpec => Spec
<1>1. CallsInit => Init /\ TypeOK /\ CallsTypeOK
  BY TypeInit DEF CallsInit, CallsTypeOK, Call, Batch
<1>2. TypeOK /\ CallsTypeOK /\ [CallsNext]_allVars => TypeOK' /\ CallsTypeOK' /\ [Next]_vars
  BY CallsStepIsFleetStep, TypeNext, CallsTypeNext
<1> QED BY <1>1, <1>2, PTL DEF CallsSpec, Spec

-----------------------------------------------------------------------------
(* One shift per key *)

(* What OneShiftPerKey rests on: two rows never have one key, which the unique
   index sees to, and an answer names a row with the key of its request. *)
KeyInv ==
  /\ \A a, b \in DOMAIN assignments : assignments[a].key = assignments[b].key => a = b
  /\ \A k \in Calls :
       calls[k].phase = "answered" =>
         /\ calls[k].id \in DOMAIN assignments
         /\ assignments[calls[k].id].key = calls[k].asked.key

(* A step of a call answers it with a row of its key, or does not answer it. *)
LEMMA AnswersNameTheirKey ==
  ASSUME TypeOK, CallsTypeOK, NEW k \in Calls, CallStep(k), NEW x \in Calls,
         calls'[x].phase = "answered"
  PROVE  \/ calls'[x] = calls[x]
         \/ /\ calls'[x].id \in DOMAIN assignments'
            /\ assignments'[calls'[x].id].key = calls'[x].asked.key
<1>1. CASE x # k
  BY <1>1 DEF CallStep, BeginCall, CallRuns, CommitCall, RefuseCall, EndCallWithError, CancelCall,
              ReplyToCall, CallsTypeOK
<1>2. CASE x = k
  <2>1. ASSUME NEW asked \in Asked, BeginCall(k, asked)
        PROVE  /\ calls'[k].id \in DOMAIN assignments'
               /\ assignments'[calls'[k].id].key = calls'[k].asked.key
    <3>1. assignments' = assignments
      BY <2>1 DEF BeginCall, vars, tables
    <3>2. PICK a \in ByIdempotencyKey(asked.key) :
            calls' = [calls EXCEPT ![k] = [phase |-> "answered", asked |-> asked, id |-> a]]
      BY <1>2, <2>1 DEF BeginCall, CallsTypeOK
    <3> QED BY <3>1, <3>2 DEF ByIdempotencyKey, CallsTypeOK
  <2>2. ASSUME CommitCall(k)
        PROVE  /\ calls'[k].id \in DOMAIN assignments'
               /\ assignments'[calls'[k].id].key = calls'[k].asked.key
    <3> DEFINE asked == calls[k].asked
    <3>1. PICK a \in DOMAIN assignments' \ DOMAIN assignments :
            calls' = [calls EXCEPT ![k] = [phase |-> "answered", asked |-> asked, id |-> a]]
      BY <2>2 DEF CommitCall
    <3>2. PICK id \in FreshId(assignments, AssignmentIds) :
            assignments' = Insert(assignments, id, NewAssignment(asked.key, asked.in))
      BY <2>2 DEF CommitCall, CreateAssignment
    <3>3. assignments'[a].key = asked.key
      BY <3>1, <3>2 DEF Insert, NewAssignment
    <3> QED BY <3>1, <3>3 DEF CallsTypeOK
  <2>3. ~RefuseCall(k) /\ ~CancelCall(k) /\ ~ReplyToCall(k)
    BY <1>2 DEF RefuseCall, CancelCall, EndCallWithError, ReplyToCall, CallsTypeOK, Idle
  <2> QED BY <1>2, <2>1, <2>2, <2>3 DEF CallStep, CallRuns
<1> QED BY <1>1, <1>2

(* No step breaks it: a row keeps its key, and the row of a new key is new. *)
LEMMA KeyNext == TypeOK /\ CallsTypeOK /\ KeyInv /\ [CallsNext]_allVars => KeyInv'
<1> SUFFICES ASSUME TypeOK, CallsTypeOK, KeyInv, [CallsNext]_allVars PROVE KeyInv'
  OBVIOUS
<1>1. [Next]_vars
  BY CallsStepIsFleetStep
<1>2. \A a \in DOMAIN assignments :
        a \in DOMAIN assignments' /\ assignments'[a].key = assignments[a].key
  BY <1>1, ShiftsMoveForward
<1>3. ASSUME NEW a \in DOMAIN assignments', a \notin DOMAIN assignments
      PROVE  /\ DOMAIN assignments' = DOMAIN assignments \cup {a}
             /\ \A b \in DOMAIN assignments : assignments[b].key # assignments'[a].key
  <2>1. PICK actor \in Operators, key \in Keys, in \in Inputs :
          /\ CreateAssignment(actor, key, in)
          /\ assignments' = Insert(assignments, a, NewAssignment(key, in))
    BY <1>1, <1>3, NewShiftIsCreated
  <2>2. assignments'[a].key = key
    BY <2>1 DEF Insert, NewAssignment
  <2>3. \A b \in DOMAIN assignments : assignments[b].key # key
    BY <2>1 DEF CreateAssignment, CanCreateAssignment, KeyIsUnused, ByIdempotencyKey
  <2> QED BY <2>1, <2>2, <2>3 DEF Insert
<1>4. ASSUME NEW a \in DOMAIN assignments', NEW b \in DOMAIN assignments',
             assignments'[a].key = assignments'[b].key
      PROVE  a = b
  <2>1. CASE a \in DOMAIN assignments /\ b \in DOMAIN assignments
    BY <1>2, <1>4, <2>1 DEF KeyInv
  <2>2. ASSUME NEW new \in DOMAIN assignments', new \notin DOMAIN assignments,
               NEW old \in DOMAIN assignments', old # new
        PROVE  assignments'[old].key # assignments'[new].key
    <3>1. old \in DOMAIN assignments
      BY <1>3, <2>2
    <3>2. assignments[old].key # assignments'[new].key
      BY <1>3, <2>2, <3>1
    <3> QED BY <1>2, <3>1, <3>2
  <2>3. CASE a \notin DOMAIN assignments \/ b \notin DOMAIN assignments
    BY <1>4, <2>2, <2>3
  <2> QED BY <2>1, <2>2, <2>3
<1>5. ASSUME NEW k \in Calls, calls'[k].phase = "answered"
      PROVE  /\ calls'[k].id \in DOMAIN assignments'
             /\ assignments'[calls'[k].id].key = calls'[k].asked.key
  <2>1. CASE calls'[k] = calls[k]
    BY <1>2, <1>5, <2>1 DEF KeyInv
  <2>2. CASE Restart
    BY <1>5, <2>2 DEF Restart, Idle
  <2>3. ASSUME NEW x \in Calls, CallStep(x)
        PROVE  calls'[k] = calls[k] \/ /\ calls'[k].id \in DOMAIN assignments'
                                       /\ assignments'[calls'[k].id].key = calls'[k].asked.key
    BY <1>5, <2>3, AnswersNameTheirKey
  <2>4. CASE (\E b \in Batches : BatchStep(b)) \/ SingleTransaction \/ UNCHANGED allVars
    <3>1. calls' = calls
      BY <2>4 DEF BatchStep, BeginBatch, BatchRuns, BatchApplyItem, BatchRejectItem, FinishBatch,
                  ReplyToBatch, BatchCancelItem, CancelBatch, SingleTransaction, allVars, requests
    <3> QED BY <2>1, <3>1
  <2> QED BY <2>1, <2>2, <2>3, <2>4 DEF CallsNext
<1> QED BY <1>4, <1>5 DEF KeyInv

(* Whatever requests with one key are in flight together or follow each other,
   all that are answered are answered with the one shift of that key. *)
THEOREM AnswersAreTheOneShift == CallsSpec => []OneShiftPerKey
<1>1. CallsInit => TypeOK /\ CallsTypeOK /\ KeyInv
  BY TypeInit DEF CallsInit, CallsTypeOK, Call, Batch, KeyInv, Init, EmptyTable, Idle
<1>2. TypeOK /\ CallsTypeOK /\ KeyInv /\ [CallsNext]_allVars
        => TypeOK' /\ CallsTypeOK' /\ KeyInv'
  BY CallsStepIsFleetStep, TypeNext, CallsTypeNext, KeyNext
<1>3. KeyInv => OneShiftPerKey
  BY DEF KeyInv, OneShiftPerKey, ByIdempotencyKey
<1> QED BY <1>1, <1>2, <1>3, PTL DEF CallsSpec

-----------------------------------------------------------------------------
(* Batches *)

(* Batch b reports its i-th item as applied. *)
Claims(b, i) ==
  batches[b] # Idle /\ i \in DOMAIN batches[b].outcome /\ batches[b].outcome[i]

(* BatchOutcomeHonest, in terms of claims. *)
ClaimsInv ==
  /\ \A b \in Batches : \A i \in Nat :
       Claims(b, i) => /\ batches[b].asked[i] \in DOMAIN assignments
                       /\ assignments[batches[b].asked[i]].status = "aborted"
  /\ \A b, c \in Batches : \A i, j \in Nat :
       /\ Claims(b, i) /\ Claims(c, j)
       /\ batches[b].asked[i] = batches[c].asked[j]
       => b = c /\ i = j

(* A step leaves the claims of a batch as they were, drops them all, or is the
   abort of the next item and claims that one. *)
LEMMA ClaimsGrow ==
  ASSUME TypeOK, CallsTypeOK, [CallsNext]_allVars, NEW b \in Batches, NEW i \in Nat,
         Claims(b, i)'
  PROVE  /\ batches[b] \in LoopState
         /\ batches'[b].asked = batches[b].asked
         /\ \/ Claims(b, i)
            \/ BatchApplyItem(b) /\ i = Len(batches[b].outcome) + 1
<1> USE DEF Claims
<1>1. CASE batches'[b] = batches[b]
  BY <1>1 DEF CallsTypeOK, Batch, LoopState
<1>2. ASSUME NEW x \in Batches, BatchStep(x), batches'[b] # batches[b]
      PROVE  /\ batches[b] \in LoopState
             /\ batches'[b].asked = batches[b].asked
             /\ \/ Claims(b, i)
                \/ BatchApplyItem(b) /\ i = Len(batches[b].outcome) + 1
  <2>1. x = b
    BY <1>2 DEF BatchStep, BeginBatch, BatchRuns, BatchApplyItem, BatchRejectItem, FinishBatch,
                ReplyToBatch, BatchCancelItem, CancelBatch, AddOutcome, CallsTypeOK
  <2>2. ASSUME NEW actor \in FleetAdmins, NEW asked \in BatchInputs, BeginBatch(b, actor, asked)
        PROVE  FALSE
    <3>1. batches'[b].outcome = << >>
      BY <2>2 DEF BeginBatch, CallsTypeOK
    <3> QED BY <3>1
  <2>3. ~ReplyToBatch(b)
    BY DEF ReplyToBatch, CallsTypeOK
  <2>4. CASE FinishBatch(b) \/ CancelBatch(b)
    <3>1. batches[b] \in LoopState
      BY <2>4 DEF FinishBatch, CancelBatch, AtItem, CallsTypeOK, Batch, LoopState, Idle
    <3>2. batches'[b].asked = batches[b].asked /\ batches'[b].outcome = batches[b].outcome
      BY <2>4, <3>1 DEF FinishBatch, CancelBatch, CallsTypeOK, LoopState
    <3> QED BY <3>1, <3>2 DEF LoopState, Idle
  <2>5. ASSUME NEW applied \in BOOLEAN, NEW cancelled \in BOOLEAN, AtItem(b),
               AddOutcome(b, applied, cancelled)
        PROVE  /\ batches[b] \in LoopState
               /\ batches'[b].asked = batches[b].asked
               /\ \/ Claims(b, i)
                  \/ applied /\ i = Len(batches[b].outcome) + 1
    <3>1. batches[b] \in LoopState
      BY <2>5 DEF AtItem, CallsTypeOK, Batch, LoopState, Idle
    <3>2. /\ batches'[b].asked = batches[b].asked
          /\ batches'[b].outcome = Append(batches[b].outcome, applied)
      BY <2>5, <3>1 DEF AddOutcome, CallsTypeOK, LoopState
    <3>3. batches[b].outcome \in Seq(BOOLEAN) /\ batches[b] # Idle
      BY <3>1 DEF LoopState, Idle
    <3>4. i \in 1..(Len(batches[b].outcome) + 1)
      BY <3>2, <3>3
    <3>5. CASE i = Len(batches[b].outcome) + 1
      BY <3>1, <3>2, <3>3, <3>5
    <3>6. CASE i \in 1..Len(batches[b].outcome)
      BY <3>1, <3>2, <3>3, <3>6
    <3> QED BY <3>3, <3>4, <3>5, <3>6
  <2> QED BY <1>2, <2>1, <2>2, <2>3, <2>4, <2>5
          DEF BatchStep, BatchRuns, BatchApplyItem, BatchRejectItem, BatchCancelItem
<1>3. CASE Restart
  BY <1>3 DEF Restart
<1>4. ASSUME (\E k \in Calls : CallStep(k)) \/ SingleTransaction \/ UNCHANGED allVars
      PROVE  batches' = batches
  BY <1>4 DEF CallStep, BeginCall, CallRuns, CommitCall, RefuseCall, EndCallWithError, CancelCall,
              ReplyToCall, SingleTransaction, allVars, requests
<1> QED BY <1>1, <1>2, <1>3, <1>4 DEF CallsNext

(* No step breaks it: the shift of a new claim was open until this step, so no
   older claim is of the same shift, and an aborted shift stays aborted. *)
LEMMA ClaimsNext == TypeOK /\ CallsTypeOK /\ ClaimsInv /\ [CallsNext]_allVars => ClaimsInv'
<1> SUFFICES ASSUME TypeOK, CallsTypeOK, ClaimsInv, [CallsNext]_allVars PROVE ClaimsInv'
  OBVIOUS
<1>1. \A a \in DOMAIN assignments :
        /\ a \in DOMAIN assignments'
        /\ assignments[a].status = "aborted" => assignments'[a].status = "aborted"
  BY CallsStepIsFleetStep, ShiftsMoveForward DEF AssignmentTransitions
<1>2. ASSUME NEW b \in Batches, BatchApplyItem(b)
      PROVE  /\ Item(b) \in DOMAIN assignments
             /\ assignments[Item(b)].status # "aborted"
             /\ assignments'[Item(b)].status = "aborted"
             /\ \A c \in Batches : c # b => batches'[c] = batches[c]
  <2>1. AbortAssignment(batches[b].actor, Item(b))
    BY <1>2 DEF BatchApplyItem
  <2>2. /\ Item(b) \in DOMAIN assignments
        /\ assignments[Item(b)].status # "aborted"
        /\ assignments' = [assignments EXCEPT ![Item(b)].status = "aborted"]
    BY <2>1 DEF AbortAssignment, CanAbortAssignment, AssignmentTransitions
  <2>3. assignments'[Item(b)].status = "aborted"
    BY <2>2 DEF TypeOK, IsTable, Assignment
  <2> QED BY <1>2, <2>2, <2>3 DEF BatchApplyItem, AddOutcome, CallsTypeOK
<1>3. ASSUME NEW b \in Batches, NEW i \in Nat, Claims(b, i)'
      PROVE  /\ batches'[b].asked = batches[b].asked
             /\ \/ Claims(b, i)
                \/ /\ BatchApplyItem(b)
                   /\ i = Len(batches[b].outcome) + 1
                   /\ batches[b].asked[i] = Item(b)
  BY <1>3, ClaimsGrow DEF Item
<1>4. ASSUME NEW b \in Batches, NEW i \in Nat, Claims(b, i)'
      PROVE  /\ batches'[b].asked[i] \in DOMAIN assignments'
             /\ assignments'[batches'[b].asked[i]].status = "aborted"
  BY <1>1, <1>2, <1>3, <1>4 DEF ClaimsInv
<1>5. ASSUME NEW b \in Batches, NEW c \in Batches, NEW i \in Nat, NEW j \in Nat,
             Claims(b, i)', Claims(c, j)',
             batches'[b].asked[i] = batches'[c].asked[j]
      PROVE  b = c /\ i = j
  <2>1. CASE Claims(b, i) /\ Claims(c, j)
    BY <1>3, <1>5, <2>1 DEF ClaimsInv
  <2>2. ASSUME NEW x \in Batches, NEW m \in Nat, Claims(x, m), NEW y \in Batches, BatchApplyItem(y)
        PROVE  batches[x].asked[m] # Item(y)
    BY <1>2, <2>2 DEF ClaimsInv
  <2>3. CASE ~Claims(b, i) /\ ~Claims(c, j)
    <3>1. BatchApplyItem(b) /\ BatchApplyItem(c)
      BY <1>3, <1>5, <2>3
    <3>2. b = c
      BY <1>2, <1>5, <2>3, <3>1 DEF Claims
    <3> QED BY <1>3, <1>5, <2>3, <3>2
  <2> QED BY <1>3, <1>5, <2>1, <2>2, <2>3
<1> QED BY <1>4, <1>5 DEF ClaimsInv

(* Whatever batches and single aborts run together: what a batch reports as
   applied is aborted, and no shift is reported as applied twice. *)
THEOREM BatchesAreHonest == CallsSpec => []BatchOutcomeHonest
<1>1. CallsInit => TypeOK /\ CallsTypeOK /\ ClaimsInv
  BY TypeInit DEF CallsInit, CallsTypeOK, Call, Batch, ClaimsInv, Claims
<1>2. TypeOK /\ CallsTypeOK /\ ClaimsInv /\ [CallsNext]_allVars
        => TypeOK' /\ CallsTypeOK' /\ ClaimsInv'
  BY CallsStepIsFleetStep, TypeNext, CallsTypeNext, ClaimsNext
<1>3. CallsTypeOK /\ ClaimsInv => BatchOutcomeHonest
  <2> SUFFICES ASSUME CallsTypeOK, ClaimsInv, NEW b \in Batches, NEW c \in Batches,
                      batches[b] # Idle, batches[c] # Idle,
                      NEW i \in DOMAIN batches[b].outcome, NEW j \in DOMAIN batches[c].outcome,
                      batches[b].outcome[i], batches[c].outcome[j],
                      batches[b].asked[i] = batches[c].asked[j]
               PROVE  /\ batches[b].asked[i] \in DOMAIN assignments
                      /\ assignments[batches[b].asked[i]].status = "aborted"
                      /\ <<b, i>> = <<c, j>>
    BY DEF BatchOutcomeHonest
  <2>1. batches[b].outcome \in Seq(BOOLEAN) /\ batches[c].outcome \in Seq(BOOLEAN)
    BY DEF CallsTypeOK, Batch
  <2>2. i \in Nat /\ j \in Nat
    BY <2>1
  <2> QED BY <2>2 DEF ClaimsInv, Claims
<1> QED BY <1>1, <1>2, <1>3, PTL DEF CallsSpec
=============================================================================
