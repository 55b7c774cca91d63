--------------------------- MODULE PlatformProofs ---------------------------
(***************************************************************************)
(* Theorems about Platform: what is proved of the fleet and of the data    *)
(* loop holds of the two on one database, and what each promises the other *)
(* holds because of both.                                                  *)
(*                                                                         *)
(* Platform extends Fleet, so the lemmas of FleetProofs are at hand.  Those *)
(* of DataLoopProofs come by an instance of their own: LoopP is Loop with  *)
(* the theorems about it, and the first section says that its steps are    *)
(* those of Loop.                                                          *)
(***************************************************************************)
EXTENDS Platform, FleetProofs

LoopP == INSTANCE DataLoopProofs WITH
  DriveIds <- 1..MaxDrives,
  Moments <- 0..MaxTime,
  audit <- loopAudit,
  driveOperator <- [d \in DOMAIN drives |-> drives[d].operator]

-----------------------------------------------------------------------------
(* Loop and LoopP *)

(* The constants of Platform meet the assumptions of DataLoop. *)
LEMMA LoopAssumptions ==
  /\ FleetAdmins \cap SafetyOperators = {}
  /\ {MaxFrames, EscalationPage, MaxBatches, MaxDatasets} \subseteq Nat
  /\ 0 \in 0..MaxTime /\ 0..MaxTime \subseteq Nat
  /\ \A asked \in Requests :
       /\ DOMAIN asked = {"actor", "drive", "key", "quality", "intact"}
       /\ asked.actor \in LoopP!Operators
       /\ asked.key \in UploadKeys
       /\ asked.quality \in Seq(LoopP!Percent)
       /\ asked.intact \in BOOLEAN
  /\ \A asked \in Selections : asked \subseteq LoopP!FrameIds
  /\ Conclusions \subseteq LoopP!Dispositions
BY RolesDisjoint, BoundsAreNatural, LoopInputsTyped
   DEF Operators, LoopP!Operators, Loop!Percent, LoopP!Percent, Loop!FrameIds, LoopP!FrameIds,
       Loop!BatchIds, LoopP!BatchIds, Loop!Dispositions, LoopP!Dispositions

LEMMA SameUploadStep == \A u : Loop!UploadStep(u) <=> LoopP!UploadStep(u)
BY Zenon
   DEF Loop!Acceptable, LoopP!Acceptable, Loop!BatchByUploadKey, LoopP!BatchByUploadKey,
       Loop!BatchIds, LoopP!BatchIds, Loop!BeginUpload, LoopP!BeginUpload,
       Loop!CanUpload, LoopP!CanUpload, Loop!CommitUpload, LoopP!CommitUpload,
       Loop!FailUpload, LoopP!FailUpload, Loop!FreshId, LoopP!FreshId, Loop!Idle,
       LoopP!Idle, Loop!Insert, LoopP!Insert, Loop!Record, LoopP!Record,
       Loop!ReplyToUpload, LoopP!ReplyToUpload, Loop!UploadStep, LoopP!UploadStep,
       Loop!outside, LoopP!outside, Loop!tables, LoopP!tables

LEMMA SameBatchStep == \A actor : Loop!BatchStep(actor) <=> LoopP!BatchStep(actor)
BY Zenon
   DEF Loop!BatchIds, LoopP!BatchIds, Loop!BatchStep, LoopP!BatchStep,
       Loop!BatchTransitions, LoopP!BatchTransitions, Loop!Cardinality,
       LoopP!Cardinality, Loop!FramesByBatch, LoopP!FramesByBatch, Loop!FreshId,
       LoopP!FreshId, Loop!Insert, LoopP!Insert, Loop!Max, LoopP!Max,
       Loop!MinimumAcceptedQuality, LoopP!MinimumAcceptedQuality, Loop!OpenTicket,
       LoopP!OpenTicket, Loop!Operators, LoopP!Operators, Loop!Record, LoopP!Record,
       Loop!RejectBatch, LoopP!RejectBatch, Loop!SeverityForQuality,
       LoopP!SeverityForQuality, Loop!TicketIds, LoopP!TicketIds, Loop!TriageDeadline,
       LoopP!TriageDeadline, Loop!UpdateFrameStatus, LoopP!UpdateFrameStatus,
       Loop!ValidateBatch, LoopP!ValidateBatch, Loop!outside, LoopP!outside

LEMMA SameTriageStep == \A actor : Loop!TriageStep(actor) <=> LoopP!TriageStep(actor)
BY Zenon
   DEF Loop!AssignTicket, LoopP!AssignTicket, Loop!DisposeTicket, LoopP!DisposeTicket,
       Loop!DropQuarantinedFrames, LoopP!DropQuarantinedFrames, Loop!FramesByBatch,
       LoopP!FramesByBatch, Loop!Operators, LoopP!Operators, Loop!Pending,
       LoopP!Pending, Loop!Record, LoopP!Record, Loop!RequiresDatasetHold,
       LoopP!RequiresDatasetHold, Loop!StartInvestigation, LoopP!StartInvestigation,
       Loop!TicketIds, LoopP!TicketIds, Loop!TicketTransitions, LoopP!TicketTransitions,
       Loop!TriageStep, LoopP!TriageStep, Loop!UpdateFrameStatus,
       LoopP!UpdateFrameStatus, Loop!outside, LoopP!outside

LEMMA SameDatasetStep == \A actor : Loop!DatasetStep(actor) <=> LoopP!DatasetStep(actor)
BY Zenon
   DEF Loop!AddFrames, LoopP!AddFrames, Loop!BatchIds, LoopP!BatchIds, Loop!CanSeal,
       LoopP!CanSeal, Loop!Cardinality, LoopP!Cardinality, Loop!CreateDataset,
       LoopP!CreateDataset, Loop!DatasetIds, LoopP!DatasetIds, Loop!DatasetStep,
       LoopP!DatasetStep, Loop!DatasetTransitions, LoopP!DatasetTransitions,
       Loop!Eligible, LoopP!Eligible, Loop!FrameIds, LoopP!FrameIds, Loop!FreshId,
       LoopP!FreshId, Loop!Insert, LoopP!Insert, Loop!MaxMembersAdded,
       LoopP!MaxMembersAdded, Loop!MinimumAcceptedQuality, LoopP!MinimumAcceptedQuality,
       Loop!Mutable, LoopP!Mutable, Loop!Pending, LoopP!Pending, Loop!PendingByDrive,
       LoopP!PendingByDrive, Loop!Record, LoopP!Record, Loop!ReleaseDataset,
       LoopP!ReleaseDataset, Loop!RemoveFrame, LoopP!RemoveFrame, Loop!SealDataset,
       LoopP!SealDataset, Loop!SetMembers, LoopP!SetMembers, Loop!outside, LoopP!outside

LEMMA SameJobStep == Loop!JobStep <=> LoopP!JobStep
BY Zenon
   DEF Loop!ArchiveBatch, LoopP!ArchiveBatch, Loop!BatchIds, LoopP!BatchIds,
       Loop!BatchTransitions, LoopP!BatchTransitions, Loop!Cardinality,
       LoopP!Cardinality, Loop!DueBefore, LoopP!DueBefore, Loop!EscalateOverdueTriage,
       LoopP!EscalateOverdueTriage, Loop!FirstPage, LoopP!FirstPage, Loop!JobStep,
       LoopP!JobStep, Loop!Overdue, LoopP!Overdue, Loop!Pending, LoopP!Pending,
       Loop!PendingByDrive, LoopP!PendingByDrive, Loop!Record, LoopP!Record,
       Loop!outside, LoopP!outside

LEMMA SameDriveStarts == \A operator : Loop!DriveStarts(operator) <=> LoopP!DriveStarts(operator)
BY Zenon
   DEF Loop!DriveStarts, LoopP!DriveStarts, Loop!FreshId, LoopP!FreshId, Loop!Insert,
       LoopP!Insert, Loop!tables, LoopP!tables

LEMMA SameSpec ==
  /\ Loop!Init <=> LoopP!Init
  /\ Loop!Next <=> LoopP!Next
  /\ Loop!Restart <=> LoopP!Restart
  /\ Loop!Tick <=> LoopP!Tick
  /\ UNCHANGED Loop!vars <=> UNCHANGED LoopP!vars
<1>1. Loop!Restart <=> LoopP!Restart
  BY Zenon DEF Loop!Restart, LoopP!Restart, Loop!Idle, LoopP!Idle, Loop!tables, LoopP!tables,
               Loop!outside, LoopP!outside
<1>2. Loop!Tick <=> LoopP!Tick
  BY Zenon DEF Loop!Tick, LoopP!Tick, Loop!tables, LoopP!tables
<1>3. UNCHANGED Loop!vars <=> UNCHANGED LoopP!vars
  BY Zenon DEF Loop!vars, LoopP!vars, Loop!tables, LoopP!tables, Loop!outside, LoopP!outside
<1>4. Loop!Init <=> LoopP!Init
  BY Zenon DEF Loop!Init, LoopP!Init, Loop!EmptyTable, LoopP!EmptyTable, Loop!Idle, LoopP!Idle
<1>5. Loop!Next <=> LoopP!Next
  BY <1>1, <1>2, SameUploadStep, SameBatchStep, SameTriageStep, SameDatasetStep, SameJobStep,
     SameDriveStarts, Zenon
     DEF Loop!Next, LoopP!Next, Loop!Operators, LoopP!Operators
<1> QED BY <1>1, <1>2, <1>3, <1>4, <1>5

-----------------------------------------------------------------------------
(* Every step is a step of the fleet and a step of the data loop. *)

LEMMA PlatformStepsFleet ==
  ASSUME TypeOK, [PlatformNext]_platformVars
  PROVE  [Next]_vars
<1>1. Undecided \in SUBSET DriveIds
  BY DEF Undecided, TypeOK, IsTable
<1>2. ASSUME NEW actor \in Operators, FleetStep(actor) PROVE Next
  BY <1>1, <1>2 DEF FleetStep, Next, SettlementStep
<1>3. ASSUME \/ UNCHANGED platformVars
             \/ \E actor \in Operators : LoopStep(actor)
             \/ ProcessStep
      PROVE  UNCHANGED vars
  BY <1>3 DEF platformVars, LoopStep, ProcessStep, vars
<1> QED BY <1>2, <1>3 DEF PlatformNext, Next

LEMMA PlatformTypeNext == TypeOK /\ [PlatformNext]_platformVars => TypeOK'
BY PlatformStepsFleet, TypeNext

(* The tables of the fleet on the shared database are those of the fleet alone: what
   is proved of Fleet holds of the platform. *)
THEOREM PlatformIsFleet == PlatformSpec => Spec
<1>1. PlatformInit => Init /\ TypeOK
  BY TypeInit DEF PlatformInit
<1>2. TypeOK /\ [PlatformNext]_platformVars => [Next]_vars
  BY PlatformStepsFleet
<1> QED BY <1>1, <1>2, PlatformTypeNext, PTL DEF PlatformSpec, Spec

(* Which operator drives: what the data loop reads of the fleet. *)
DriveOperator == [d \in DOMAIN drives |-> drives[d].operator]

(* The fleet only ever adds to it. *)
LEMMA OperatorsOfDrives ==
  ASSUME TypeOK, NEW actor \in Operators, FleetStep(actor)
  PROVE  \/ DriveOperator' = DriveOperator
         \/ \E d \in FreshId(drives, DriveIds), operator \in SafetyOperators :
              DriveOperator' = Insert(DriveOperator, d, operator)
<1>1. IsTable(drives, DriveIds, Drive)
  BY DEF TypeOK
<1>2. ASSUME \/ CampaignStep(actor)
             \/ \E key \in Keys, in \in Inputs : CreateAssignment(actor, key, in)
             \/ \E a \in AssignmentIds : AbortAssignment(actor, a)
             \/ \E a \in AssignmentIds : SettleAssignment(actor, a, Undecided)
             \/ \E s \in SettlementIds, hasNote \in BOOLEAN : ApproveSettlement(actor, s, hasNote)
             \/ \E t \in TakeoverIds : ResolveTakeover(actor, t)
      PROVE  DriveOperator' = DriveOperator
  <2>1. UNCHANGED drives
    BY <1>2 DEF CampaignStep, CreateCampaign, TransitionCampaign, RegisterVehicle,
                CreateAssignment, AbortAssignment, SettleAssignment, ApproveSettlement,
                ResolveTakeover
  <2> QED BY <2>1 DEF DriveOperator
<1>3. ASSUME NEW a \in AssignmentIds, StartDrive(actor, a)
      PROVE  \E d \in FreshId(drives, DriveIds) : DriveOperator' = Insert(DriveOperator, d, actor)
  <2>1. PICK row : row = [assignment |-> a, vehicle |-> assignments[a].vehicle,
                          operator |-> assignments[a].operator, status |-> "open",
                          autoKm |-> 0, manualKm |-> 0, takeoverCount |-> 0]
    OBVIOUS
  <2>2. row.operator = actor
    BY <1>3, <2>1 DEF StartDrive
  <2>3. PICK d \in FreshId(drives, DriveIds) : drives' = Insert(drives, d, row)
    BY <1>3, <2>1 DEF StartDrive
  <2>4. DriveOperator' = Insert(DriveOperator, d, actor)
    BY <2>2, <2>3 DEF Insert, DriveOperator
  <2> QED BY <2>4
<1>4. ASSUME \/ \E d \in DriveIds, km \in TelemetryKm : ReportMileage(actor, d, km)
             \/ \E d \in DriveIds, report \in TakeoverReports : ReportTakeover(actor, d, report)
             \/ \E d \in DriveIds : CloseDrive(actor, d)
      PROVE  DriveOperator' = DriveOperator
  <2> SUFFICES /\ DOMAIN drives' = DOMAIN drives
               /\ \A x \in DOMAIN drives : drives'[x].operator = drives[x].operator
    BY DEF DriveOperator
  <2>1. CASE \E d \in DriveIds, km \in TelemetryKm : ReportMileage(actor, d, km)
    <3>1. PICK d \in DriveIds, km \in TelemetryKm : ReportMileage(actor, d, km)
      BY <2>1
    <3>2. d \in DOMAIN drives /\ drives[d] \in Drive
      BY <1>1, <3>1 DEF ReportMileage, OwnsOpenDrive, IsTable
    <3> QED BY <3>1, <3>2 DEF ReportMileage, Drive
  <2>2. CASE \E d \in DriveIds, report \in TakeoverReports : ReportTakeover(actor, d, report)
    <3>1. PICK d \in DriveIds, report \in TakeoverReports : ReportTakeover(actor, d, report)
      BY <2>2
    <3>2. d \in DOMAIN drives /\ drives[d] \in Drive
      BY <1>1, <3>1 DEF ReportTakeover, OwnsOpenDrive, IsTable
    <3> QED BY <3>1, <3>2 DEF ReportTakeover, Drive
  <2>3. CASE \E d \in DriveIds : CloseDrive(actor, d)
    <3>1. PICK d \in DriveIds : CloseDrive(actor, d)
      BY <2>3
    <3>2. d \in DOMAIN drives /\ drives[d] \in Drive
      BY <1>1, <3>1 DEF CloseDrive, IsTable
    <3> QED BY <3>1, <3>2 DEF CloseDrive, Drive
  <2> QED BY <1>4, <2>1, <2>2, <2>3
<1> QED BY <1>2, <1>3, <1>4 DEF FleetStep, DriveStep, StartDrive

LEMMA PlatformStepsLoop ==
  ASSUME TypeOK, [PlatformNext]_platformVars
  PROVE  [LoopP!Next]_(LoopP!vars)
<1>1. ASSUME NEW actor \in Operators, FleetStep(actor)
      PROVE  UNCHANGED LoopP!vars \/ \E operator \in SafetyOperators : LoopP!DriveStarts(operator)
  <2>1. UNCHANGED loopTables
    BY <1>1 DEF FleetStep
  <2>2. UNCHANGED now
    BY <1>1 DEF FleetStep, CampaignStep, CreateCampaign, TransitionCampaign, RegisterVehicle,
                CreateAssignment, AbortAssignment, DriveStep, StartDrive, ReportMileage,
                ReportTakeover, ResolveTakeover, CloseDrive, SettleAssignment, ApproveSettlement
  <2>3. CASE DriveOperator' = DriveOperator
    BY <2>1, <2>2, <2>3
       DEF loopTables, DriveOperator, LoopP!vars, LoopP!tables, LoopP!outside
  <2>4. ASSUME NEW d \in FreshId(drives, DriveIds), NEW operator \in SafetyOperators,
               DriveOperator' = Insert(DriveOperator, d, operator)
        PROVE  LoopP!DriveStarts(operator)
    <3>1. d \in LoopP!FreshId(DriveOperator, 1..MaxDrives)
      BY DEF FreshId, LoopP!FreshId, DriveOperator, DriveIds
    <3>2. DriveOperator' = LoopP!Insert(DriveOperator, d, operator)
      BY <2>4 DEF Insert, LoopP!Insert
    <3> QED BY <2>1, <2>2, <3>1, <3>2
            DEF loopTables, DriveOperator, LoopP!DriveStarts, LoopP!tables
  <2> QED BY <1>1, <2>3, <2>4, OperatorsOfDrives
<1>2. ASSUME NEW actor \in Operators, LoopStep(actor)
      PROVE  LoopP!BatchStep(actor) \/ LoopP!TriageStep(actor) \/ LoopP!DatasetStep(actor)
  BY <1>2, SameBatchStep, SameTriageStep, SameDatasetStep DEF LoopStep
<1>3. ASSUME ProcessStep
      PROVE  (\E u \in Uploads : LoopP!UploadStep(u)) \/ LoopP!JobStep \/ LoopP!Restart
  BY <1>3, SameUploadStep, SameJobStep, SameSpec DEF ProcessStep
<1>4. ASSUME Tick, UNCHANGED loopTables
      PROVE  LoopP!Tick
  <2>1. \E moment \in 0..MaxTime : moment > now /\ now' = moment
    BY <1>4, BoundsAreNatural DEF Tick, TypeOK
  <2> QED BY <1>4, <2>1 DEF Tick, tables, loopTables, LoopP!Tick, LoopP!tables
<1>5. UNCHANGED platformVars => UNCHANGED LoopP!vars
  BY DEF platformVars, tables, loopTables, LoopP!vars, LoopP!tables, LoopP!outside
<1> QED BY <1>1, <1>2, <1>3, <1>4, <1>5
        DEF PlatformNext, LoopP!Next, LoopP!Operators, Operators

(* The tables of the data loop on the shared database, with the operators of the
   drives that the fleet starts, are those of the data loop alone. *)
LEMMA PlatformIsLoopP == PlatformSpec => LoopP!Spec
<1>1. PlatformInit => TypeOK /\ LoopP!Init
  BY TypeInit, SameSpec DEF PlatformInit
<1>2. TypeOK /\ [PlatformNext]_platformVars => [LoopP!Next]_(LoopP!vars)
  BY PlatformStepsLoop
<1> QED BY <1>1, <1>2, PlatformTypeNext, PTL DEF PlatformSpec, LoopP!Spec

THEOREM PlatformIsLoop == PlatformSpec => Loop!Spec
<1>1. LoopP!Init => Loop!Init
  BY SameSpec
<1>2. [LoopP!Next]_(LoopP!vars) => [Loop!Next]_(Loop!vars)
  BY SameSpec
<1> QED BY <1>1, <1>2, PlatformIsLoopP, PTL DEF LoopP!Spec, Loop!Spec

-----------------------------------------------------------------------------
(* What the two promise each other *)

(* The invariant of the platform: those of its parts. *)
PlatformInv ==
  /\ TypeOK
  /\ OneDrivePerStartedShift
  /\ LoopP!LoopTyped

LEMMA PlatformInvHolds == PlatformSpec => []PlatformInv
<1>1. LoopP!Spec => []LoopP!LoopTyped
  BY LoopAssumptions, LoopP!AlwaysTyped, PTL
<1> QED BY <1>1, PlatformIsFleet, PlatformIsLoopP, TypeCorrect, StartedShiftsHaveOneDrive, PTL
        DEF PlatformInv

(* Data comes from drives that took place: an upload names a session that exists, a
   session keeps its shift from being aborted, and neither is ever removed. *)
THEOREM DataIsFromDrives == PlatformSpec => []DataComesFromDrives
<1>1. PlatformInv => DataComesFromDrives
  <2> SUFFICES ASSUME PlatformInv PROVE DataComesFromDrives
    OBVIOUS
  <2>1. ASSUME NEW b \in DOMAIN batches
        PROVE  LET d == batches[b].drive
               IN  /\ d \in DOMAIN drives
                   /\ assignments[drives[d].assignment].status \in {"active", "completed"}
                   /\ assignments[drives[d].assignment].operator = drives[d].operator
    <3>1. batches[b].drive \in DOMAIN drives
      BY DEF PlatformInv, LoopP!LoopTyped, LoopP!LoopTypeOK
    <3>2. PICK d \in DOMAIN drives : d = batches[b].drive
      BY <3>1
    <3>3. /\ assignments[drives[d].assignment].status \in {"active", "completed"}
          /\ assignments[drives[d].assignment].operator = drives[d].operator
      BY DEF PlatformInv, OneDrivePerStartedShift
    <3> QED BY <3>2, <3>3
  <2>2. \A t \in DOMAIN tickets : tickets[t].drive = batches[tickets[t].batch].drive
    BY DEF PlatformInv, LoopP!LoopTyped, LoopP!ReferencesHold
  <2> QED BY <2>1, <2>2 DEF DataComesFromDrives
<1> QED BY <1>1, PlatformInvHolds, PTL

(* A shift is settled only when its session, which is never discarded, has no
   undecided ticket. *)
LEMMA SettledHasNoTicket ==
  ASSUME PlatformInv, [PlatformNext]_platformVars,
         NEW s \in DOMAIN settlements', s \notin DOMAIN settlements,
         NEW d \in DOMAIN drives, drives[d].assignment = settlements'[s].assignment
  PROVE  d \notin Undecided
<1>1. PICK actor \in Operators, a \in AssignmentIds : SettleAssignment(actor, a, Undecided)
  <2>1. ASSUME \/ UNCHANGED platformVars \/ ProcessStep \/ Tick
               \/ \E actor \in Operators : \/ LoopStep(actor)
                                           \/ CampaignStep(actor)
                                           \/ DriveStep(actor)
                                           \/ \E key \in Keys, in \in Inputs :
                                                CreateAssignment(actor, key, in)
                                           \/ \E a \in AssignmentIds : AbortAssignment(actor, a)
        PROVE  settlements' = settlements
    <3>1. CASE UNCHANGED platformVars \/ ProcessStep \/ Tick \/ \E actor \in Operators : LoopStep(actor)
      BY <3>1 DEF platformVars, tables, ProcessStep, Tick, LoopStep
    <3>2. CASE \E actor \in Operators : CampaignStep(actor)
      BY <3>2 DEF CampaignStep, CreateCampaign, TransitionCampaign, RegisterVehicle
    <3>3. CASE \E actor \in Operators : DriveStep(actor)
      BY <3>3 DEF DriveStep, StartDrive, ReportMileage, ReportTakeover, ResolveTakeover, CloseDrive
    <3>4. CASE \E actor \in Operators :
                 \/ \E key \in Keys, in \in Inputs : CreateAssignment(actor, key, in)
                 \/ \E a \in AssignmentIds : AbortAssignment(actor, a)
      BY <3>4 DEF CreateAssignment, AbortAssignment
    <3> QED BY <2>1, <3>1, <3>2, <3>3, <3>4
  <2>2. ASSUME NEW actor \in Operators, NEW x \in SettlementIds, NEW hasNote \in BOOLEAN,
               ApproveSettlement(actor, x, hasNote)
        PROVE  DOMAIN settlements' = DOMAIN settlements
    BY <2>2 DEF ApproveSettlement
  <2> QED BY <2>1, <2>2 DEF PlatformNext, FleetStep
<1> DEFINE sessions == {x \in DrivesByAssignment(a) : drives[x].status # "discarded"}
<1>2. PICK row : row = ComputedSettlement(a, sessions)
  OBVIOUS
<1>3. PICK x \in FreshId(settlements, SettlementIds) : settlements' = Insert(settlements, x, row)
  BY <1>1, <1>2 DEF SettleAssignment
<1>4. settlements'[s] = row
  BY <1>3 DEF Insert
<1>5. row.assignment = a
  BY <1>2 DEF ComputedSettlement
<1>6. drives[d].status # "discarded"
  BY DEF PlatformInv, OneDrivePerStartedShift
<1>7. d \in sessions
  BY <1>4, <1>5, <1>6 DEF DrivesByAssignment
<1>8. sessions \cap Undecided = {}
  BY <1>1 DEF SettleAssignment
<1> QED BY <1>7, <1>8

(* A data set becomes sealed only when no drive of its frames has one. *)
LEMMA SealedHasNoTicket ==
  ASSUME PlatformInv, [PlatformNext]_platformVars,
         NEW d \in DOMAIN datasets, ~Loop!Sealed(d), Loop!Sealed(d)', NEW f \in datasets[d].members
  PROVE  Loop!PendingByDrive(DriveOfFrame(f)) = {}
<1>1. LoopP!LoopTyped /\ [LoopP!Next]_(LoopP!vars)
  BY PlatformStepsLoop DEF PlatformInv
<1>2. ~LoopP!Sealed(d) /\ LoopP!Sealed(d)'
  BY DEF Loop!Sealed, LoopP!Sealed
<1>3. LoopP!DatasetSealed(d)
  BY <1>1, <1>2, LoopAssumptions, LoopP!BecomesSealed
<1>4. LoopP!PendingByDrive(batches[f[1]].drive) = {}
  BY <1>3 DEF LoopP!DatasetSealed, LoopP!CanSeal
<1> QED BY <1>4 DEF DriveOfFrame, Loop!PendingByDrive, LoopP!PendingByDrive, Loop!Pending,
                    LoopP!Pending

(* Undecided tickets block the settlement of mileage and the sealing of data sets. *)
THEOREM TicketsDoBlock == PlatformSpec => TicketsBlock
<1> DEFINE settled == {settlements'[s].assignment : s \in (DOMAIN settlements)' \ DOMAIN settlements}
           sealed  == {d \in DOMAIN datasets : ~Loop!Sealed(d) /\ Loop!Sealed(d)'}
           blocked == {d \in DOMAIN drives : drives[d].assignment \in settled}
                        \cup {DriveOfFrame(f) : f \in UNION {datasets[d].members : d \in sealed}}
           Blocks  == \A t \in DOMAIN tickets :
                        tickets[t].drive \in blocked =>
                          tickets[t].status \notin {"open", "investigating"}
<1>1. ASSUME PlatformInv, [PlatformNext]_platformVars, NEW t \in DOMAIN tickets,
             tickets[t].drive \in blocked, tickets[t].status \in {"open", "investigating"}
      PROVE  FALSE
  <2>1. t \in Loop!PendingByDrive(tickets[t].drive)
    BY <1>1 DEF Loop!PendingByDrive, Loop!Pending
  <2>2. ASSUME NEW d \in DOMAIN drives, tickets[t].drive = d, drives[d].assignment \in settled
        PROVE  FALSE
    <3>1. PICK s \in DOMAIN settlements' :
            s \notin DOMAIN settlements /\ drives[d].assignment = settlements'[s].assignment
      BY <2>2
    <3>2. d \notin Undecided
      BY <1>1, <3>1, SettledHasNoTicket
    <3> QED BY <2>1, <2>2, <3>2 DEF Undecided
  <2>3. ASSUME NEW d \in sealed, NEW f \in datasets[d].members, tickets[t].drive = DriveOfFrame(f)
        PROVE  FALSE
    <3>1. Loop!PendingByDrive(DriveOfFrame(f)) = {}
      BY <1>1, <2>3, SealedHasNoTicket
    <3> QED BY <2>1, <2>3, <3>1
  <2> QED BY <1>1, <2>2, <2>3
<1>2. PlatformInv /\ [PlatformNext]_platformVars => Blocks
  BY <1>1
<1> QED BY <1>2, PlatformInvHolds, PTL DEF PlatformSpec, TicketsBlock
====
