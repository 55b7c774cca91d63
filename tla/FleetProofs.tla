---------------------------- MODULE FleetProofs ----------------------------
(***************************************************************************)
(* Theorems about Fleet, for every set of operators, keys and inputs and   *)
(* for every bound.                                                        *)
(***************************************************************************)
EXTENDS Fleet, TableProofs, FiniteSetTheorems

-----------------------------------------------------------------------------
(* Mileage *)

(* A deduction is a whole number of units. *)
LEMMA DeductionIsNatural ==
  ASSUME NEW critical \in Nat
  PROVE  Deduction(critical) \in Nat
BY HundredthIsPositive DEF Deduction, PenaltyPerCriticalEvent

(* What is beyond the hundredth below. *)
LEMMA OverBounds ==
  ASSUME NEW km \in Nat
  PROVE  km % Hundredth \in 0..(Hundredth - 1) /\ km % Hundredth <= km
BY HundredthIsPositive

(* Rounding adds at most half a hundredth. *)
LEMMA RoundedIsNear ==
  ASSUME NEW km \in Nat
  PROVE  Round2(km) \in Nat /\ 2 * Round2(km) <= 2 * km + Hundredth
BY HundredthIsPositive, OverBounds DEF Round2

(* No session bills more than its autonomous mileage and half a hundredth. *)
LEMMA BilledIsNear ==
  ASSUME NEW autoKm \in Nat, NEW critical \in Nat
  PROVE  2 * ComputeBillableKm(autoKm, critical) <= 2 * autoKm + Hundredth
<1> DEFINE rest == IF autoKm >= Deduction(critical) THEN autoKm - Deduction(critical) ELSE 0
<1>1. rest \in Nat /\ rest <= autoKm
  BY DeductionIsNatural
<1>2. ComputeBillableKm(autoKm, critical) = Round2(rest)
  BY DEF ComputeBillableKm
<1> HIDE DEF rest
<1>3. Round2(rest) \in Nat /\ 2 * Round2(rest) <= 2 * rest + Hundredth
  BY <1>1, RoundedIsNear
<1> QED BY <1>1, <1>2, <1>3, HundredthIsPositive

-----------------------------------------------------------------------------
(* Type correctness *)

(* CommitKm changes one campaign, whose row stays typed. *)
LEMMA CommitKmTyped ==
  ASSUME IsTable(campaigns, CampaignIds, Campaign), NEW c \in DOMAIN campaigns,
         NEW deltaKm \in Int, CommitKm(c, deltaKm)
  PROVE  IsTable(campaigns', CampaignIds, Campaign)
<1>1. campaigns[c] \in Campaign
  BY DEF IsTable
<1>2. [campaigns[c] EXCEPT !.committedKm = @ + deltaKm] \in Campaign
  BY <1>1 DEF Campaign
<1>3. campaigns' = [campaigns EXCEPT ![c] = [campaigns[c] EXCEPT !.committedKm = @ + deltaKm]]
  BY DEF CommitKm
<1> QED BY <1>2, <1>3, UpdateTyped

(* There are finitely many ids. *)
LEMMA IdsFinite ==
  /\ IsFiniteSet(AssignmentIds) /\ IsFiniteSet(DriveIds)
  /\ IsFiniteSet(TakeoverIds) /\ IsFiniteSet(SettlementIds)
<1>1. MaxAssignments \in Int /\ MaxDrives \in Int /\ MaxTakeovers \in Int
  BY BoundsAreNatural
<1> QED BY <1>1, FS_Interval DEF AssignmentIds, DriveIds, TakeoverIds, SettlementIds

(* The set of unresolved critical takeovers is finite, so its size is a number. *)
LEMMA CriticalEventsIsNatural ==
  ASSUME IsTable(takeovers, TakeoverIds, Takeover), NEW sessions
  PROVE  Cardinality(UNION {UnresolvedCritical(d) : d \in sessions}) \in Nat
<1>1. IsFiniteSet(TakeoverIds)
  BY IdsFinite
<1>2. UNION {UnresolvedCritical(d) : d \in sessions} \subseteq TakeoverIds
  BY DEF UnresolvedCritical, IsTable
<1> QED BY <1>1, <1>2, FS_Subset, FS_CardinalityType

(* A settlement that passes its validation is a row of the table. *)
LEMMA ComputedSettlementTyped ==
  ASSUME TypeOK, NEW a \in DOMAIN assignments, NEW sessions,
         SettlementValid(ComputedSettlement(a, sessions))
  PROVE  ComputedSettlement(a, sessions) \in Settlement
<1> DEFINE row == ComputedSettlement(a, sessions)
<1>1. assignments[a] \in Assignment /\ a \in AssignmentIds
  BY DEF TypeOK, IsTable
<1>2. row.criticalEvents \in Nat
  BY CriticalEventsIsNatural DEF TypeOK, ComputedSettlement
<1>3. /\ row = [campaign |-> assignments[a].campaign, assignment |-> a, status |-> "draft",
                autoKm |-> row.autoKm, manualKm |-> row.manualKm,
                billableKm |-> row.billableKm, penaltyKm |-> row.penaltyKm,
                criticalEvents |-> row.criticalEvents]
  BY DEF ComputedSettlement
<1>4. {row.autoKm, row.manualKm, row.billableKm, row.penaltyKm} \subseteq Nat
  BY DEF SettlementValid
<1> HIDE DEF row
<1>5. row \in Settlement
  BY <1>1, <1>2, <1>3, <1>4 DEF Settlement, Assignment, SettlementStatus
<1> QED BY <1>5 DEF row

(* Mileage adds up within the types. *)
LEMMA MoreManualKmTyped ==
  ASSUME NEW drive \in Drive, NEW km \in Nat
  PROVE  [drive EXCEPT !.manualKm = @ + km] \in Drive
BY DEF Drive

LEMMA MoreOdometerKmTyped ==
  ASSUME NEW vehicle \in Vehicle, NEW km \in Nat
  PROVE  [vehicle EXCEPT !.odometerKm = @ + km] \in Vehicle
BY DEF Vehicle

(* The initial tables are typed. *)
LEMMA TypeInit == Init => TypeOK
BY EmptyTableTyped DEF Init, TypeOK

(* Every step keeps every table typed. *)
LEMMA TypeNext == TypeOK /\ [Next]_vars => TypeOK'
<1> SUFFICES ASSUME TypeOK, [Next]_vars PROVE TypeOK'
  OBVIOUS
<1> USE DEF TypeOK
<1>1. ASSUME NEW actor \in Operators, NEW plan \in Plans, CreateCampaign(actor, plan)
      PROVE  TypeOK'
  <2>1. PICK c \in FreshId(campaigns, CampaignIds) :
          campaigns' = Insert(campaigns, c,
            [status |-> "draft", plannedKm |-> plan.plannedKm, committedKm |-> 0,
             window |-> plan.window])
    BY <1>1 DEF CreateCampaign
  <2>2. [status |-> "draft", plannedKm |-> plan.plannedKm, committedKm |-> 0,
         window |-> plan.window] \in Campaign
    BY InputsTyped DEF Campaign, CampaignStatus
  <2>3. IsTable(campaigns', CampaignIds, Campaign)
    BY <2>1, <2>2, InsertTyped, FreshIdIsFree
  <2> QED BY <1>1, <2>3 DEF CreateCampaign
<1>2. ASSUME NEW actor \in Operators, NEW c \in CampaignIds, NEW next \in CampaignStatus,
             TransitionCampaign(actor, c, next)
      PROVE  TypeOK'
  <2>1. [campaigns[c] EXCEPT !.status = next] \in Campaign
    BY <1>2 DEF TransitionCampaign, IsTable, Campaign
  <2>2. campaigns' = [campaigns EXCEPT ![c] = [campaigns[c] EXCEPT !.status = next]]
    BY <1>2 DEF TransitionCampaign
  <2>3. IsTable(campaigns', CampaignIds, Campaign)
    BY <2>1, <2>2, UpdateTyped
  <2> QED BY <1>2, <2>3 DEF TransitionCampaign
<1>3. ASSUME NEW actor \in Operators, RegisterVehicle(actor)
      PROVE  TypeOK'
  <2>1. [status |-> "idle", odometerKm |-> 0] \in Vehicle
    BY DEF Vehicle, VehicleStatus
  <2>2. PICK v \in FreshId(vehicles, VehicleIds) :
          vehicles' = Insert(vehicles, v, [status |-> "idle", odometerKm |-> 0])
    BY <1>3 DEF RegisterVehicle
  <2>3. IsTable(vehicles', VehicleIds, Vehicle)
    BY <2>1, <2>2, InsertTyped, FreshIdIsFree
  <2> QED BY <1>3, <2>3 DEF RegisterVehicle
<1>4. ASSUME NEW actor \in Operators, NEW key \in Keys, NEW in \in Inputs,
             CreateAssignment(actor, key, in)
      PROVE  TypeOK'
  <2>1. in \in ShiftInputs /\ in.campaign \in DOMAIN campaigns /\ in.vehicle \in DOMAIN vehicles
    BY <1>4, InputsTyped DEF CreateAssignment, CanCreateAssignment
  <2>2. IsTable(campaigns', CampaignIds, Campaign)
    <3>1. in.plannedKm \in Int
      BY <2>1 DEF ShiftInputs
    <3> QED BY <1>4, <2>1, <3>1, CommitKmTyped DEF CreateAssignment
  <2>3. IsTable(vehicles', VehicleIds, Vehicle)
    BY <1>4, <2>1 DEF CreateAssignment, IsTable, Vehicle, VehicleStatus
  <2>4. NewAssignment(key, in) \in Assignment
    BY <2>1 DEF NewAssignment, Assignment, AssignmentStatus, ShiftInputs
  <2>5. PICK a \in FreshId(assignments, AssignmentIds) :
          assignments' = Insert(assignments, a, NewAssignment(key, in))
    BY <1>4 DEF CreateAssignment
  <2>6. IsTable(assignments', AssignmentIds, Assignment)
    BY <2>4, <2>5, InsertTyped, FreshIdIsFree
  <2> QED BY <1>4, <2>2, <2>3, <2>6 DEF CreateAssignment
<1>5. ASSUME NEW actor \in Operators, NEW a \in AssignmentIds, AbortAssignment(actor, a)
      PROVE  TypeOK'
  <2>1. a \in DOMAIN assignments /\ assignments[a] \in Assignment
    BY <1>5 DEF AbortAssignment, CanAbortAssignment, IsTable
  <2>2. IsTable(assignments', AssignmentIds, Assignment)
    BY <1>5, <2>1 DEF AbortAssignment, IsTable, Assignment, AssignmentStatus
  <2>3. IsTable(vehicles', VehicleIds, Vehicle)
    BY <1>5 DEF AbortAssignment, ReleaseAssignmentResources, IsTable, Vehicle, VehicleStatus
  <2>4. campaigns' = [campaigns EXCEPT ![assignments[a].campaign] =
          [campaigns[assignments[a].campaign] EXCEPT
             !.committedKm = @ + (-assignments[a].plannedKm)]]
    BY <1>5 DEF AbortAssignment, ReleaseAssignmentResources, CommitKm
  <2>5. assignments[a].campaign \in DOMAIN campaigns =>
          [campaigns[assignments[a].campaign] EXCEPT
             !.committedKm = @ + (-assignments[a].plannedKm)] \in Campaign
    BY <2>1 DEF IsTable, Campaign, Assignment
  <2>6. IsTable(campaigns', CampaignIds, Campaign)
    BY <2>4, <2>5, UpdateTyped
  <2> QED BY <1>5, <2>2, <2>3, <2>6 DEF AbortAssignment
<1>6. ASSUME NEW actor \in Operators, NEW a \in AssignmentIds, StartDrive(actor, a)
      PROVE  TypeOK'
  <2>1. a \in DOMAIN assignments /\ assignments[a] \in Assignment
    BY <1>6 DEF StartDrive, IsTable
  <2>2. [assignment |-> a, vehicle |-> assignments[a].vehicle,
         operator |-> assignments[a].operator, status |-> "open",
         autoKm |-> 0, manualKm |-> 0, takeoverCount |-> 0] \in Drive
    BY <2>1 DEF Assignment, Drive, DriveStatus
  <2>3. IsTable(drives', DriveIds, Drive)
    <3>1. PICK d \in FreshId(drives, DriveIds) : drives' = Insert(drives, d,
            [assignment |-> a, vehicle |-> assignments[a].vehicle,
             operator |-> assignments[a].operator, status |-> "open",
             autoKm |-> 0, manualKm |-> 0, takeoverCount |-> 0])
      BY <1>6 DEF StartDrive
    <3> QED BY <2>2, <3>1, InsertTyped, FreshIdIsFree
  <2>4. IsTable(vehicles', VehicleIds, Vehicle)
    BY <1>6 DEF StartDrive, IsTable, Vehicle, VehicleStatus
  <2>5. IsTable(assignments', AssignmentIds, Assignment)
    BY <1>6, <2>1 DEF StartDrive, IsTable, Assignment, AssignmentStatus
  <2> QED BY <1>6, <2>3, <2>4, <2>5 DEF StartDrive
<1>7. ASSUME NEW actor \in Operators, NEW d \in DriveIds, NEW km \in TelemetryKm,
             ReportMileage(actor, d, km)
      PROVE  TypeOK'
  <2>1. d \in DOMAIN drives /\ drives[d] \in Drive
    BY <1>7 DEF ReportMileage, OwnsOpenDrive, IsTable
  <2>2. km[1] \in Nat /\ km[2] \in Nat
    BY InputsTyped
  <2>3. [drives[d] EXCEPT !.autoKm = @ + km[1], !.manualKm = @ + km[2]] \in Drive
    <3> DEFINE row == [drives[d] EXCEPT !.autoKm = @ + km[1]]
    <3>1. row \in Drive
      BY <2>1, <2>2 DEF Drive
    <3> QED BY <2>2, <3>1, MoreManualKmTyped
  <2>4. drives' = [drives EXCEPT ![d] =
          [drives[d] EXCEPT !.autoKm = @ + km[1], !.manualKm = @ + km[2]]]
    BY <1>7, <2>1 DEF ReportMileage, IsTable, Drive
  <2>5. IsTable(drives', DriveIds, Drive)
    BY <2>3, <2>4, UpdateTyped
  <2> QED BY <1>7, <2>5 DEF ReportMileage
<1>8. ASSUME NEW actor \in Operators, NEW d \in DriveIds, NEW report \in TakeoverReports,
             ReportTakeover(actor, d, report)
      PROVE  TypeOK'
  <2>1. d \in DOMAIN drives /\ drives[d] \in Drive
    BY <1>8 DEF ReportTakeover, OwnsOpenDrive, IsTable
  <2>2. report.manualKm \in Nat
    BY InputsTyped
  <2>3. [drive |-> d, category |-> report.category, severity |-> report.severity,
         resolved |-> FALSE] \in Takeover
    BY <1>8 DEF ReportTakeover, TakeoverValid, Takeover
  <2>4. IsTable(takeovers', TakeoverIds, Takeover)
    <3>1. PICK t \in FreshId(takeovers, TakeoverIds) : takeovers' = Insert(takeovers, t,
            [drive |-> d, category |-> report.category, severity |-> report.severity,
             resolved |-> FALSE])
      BY <1>8 DEF ReportTakeover
    <3> QED BY <2>3, <3>1, InsertTyped, FreshIdIsFree
  <2>5. [drives[d] EXCEPT !.takeoverCount = @ + 1, !.manualKm = @ + report.manualKm] \in Drive
    <3> DEFINE row == [drives[d] EXCEPT !.takeoverCount = @ + 1]
    <3>1. row \in Drive
      BY <2>1 DEF Drive
    <3> QED BY <2>2, <3>1, MoreManualKmTyped
  <2>6. drives' = [drives EXCEPT ![d] =
          [drives[d] EXCEPT !.takeoverCount = @ + 1, !.manualKm = @ + report.manualKm]]
    BY <1>8, <2>1 DEF ReportTakeover, IsTable, Drive
  <2>7. IsTable(drives', DriveIds, Drive)
    BY <2>5, <2>6, UpdateTyped
  <2> QED BY <1>8, <2>4, <2>7 DEF ReportTakeover
<1>9. ASSUME NEW actor \in Operators, NEW t \in TakeoverIds, ResolveTakeover(actor, t)
      PROVE  TypeOK'
  <2>1. IsTable(takeovers', TakeoverIds, Takeover)
    BY <1>9 DEF ResolveTakeover, IsTable, Takeover
  <2> QED BY <1>9, <2>1 DEF ResolveTakeover
<1>10. ASSUME NEW actor \in Operators, NEW d \in DriveIds, CloseDrive(actor, d)
       PROVE  TypeOK'
  <2>1. d \in DOMAIN drives /\ drives[d] \in Drive
    BY <1>10 DEF CloseDrive, IsTable
  <2>2. IsTable(drives', DriveIds, Drive)
    BY <1>10, <2>1 DEF CloseDrive, IsTable, Drive, DriveStatus
  <2>3. IsTable(assignments', AssignmentIds, Assignment)
    <3> DEFINE a == drives[d].assignment
               shift == [assignments[a] EXCEPT !.status = "completed"]
    <3>1. a \in DOMAIN assignments => shift \in Assignment
      BY DEF IsTable, Assignment, AssignmentStatus
    <3>2. assignments' = [assignments EXCEPT ![a] = shift]
      BY <1>10 DEF CloseDrive
    <3> HIDE DEF shift
    <3> QED BY <3>1, <3>2, UpdateTyped
  <2>4. TotalKm(drives[d]) \in Nat
    BY <2>1 DEF TotalKm, Drive
  <2> DEFINE v == drives[d].vehicle
             row == [vehicles[v] EXCEPT !.status = "idle", !.odometerKm = @ + TotalKm(drives[d])]
  <2>5. v \in DOMAIN vehicles => row \in Vehicle
    <3> DEFINE parked == [vehicles[v] EXCEPT !.status = "idle"]
    <3>1. v \in DOMAIN vehicles => parked \in Vehicle
      BY DEF IsTable, Vehicle, VehicleStatus
    <3> QED BY <2>4, <3>1, MoreOdometerKmTyped
  <2>6. v \in DOMAIN vehicles => vehicles' = [vehicles EXCEPT ![v] = row]
    BY <1>10 DEF CloseDrive, IsTable, Vehicle
  <2>7. v \notin DOMAIN vehicles => vehicles' = vehicles
    BY <1>10 DEF CloseDrive, IsTable
  <2>8. IsTable(vehicles', VehicleIds, Vehicle)
    BY <2>5, <2>6, <2>7, UpdateTyped
  <2> QED BY <1>10, <2>2, <2>3, <2>8 DEF CloseDrive
<1>11. ASSUME NEW actor \in Operators, NEW a \in AssignmentIds, NEW undecided \in SUBSET DriveIds,
              SettleAssignment(actor, a, undecided)
       PROVE  TypeOK'
  <2> DEFINE sessions == {d \in DrivesByAssignment(a) : drives[d].status # "discarded"}
  <2>1. ComputedSettlement(a, sessions) \in Settlement
    BY <1>11, ComputedSettlementTyped DEF SettleAssignment
  <2>2. PICK s \in FreshId(settlements, SettlementIds) :
          settlements' = Insert(settlements, s, ComputedSettlement(a, sessions))
    BY <1>11 DEF SettleAssignment
  <2> HIDE DEF sessions
  <2>3. IsTable(settlements', SettlementIds, Settlement)
    BY <2>1, <2>2, InsertTyped, FreshIdIsFree
  <2> QED BY <1>11, <2>3 DEF SettleAssignment
<1>12. ASSUME NEW actor \in Operators, NEW s \in SettlementIds, NEW hasNote \in BOOLEAN,
              ApproveSettlement(actor, s, hasNote)
       PROVE  TypeOK'
  <2>1. IsTable(settlements', SettlementIds, Settlement)
    <3> DEFINE row == [settlements[s] EXCEPT !.status = "approved"]
    <3>1. s \in DOMAIN settlements => row \in Settlement
      BY DEF IsTable, Settlement, SettlementStatus
    <3>2. settlements' = [settlements EXCEPT ![s] = row]
      BY <1>12 DEF ApproveSettlement
    <3> HIDE DEF row
    <3> QED BY <3>1, <3>2, UpdateTyped
  <2> QED BY <1>12, <2>1 DEF ApproveSettlement
<1>13. CASE Tick
  BY <1>13 DEF Tick, tables
<1>14. CASE UNCHANGED vars
  BY <1>14 DEF vars, tables
<1> QED BY <1>1, <1>2, <1>3, <1>4, <1>5, <1>6, <1>7, <1>8, <1>9, <1>10, <1>11, <1>12, <1>13,
           <1>14 DEF Next, CampaignStep, DriveStep, SettlementStep

(* The tables hold rows of their types in every reachable state. *)
THEOREM TypeCorrect == Spec => []TypeOK
BY TypeInit, TypeNext, PTL DEF Spec

-----------------------------------------------------------------------------
(* Which handlers write which tables *)

(* Only these five handlers write a vehicle or a shift. *)
LEMMA VehiclesOrShiftsChange ==
  ASSUME Next
  PROVE  \/ UNCHANGED <<vehicles, assignments>>
         \/ \E actor \in Operators :
              \/ RegisterVehicle(actor)
              \/ \E key \in Keys, in \in Inputs : CreateAssignment(actor, key, in)
              \/ \E a \in AssignmentIds : AbortAssignment(actor, a) \/ StartDrive(actor, a)
              \/ \E d \in DriveIds : CloseDrive(actor, d)
<1>1. ASSUME NEW actor \in Operators,
             \/ \E plan \in Plans : CreateCampaign(actor, plan)
             \/ \E c \in CampaignIds, next \in CampaignStatus : TransitionCampaign(actor, c, next)
             \/ \E d \in DriveIds, km \in TelemetryKm : ReportMileage(actor, d, km)
             \/ \E d \in DriveIds, report \in TakeoverReports : ReportTakeover(actor, d, report)
             \/ \E t \in TakeoverIds : ResolveTakeover(actor, t)
             \/ SettlementStep(actor)
      PROVE  UNCHANGED <<vehicles, assignments>>
  BY <1>1 DEF CreateCampaign, TransitionCampaign, ReportMileage, ReportTakeover, ResolveTakeover,
              SettlementStep, SettleAssignment, ApproveSettlement
<1>2. CASE Tick
  BY <1>2 DEF Tick, tables
<1> QED BY <1>1, <1>2 DEF Next, CampaignStep, DriveStep

(* Only these six handlers write a drive session or a shift. *)
LEMMA DrivesOrShiftsChange ==
  ASSUME Next
  PROVE  \/ UNCHANGED <<drives, assignments>>
         \/ \E actor \in Operators :
              \/ \E key \in Keys, in \in Inputs : CreateAssignment(actor, key, in)
              \/ \E a \in AssignmentIds : AbortAssignment(actor, a) \/ StartDrive(actor, a)
              \/ \E d \in DriveIds, km \in TelemetryKm : ReportMileage(actor, d, km)
              \/ \E d \in DriveIds, report \in TakeoverReports : ReportTakeover(actor, d, report)
              \/ \E d \in DriveIds : CloseDrive(actor, d)
<1>1. ASSUME NEW actor \in Operators,
             \/ CampaignStep(actor)
             \/ \E t \in TakeoverIds : ResolveTakeover(actor, t)
             \/ SettlementStep(actor)
      PROVE  UNCHANGED <<drives, assignments>>
  BY <1>1 DEF CampaignStep, CreateCampaign, TransitionCampaign, RegisterVehicle, ResolveTakeover,
              SettlementStep, SettleAssignment, ApproveSettlement
<1>2. CASE Tick
  BY <1>2 DEF Tick, tables
<1> QED BY <1>1, <1>2 DEF Next, DriveStep

(* Only these two handlers write a settlement. *)
LEMMA SettlementsChange ==
  ASSUME Next
  PROVE  UNCHANGED settlements \/ \E actor \in Operators : SettlementStep(actor)
<1>1. ASSUME NEW actor \in Operators,
             \/ CampaignStep(actor)
             \/ \E key \in Keys, in \in Inputs : CreateAssignment(actor, key, in)
             \/ \E a \in AssignmentIds : AbortAssignment(actor, a)
             \/ DriveStep(actor)
      PROVE  UNCHANGED settlements
  BY <1>1 DEF CampaignStep, CreateCampaign, TransitionCampaign, RegisterVehicle, CreateAssignment,
              AbortAssignment, DriveStep, StartDrive, ReportMileage, ReportTakeover, ResolveTakeover,
              CloseDrive
<1>2. CASE Tick
  BY <1>2 DEF Tick, tables
<1> QED BY <1>1, <1>2 DEF Next

-----------------------------------------------------------------------------
(* A started shift has one drive session *)

(* No handler breaks it.  Aborting an active shift is what the last conjunct
   excludes: such a shift has a session, and the session is open. *)
LEMMA OneDriveNext ==
  TypeOK /\ OneDrivePerStartedShift /\ [Next]_vars => OneDrivePerStartedShift'
<1> SUFFICES ASSUME TypeOK, OneDrivePerStartedShift, [Next]_vars
             PROVE  OneDrivePerStartedShift'
  OBVIOUS
<1> USE DEF OneDrivePerStartedShift, DrivesByAssignment
<1>1. ASSUME NEW actor \in Operators, NEW key \in Keys, NEW in \in Inputs,
             CreateAssignment(actor, key, in)
      PROVE  OneDrivePerStartedShift'
  <2>1. PICK a \in FreshId(assignments, AssignmentIds) :
          assignments' = Insert(assignments, a, NewAssignment(key, in))
    BY <1>1 DEF CreateAssignment
  <2>2. a \notin DOMAIN assignments
    BY FreshIdIsFree
  <2>3. /\ DOMAIN assignments' = DOMAIN assignments \cup {a}
        /\ \A x \in DOMAIN assignments : assignments'[x] = assignments[x]
        /\ assignments'[a].status = "planned"
    BY <2>1, <2>2 DEF Insert, NewAssignment
  <2>4. drives' = drives
    BY <1>1 DEF CreateAssignment
  <2> QED BY <2>2, <2>3, <2>4
<1>2. ASSUME NEW actor \in Operators, NEW a \in AssignmentIds, AbortAssignment(actor, a)
      PROVE  OneDrivePerStartedShift'
  <2>1. a \in DOMAIN assignments /\ assignments[a].status \in {"planned", "active"}
    BY <1>2 DEF AbortAssignment, CanAbortAssignment, AssignmentTransitions
  <2>2. assignments[a].status = "planned"
    <3>1. SUFFICES ASSUME assignments[a].status = "active" PROVE FALSE
      BY <2>1
    <3>2. PICK d \in DOMAIN drives : drives[d].assignment = a
      BY <2>1, <3>1
    <3>3. drives[d].status = "open"
      BY <3>1, <3>2
    <3>4. d \in ActiveByAssignment(a)
      BY <3>2, <3>3 DEF ActiveByAssignment, Active
    <3> QED BY <1>2, <3>4 DEF AbortAssignment, CanAbortAssignment
  <2>3. \A d \in DOMAIN drives : drives[d].assignment # a
    BY <2>2
  <2>4. /\ DOMAIN assignments' = DOMAIN assignments
        /\ \A x \in DOMAIN assignments : x # a => assignments'[x] = assignments[x]
        /\ assignments'[a].status = "aborted"
    <3>1. assignments[a] \in Assignment
      BY <2>1 DEF TypeOK, IsTable
    <3>2. assignments' = [assignments EXCEPT ![a].status = "aborted"]
      BY <1>2 DEF AbortAssignment
    <3> QED BY <2>1, <3>1, <3>2 DEF Assignment
  <2>5. drives' = drives
    BY <1>2 DEF AbortAssignment
  <2> QED BY <2>3, <2>4, <2>5
<1>3. ASSUME NEW actor \in Operators, NEW a \in AssignmentIds, StartDrive(actor, a)
      PROVE  OneDrivePerStartedShift'
  <2>1. a \in DOMAIN assignments /\ assignments[a].status = "planned"
    BY <1>3 DEF StartDrive, EnsureStartable
  <2> DEFINE row == [assignment |-> a, vehicle |-> assignments[a].vehicle,
                     operator |-> assignments[a].operator, status |-> "open",
                     autoKm |-> 0, manualKm |-> 0, takeoverCount |-> 0]
  <2>2. PICK d \in FreshId(drives, DriveIds) : drives' = Insert(drives, d, row)
    BY <1>3 DEF StartDrive
  <2>3. d \notin DOMAIN drives
    BY FreshIdIsFree
  <2>4. /\ DOMAIN drives' = DOMAIN drives \cup {d}
        /\ \A x \in DOMAIN drives : drives'[x] = drives[x]
        /\ drives'[d] = row
    BY <2>2, <2>3 DEF Insert
  <2>5. /\ DOMAIN assignments' = DOMAIN assignments
        /\ \A x \in DOMAIN assignments : x # a => assignments'[x] = assignments[x]
        /\ assignments'[a].status = "active"
        /\ assignments'[a].vehicle = assignments[a].vehicle
        /\ assignments'[a].operator = assignments[a].operator
    <3>1. assignments[a] \in Assignment
      BY <2>1 DEF TypeOK, IsTable
    <3>2. assignments' = [assignments EXCEPT ![a].status = "active"]
      BY <1>3 DEF StartDrive
    <3>3. assignments'[a] = [assignments[a] EXCEPT !.status = "active"]
      BY <2>1, <3>2
    <3> QED BY <2>1, <3>1, <3>2, <3>3 DEF Assignment
  <2>6. \A x \in DOMAIN drives : drives[x].assignment # a
    BY <2>1
  <2> QED BY <2>1, <2>3, <2>4, <2>5, <2>6
<1>4. ASSUME NEW d \in DOMAIN drives,
             DOMAIN drives' = DOMAIN drives, assignments' = assignments,
             \A x \in DOMAIN drives : /\ drives'[x].assignment = drives[x].assignment
                                     /\ drives'[x].vehicle = drives[x].vehicle
                                     /\ drives'[x].operator = drives[x].operator
                                     /\ drives'[x].status = drives[x].status
      PROVE  OneDrivePerStartedShift'
  BY <1>4
<1>5. ASSUME NEW actor \in Operators, NEW d \in DriveIds, NEW km \in TelemetryKm,
             ReportMileage(actor, d, km)
      PROVE  OneDrivePerStartedShift'
  <2>1. d \in DOMAIN drives /\ drives[d] \in Drive
    BY <1>5 DEF ReportMileage, OwnsOpenDrive, TypeOK, IsTable
  <2>2. drives' = [drives EXCEPT ![d].autoKm = @ + km[1], ![d].manualKm = @ + km[2]]
    BY <1>5 DEF ReportMileage
  <2>3. assignments' = assignments
    BY <1>5 DEF ReportMileage
  <2> QED BY <1>4, <2>1, <2>2, <2>3 DEF Drive
<1>6. ASSUME NEW actor \in Operators, NEW d \in DriveIds, NEW report \in TakeoverReports,
             ReportTakeover(actor, d, report)
      PROVE  OneDrivePerStartedShift'
  <2>1. d \in DOMAIN drives /\ drives[d] \in Drive
    BY <1>6 DEF ReportTakeover, OwnsOpenDrive, TypeOK, IsTable
  <2>2. drives' = [drives EXCEPT ![d].takeoverCount = @ + 1, ![d].manualKm = @ + report.manualKm]
    BY <1>6 DEF ReportTakeover
  <2>3. assignments' = assignments
    BY <1>6 DEF ReportTakeover
  <2> QED BY <1>4, <2>1, <2>2, <2>3 DEF Drive
<1>7. ASSUME NEW actor \in Operators, NEW d \in DriveIds, CloseDrive(actor, d)
      PROVE  OneDrivePerStartedShift'
  <2> DEFINE a == drives[d].assignment
  <2>1. d \in DOMAIN drives /\ a \in DOMAIN assignments
    BY <1>7 DEF CloseDrive
  <2>2. /\ DOMAIN drives' = DOMAIN drives
        /\ \A x \in DOMAIN drives : x # d => drives'[x] = drives[x]
        /\ drives'[d].status = "closed"
        /\ drives'[d].assignment = a
        /\ drives'[d].vehicle = drives[d].vehicle
        /\ drives'[d].operator = drives[d].operator
    <3>1. drives[d] \in Drive
      BY <2>1 DEF TypeOK, IsTable
    <3>2. drives' = [drives EXCEPT ![d].status = "closed"]
      BY <1>7 DEF CloseDrive
    <3>3. drives'[d] = [drives[d] EXCEPT !.status = "closed"]
      BY <2>1, <3>2
    <3> QED BY <3>1, <3>2, <3>3 DEF Drive
  <2>3. /\ DOMAIN assignments' = DOMAIN assignments
        /\ \A x \in DOMAIN assignments : x # a => assignments'[x] = assignments[x]
        /\ assignments'[a].status = "completed"
        /\ assignments'[a].vehicle = assignments[a].vehicle
        /\ assignments'[a].operator = assignments[a].operator
    <3>1. assignments[a] \in Assignment
      BY <2>1 DEF TypeOK, IsTable
    <3>2. assignments' = [assignments EXCEPT ![a].status = "completed"]
      BY <1>7 DEF CloseDrive
    <3>3. assignments'[a] = [assignments[a] EXCEPT !.status = "completed"]
      BY <2>1, <3>2
    <3> QED BY <2>1, <3>1, <3>2, <3>3 DEF Assignment
  <2>4. \A x \in DOMAIN drives : x # d => drives[x].assignment # a
    BY <2>1
  <2> QED BY <2>1, <2>2, <2>3, <2>4
<1>8. CASE UNCHANGED <<drives, assignments>>
  BY <1>8
<1> QED BY <1>1, <1>2, <1>3, <1>5, <1>6, <1>7, <1>8, DrivesOrShiftsChange DEF vars, tables

(* Every shift that was started has exactly one drive session, in the state, on
   the vehicle and with the operator of the shift. *)
THEOREM StartedShiftsHaveOneDrive == Spec => []OneDrivePerStartedShift
<1>1. Init => OneDrivePerStartedShift
  BY DEF Init, EmptyTable, OneDrivePerStartedShift
<1> QED BY <1>1, TypeInit, TypeNext, OneDriveNext, PTL DEF Spec

-----------------------------------------------------------------------------
(* A vehicle is held by one shift *)

(* The rows of the open shifts of a vehicle decide its status, so two equal sets
   of open shifts with equal rows allow the same status.  A step that writes one
   vehicle v and one shift of it leaves every other vehicle as it was. *)
LEMMA HoldNext ==
  TypeOK /\ VehicleHeldByOneShift /\ OneDrivePerStartedShift /\ [Next]_vars
    => VehicleHeldByOneShift'
<1> SUFFICES ASSUME TypeOK, VehicleHeldByOneShift, OneDrivePerStartedShift, [Next]_vars
             PROVE  VehicleHeldByOneShift'
  OBVIOUS
<1> USE DEF VehicleHeldByOneShift, OpenForVehicle, Open
<1>1. ASSUME NEW actor \in Operators, RegisterVehicle(actor)
      PROVE  VehicleHeldByOneShift'
  <2>1. PICK v \in FreshId(vehicles, VehicleIds) :
          vehicles' = Insert(vehicles, v, [status |-> "idle", odometerKm |-> 0])
    BY <1>1 DEF RegisterVehicle
  <2>2. v \notin DOMAIN vehicles
    BY FreshIdIsFree
  <2>3. /\ DOMAIN vehicles' = DOMAIN vehicles \cup {v}
        /\ \A x \in DOMAIN vehicles : vehicles'[x] = vehicles[x]
        /\ vehicles'[v].status = "idle"
    BY <2>1, <2>2 DEF Insert
  <2>4. assignments' = assignments
    BY <1>1 DEF RegisterVehicle
  <2>5. \A a \in DOMAIN assignments : assignments[a].vehicle # v
    BY <2>2
  <2> QED BY <2>3, <2>4, <2>5
<1>2. ASSUME NEW actor \in Operators, NEW key \in Keys, NEW in \in Inputs,
             CreateAssignment(actor, key, in)
      PROVE  VehicleHeldByOneShift'
  <2>1. PICK a \in FreshId(assignments, AssignmentIds) :
          assignments' = Insert(assignments, a, NewAssignment(key, in))
    BY <1>2 DEF CreateAssignment
  <2>2. a \notin DOMAIN assignments
    BY FreshIdIsFree
  <2>3. /\ DOMAIN assignments' = DOMAIN assignments \cup {a}
        /\ \A x \in DOMAIN assignments : assignments'[x] = assignments[x]
        /\ assignments'[a].status = "planned"
        /\ assignments'[a].vehicle = in.vehicle
    BY <2>1, <2>2 DEF Insert, NewAssignment
  <2>4. in.vehicle \in DOMAIN vehicles /\ vehicles[in.vehicle].status = "idle"
    BY <1>2 DEF CreateAssignment, CanCreateAssignment
  <2>5. /\ DOMAIN vehicles' = DOMAIN vehicles
        /\ \A x \in DOMAIN vehicles : x # in.vehicle => vehicles'[x] = vehicles[x]
        /\ vehicles'[in.vehicle].status = "reserved"
    BY <1>2, <2>4 DEF CreateAssignment, TypeOK, IsTable, Vehicle
  <2>6. \A x \in DOMAIN assignments :
          assignments[x].vehicle = in.vehicle => assignments[x].status \notin {"planned", "active"}
    BY <2>4
  <2> QED BY <2>2, <2>3, <2>4, <2>5, <2>6
<1>3. ASSUME NEW a \in DOMAIN assignments, NEW after, NEW held,
             assignments[a].status \in {"planned", "active"},
             \/ after \in {"aborted", "completed"} /\ held = "idle"
             \/ after = "active" /\ held = "on_road",
             DOMAIN assignments' = DOMAIN assignments,
             \A x \in DOMAIN assignments : x # a => assignments'[x] = assignments[x],
             assignments'[a].status = after,
             assignments'[a].vehicle = assignments[a].vehicle,
             DOMAIN vehicles' = DOMAIN vehicles,
             \A x \in DOMAIN vehicles : x # assignments[a].vehicle => vehicles'[x] = vehicles[x],
             vehicles'[assignments[a].vehicle].status = held
      PROVE  VehicleHeldByOneShift'
  <2> DEFINE v == assignments[a].vehicle
  <2>1. v \in DOMAIN vehicles
    OBVIOUS
  <2>2. \A x \in DOMAIN assignments :
          x # a /\ assignments[x].vehicle = v => assignments[x].status \notin {"planned", "active"}
    BY <1>3, <2>1
  <2>3. \A x \in DOMAIN assignments' : assignments'[x].vehicle \in DOMAIN vehicles'
    BY <1>3
  <2>4. ASSUME NEW w \in DOMAIN vehicles', w # v
        PROVE  /\ OpenForVehicle(w)' = OpenForVehicle(w)
               /\ vehicles'[w] = vehicles[w]
               /\ \A x \in OpenForVehicle(w) : assignments'[x] = assignments[x]
    BY <1>3, <2>4
  <2>5. OpenForVehicle(v)' = IF after = "active" THEN {a} ELSE {}
    BY <1>3, <2>2
  <2> QED BY <1>3, <2>1, <2>3, <2>4, <2>5
<1>4. ASSUME NEW actor \in Operators, NEW a \in AssignmentIds, AbortAssignment(actor, a)
      PROVE  VehicleHeldByOneShift'
  <2>1. a \in DOMAIN assignments /\ assignments[a] \in Assignment
    BY <1>4 DEF AbortAssignment, CanAbortAssignment, TypeOK, IsTable
  <2>2. assignments[a].status \in {"planned", "active"}
    BY <1>4 DEF AbortAssignment, CanAbortAssignment, AssignmentTransitions
  <2>3. assignments' = [assignments EXCEPT ![a].status = "aborted"]
    BY <1>4 DEF AbortAssignment
  <2>4. vehicles' = [vehicles EXCEPT ![assignments[a].vehicle].status = "idle"]
    BY <1>4 DEF AbortAssignment, ReleaseAssignmentResources
  <2>5. assignments'[a].status = "aborted" /\ assignments'[a].vehicle = assignments[a].vehicle
    BY <2>1, <2>3 DEF Assignment
  <2>6. vehicles'[assignments[a].vehicle].status = "idle"
    BY <2>1, <2>4 DEF TypeOK, IsTable, Vehicle
  <2> QED BY <1>3, <2>1, <2>2, <2>3, <2>4, <2>5, <2>6
<1>5. ASSUME NEW actor \in Operators, NEW a \in AssignmentIds, StartDrive(actor, a)
      PROVE  VehicleHeldByOneShift'
  <2>1. a \in DOMAIN assignments /\ assignments[a] \in Assignment
    BY <1>5 DEF StartDrive, TypeOK, IsTable
  <2>2. assignments[a].status = "planned"
    BY <1>5 DEF StartDrive, EnsureStartable
  <2>3. assignments' = [assignments EXCEPT ![a].status = "active"]
    BY <1>5 DEF StartDrive
  <2>4. vehicles' = [vehicles EXCEPT ![assignments[a].vehicle].status = "on_road"]
    BY <1>5 DEF StartDrive
  <2>5. assignments'[a].status = "active" /\ assignments'[a].vehicle = assignments[a].vehicle
    BY <2>1, <2>3 DEF Assignment
  <2>6. vehicles'[assignments[a].vehicle].status = "on_road"
    BY <2>1, <2>4 DEF TypeOK, IsTable, Vehicle
  <2> QED BY <1>3, <2>1, <2>2, <2>3, <2>4, <2>5, <2>6
<1>6. ASSUME NEW actor \in Operators, NEW d \in DriveIds, CloseDrive(actor, d)
      PROVE  VehicleHeldByOneShift'
  <2> DEFINE a == drives[d].assignment
  <2>1. d \in DOMAIN drives /\ a \in DOMAIN assignments
    BY <1>6 DEF CloseDrive, OneDrivePerStartedShift
  <2>2. drives[d].vehicle = assignments[a].vehicle /\ assignments[a].status = "active"
    BY <1>6, <2>1 DEF CloseDrive, OneDrivePerStartedShift, DriveTransitions
  <2>3. assignments' = [assignments EXCEPT ![a].status = "completed"]
    BY <1>6 DEF CloseDrive
  <2>4. vehicles' = [vehicles EXCEPT ![assignments[a].vehicle].status = "idle",
                                     ![assignments[a].vehicle].odometerKm = @ + TotalKm(drives[d])]
    BY <1>6, <2>2 DEF CloseDrive
  <2>5. assignments'[a].status = "completed" /\ assignments'[a].vehicle = assignments[a].vehicle
    BY <2>1, <2>3 DEF TypeOK, IsTable, Assignment
  <2>6. vehicles'[assignments[a].vehicle].status = "idle"
    BY <2>1, <2>4 DEF TypeOK, IsTable, Vehicle
  <2>7. /\ DOMAIN assignments' = DOMAIN assignments
        /\ \A x \in DOMAIN assignments : x # a => assignments'[x] = assignments[x]
    BY <2>3
  <2>8. /\ DOMAIN vehicles' = DOMAIN vehicles
        /\ \A x \in DOMAIN vehicles : x # assignments[a].vehicle => vehicles'[x] = vehicles[x]
    BY <2>4
  <2> HIDE DEF a
  <2> QED BY <1>3, <2>1, <2>2, <2>5, <2>6, <2>7, <2>8
<1>7. CASE UNCHANGED <<vehicles, assignments>>
  BY <1>7
<1> QED BY <1>1, <1>2, <1>4, <1>5, <1>6, <1>7, VehiclesOrShiftsChange DEF vars, tables

(* In every reachable state a vehicle is idle, reserved or on the road exactly as
   its one open shift says. *)
THEOREM VehiclesAreHeldByOneShift == Spec => []VehicleHeldByOneShift
<1>1. Init => VehicleHeldByOneShift /\ OneDrivePerStartedShift
  BY DEF Init, EmptyTable, VehicleHeldByOneShift, OneDrivePerStartedShift
<1> QED BY <1>1, TypeInit, TypeNext, OneDriveNext, HoldNext, PTL DEF Spec

-----------------------------------------------------------------------------
(* How rows change *)

(* No handler removes a shift or changes more of it than its status, and the
   status moves along the state machine. *)
LEMMA ShiftsMoveForward ==
  ASSUME TypeOK, [Next]_vars, NEW a \in DOMAIN assignments
  PROVE  /\ a \in DOMAIN assignments'
         /\ assignments'[a].campaign = assignments[a].campaign
         /\ assignments'[a].vehicle = assignments[a].vehicle
         /\ assignments'[a].operator = assignments[a].operator
         /\ assignments'[a].plannedKm = assignments[a].plannedKm
         /\ assignments'[a].shift = assignments[a].shift
         /\ assignments'[a].key = assignments[a].key
         /\ \/ assignments'[a] = assignments[a]
            \/ <<assignments[a].status, assignments'[a].status>> \in AssignmentTransitions
<1>1. assignments[a] \in Assignment
  BY DEF TypeOK, IsTable
<1>2. ASSUME NEW actor \in Operators, NEW key \in Keys, NEW in \in Inputs,
             CreateAssignment(actor, key, in)
      PROVE  a \in DOMAIN assignments' /\ assignments'[a] = assignments[a]
  <2>1. PICK x \in FreshId(assignments, AssignmentIds) :
          assignments' = Insert(assignments, x, NewAssignment(key, in))
    BY <1>2 DEF CreateAssignment
  <2> QED BY <2>1, InsertKeepsRows
<1>3. ASSUME NEW x \in DOMAIN assignments, NEW status,
             <<assignments[x].status, status>> \in AssignmentTransitions,
             assignments' = [assignments EXCEPT ![x].status = status]
      PROVE  /\ a \in DOMAIN assignments'
             /\ assignments'[a].campaign = assignments[a].campaign
             /\ assignments'[a].vehicle = assignments[a].vehicle
             /\ assignments'[a].operator = assignments[a].operator
             /\ assignments'[a].plannedKm = assignments[a].plannedKm
             /\ assignments'[a].shift = assignments[a].shift
             /\ assignments'[a].key = assignments[a].key
             /\ \/ assignments'[a] = assignments[a]
                \/ <<assignments[a].status, assignments'[a].status>> \in AssignmentTransitions
  BY <1>1, <1>3 DEF Assignment
<1>4. ASSUME NEW actor \in Operators, NEW x \in AssignmentIds, AbortAssignment(actor, x)
      PROVE  /\ x \in DOMAIN assignments
             /\ <<assignments[x].status, "aborted">> \in AssignmentTransitions
             /\ assignments' = [assignments EXCEPT ![x].status = "aborted"]
  BY <1>4 DEF AbortAssignment, CanAbortAssignment
<1>5. ASSUME NEW actor \in Operators, NEW x \in AssignmentIds, StartDrive(actor, x)
      PROVE  /\ x \in DOMAIN assignments
             /\ <<assignments[x].status, "active">> \in AssignmentTransitions
             /\ assignments' = [assignments EXCEPT ![x].status = "active"]
  BY <1>5 DEF StartDrive, EnsureStartable, AssignmentTransitions
<1>6. ASSUME NEW actor \in Operators, NEW d \in DriveIds, CloseDrive(actor, d)
      PROVE  /\ <<assignments[drives[d].assignment].status, "completed">> \in AssignmentTransitions
             /\ assignments' = [assignments EXCEPT ![drives[d].assignment].status = "completed"]
  BY <1>6 DEF CloseDrive
<1>7. ASSUME NEW x, x \notin DOMAIN assignments, NEW status,
             assignments' = [assignments EXCEPT ![x].status = status]
      PROVE  a \in DOMAIN assignments' /\ assignments'[a] = assignments[a]
  BY <1>7
<1>8. CASE UNCHANGED <<vehicles, assignments>>
  BY <1>8
<1>9. ASSUME NEW actor \in Operators, RegisterVehicle(actor) PROVE assignments' = assignments
  BY <1>9 DEF RegisterVehicle
<1> QED BY <1>2, <1>3, <1>4, <1>5, <1>6, <1>7, <1>8, <1>9, VehiclesOrShiftsChange DEF vars, tables

(* A new shift comes from CreateAssignment. *)
LEMMA NewShiftIsCreated ==
  ASSUME [Next]_vars, NEW a \in DOMAIN assignments', a \notin DOMAIN assignments
  PROVE  \E actor \in Operators, key \in Keys, in \in Inputs :
           /\ CreateAssignment(actor, key, in)
           /\ assignments' = Insert(assignments, a, NewAssignment(key, in))
<1>1. ASSUME NEW actor \in Operators, NEW key \in Keys, NEW in \in Inputs,
             CreateAssignment(actor, key, in)
      PROVE  assignments' = Insert(assignments, a, NewAssignment(key, in))
  BY <1>1 DEF CreateAssignment, Insert
<1>2. ASSUME NEW actor \in Operators,
             \/ RegisterVehicle(actor)
             \/ \E x \in AssignmentIds : AbortAssignment(actor, x) \/ StartDrive(actor, x)
             \/ \E d \in DriveIds : CloseDrive(actor, d)
      PROVE  DOMAIN assignments' = DOMAIN assignments
  BY <1>2 DEF RegisterVehicle, AbortAssignment, StartDrive, CloseDrive
<1> QED BY <1>1, <1>2, VehiclesOrShiftsChange DEF vars, tables

(* No handler removes a campaign, and only TransitionCampaign changes its status:
   along the state machine, under the guards, and without another write. *)
LEMMA CampaignsMoveForward ==
  ASSUME TypeOK, [Next]_vars, NEW c \in DOMAIN campaigns
  PROVE  /\ c \in DOMAIN campaigns'
         /\ \/ campaigns'[c].status = campaigns[c].status
            \/ /\ <<campaigns[c].status, campaigns'[c].status>> \in CampaignTransitions
               /\ EnsureCampaignGuards(c, campaigns'[c].status)
               /\ UNCHANGED <<assignments, settlements>>
<1>1. \A x \in DOMAIN campaigns : campaigns[x] \in Campaign
  BY DEF TypeOK, IsTable
<1>2. ASSUME NEW actor \in Operators, NEW plan \in Plans, CreateCampaign(actor, plan)
      PROVE  c \in DOMAIN campaigns' /\ campaigns'[c].status = campaigns[c].status
  <2>1. PICK x \in FreshId(campaigns, CampaignIds) : campaigns' = Insert(campaigns, x,
          [status |-> "draft", plannedKm |-> plan.plannedKm, committedKm |-> 0,
           window |-> plan.window])
    BY <1>2 DEF CreateCampaign
  <2> QED BY <2>1, InsertKeepsRows
<1>3. ASSUME NEW actor \in Operators, NEW x \in CampaignIds, NEW next \in CampaignStatus,
             TransitionCampaign(actor, x, next)
      PROVE  /\ c \in DOMAIN campaigns'
             /\ \/ campaigns'[c].status = campaigns[c].status
                \/ /\ <<campaigns[c].status, campaigns'[c].status>> \in CampaignTransitions
                   /\ EnsureCampaignGuards(c, campaigns'[c].status)
                   /\ UNCHANGED <<assignments, settlements>>
  BY <1>1, <1>3 DEF TransitionCampaign, Campaign
<1>4. ASSUME NEW x, NEW deltaKm, CommitKm(x, deltaKm)
      PROVE  c \in DOMAIN campaigns' /\ campaigns'[c].status = campaigns[c].status
  BY <1>1, <1>4 DEF CommitKm, Campaign
<1>5. ASSUME NEW actor \in Operators, NEW key \in Keys, NEW in \in Inputs,
             CreateAssignment(actor, key, in)
      PROVE  c \in DOMAIN campaigns' /\ campaigns'[c].status = campaigns[c].status
  BY <1>4, <1>5 DEF CreateAssignment
<1>6. ASSUME NEW actor \in Operators, NEW a \in AssignmentIds, AbortAssignment(actor, a)
      PROVE  c \in DOMAIN campaigns' /\ campaigns'[c].status = campaigns[c].status
  BY <1>4, <1>6 DEF AbortAssignment, ReleaseAssignmentResources
<1>7. ASSUME NEW actor \in Operators,
             RegisterVehicle(actor) \/ DriveStep(actor) \/ SettlementStep(actor)
      PROVE  campaigns' = campaigns
  BY <1>7 DEF RegisterVehicle, DriveStep, StartDrive, ReportMileage, ReportTakeover, ResolveTakeover,
              CloseDrive, SettlementStep, SettleAssignment, ApproveSettlement
<1>8. CASE Tick \/ UNCHANGED vars
  BY <1>8 DEF Tick, tables, vars
<1> QED BY <1>2, <1>3, <1>5, <1>6, <1>7, <1>8 DEF Next, CampaignStep

(* The step adds settlement s, of shift a and its campaign. *)
SettlesShift(s, a) ==
  /\ DOMAIN settlements' = DOMAIN settlements \cup {s}
  /\ settlements'[s].assignment = a
  /\ settlements'[s].campaign = assignments[a].campaign

(* A new settlement comes from SettleAssignment. *)
LEMMA NewSettlementIsComputed ==
  ASSUME [Next]_vars, NEW s \in DOMAIN settlements', s \notin DOMAIN settlements
  PROVE  \E actor \in Operators, a \in AssignmentIds, undecided \in SUBSET DriveIds :
           /\ SettleAssignment(actor, a, undecided)
           /\ SettlesShift(s, a)
<1>1. ASSUME NEW actor \in Operators, NEW a \in AssignmentIds, NEW undecided \in SUBSET DriveIds,
             SettleAssignment(actor, a, undecided)
      PROVE  SettlesShift(s, a)
  <2> DEFINE row == ComputedSettlement(a, {d \in DrivesByAssignment(a) : drives[d].status # "discarded"})
  <2>1. row.assignment = a /\ row.campaign = assignments[a].campaign
    BY DEF ComputedSettlement
  <2>2. \E x \in FreshId(settlements, SettlementIds) : settlements' = Insert(settlements, x, row)
    BY <1>1 DEF SettleAssignment
  <2> HIDE DEF row
  <2>3. settlements' = Insert(settlements, s, row)
    BY <2>2 DEF Insert
  <2>4. DOMAIN settlements' = DOMAIN settlements \cup {s} /\ settlements'[s] = row
    BY <2>3 DEF Insert
  <2> QED BY <2>1, <2>4 DEF SettlesShift
<1>2. ASSUME NEW actor \in Operators, NEW x \in SettlementIds, NEW hasNote \in BOOLEAN,
             ApproveSettlement(actor, x, hasNote)
      PROVE  DOMAIN settlements' = DOMAIN settlements
  BY <1>2 DEF ApproveSettlement
<1>3. CASE UNCHANGED settlements
  BY <1>3
<1> QED BY <1>1, <1>2, <1>3, SettlementsChange DEF vars, tables, SettlementStep

(* No handler removes a settlement, moves it to another shift or changes what it
   states, and an approval is for ever. *)
LEMMA SettlementsMoveForward ==
  ASSUME TypeOK, [Next]_vars, NEW s \in DOMAIN settlements
  PROVE  /\ s \in DOMAIN settlements'
         /\ settlements'[s].assignment = settlements[s].assignment
         /\ settlements'[s].campaign = settlements[s].campaign
         /\ settlements'[s].autoKm = settlements[s].autoKm
         /\ settlements'[s].manualKm = settlements[s].manualKm
         /\ settlements'[s].billableKm = settlements[s].billableKm
         /\ settlements'[s].penaltyKm = settlements[s].penaltyKm
         /\ settlements'[s].criticalEvents = settlements[s].criticalEvents
         /\ settlements[s].status = "approved" => settlements'[s] = settlements[s]
<1>1. settlements[s] \in Settlement
  BY DEF TypeOK, IsTable
<1>2. ASSUME NEW actor \in Operators, NEW a \in AssignmentIds, NEW undecided \in SUBSET DriveIds,
             SettleAssignment(actor, a, undecided)
      PROVE  s \in DOMAIN settlements' /\ settlements'[s] = settlements[s]
  <2> DEFINE row == ComputedSettlement(a, {d \in DrivesByAssignment(a) : drives[d].status # "discarded"})
  <2>1. PICK x \in FreshId(settlements, SettlementIds) : settlements' = Insert(settlements, x, row)
    BY <1>2 DEF SettleAssignment
  <2> HIDE DEF row
  <2> QED BY <2>1, InsertKeepsRows
<1>3. ASSUME NEW actor \in Operators, NEW x \in SettlementIds, NEW hasNote \in BOOLEAN,
             ApproveSettlement(actor, x, hasNote)
      PROVE  /\ s \in DOMAIN settlements'
             /\ settlements'[s].assignment = settlements[s].assignment
             /\ settlements'[s].campaign = settlements[s].campaign
             /\ settlements'[s].autoKm = settlements[s].autoKm
             /\ settlements'[s].manualKm = settlements[s].manualKm
             /\ settlements'[s].billableKm = settlements[s].billableKm
             /\ settlements'[s].penaltyKm = settlements[s].penaltyKm
             /\ settlements'[s].criticalEvents = settlements[s].criticalEvents
             /\ settlements[s].status = "approved" => settlements'[s] = settlements[s]
  BY <1>1, <1>3 DEF ApproveSettlement, Settlement
<1>4. CASE UNCHANGED settlements
  BY <1>4
<1> QED BY <1>2, <1>3, <1>4, SettlementsChange DEF vars, tables, SettlementStep

-----------------------------------------------------------------------------
(* Campaigns and their shifts *)

(* A shift enters an open campaign, and a campaign leaves the open states only
   when none of its shifts is open. *)
LEMMA OpenShiftsNext ==
  TypeOK /\ OpenShiftsOnlyInOpenCampaigns /\ [Next]_vars => OpenShiftsOnlyInOpenCampaigns'
<1> SUFFICES ASSUME TypeOK, OpenShiftsOnlyInOpenCampaigns, [Next]_vars,
                    NEW a \in DOMAIN assignments'
             PROVE  /\ assignments'[a].campaign \in DOMAIN campaigns'
                    /\ Open(assignments'[a]) =>
                         EnsureAcceptsAssignments(campaigns'[assignments'[a].campaign])
                    /\ campaigns'[assignments'[a].campaign].status # "draft"
  BY DEF OpenShiftsOnlyInOpenCampaigns
<1> DEFINE c == assignments'[a].campaign
<1>1. CASE a \in DOMAIN assignments
  <2>1. /\ assignments[a].campaign = c
        /\ Open(assignments'[a]) => Open(assignments[a])
    BY <1>1, ShiftsMoveForward DEF Open, AssignmentTransitions
  <2>2. /\ c \in DOMAIN campaigns
        /\ campaigns[c].status # "draft"
        /\ Open(assignments[a]) => campaigns[c].status \in {"scheduled", "running"}
    BY <1>1, <2>1 DEF OpenShiftsOnlyInOpenCampaigns, EnsureAcceptsAssignments
  <2>3. CASE campaigns'[c].status = campaigns[c].status
    BY <2>1, <2>2, <2>3, CampaignsMoveForward DEF EnsureAcceptsAssignments
  <2>4. CASE campaigns'[c].status # campaigns[c].status
    <3>1. /\ <<campaigns[c].status, campaigns'[c].status>> \in CampaignTransitions
          /\ EnsureCampaignGuards(c, campaigns'[c].status)
          /\ assignments' = assignments
      BY <2>2, <2>4, CampaignsMoveForward
    <3>2. Open(assignments[a]) => campaigns'[c].status \notin {"settling", "closed", "cancelled"}
      BY <1>1, <2>1, <3>1 DEF EnsureCampaignGuards, OpenByCampaign
    <3> QED BY <2>1, <2>2, <3>1, <3>2, CampaignsMoveForward
            DEF CampaignTransitions, EnsureAcceptsAssignments
  <2> QED BY <2>3, <2>4
<1>2. CASE a \notin DOMAIN assignments
  <2>1. PICK actor \in Operators, key \in Keys, in \in Inputs :
          /\ CreateAssignment(actor, key, in)
          /\ assignments' = Insert(assignments, a, NewAssignment(key, in))
    BY <1>2, NewShiftIsCreated
  <2>2. c = in.campaign
    BY <2>1 DEF Insert, NewAssignment
  <2>3. c \in DOMAIN campaigns /\ campaigns[c].status \in {"scheduled", "running"}
    BY <2>1, <2>2 DEF CreateAssignment, CanCreateAssignment, EnsureAcceptsAssignments
  <2>4. assignments' # assignments
    BY <1>2
  <2> QED BY <2>3, <2>4, CampaignsMoveForward DEF EnsureAcceptsAssignments
<1> QED BY <1>1, <1>2

(* No campaign has an open shift once it settles, is closed or is cancelled. *)
THEOREM OpenShiftsAreInOpenCampaigns == Spec => []OpenShiftsOnlyInOpenCampaigns
<1>1. Init => OpenShiftsOnlyInOpenCampaigns
  BY DEF Init, EmptyTable, OpenShiftsOnlyInOpenCampaigns
<1> QED BY <1>1, TypeInit, TypeNext, OpenShiftsNext, PTL DEF Spec

(* No moment belongs to both windows. *)
Apart(a, b) ==
  \A moment \in a.start .. a.end - 1 : moment \notin b.start .. b.end - 1

(* Windows that do not overlap by their ends have no moment in common. *)
LEMMA WindowsApart ==
  ASSUME NEW a \in Windows, NEW b \in Windows, ~WindowsOverlap(a, b)
  PROVE  Apart(a, b)
<1>1. a.start \in Nat /\ a.end \in Nat /\ b.start \in Nat /\ b.end \in Nat
  BY DEF Windows
<1> QED BY <1>1 DEF WindowsOverlap, Apart

(* Adding a shift that overlaps no open shift of its operator keeps the operators
   free of overlaps; every other step only closes shifts. *)
LEMMA NoDoubleBookingNext ==
  TypeOK /\ NoOperatorDoubleBooked /\ [Next]_vars => NoOperatorDoubleBooked'
<1> SUFFICES ASSUME TypeOK, NoOperatorDoubleBooked, [Next]_vars,
                    NEW a \in DOMAIN assignments', NEW b \in DOMAIN assignments', a # b,
                    Open(assignments'[a]), Open(assignments'[b]),
                    assignments'[a].operator = assignments'[b].operator
             PROVE  Apart(assignments'[a].shift, assignments'[b].shift)
  BY DEF NoOperatorDoubleBooked, Apart
<1>1. \A x \in DOMAIN assignments :
        /\ assignments'[x].operator = assignments[x].operator
        /\ assignments'[x].shift = assignments[x].shift
        /\ Open(assignments'[x]) => Open(assignments[x])
  BY ShiftsMoveForward DEF Open, AssignmentTransitions
<1>2. ASSUME NEW x \in DOMAIN assignments', x \notin DOMAIN assignments,
             NEW y \in DOMAIN assignments', y # x, Open(assignments'[y]),
             assignments'[x].operator = assignments'[y].operator
      PROVE  Apart(assignments'[x].shift, assignments'[y].shift)
  <2>1. PICK actor \in Operators, key \in Keys, in \in Inputs :
          /\ CreateAssignment(actor, key, in)
          /\ assignments' = Insert(assignments, x, NewAssignment(key, in))
    BY <1>2, NewShiftIsCreated
  <2>2. /\ assignments'[x].operator = in.operator
        /\ assignments'[x].shift = in.shift
        /\ y \in DOMAIN assignments
        /\ in.shift \in Windows
        /\ assignments[y].shift \in Windows
    BY <1>2, <2>1, InputsTyped DEF Insert, NewAssignment, ShiftInputs, TypeOK, IsTable, Assignment
  <2>3. y \in OpenForOperator(in.operator)
    BY <1>1, <1>2, <2>2 DEF OpenForOperator
  <2>4. ~WindowsOverlap(in.shift, assignments[y].shift)
    BY <2>1, <2>3 DEF CreateAssignment, CanCreateAssignment, EnsureNoShiftOverlap
  <2> QED BY <1>1, <2>2, <2>4, WindowsApart
<1>3. CASE a \in DOMAIN assignments /\ b \in DOMAIN assignments
  BY <1>1, <1>3 DEF NoOperatorDoubleBooked, Apart
<1>4. Apart(assignments'[b].shift, assignments'[a].shift)
        => Apart(assignments'[a].shift, assignments'[b].shift)
  BY DEF Apart
<1> QED BY <1>2, <1>3, <1>4

(* No operator is ever booked twice for one instant. *)
THEOREM OperatorsAreNotDoubleBooked == Spec => []NoOperatorDoubleBooked
<1>1. Init => NoOperatorDoubleBooked
  BY DEF Init, EmptyTable, NoOperatorDoubleBooked
<1> QED BY <1>1, TypeInit, TypeNext, NoDoubleBookingNext, PTL DEF Spec

-----------------------------------------------------------------------------
(* Settlements *)

(* SettleAssignment is the only handler that adds a settlement, and a completed
   shift stays completed. *)
LEMMA OneSettlementNext ==
  TypeOK /\ OneSettlementPerCompletedShift /\ [Next]_vars => OneSettlementPerCompletedShift'
<1> SUFFICES ASSUME TypeOK, OneSettlementPerCompletedShift, [Next]_vars
             PROVE  OneSettlementPerCompletedShift'
  OBVIOUS
<1> DEFINE Settles(s, a) ==
      /\ a \in DOMAIN assignments'
      /\ assignments'[a].status = "completed"
      /\ assignments'[a].campaign = settlements'[s].campaign
<1>1. ASSUME NEW s \in DOMAIN settlements
      PROVE  /\ s \in DOMAIN settlements'
             /\ settlements'[s].assignment = settlements[s].assignment
             /\ Settles(s, settlements[s].assignment)
  <2>1. LET a == settlements[s].assignment
        IN  /\ a \in DOMAIN assignments
            /\ assignments[a].status = "completed"
            /\ assignments[a].campaign = settlements[s].campaign
    BY DEF OneSettlementPerCompletedShift
  <2> QED BY <2>1, SettlementsMoveForward, ShiftsMoveForward DEF AssignmentTransitions
<1>2. ASSUME NEW s \in DOMAIN settlements', s \notin DOMAIN settlements
      PROVE  /\ DOMAIN settlements' = DOMAIN settlements \cup {s}
             /\ \A x \in DOMAIN settlements : settlements[x].assignment # settlements'[s].assignment
             /\ Settles(s, settlements'[s].assignment)
  <2>1. PICK actor \in Operators, a \in AssignmentIds, undecided \in SUBSET DriveIds :
          /\ SettleAssignment(actor, a, undecided)
          /\ SettlesShift(s, a)
    BY <1>2, NewSettlementIsComputed
  <2>2. /\ a \in DOMAIN assignments
        /\ assignments[a].status = "completed"
        /\ SettlementsByAssignment(a) = {}
        /\ assignments' = assignments
    BY <2>1 DEF SettleAssignment
  <2> QED BY <2>1, <2>2 DEF SettlementsByAssignment, SettlesShift
<1>3. \A s, x \in DOMAIN settlements :
        settlements[s].assignment = settlements[x].assignment => s = x
  BY DEF OneSettlementPerCompletedShift, SettlementsByAssignment
<1>4. ASSUME NEW s \in DOMAIN settlements', NEW x \in DOMAIN settlements',
             settlements'[s].assignment = settlements'[x].assignment
      PROVE  s = x
  <2> HIDE DEF Settles
  <2>1. CASE s \in DOMAIN settlements /\ x \in DOMAIN settlements
    BY <1>1, <1>3, <1>4, <2>1
  <2>2. ASSUME NEW new \in DOMAIN settlements', new \notin DOMAIN settlements,
               NEW old \in DOMAIN settlements', old # new
        PROVE  settlements'[old].assignment # settlements'[new].assignment
    <3>1. old \in DOMAIN settlements
      BY <1>2, <2>2
    <3>2. settlements[old].assignment # settlements'[new].assignment
      BY <1>2, <2>2, <3>1
    <3> QED BY <1>1, <3>1, <3>2
  <2>3. CASE s \notin DOMAIN settlements \/ x \notin DOMAIN settlements
    BY <1>4, <2>2, <2>3
  <2> QED BY <2>1, <2>2, <2>3
<1>5. \A s \in DOMAIN settlements' : Settles(s, settlements'[s].assignment)
  BY <1>1, <1>2
<1> QED BY <1>4, <1>5 DEF OneSettlementPerCompletedShift, SettlementsByAssignment

(* A shift is settled at most once, after it was completed, for its campaign. *)
THEOREM ShiftsAreSettledOnce == Spec => []OneSettlementPerCompletedShift
<1>1. Init => OneSettlementPerCompletedShift
  BY DEF Init, EmptyTable, OneSettlementPerCompletedShift
<1> QED BY <1>1, TypeInit, TypeNext, OneSettlementNext, PTL DEF Spec

(* A campaign is closed only when its completed shifts have approved settlements;
   from then on none of its shifts is open (OpenShiftsOnlyInOpenCampaigns), so
   none can be completed later, and approvals and settlements stay. *)
LEMMA ClosedIsSettledNext ==
  /\ TypeOK /\ OpenShiftsOnlyInOpenCampaigns /\ OneSettlementPerCompletedShift
  /\ ClosedCampaignIsSettled /\ [Next]_vars
  => ClosedCampaignIsSettled'
<1> SUFFICES ASSUME TypeOK, OpenShiftsOnlyInOpenCampaigns, OneSettlementPerCompletedShift,
                    ClosedCampaignIsSettled, [Next]_vars,
                    NEW a \in DOMAIN assignments',
                    campaigns'[assignments'[a].campaign].status = "closed",
                    assignments'[a].status = "completed"
             PROVE  \E s \in DOMAIN settlements' :
                      /\ SettlementsByAssignment(a)' = {s}
                      /\ settlements'[s].status = "approved"
  BY DEF ClosedCampaignIsSettled
<1> DEFINE c == assignments'[a].campaign
<1>1. OneSettlementPerCompletedShift'
  BY OneSettlementNext
<1>2. SUFFICES \E s \in DOMAIN settlements :
                 settlements[s].assignment = a /\ settlements[s].status = "approved"
  <2>1. PICK s \in DOMAIN settlements :
               settlements[s].assignment = a /\ settlements[s].status = "approved"
    BY <1>2
  <2>2. /\ s \in DOMAIN settlements'
        /\ settlements'[s].assignment = a
        /\ settlements'[s].status = "approved"
    BY <2>1, SettlementsMoveForward
  <2> QED BY <1>1, <2>2 DEF OneSettlementPerCompletedShift
<1>3. a \in DOMAIN assignments
  <2>1. SUFFICES ASSUME a \notin DOMAIN assignments PROVE FALSE
    OBVIOUS
  <2>2. PICK actor \in Operators, key \in Keys, in \in Inputs :
          assignments' = Insert(assignments, a, NewAssignment(key, in))
    BY <2>1, NewShiftIsCreated
  <2> QED BY <2>2 DEF Insert, NewAssignment
<1>4. assignments[a].campaign = c /\ c \in DOMAIN campaigns
  BY <1>3, ShiftsMoveForward DEF OpenShiftsOnlyInOpenCampaigns
<1>5. CASE campaigns[c].status = "closed"
  <2>1. ~Open(assignments[a])
    BY <1>3, <1>4, <1>5 DEF OpenShiftsOnlyInOpenCampaigns, EnsureAcceptsAssignments
  <2>2. assignments[a].status = "completed"
    BY <1>3, <2>1, ShiftsMoveForward DEF Open, AssignmentTransitions
  <2> QED BY <1>3, <1>4, <1>5, <2>2 DEF ClosedCampaignIsSettled, SettlementsByAssignment
<1>6. CASE campaigns[c].status # "closed"
  <2>1. EnsureCampaignGuards(c, "closed") /\ assignments' = assignments
    BY <1>4, <1>6, CampaignsMoveForward
  <2>2. a \in CompletedByCampaign(c)
    BY <1>3, <1>4, <2>1 DEF CompletedByCampaign
  <2> QED BY <2>1, <2>2 DEF EnsureCampaignGuards, EnsureAllSettlementsApproved, SettlementsByCampaign
<1> QED BY <1>5, <1>6

(* In every reachable state the completed shifts of a closed campaign are settled
   and approved. *)
THEOREM ClosedCampaignsAreSettled == Spec => []ClosedCampaignIsSettled
<1>1. Init => /\ OpenShiftsOnlyInOpenCampaigns
              /\ OneSettlementPerCompletedShift
              /\ ClosedCampaignIsSettled
  BY DEF Init, EmptyTable, OpenShiftsOnlyInOpenCampaigns, OneSettlementPerCompletedShift,
         ClosedCampaignIsSettled
<1> QED BY <1>1, TypeInit, TypeNext, OpenShiftsNext, OneSettlementNext, ClosedIsSettledNext, PTL
        DEF Spec

(* What changes the commitment of a campaign goes through an open shift or an
   open campaign; what settles a shift of it is done before it is closed. *)
LEMMA BooksStep ==
  ASSUME TypeOK, OpenShiftsOnlyInOpenCampaigns, OneSettlementPerCompletedShift,
         ClosedCampaignIsSettled, [Next]_vars,
         NEW c \in DOMAIN campaigns, campaigns[c].status \in {"closed", "cancelled"}
  PROVE  /\ campaigns'[c] = campaigns[c]
         /\ \A a \in DOMAIN assignments :
              assignments[a].campaign = c => assignments'[a] = assignments[a]
         /\ campaigns[c].status = "closed" =>
              /\ SettlementsByCampaign(c)' = SettlementsByCampaign(c)
              /\ \A s \in SettlementsByCampaign(c) : settlements'[s] = settlements[s]
<1>1. \A a \in DOMAIN assignments :
        assignments[a].campaign = c => assignments[a].status \notin {"planned", "active"}
  BY DEF OpenShiftsOnlyInOpenCampaigns, Open, EnsureAcceptsAssignments
<1>2. \A a \in DOMAIN assignments :
        assignments[a].campaign = c => assignments'[a] = assignments[a]
  BY <1>1, ShiftsMoveForward DEF AssignmentTransitions
<1>3. campaigns'[c] = campaigns[c]
  <2>1. ASSUME NEW actor \in Operators, NEW plan \in Plans, CreateCampaign(actor, plan)
        PROVE  campaigns'[c] = campaigns[c]
    <3>1. PICK x \in FreshId(campaigns, CampaignIds) : campaigns' = Insert(campaigns, x,
            [status |-> "draft", plannedKm |-> plan.plannedKm, committedKm |-> 0,
             window |-> plan.window])
      BY <2>1 DEF CreateCampaign
    <3> QED BY <3>1, FreshIdIsFree DEF Insert
  <2>2. ASSUME NEW actor \in Operators, NEW x \in CampaignIds, NEW next \in CampaignStatus,
               TransitionCampaign(actor, x, next)
        PROVE  campaigns'[c] = campaigns[c]
    BY <2>2 DEF TransitionCampaign, CampaignTransitions
  <2>3. ASSUME NEW actor \in Operators, NEW key \in Keys, NEW in \in Inputs,
               CreateAssignment(actor, key, in)
        PROVE  campaigns'[c] = campaigns[c]
    BY <2>3 DEF CreateAssignment, CanCreateAssignment, EnsureAcceptsAssignments, CommitKm
  <2>4. ASSUME NEW actor \in Operators, NEW a \in AssignmentIds, AbortAssignment(actor, a)
        PROVE  campaigns'[c] = campaigns[c]
    BY <1>1, <2>4 DEF AbortAssignment, CanAbortAssignment, AssignmentTransitions,
                      ReleaseAssignmentResources, CommitKm
  <2>5. ASSUME NEW actor \in Operators,
               RegisterVehicle(actor) \/ DriveStep(actor) \/ SettlementStep(actor)
        PROVE  campaigns' = campaigns
    BY <2>5 DEF RegisterVehicle, DriveStep, StartDrive, ReportMileage, ReportTakeover,
                ResolveTakeover, CloseDrive, SettlementStep, SettleAssignment, ApproveSettlement
  <2>6. CASE Tick \/ UNCHANGED vars
    BY <2>6 DEF Tick, tables, vars
  <2> QED BY <2>1, <2>2, <2>3, <2>4, <2>5, <2>6 DEF Next, CampaignStep
<1>4. ASSUME campaigns[c].status = "closed", NEW s \in DOMAIN settlements', s \notin DOMAIN settlements
      PROVE  settlements'[s].campaign # c
  <2>1. PICK actor \in Operators, a \in AssignmentIds, undecided \in SUBSET DriveIds :
          /\ SettleAssignment(actor, a, undecided)
          /\ SettlesShift(s, a)
    BY <1>4, NewSettlementIsComputed
  <2>2. /\ a \in DOMAIN assignments
        /\ assignments[a].status = "completed"
        /\ SettlementsByAssignment(a) = {}
    BY <2>1 DEF SettleAssignment
  <2>3. assignments[a].campaign # c
    BY <1>4, <2>2 DEF ClosedCampaignIsSettled
  <2> QED BY <2>1, <2>3 DEF SettlesShift
<1>5. campaigns[c].status = "closed" => SettlementsByCampaign(c)' = SettlementsByCampaign(c)
  BY <1>4, SettlementsMoveForward DEF SettlementsByCampaign
<1>6. ASSUME campaigns[c].status = "closed", NEW s \in SettlementsByCampaign(c)
      PROVE  settlements'[s] = settlements[s]
  <2> PICK a : a = settlements[s].assignment
    OBVIOUS
  <2>1. /\ s \in DOMAIN settlements
        /\ SettlementsByAssignment(a) = {s}
        /\ a \in DOMAIN assignments
        /\ assignments[a].status = "completed"
        /\ assignments[a].campaign = c
    BY <1>6 DEF OneSettlementPerCompletedShift, SettlementsByCampaign
  <2>2. settlements[s].status = "approved"
    BY <1>6, <2>1 DEF ClosedCampaignIsSettled
  <2> QED BY <2>1, <2>2, SettlementsMoveForward
<1> QED BY <1>2, <1>3, <1>5, <1>6

(* No step changes the row or a shift of a campaign that is closed or cancelled, or
   the settlements of one that is closed. *)
THEOREM BooksAreFinal == Spec => BooksFinal
<1> DEFINE Inv == /\ TypeOK /\ OpenShiftsOnlyInOpenCampaigns
                  /\ OneSettlementPerCompletedShift /\ ClosedCampaignIsSettled
           Final == \A c \in DOMAIN campaigns :
                      /\ campaigns[c].status \in {"closed", "cancelled"} =>
                           /\ campaigns'[c] = campaigns[c]
                           /\ \A a \in DOMAIN assignments :
                                assignments[a].campaign = c => assignments'[a] = assignments[a]
                      /\ campaigns[c].status = "closed" =>
                           /\ SettlementsByCampaign(c)' = SettlementsByCampaign(c)
                           /\ \A s \in SettlementsByCampaign(c) :
                                settlements'[s] = settlements[s]
<1>1. Init => Inv
  BY TypeInit DEF Init, EmptyTable, OpenShiftsOnlyInOpenCampaigns, OneSettlementPerCompletedShift,
                  ClosedCampaignIsSettled
<1>2. Inv /\ [Next]_vars => Inv'
  BY TypeNext, OpenShiftsNext, OneSettlementNext, ClosedIsSettledNext
<1>3. Inv /\ [Next]_vars => [Final]_vars
  BY BooksStep
<1>4. BooksFinal <=> [][Final]_vars
  BY DEF BooksFinal
<1> HIDE DEF Inv, Final
<1> QED BY <1>1, <1>2, <1>3, <1>4, PTL DEF Spec

-----------------------------------------------------------------------------
(* Mileage *)

(* The plan of a shift never changes (ShiftsMoveForward), and ReportMileage, the
   only handler that adds autonomous mileage, checks a total that includes it. *)
LEMMA AutoKmNext ==
  TypeOK /\ OneDrivePerStartedShift /\ AutoKmWithinPlan /\ [Next]_vars => AutoKmWithinPlan'
<1> SUFFICES ASSUME TypeOK, OneDrivePerStartedShift, AutoKmWithinPlan, [Next]_vars
             PROVE  AutoKmWithinPlan'
  OBVIOUS
<1> DEFINE Planned(d) == assignments[drives[d].assignment].plannedKm
<1>1. \A d \in DOMAIN drives :
        /\ drives[d] \in Drive
        /\ drives[d].autoKm <= Planned(d)
        /\ Planned(d) \in Nat
        /\ drives[d].assignment \in DOMAIN assignments
  BY DEF TypeOK, IsTable, Assignment, AutoKmWithinPlan, OneDrivePerStartedShift
<1>2. \A d \in DOMAIN drives :
        assignments'[drives[d].assignment].plannedKm = Planned(d)
  BY <1>1, ShiftsMoveForward
<1>3. ASSUME NEW actor \in Operators, NEW key \in Keys, NEW in \in Inputs,
             CreateAssignment(actor, key, in)
      PROVE  drives' = drives
  BY <1>3 DEF CreateAssignment
<1>4. ASSUME NEW actor \in Operators, NEW a \in AssignmentIds, AbortAssignment(actor, a)
      PROVE  drives' = drives
  BY <1>4 DEF AbortAssignment
<1>5. ASSUME NEW actor \in Operators, NEW a \in AssignmentIds, StartDrive(actor, a)
      PROVE  AutoKmWithinPlan'
  <2>1. PICK d \in FreshId(drives, DriveIds) : drives' = Insert(drives, d,
          [assignment |-> a, vehicle |-> assignments[a].vehicle,
           operator |-> assignments[a].operator, status |-> "open",
           autoKm |-> 0, manualKm |-> 0, takeoverCount |-> 0])
    BY <1>5 DEF StartDrive
  <2>2. a \in DOMAIN assignments /\ assignments'[a].plannedKm \in Nat
    BY <1>5, ShiftsMoveForward DEF StartDrive, TypeOK, IsTable, Assignment
  <2>3. \A x \in DOMAIN drives : drives'[x] = drives[x]
    BY <2>1, FreshIdIsFree DEF Insert
  <2>4. drives'[d].assignment = a /\ drives'[d].autoKm = 0 /\ DOMAIN drives' = DOMAIN drives \cup {d}
    BY <2>1 DEF Insert
  <2> QED BY <1>1, <1>2, <2>2, <2>3, <2>4 DEF AutoKmWithinPlan
<1>6. ASSUME NEW actor \in Operators, NEW d \in DriveIds, NEW km \in TelemetryKm,
             ReportMileage(actor, d, km)
      PROVE  AutoKmWithinPlan'
  <2>1. d \in DOMAIN drives
    BY <1>6 DEF ReportMileage, OwnsOpenDrive
  <2>2. km[1] \in Nat /\ km[2] \in Nat
    BY InputsTyped
  <2>3. drives[d].autoKm + km[1] <= Planned(d)
    BY <1>1, <1>6, <2>1, <2>2 DEF ReportMileage, TotalKm, Drive
  <2>4. drives' = [drives EXCEPT ![d].autoKm = @ + km[1], ![d].manualKm = @ + km[2]]
    BY <1>6 DEF ReportMileage
  <2>5. /\ DOMAIN drives' = DOMAIN drives
        /\ \A x \in DOMAIN drives : x # d => drives'[x] = drives[x]
        /\ drives'[d].autoKm = drives[d].autoKm + km[1]
        /\ drives'[d].assignment = drives[d].assignment
    BY <1>1, <2>1, <2>4 DEF Drive
  <2> QED BY <1>1, <1>2, <2>1, <2>3, <2>5 DEF AutoKmWithinPlan
<1>7. ASSUME DOMAIN drives' = DOMAIN drives,
             \A x \in DOMAIN drives : /\ drives'[x].assignment = drives[x].assignment
                                     /\ drives'[x].autoKm = drives[x].autoKm
      PROVE  AutoKmWithinPlan'
  BY <1>1, <1>2, <1>7 DEF AutoKmWithinPlan
<1>8. ASSUME NEW actor \in Operators, NEW d \in DriveIds, NEW report \in TakeoverReports,
             ReportTakeover(actor, d, report)
      PROVE  AutoKmWithinPlan'
  <2>1. drives' = [drives EXCEPT ![d].takeoverCount = @ + 1, ![d].manualKm = @ + report.manualKm]
    BY <1>8 DEF ReportTakeover
  <2> QED BY <1>1, <1>7, <2>1 DEF Drive
<1>9. ASSUME NEW actor \in Operators, NEW d \in DriveIds, CloseDrive(actor, d)
      PROVE  AutoKmWithinPlan'
  <2>1. drives' = [drives EXCEPT ![d].status = "closed"]
    BY <1>9 DEF CloseDrive
  <2> QED BY <1>1, <1>7, <2>1 DEF Drive
<1>10. CASE UNCHANGED drives
  BY <1>7, <1>10
<1> QED BY <1>3, <1>4, <1>5, <1>6, <1>8, <1>9, <1>10, DrivesOrShiftsChange DEF vars, tables

(* A drive session never has more autonomous, that is billable, mileage than its
   shift planned. *)
THEOREM AutoKmIsWithinPlan == Spec => []AutoKmWithinPlan
<1>1. Init => OneDrivePerStartedShift /\ AutoKmWithinPlan
  BY DEF Init, EmptyTable, OneDrivePerStartedShift, AutoKmWithinPlan
<1> QED BY <1>1, TypeInit, TypeNext, OneDriveNext, AutoKmNext, PTL DEF Spec
-----------------------------------------------------------------------------
(* The chain implements the vehicle lease *)

(* What the lease of VehicleLease stands for. *)
Out(v) == v \in DOMAIN vehicles /\ vehicles[v].status = "on_road"

leases == [v \in VehicleIds |-> [by |-> OpenForVehicle(v), out |-> Out(v)]]

given == {a \in DOMAIN assignments : ~Open(assignments[a])}

(* The step writes no other vehicle and no shift of another vehicle. *)
OnlyLeaseOf(v) ==
  \A w \in VehicleIds \ {v} : OpenForVehicle(w)' = OpenForVehicle(w) /\ Out(w)' = Out(w)

(* A step that gives shift a of vehicle v another state, and no other row. *)
LEMMA OneShiftChanges ==
  ASSUME TypeOK, NEW a \in DOMAIN assignments, NEW status \in AssignmentStatus,
         assignments' = [assignments EXCEPT ![a].status = status],
         \A w \in VehicleIds \ {assignments[a].vehicle} : Out(w)' = Out(w)
  PROVE  /\ OnlyLeaseOf(assignments[a].vehicle)
         /\ DOMAIN assignments' = DOMAIN assignments
         /\ \A x \in DOMAIN assignments \ {a} : assignments'[x] = assignments[x]
         /\ assignments'[a].status = status
         /\ assignments'[a].vehicle = assignments[a].vehicle
<1>1. assignments[a] \in Assignment
  BY DEF TypeOK, IsTable
<1>2. /\ DOMAIN assignments' = DOMAIN assignments
      /\ \A x \in DOMAIN assignments \ {a} : assignments'[x] = assignments[x]
      /\ assignments'[a].status = status
      /\ assignments'[a].vehicle = assignments[a].vehicle
  BY <1>1 DEF Assignment
<1>3. OnlyLeaseOf(assignments[a].vehicle)
  BY <1>2 DEF OnlyLeaseOf, OpenForVehicle
<1> QED BY <1>2, <1>3

(* The lease changes at one vehicle only. *)
LEMMA LeaseOfOne ==
  ASSUME NEW v \in VehicleIds, OnlyLeaseOf(v)
  PROVE  leases' = [leases EXCEPT ![v] = [by |-> OpenForVehicle(v)', out |-> Out(v)']]
BY DEF leases, OnlyLeaseOf

(* Planning a shift takes a vehicle that no open shift holds. *)
LEMMA CreateReserves ==
  ASSUME TypeOK, VehicleHeldByOneShift,
         NEW actor \in Operators, NEW key \in Keys, NEW in \in Inputs,
         CreateAssignment(actor, key, in)
  PROVE  \E v \in VehicleIds, s \in AssignmentIds : Lease!Reserve(v, s)
<1> DEFINE v == in.vehicle
<1>1. PICK s \in FreshId(assignments, AssignmentIds) :
        assignments' = Insert(assignments, s, NewAssignment(key, in))
  BY DEF CreateAssignment
<1>2. s \in AssignmentIds /\ s \notin DOMAIN assignments
  BY FreshIdIsFree
<1>3. v \in VehicleIds /\ v \in DOMAIN vehicles /\ vehicles[v].status = "idle"
  BY DEF CreateAssignment, CanCreateAssignment, TypeOK, IsTable
<1>4. OpenForVehicle(v) = {} /\ Out(v) = FALSE
  BY <1>3 DEF VehicleHeldByOneShift, Out
<1>5. /\ DOMAIN assignments' = DOMAIN assignments \cup {s}
      /\ \A x \in DOMAIN assignments : assignments'[x] = assignments[x]
      /\ assignments'[s].vehicle = v
      /\ Open(assignments'[s])
  BY <1>1, <1>2 DEF Insert, NewAssignment, Open
<1>6. /\ DOMAIN vehicles' = DOMAIN vehicles
      /\ \A w \in DOMAIN vehicles \ {v} : vehicles'[w] = vehicles[w]
      /\ vehicles'[v].status = "reserved"
  BY <1>3 DEF CreateAssignment, TypeOK, IsTable, Vehicle
<1>7. OpenForVehicle(v)' = {s} /\ Out(v)' = FALSE
  BY <1>4, <1>5, <1>6 DEF OpenForVehicle, Out
<1>8. OnlyLeaseOf(v)
  BY <1>2, <1>5, <1>6 DEF OnlyLeaseOf, OpenForVehicle, Out
<1>9. leases' = [leases EXCEPT ![v] = [by |-> {s}, out |-> FALSE]]
  BY <1>3, <1>7, <1>8, LeaseOfOne
<1>10. leases[v] = [by |-> {}, out |-> FALSE]
  BY <1>3, <1>4 DEF leases
<1>11. given' = given /\ s \notin given
  BY <1>2, <1>5 DEF given
<1>12. \A w \in VehicleIds : s \notin leases[w].by
  BY <1>2 DEF leases, OpenForVehicle
<1>13. Lease!Reserve(v, s)
  BY <1>9, <1>10, <1>11, <1>12 DEF Lease!Reserve, Lease!Free, Lease!HeldBy, leases, given, Out
<1> QED BY <1>2, <1>3, <1>13

(* Starting the drive of a shift takes its vehicle out on the road. *)
LEMMA StartDrivesOff ==
  ASSUME TypeOK, VehicleHeldByOneShift,
         NEW actor \in Operators, NEW a \in AssignmentIds, StartDrive(actor, a)
  PROVE  \E v \in VehicleIds, s \in AssignmentIds : Lease!DriveOff(v, s)
<1> PICK v : v = assignments[a].vehicle
  OBVIOUS
<1>1. /\ a \in DOMAIN assignments
      /\ assignments[a].status = "planned"
      /\ assignments' = [assignments EXCEPT ![a].status = "active"]
      /\ vehicles' = [vehicles EXCEPT ![v].status = "on_road"]
  BY DEF StartDrive, EnsureStartable
<1>2. v \in VehicleIds /\ v \in DOMAIN vehicles
  BY <1>1 DEF TypeOK, IsTable, VehicleHeldByOneShift
<1>3. /\ DOMAIN vehicles' = DOMAIN vehicles
      /\ \A w \in DOMAIN vehicles \ {v} : vehicles'[w] = vehicles[w]
      /\ vehicles'[v].status = "on_road"
  BY <1>1, <1>2 DEF TypeOK, IsTable, Vehicle
<1>4. \A w \in VehicleIds \ {v} : Out(w)' = Out(w)
  BY <1>3 DEF Out
<1>5. /\ OnlyLeaseOf(v)
      /\ DOMAIN assignments' = DOMAIN assignments
      /\ \A x \in DOMAIN assignments \ {a} : assignments'[x] = assignments[x]
      /\ assignments'[a].status = "active"
      /\ assignments'[a].vehicle = v
  BY <1>1, <1>4, OneShiftChanges DEF AssignmentStatus
<1>6. OpenForVehicle(v) = {a}
  BY <1>1, <1>2 DEF VehicleHeldByOneShift, OpenForVehicle, Open
<1>7. vehicles[v].status # "on_road"
  BY <1>1, <1>2, <1>6 DEF VehicleHeldByOneShift
<1>8. Out(v) = FALSE /\ Out(v)' = TRUE
  BY <1>2, <1>3, <1>7 DEF Out
<1>9. OpenForVehicle(v)' = {a}
  BY <1>1, <1>5, <1>6 DEF OpenForVehicle, Open
<1>10. leases[v] = [by |-> {a}, out |-> FALSE]
  BY <1>2, <1>6, <1>8 DEF leases
<1>11. leases' = [leases EXCEPT ![v] = [by |-> {a}, out |-> TRUE]]
  BY <1>2, <1>5, <1>8, <1>9, LeaseOfOne
<1>12. leases' = [leases EXCEPT ![v].out = TRUE]
  <2>1. PICK by, was, out : by = {a} /\ was = FALSE /\ out = TRUE
    OBVIOUS
  <2>2. leases[v] = [by |-> by, out |-> was]
    BY <1>10, <2>1
  <2>3. [leases[v] EXCEPT !.out = out] = [by |-> by, out |-> out]
    BY <2>2
  <2>4. leases' = [leases EXCEPT ![v] = [by |-> by, out |-> out]]
    BY <1>11, <2>1
  <2>5. leases' = [leases EXCEPT ![v].out = out]
    BY <2>3, <2>4
  <2> QED BY <2>1, <2>5
<1>13. given' = given
  BY <1>1, <1>5 DEF given, Open
<1>14. Lease!DriveOff(v, a)
  BY <1>10, <1>12, <1>13 DEF Lease!DriveOff, Lease!HeldBy, leases, given, Out
<1> QED BY <1>2, <1>14

(* A shift that ends gives its vehicle back: what AbortAssignment and CloseDrive
   have in common. *)
LEMMA EndGivesBack ==
  ASSUME TypeOK, VehicleHeldByOneShift,
         NEW a \in DOMAIN assignments, Open(assignments[a]),
         NEW status \in {"aborted", "completed"},
         assignments' = [assignments EXCEPT ![a].status = status],
         DOMAIN vehicles' = DOMAIN vehicles,
         \A w \in DOMAIN vehicles \ {assignments[a].vehicle} : vehicles'[w] = vehicles[w],
         vehicles'[assignments[a].vehicle].status = "idle"
  PROVE  \E v \in VehicleIds, s \in AssignmentIds : Lease!GiveBack(v, s)
<1> PICK v : v = assignments[a].vehicle
  OBVIOUS
<1>1. a \in AssignmentIds /\ v \in VehicleIds /\ v \in DOMAIN vehicles
  BY DEF TypeOK, IsTable, VehicleHeldByOneShift
<1>2. \A w \in VehicleIds \ {v} : Out(w)' = Out(w)
  BY DEF Out
<1>3. /\ OnlyLeaseOf(v)
      /\ DOMAIN assignments' = DOMAIN assignments
      /\ \A x \in DOMAIN assignments \ {a} : assignments'[x] = assignments[x]
      /\ assignments'[a].status = status
      /\ assignments'[a].vehicle = v
  BY <1>2, OneShiftChanges DEF AssignmentStatus
<1>4. OpenForVehicle(v) = {a}
  BY <1>1 DEF VehicleHeldByOneShift, OpenForVehicle
<1>5. OpenForVehicle(v)' = {} /\ Out(v)' = FALSE
  BY <1>3, <1>4 DEF OpenForVehicle, Open, Out
<1>6. leases' = [leases EXCEPT ![v] = [by |-> {}, out |-> FALSE]]
  BY <1>1, <1>3, <1>5, LeaseOfOne
<1>7. leases[v].by = {a}
  BY <1>1, <1>4 DEF leases
<1>8. given' = given \cup {a}
  BY <1>3 DEF given, Open
<1>9. Lease!GiveBack(v, a)
  BY <1>6, <1>7, <1>8 DEF Lease!GiveBack, Lease!Free, leases, given, Out
<1> QED BY <1>1, <1>9

(* Every step of the chain is a step of the lease or leaves it as it was. *)
LEMMA LeaseNext ==
  ASSUME TypeOK, VehicleHeldByOneShift, OneDrivePerStartedShift, [Next]_vars
  PROVE  \/ \E v \in VehicleIds, s \in AssignmentIds :
              Lease!Reserve(v, s) \/ Lease!DriveOff(v, s) \/ Lease!GiveBack(v, s)
         \/ leases' = leases /\ given' = given
<1>1. ASSUME NEW actor \in Operators, RegisterVehicle(actor)
      PROVE  leases' = leases /\ given' = given
  <2>1. PICK v \in FreshId(vehicles, VehicleIds) :
          vehicles' = Insert(vehicles, v, [status |-> "idle", odometerKm |-> 0])
    BY <1>1 DEF RegisterVehicle
  <2>2. v \notin DOMAIN vehicles
    BY FreshIdIsFree
  <2>3. /\ DOMAIN vehicles' = DOMAIN vehicles \cup {v}
        /\ \A x \in DOMAIN vehicles : vehicles'[x] = vehicles[x]
        /\ vehicles'[v].status = "idle"
    BY <2>1, <2>2 DEF Insert
  <2>4. \A x \in VehicleIds : Out(x)' = Out(x)
    BY <2>2, <2>3 DEF Out
  <2>5. assignments' = assignments
    BY <1>1 DEF RegisterVehicle
  <2> QED BY <2>4, <2>5 DEF leases, given, OpenForVehicle
<1>2. ASSUME NEW actor \in Operators, NEW a \in AssignmentIds, AbortAssignment(actor, a)
      PROVE  \E v \in VehicleIds, s \in AssignmentIds : Lease!GiveBack(v, s)
  <2> DEFINE v == assignments[a].vehicle
  <2>1. /\ a \in DOMAIN assignments
        /\ Open(assignments[a])
        /\ assignments' = [assignments EXCEPT ![a].status = "aborted"]
        /\ vehicles' = [vehicles EXCEPT ![v].status = "idle"]
    BY <1>2 DEF AbortAssignment, CanAbortAssignment, AssignmentTransitions, Open,
                ReleaseAssignmentResources
  <2>2. v \in DOMAIN vehicles
    BY <2>1 DEF VehicleHeldByOneShift
  <2>3. /\ DOMAIN vehicles' = DOMAIN vehicles
        /\ \A w \in DOMAIN vehicles \ {v} : vehicles'[w] = vehicles[w]
        /\ vehicles'[v].status = "idle"
    BY <2>1, <2>2 DEF TypeOK, IsTable, Vehicle
  <2> QED BY <2>1, <2>3, EndGivesBack
<1>3. ASSUME NEW actor \in Operators, NEW d \in DriveIds, CloseDrive(actor, d)
      PROVE  \E v \in VehicleIds, s \in AssignmentIds : Lease!GiveBack(v, s)
  <2> DEFINE a == drives[d].assignment
             v == assignments[a].vehicle
  <2>1. /\ a \in DOMAIN assignments
        /\ drives[d].vehicle = v
        /\ Open(assignments[a])
    BY <1>3 DEF CloseDrive, OneDrivePerStartedShift, DriveTransitions, Open
  <2>2. /\ assignments' = [assignments EXCEPT ![a].status = "completed"]
        /\ vehicles' = [vehicles EXCEPT ![v].status = "idle",
                                       ![v].odometerKm = @ + TotalKm(drives[d])]
    BY <1>3, <2>1 DEF CloseDrive
  <2>3. v \in DOMAIN vehicles
    BY <2>1 DEF VehicleHeldByOneShift
  <2>4. /\ DOMAIN vehicles' = DOMAIN vehicles
        /\ \A w \in DOMAIN vehicles \ {v} : vehicles'[w] = vehicles[w]
        /\ vehicles'[v].status = "idle"
    BY <2>2, <2>3 DEF TypeOK, IsTable, Vehicle
  <2> HIDE DEF a
  <2> QED BY <2>1, <2>2, <2>4, EndGivesBack
<1>4. CASE UNCHANGED <<vehicles, assignments>>
  BY <1>4 DEF leases, given, OpenForVehicle, Out
<1> QED BY <1>1, <1>2, <1>3, <1>4, CreateReserves, StartDrivesOff, VehiclesOrShiftsChange
        DEF vars, tables

(* The chain implements the vehicle lease: whatever the handlers do to campaigns,
   sessions and settlements, a shift has its vehicle to itself from its planning
   to its end, takes it out at most once and does not get it back. *)
THEOREM ChainLeasesVehicles == Spec => ImplementsVehicleLease
<1> DEFINE Inv == TypeOK /\ VehicleHeldByOneShift /\ OneDrivePerStartedShift
<1>1. Init => Inv
  BY TypeInit DEF Init, EmptyTable, VehicleHeldByOneShift, OneDrivePerStartedShift
<1>2. Inv /\ [Next]_vars => Inv'
  BY TypeNext, OneDriveNext, HoldNext
<1>3. Init => Lease!Init
  <2>1. Init => \A v \in VehicleIds : OpenForVehicle(v) = {} /\ Out(v) = FALSE
    BY DEF Init, EmptyTable, OpenForVehicle, Out
  <2>2. Init => given = {}
    BY DEF Init, EmptyTable, given
  <2> QED BY <2>1, <2>2 DEF Lease!Init, Lease!Free, given, Out
<1>4. Inv /\ [Next]_vars => [Lease!Next]_<<leases, given>>
  BY LeaseNext DEF Lease!Next
<1> HIDE DEF Inv
<1> QED BY <1>1, <1>2, <1>3, <1>4, PTL
        DEF Spec, ImplementsVehicleLease, Lease!Spec, leases, given, Out

-----------------------------------------------------------------------------
(* What a settlement states *)

(* Only these three handlers write a drive session that is there, and none of them
   takes a closed one; a takeover is reported for an open one only. *)
LEMMA ClosedDrivesStay ==
  ASSUME TypeOK, [Next]_vars, NEW d \in DOMAIN drives, drives[d].status = "closed"
  PROVE  /\ d \in DOMAIN drives' /\ drives'[d] = drives[d]
         /\ UnresolvedCritical(d)' \subseteq UnresolvedCritical(d)
<1>1. ASSUME NEW actor \in Operators, NEW a \in AssignmentIds, StartDrive(actor, a)
      PROVE  /\ d \in DOMAIN drives' /\ drives'[d] = drives[d]
             /\ takeovers' = takeovers
  <2> DEFINE row == [assignment |-> a, vehicle |-> assignments[a].vehicle,
                     operator |-> assignments[a].operator, status |-> "open",
                     autoKm |-> 0, manualKm |-> 0, takeoverCount |-> 0]
  <2>1. PICK x \in FreshId(drives, DriveIds) : drives' = Insert(drives, x, row)
    BY <1>1 DEF StartDrive
  <2>2. takeovers' = takeovers
    BY <1>1 DEF StartDrive
  <2> HIDE DEF row
  <2> QED BY <2>1, <2>2, InsertKeepsRows
<1>2. ASSUME NEW actor \in Operators, NEW x \in DriveIds, NEW km \in TelemetryKm,
             ReportMileage(actor, x, km)
      PROVE  /\ d \in DOMAIN drives' /\ drives'[d] = drives[d]
             /\ takeovers' = takeovers
  <2>1. x # d
    BY <1>2 DEF ReportMileage, OwnsOpenDrive, EnsureAcceptsTelemetry
  <2> QED BY <1>2, <2>1 DEF ReportMileage
<1>3. ASSUME NEW actor \in Operators, NEW x \in DriveIds, NEW report \in TakeoverReports,
             ReportTakeover(actor, x, report)
      PROVE  /\ d \in DOMAIN drives' /\ drives'[d] = drives[d]
             /\ UnresolvedCritical(d)' \subseteq UnresolvedCritical(d)
  <2>1. x # d
    BY <1>3 DEF ReportTakeover, OwnsOpenDrive, EnsureAcceptsTelemetry
  <2>2. d \in DOMAIN drives' /\ drives'[d] = drives[d]
    BY <1>3, <2>1 DEF ReportTakeover
  <2> DEFINE row == [drive |-> x, category |-> report.category, severity |-> report.severity,
                     resolved |-> FALSE]
  <2>3. PICK t \in FreshId(takeovers, TakeoverIds) : takeovers' = Insert(takeovers, t, row)
    BY <1>3 DEF ReportTakeover
  <2>4. row.drive # d
    BY <2>1
  <2> HIDE DEF row
  <2>5. /\ DOMAIN takeovers' = DOMAIN takeovers \cup {t}
        /\ takeovers'[t].drive # d
        /\ \A y \in DOMAIN takeovers \ {t} : takeovers'[y] = takeovers[y]
    BY <2>3, <2>4 DEF Insert
  <2> QED BY <2>2, <2>5 DEF UnresolvedCritical
<1>4. ASSUME NEW actor \in Operators, NEW t \in TakeoverIds, ResolveTakeover(actor, t)
      PROVE  /\ drives' = drives
             /\ UnresolvedCritical(d)' \subseteq UnresolvedCritical(d)
  <2>1. /\ t \in DOMAIN takeovers /\ takeovers[t] \in Takeover
        /\ takeovers' = [takeovers EXCEPT ![t].resolved = TRUE]
        /\ drives' = drives
    BY <1>4 DEF ResolveTakeover, TypeOK, IsTable
  <2>2. /\ DOMAIN takeovers' = DOMAIN takeovers
        /\ takeovers'[t].resolved
        /\ \A y \in DOMAIN takeovers \ {t} : takeovers'[y] = takeovers[y]
    BY <2>1 DEF Takeover
  <2> QED BY <2>1, <2>2 DEF UnresolvedCritical
<1>5. ASSUME NEW actor \in Operators, NEW x \in DriveIds, CloseDrive(actor, x)
      PROVE  /\ d \in DOMAIN drives' /\ drives'[d] = drives[d]
             /\ takeovers' = takeovers
  <2>1. x # d
    BY <1>5 DEF CloseDrive, DriveTransitions
  <2> QED BY <1>5, <2>1 DEF CloseDrive
<1>6. ASSUME NEW actor \in Operators,
             \/ CampaignStep(actor)
             \/ \E key \in Keys, in \in Inputs : CreateAssignment(actor, key, in)
             \/ \E a \in AssignmentIds : AbortAssignment(actor, a)
             \/ SettlementStep(actor)
      PROVE  drives' = drives /\ takeovers' = takeovers
  BY <1>6 DEF CampaignStep, CreateCampaign, TransitionCampaign, RegisterVehicle, CreateAssignment,
              AbortAssignment, SettlementStep, SettleAssignment, ApproveSettlement
<1>7. CASE Tick \/ UNCHANGED vars
  BY <1>7 DEF Tick, tables, vars, UnresolvedCritical
<1>8. takeovers' = takeovers => UnresolvedCritical(d)' = UnresolvedCritical(d)
  BY DEF UnresolvedCritical
<1> QED BY <1>1, <1>2, <1>3, <1>4, <1>5, <1>6, <1>7, <1>8 DEF Next, DriveStep

(* Settlement s states what session d of its shift has. *)
StatesDrive(s, d) ==
  /\ DrivesByAssignment(settlements[s].assignment) = {d}
  /\ settlements[s].autoKm = drives[d].autoKm
  /\ settlements[s].manualKm = drives[d].manualKm
  /\ settlements[s].criticalEvents >= Cardinality(UnresolvedCritical(d))
  /\ settlements[s].penaltyKm = PenaltyKm(settlements[s].criticalEvents)
  /\ settlements[s].billableKm =
       ComputeBillableKm(drives[d].autoKm, settlements[s].criticalEvents)

(* The invariant: every settlement states the one session of its shift. *)
SettledInv == \A s \in DOMAIN settlements : \E d \in DOMAIN drives : StatesDrive(s, d)

(* The unresolved critical takeovers of a session are finitely many. *)
LEMMA UnresolvedFinite ==
  ASSUME IsTable(takeovers, TakeoverIds, Takeover), NEW d
  PROVE  IsFiniteSet(UnresolvedCritical(d))
<1>1. IsFiniteSet(TakeoverIds)
  BY IdsFinite
<1> QED BY <1>1, FS_Subset DEF UnresolvedCritical, IsTable

(* The row states what session d, the only one of shift a, has at this moment. *)
RowStates(row, a, d) ==
  /\ DrivesByAssignment(a) = {d}
  /\ row.assignment = a
  /\ row.autoKm = drives[d].autoKm
  /\ row.manualKm = drives[d].manualKm
  /\ row.criticalEvents = Cardinality(UnresolvedCritical(d))
  /\ row.penaltyKm = PenaltyKm(row.criticalEvents)
  /\ row.billableKm = ComputeBillableKm(drives[d].autoKm, row.criticalEvents)

(* What SettleAssignment computes of a completed shift is its one session. *)
LEMMA ComputedStatesDrive ==
  ASSUME TypeOK, OneDrivePerStartedShift,
         NEW a \in DOMAIN assignments, assignments[a].status = "completed",
         NEW row, row = ComputedSettlement(a, {d \in DrivesByAssignment(a) : drives[d].status # "discarded"}),
         SettlementValid(row)
  PROVE  \E d \in DOMAIN drives : RowStates(row, a, d)
<1> DEFINE sessions == {d \in DrivesByAssignment(a) : drives[d].status # "discarded"}
<1>1. PICK d \in DOMAIN drives : drives[d].assignment = a
  BY DEF OneDrivePerStartedShift, DrivesByAssignment
<1>2. drives[d].status = "closed" /\ DrivesByAssignment(a) = {d}
  BY <1>1 DEF OneDrivePerStartedShift, DrivesByAssignment
<1>3. sessions = {d}
  BY <1>2
<1>4. drives[d].autoKm \in Nat /\ drives[d].manualKm \in Nat
  BY DEF TypeOK, IsTable, Drive
<1>5. SumFunctionOnSet(AutoKm, {d}) = drives[d].autoKm
  BY <1>4, SumOfOne DEF AutoKm
<1>6. SumFunctionOnSet(ManualKm, {d}) = drives[d].manualKm
  BY <1>4, SumOfOne DEF ManualKm
<1>7. UNION {UnresolvedCritical(x) : x \in {d}} = UnresolvedCritical(d)
  OBVIOUS
<1>8. /\ row.assignment = a
      /\ row.autoKm = drives[d].autoKm
      /\ row.manualKm = drives[d].manualKm
      /\ row.criticalEvents = Cardinality(UnresolvedCritical(d))
      /\ row.penaltyKm = PenaltyKm(row.criticalEvents)
      /\ row.billableKm = ComputeBillableKm(row.autoKm, row.criticalEvents)
  <2> HIDE DEF sessions
  <2>1. row = ComputedSettlement(a, {d})
    BY <1>3 DEF sessions
  <2>2. /\ row.assignment = a
        /\ row.autoKm = SumFunctionOnSet(AutoKm, {d})
        /\ row.manualKm = SumFunctionOnSet(ManualKm, {d})
        /\ row.criticalEvents = Cardinality(UNION {UnresolvedCritical(x) : x \in {d}})
        /\ row.penaltyKm = PenaltyKm(row.criticalEvents)
        /\ row.billableKm = ComputeBillableKm(row.autoKm, row.criticalEvents)
    BY <2>1 DEF ComputedSettlement
  <2> QED BY <1>5, <1>6, <1>7, <2>2
<1> QED BY <1>2, <1>8 DEF RowStates

(* A new settlement states the one session of its shift, which is closed; a settled
   shift is completed, so its session stays as it is and its unresolved critical
   takeovers only become fewer. *)
LEMMA SettledNext ==
  ASSUME TypeOK, OneDrivePerStartedShift, OneSettlementPerCompletedShift, SettledInv, [Next]_vars
  PROVE  SettledInv'
<1>1. ASSUME NEW s \in DOMAIN settlements', s \notin DOMAIN settlements
      PROVE  \E d \in DOMAIN drives' : StatesDrive(s, d)'
  <2>1. PICK actor \in Operators, a \in AssignmentIds, undecided \in SUBSET DriveIds :
          SettleAssignment(actor, a, undecided)
    BY <1>1, NewSettlementIsComputed
  <2>2. PICK row : row = ComputedSettlement(a, {d \in DrivesByAssignment(a) : drives[d].status # "discarded"})
    OBVIOUS
  <2>3. /\ a \in DOMAIN assignments
        /\ assignments[a].status = "completed"
        /\ SettlementValid(row)
        /\ \E x \in FreshId(settlements, SettlementIds) : settlements' = Insert(settlements, x, row)
        /\ UNCHANGED <<drives, takeovers>>
    BY <2>1, <2>2 DEF SettleAssignment
  <2>4. settlements'[s] = row
    BY <1>1, <2>3 DEF Insert
  <2>5. PICK d \in DOMAIN drives : RowStates(row, a, d)
    BY <2>2, <2>3, ComputedStatesDrive
  <2>6. Cardinality(UnresolvedCritical(d)) \in Nat
    BY UnresolvedFinite, FS_CardinalityType DEF TypeOK
  <2>7. DrivesByAssignment(a)' = {d} /\ UnresolvedCritical(d)' = UnresolvedCritical(d)
    BY <2>3, <2>5 DEF RowStates, DrivesByAssignment, UnresolvedCritical
  <2>8. StatesDrive(s, d)'
    BY <2>3, <2>4, <2>5, <2>6, <2>7 DEF RowStates, StatesDrive
  <2> QED BY <2>3, <2>8
<1>2. ASSUME NEW s \in DOMAIN settlements
      PROVE  \E d \in DOMAIN drives' : StatesDrive(s, d)'
  <2>1. PICK d \in DOMAIN drives : StatesDrive(s, d)
    BY DEF SettledInv
  <2>2. PICK a : a = settlements[s].assignment
    OBVIOUS
  <2>3. /\ a \in DOMAIN assignments
        /\ assignments[a].status = "completed"
        /\ DrivesByAssignment(a) = {d}
        /\ drives[d].assignment = a
    BY <2>1, <2>2 DEF OneSettlementPerCompletedShift, StatesDrive, DrivesByAssignment
  <2>4. drives[d].status = "closed"
    BY <2>3 DEF OneDrivePerStartedShift
  <2>5. /\ d \in DOMAIN drives' /\ drives'[d] = drives[d]
        /\ UnresolvedCritical(d)' \subseteq UnresolvedCritical(d)
    BY <2>4, ClosedDrivesStay
  <2>6. DrivesByAssignment(a)' = {d}
    <3>1. OneDrivePerStartedShift'
      BY OneDriveNext
    <3> QED BY <2>3, <2>5, <3>1 DEF OneDrivePerStartedShift, DrivesByAssignment
  <2>7. /\ settlements[s].criticalEvents \in Int
        /\ Cardinality(UnresolvedCritical(d)) \in Nat
        /\ Cardinality(UnresolvedCritical(d)') \in Nat
        /\ Cardinality(UnresolvedCritical(d)') <= Cardinality(UnresolvedCritical(d))
    <3>1. IsFiniteSet(UnresolvedCritical(d))
      BY UnresolvedFinite DEF TypeOK
    <3>2. IsFiniteSet(UnresolvedCritical(d)')
      BY <2>5, <3>1, FS_Subset
    <3>3. settlements[s].criticalEvents \in Int
      BY DEF TypeOK, IsTable, Settlement
    <3> QED BY <2>5, <3>1, <3>2, <3>3, FS_Subset, FS_CardinalityType
  <2>8. /\ settlements'[s].assignment = a
        /\ settlements'[s].autoKm = settlements[s].autoKm
        /\ settlements'[s].manualKm = settlements[s].manualKm
        /\ settlements'[s].billableKm = settlements[s].billableKm
        /\ settlements'[s].penaltyKm = settlements[s].penaltyKm
        /\ settlements'[s].criticalEvents = settlements[s].criticalEvents
    BY <2>2, SettlementsMoveForward
  <2>9. StatesDrive(s, d)'
    BY <2>1, <2>5, <2>6, <2>7, <2>8 DEF StatesDrive
  <2> QED BY <2>5, <2>9
<1> QED BY <1>1, <1>2 DEF SettledInv

(* In every reachable state a settlement states the mileage of the one session of
   its shift, counts each of its critical takeovers that is unresolved, and has the
   penalty and the billable mileage that ComputeBillableKm gives for these. *)
THEOREM SettlementsMatchDrives == Spec => []SettlementMatchesDrive
<1>1. Init => OneDrivePerStartedShift /\ OneSettlementPerCompletedShift /\ SettledInv
  BY DEF Init, EmptyTable, OneDrivePerStartedShift, OneSettlementPerCompletedShift, SettledInv
<1>2. SettledInv => SettlementMatchesDrive
  BY DEF SettledInv, StatesDrive, SettlementMatchesDrive
<1> QED BY <1>1, <1>2, TypeInit, TypeNext, OneDriveNext, OneSettlementNext, SettledNext, PTL DEF Spec

-----------------------------------------------------------------------------
(* The ledger of the quota *)

Planned == [a \in DOMAIN assignments |-> assignments[a].plannedKm]

(* The shifts of campaign c that count against its plan. *)
Counted(c) ==
  {a \in DOMAIN assignments : assignments[a].campaign = c /\ assignments[a].status # "aborted"}

(* Shifts are finitely many, and the sum of their plans is a number. *)
LEMMA ShiftsFinite ==
  ASSUME TypeOK, NEW S \in SUBSET DOMAIN assignments
  PROVE  /\ IsFiniteSet(S)
         /\ \A a \in S : Planned[a] \in Nat
         /\ SumFunctionOnSet(Planned, S) \in Nat
<1>1. IsFiniteSet(AssignmentIds)
  BY IdsFinite
<1>2. IsFiniteSet(S)
  BY <1>1, FS_Subset DEF TypeOK, IsTable
<1>3. \A a \in S : Planned[a] \in Nat
  BY DEF Planned, TypeOK, IsTable, Assignment
<1> QED BY <1>2, <1>3, SumTyped

(* The plan of a shift does not change, so the sum over given shifts does not. *)
LEMMA PlannedSumStays ==
  ASSUME TypeOK, [Next]_vars, NEW S \in SUBSET DOMAIN assignments
  PROVE  SumFunctionOnSet(Planned, S)' = SumFunctionOnSet(Planned, S)
<1>1. \A a \in S : Planned'[a] = Planned[a]
  BY ShiftsMoveForward DEF Planned
<1>2. IsFiniteSet(S)
  BY ShiftsFinite
<1> HIDE DEF Planned
<1> QED BY <1>1, <1>2, SumsAgree

LedgerOf(c) ==
  /\ campaigns[c].committedKm = SumFunctionOnSet(Planned, Counted(c))
  /\ campaigns[c].committedKm <= campaigns[c].plannedKm

(* Nothing that concerns the quota of campaign c changes. *)
LEMMA LedgerStays ==
  ASSUME TypeOK, [Next]_vars, NEW c \in DOMAIN campaigns, LedgerOf(c),
         campaigns'[c].committedKm = campaigns[c].committedKm,
         campaigns'[c].plannedKm = campaigns[c].plannedKm,
         Counted(c)' = Counted(c)
  PROVE  LedgerOf(c)'
<1>1. SumFunctionOnSet(Planned, Counted(c))' = SumFunctionOnSet(Planned, Counted(c))
  <2> PICK S : S = Counted(c)
    OBVIOUS
  <2>1. S \in SUBSET DOMAIN assignments
    BY DEF Counted
  <2>2. SumFunctionOnSet(Planned, S)' = SumFunctionOnSet(Planned, S)
    BY <2>1, PlannedSumStays
  <2> QED BY <2>2
<1> QED BY <1>1 DEF LedgerOf

(* Every campaign keeps its ledger. *)
Ledger == \A c \in DOMAIN campaigns : LedgerOf(c)

(* A shift that is added counts against the plan of its campaign. *)
LEMMA LedgerCreate ==
  ASSUME TypeOK, OpenShiftsOnlyInOpenCampaigns, Ledger, [Next]_vars,
         NEW actor \in Operators, NEW key \in Keys, NEW in \in Inputs,
         CreateAssignment(actor, key, in)
  PROVE  Ledger'
<1>1. PICK a \in FreshId(assignments, AssignmentIds) :
        assignments' = Insert(assignments, a, NewAssignment(key, in))
  BY DEF CreateAssignment
<1>2. /\ a \notin DOMAIN assignments
      /\ DOMAIN assignments' = DOMAIN assignments \cup {a}
      /\ \A x \in DOMAIN assignments : assignments'[x] = assignments[x]
      /\ assignments'[a].status = "planned"
      /\ assignments'[a].campaign = in.campaign
      /\ assignments'[a].plannedKm = in.plannedKm
  BY <1>1, FreshIdIsFree DEF Insert, NewAssignment
<1>3. /\ in.campaign \in DOMAIN campaigns
      /\ in.plannedKm \in Nat
      /\ campaigns[in.campaign].committedKm + in.plannedKm <= campaigns[in.campaign].plannedKm
      /\ campaigns' = [campaigns EXCEPT ![in.campaign].committedKm = @ + in.plannedKm]
  BY InputsTyped DEF CreateAssignment, CanCreateAssignment, CommitKm, ShiftInputs
<1>4. /\ DOMAIN campaigns' = DOMAIN campaigns
      /\ \A c \in DOMAIN campaigns \ {in.campaign} : campaigns'[c] = campaigns[c]
      /\ campaigns'[in.campaign].committedKm = campaigns[in.campaign].committedKm + in.plannedKm
      /\ campaigns'[in.campaign].plannedKm = campaigns[in.campaign].plannedKm
  BY <1>3 DEF TypeOK, IsTable, Campaign
<1>5. ASSUME NEW c \in DOMAIN campaigns, c # in.campaign PROVE LedgerOf(c)'
  <2>1. Counted(c)' = Counted(c)
    BY <1>2, <1>5 DEF Counted
  <2> QED BY <1>4, <1>5, <2>1, LedgerStays DEF Ledger
<1>6. LedgerOf(in.campaign)'
  <2> PICK c : c = in.campaign
    OBVIOUS
  <2> PICK S : S = Counted(c)
    OBVIOUS
  <2>1. S \in SUBSET DOMAIN assignments /\ a \notin S
    BY <1>2 DEF Counted
  <2>2. Counted(c)' = S \cup {a}
    BY <1>2 DEF Counted
  <2>3. SumFunctionOnSet(Planned, S \cup {a})' = in.plannedKm + SumFunctionOnSet(Planned, S)
    <3>1. SumFunctionOnSet(Planned, S)' = SumFunctionOnSet(Planned, S)
      BY <2>1, PlannedSumStays
    <3>2. IsFiniteSet(S) /\ \A x \in S : Planned[x] \in Nat
      BY <2>1, ShiftsFinite
    <3>3. \A x \in S : Planned'[x] = Planned[x]
      BY <1>2, <2>1 DEF Planned
    <3>4. Planned'[a] = in.plannedKm
      BY <1>2 DEF Planned
    <3> HIDE DEF Planned
    <3>5. \A x \in S \cup {a} : Planned'[x] \in Int
      BY <1>3, <3>2, <3>3, <3>4
    <3>6. SumFunctionOnSet(Planned', S \cup {a}) = Planned'[a] + SumFunctionOnSet(Planned', S)
      BY <2>1, <3>2, <3>5, SumAdds
    <3> QED BY <3>1, <3>4, <3>6
  <2>4. SumFunctionOnSet(Planned, S) \in Nat
    BY <2>1, ShiftsFinite
  <2>5. campaigns[c].committedKm = SumFunctionOnSet(Planned, S)
    BY <1>3 DEF Ledger, LedgerOf
  <2> QED BY <1>3, <1>4, <2>2, <2>3, <2>4, <2>5 DEF LedgerOf
<1> QED BY <1>4, <1>5, <1>6 DEF Ledger

(* A shift that is aborted was counted and no longer is; its mileage is given back. *)
LEMMA LedgerAbort ==
  ASSUME TypeOK, OpenShiftsOnlyInOpenCampaigns, Ledger, [Next]_vars,
         NEW actor \in Operators, NEW a \in AssignmentIds, AbortAssignment(actor, a)
  PROVE  Ledger'
<1> PICK c : c = assignments[a].campaign
  OBVIOUS
<1> PICK km : km = assignments[a].plannedKm
  OBVIOUS
<1>1. /\ a \in DOMAIN assignments /\ assignments[a] \in Assignment
      /\ assignments[a].status # "aborted"
      /\ assignments' = [assignments EXCEPT ![a].status = "aborted"]
      /\ campaigns[c].committedKm + (-km) <= campaigns[c].plannedKm
      /\ campaigns' = [campaigns EXCEPT ![c].committedKm = @ + (-km)]
  BY DEF AbortAssignment, CanAbortAssignment, AssignmentTransitions, ReleaseAssignmentResources,
         CommitKm, TypeOK, IsTable
<1>2. /\ DOMAIN assignments' = DOMAIN assignments
      /\ \A x \in DOMAIN assignments \ {a} : assignments'[x] = assignments[x]
      /\ assignments'[a].status = "aborted"
  BY <1>1 DEF Assignment
<1>3. c \in DOMAIN campaigns /\ km \in Nat
  BY <1>1 DEF OpenShiftsOnlyInOpenCampaigns, Assignment
<1>4. /\ DOMAIN campaigns' = DOMAIN campaigns
      /\ \A x \in DOMAIN campaigns \ {c} : campaigns'[x] = campaigns[x]
      /\ campaigns'[c].committedKm = campaigns[c].committedKm + (-km)
      /\ campaigns'[c].plannedKm = campaigns[c].plannedKm
  BY <1>1, <1>3 DEF TypeOK, IsTable, Campaign
<1>5. ASSUME NEW x \in DOMAIN campaigns, x # c PROVE LedgerOf(x)'
  <2>1. Counted(x)' = Counted(x)
    BY <1>2, <1>5 DEF Counted
  <2> QED BY <1>4, <1>5, <2>1, LedgerStays DEF Ledger
<1>6. LedgerOf(c)'
  <2> PICK S : S = Counted(c)'
    OBVIOUS
  <2>1. Counted(c) = S \cup {a} /\ a \notin S /\ S \in SUBSET DOMAIN assignments
    <3>1. \A x \in DOMAIN assignments : assignments'[x].campaign = assignments[x].campaign
      BY ShiftsMoveForward
    <3> QED BY <1>1, <1>2, <3>1 DEF Counted
  <2>2. SumFunctionOnSet(Planned, S)' = SumFunctionOnSet(Planned, S)
    BY <2>1, PlannedSumStays
  <2>3. SumFunctionOnSet(Planned, S \cup {a}) = km + SumFunctionOnSet(Planned, S)
    <3>1. IsFiniteSet(S)
      BY <2>1, ShiftsFinite
    <3>2. \A x \in S \cup {a} : Planned[x] \in Int
      BY <1>1, <2>1, ShiftsFinite
    <3>3. Planned[a] = km
      BY <1>1 DEF Planned
    <3> HIDE DEF Planned
    <3> QED BY <2>1, <3>1, <3>2, <3>3, SumAdds
  <2>4. SumFunctionOnSet(Planned, S) \in Nat
    BY <2>1, ShiftsFinite
  <2>5. campaigns[c].committedKm = SumFunctionOnSet(Planned, S \cup {a})
    BY <1>3, <2>1 DEF Ledger, LedgerOf
  <2> QED BY <1>1, <1>3, <1>4, <2>2, <2>3, <2>4, <2>5 DEF LedgerOf
<1> QED BY <1>4, <1>5, <1>6 DEF Ledger

(* The other handlers neither change a plan nor abort a shift. *)
LEMMA LedgerNext ==
  ASSUME TypeOK, OpenShiftsOnlyInOpenCampaigns, Ledger, [Next]_vars
  PROVE  Ledger'
<1>1. ASSUME NEW actor \in Operators, NEW plan \in Plans, CreateCampaign(actor, plan)
      PROVE  Ledger'
  <2> DEFINE row == [status |-> "draft", plannedKm |-> plan.plannedKm, committedKm |-> 0,
                     window |-> plan.window]
  <2>1. PICK x \in FreshId(campaigns, CampaignIds) : campaigns' = Insert(campaigns, x, row)
    BY <1>1 DEF CreateCampaign
  <2>2. assignments' = assignments
    BY <1>1 DEF CreateCampaign
  <2>3. /\ x \notin DOMAIN campaigns
        /\ DOMAIN campaigns' = DOMAIN campaigns \cup {x}
        /\ \A c \in DOMAIN campaigns : campaigns'[c] = campaigns[c]
        /\ campaigns'[x].committedKm = 0
        /\ campaigns'[x].plannedKm \in Nat
    BY <2>1, FreshIdIsFree, InputsTyped DEF Insert
  <2>4. \A c : Counted(c)' = Counted(c)
    BY <2>2 DEF Counted
  <2>5. Counted(x)' = {}
    BY <2>3, <2>4 DEF Counted, OpenShiftsOnlyInOpenCampaigns
  <2>6. LedgerOf(x)'
    BY <2>3, <2>5, SumOfNone DEF LedgerOf
  <2>7. \A c \in DOMAIN campaigns : LedgerOf(c)'
    BY <2>3, <2>4, LedgerStays DEF Ledger
  <2> QED BY <2>3, <2>6, <2>7 DEF Ledger
<1>2. ASSUME DOMAIN campaigns' = DOMAIN campaigns,
             \A c \in DOMAIN campaigns : /\ campaigns'[c].committedKm = campaigns[c].committedKm
                                        /\ campaigns'[c].plannedKm = campaigns[c].plannedKm,
             DOMAIN assignments' = DOMAIN assignments,
             \A a \in DOMAIN assignments :
               assignments'[a].status = "aborted" <=> assignments[a].status = "aborted"
      PROVE  Ledger'
  <2>1. \A a \in DOMAIN assignments : assignments'[a].campaign = assignments[a].campaign
    BY ShiftsMoveForward
  <2>2. \A c : Counted(c)' = Counted(c)
    BY <1>2, <2>1 DEF Counted
  <2> QED BY <1>2, <2>2, LedgerStays DEF Ledger
<1>3. ASSUME NEW actor \in Operators, NEW c \in CampaignIds, NEW next \in CampaignStatus,
             TransitionCampaign(actor, c, next)
      PROVE  Ledger'
  <2>1. campaigns' = [campaigns EXCEPT ![c].status = next] /\ assignments' = assignments
    BY <1>3 DEF TransitionCampaign
  <2>2. \A x \in DOMAIN campaigns : /\ campaigns'[x].committedKm = campaigns[x].committedKm
                                   /\ campaigns'[x].plannedKm = campaigns[x].plannedKm
    BY <2>1 DEF TypeOK, IsTable, Campaign
  <2> QED BY <1>2, <2>1, <2>2
<1>4. ASSUME NEW x, NEW status \in {"active", "completed"},
             campaigns' = campaigns,
             assignments' = [assignments EXCEPT ![x].status = status],
             x \in DOMAIN assignments => assignments[x].status # "aborted"
      PROVE  Ledger'
  <2>1. \A a \in DOMAIN assignments : assignments[a] \in Assignment
    BY DEF TypeOK, IsTable
  <2>2. \A a \in DOMAIN assignments :
          assignments'[a].status = "aborted" <=> assignments[a].status = "aborted"
    BY <1>4, <2>1 DEF Assignment
  <2> QED BY <1>2, <1>4, <2>2
<1>5. ASSUME NEW actor \in Operators, NEW a \in AssignmentIds, StartDrive(actor, a)
      PROVE  Ledger'
  <2>1. /\ campaigns' = campaigns
        /\ assignments' = [assignments EXCEPT ![a].status = "active"]
        /\ assignments[a].status # "aborted"
    BY <1>5 DEF StartDrive, EnsureStartable
  <2> QED BY <1>4, <2>1
<1>6. ASSUME NEW actor \in Operators, NEW d \in DriveIds, CloseDrive(actor, d)
      PROVE  Ledger'
  <2>1. /\ campaigns' = campaigns
        /\ assignments' = [assignments EXCEPT ![drives[d].assignment].status = "completed"]
        /\ assignments[drives[d].assignment].status # "aborted"
    BY <1>6 DEF CloseDrive, AssignmentTransitions
  <2> QED BY <1>4, <2>1
<1>7. ASSUME UNCHANGED <<campaigns, assignments>> PROVE Ledger'
  BY <1>2, <1>7
<1>8. ASSUME NEW actor \in Operators,
             \/ RegisterVehicle(actor)
             \/ \E d \in DriveIds, km \in TelemetryKm : ReportMileage(actor, d, km)
             \/ \E d \in DriveIds, report \in TakeoverReports : ReportTakeover(actor, d, report)
             \/ \E t \in TakeoverIds : ResolveTakeover(actor, t)
             \/ SettlementStep(actor)
      PROVE  UNCHANGED <<campaigns, assignments>>
  BY <1>8 DEF RegisterVehicle, ReportMileage, ReportTakeover, ResolveTakeover, SettlementStep,
              SettleAssignment, ApproveSettlement
<1>9. CASE Tick \/ UNCHANGED vars
  BY <1>7, <1>9 DEF Tick, tables, vars
<1> QED BY <1>1, <1>3, <1>5, <1>6, <1>7, <1>8, <1>9, LedgerCreate, LedgerAbort
        DEF Next, CampaignStep, DriveStep

(* The committed mileage of every campaign is always the planned mileage of its
   shifts that were not aborted, and within its plan. *)
THEOREM QuotaIsKept == Spec => []QuotaLedger
<1>1. Init => OpenShiftsOnlyInOpenCampaigns /\ Ledger
  BY DEF Init, EmptyTable, OpenShiftsOnlyInOpenCampaigns, Ledger
<1>2. Ledger => QuotaLedger
  BY DEF Ledger, LedgerOf, Planned, Counted, QuotaLedger
<1> QED BY <1>1, <1>2, TypeInit, TypeNext, OpenShiftsNext, LedgerNext, PTL DEF Spec

-----------------------------------------------------------------------------
(* What a campaign bills *)

Billed == [s \in DOMAIN settlements |-> settlements[s].billableKm]

(* A settlement bills no more than the autonomous mileage of its session, which the
   plan of its shift bounds, and half a hundredth. *)
LEMMA BilledWithinShift ==
  ASSUME TypeOK, AutoKmWithinPlan, SettledInv, NEW s \in DOMAIN settlements,
         settlements[s].assignment \in DOMAIN assignments
  PROVE  /\ settlements[s].billableKm \in Nat
         /\ 2 * settlements[s].billableKm
              <= 2 * assignments[settlements[s].assignment].plannedKm + Hundredth
<1>1. PICK d \in DOMAIN drives : StatesDrive(s, d)
  BY DEF SettledInv
<1>2. /\ drives[d].assignment = settlements[s].assignment
      /\ settlements[s].billableKm =
           ComputeBillableKm(drives[d].autoKm, settlements[s].criticalEvents)
  BY <1>1 DEF StatesDrive, DrivesByAssignment
<1>3. drives[d].autoKm <= assignments[settlements[s].assignment].plannedKm
  BY <1>2 DEF AutoKmWithinPlan
<1>4. /\ settlements[s].billableKm \in Nat
      /\ settlements[s].criticalEvents \in Nat
      /\ drives[d].autoKm \in Nat
      /\ assignments[settlements[s].assignment].plannedKm \in Nat
  BY DEF TypeOK, IsTable, Settlement, Drive, Assignment
<1>5. 2 * settlements[s].billableKm <= 2 * drives[d].autoKm + Hundredth
  BY <1>2, <1>4, BilledIsNear
<1> QED BY <1>3, <1>4, <1>5, HundredthIsPositive

(* The settlements of a campaign belong to different shifts of it that were
   completed, so each is covered by a shift that counts against the plan. *)
LEMMA BilledWithinPlan ==
  ASSUME TypeOK, OneSettlementPerCompletedShift, AutoKmWithinPlan, SettledInv, Ledger
  PROVE  BillableWithinCampaignPlan
<1> SUFFICES ASSUME NEW c \in DOMAIN campaigns
             PROVE  2 * SumFunctionOnSet(Billed, SettlementsByCampaign(c))
                      <= 2 * campaigns[c].plannedKm
                           + Hundredth * Cardinality(SettlementsByCampaign(c))
  BY DEF BillableWithinCampaignPlan, Billed
<1> DEFINE S == SettlementsByCampaign(c)
           R == Counted(c)
           cover == [s \in S |-> settlements[s].assignment]
<1>1. ASSUME NEW s \in S
      PROVE  /\ s \in DOMAIN settlements
             /\ settlements[s].assignment \in R
             /\ settlements[s].assignment \in DOMAIN assignments
  BY DEF OneSettlementPerCompletedShift, SettlementsByCampaign, Counted
<1>2. cover \in [S -> R]
  BY <1>1
<1>3. \A s, x \in S : cover[s] = cover[x] => s = x
  BY <1>1 DEF OneSettlementPerCompletedShift, SettlementsByAssignment
<1>4. IsFiniteSet(S)
  <2>1. IsFiniteSet(SettlementIds)
    BY IdsFinite
  <2>2. S \subseteq SettlementIds
    BY <1>1 DEF TypeOK, IsTable
  <2> QED BY <2>1, <2>2, FS_Subset
<1>5. /\ IsFiniteSet(R)
      /\ \A a \in R : Planned[a] \in Nat
      /\ SumFunctionOnSet(Planned, R) \in Nat
  BY ShiftsFinite DEF Counted
<1>6. ASSUME NEW s \in S
      PROVE  Billed[s] \in Nat /\ 2 * Billed[s] <= 2 * Planned[cover[s]] + Hundredth
  BY <1>1, BilledWithinShift DEF Billed, Planned
<1>7. 2 * SumFunctionOnSet(Billed, S)
        <= 2 * SumFunctionOnSet(Planned, R) + Hundredth * Cardinality(S)
  <2>1. Hundredth \in Nat
    BY HundredthIsPositive
  <2> HIDE DEF S, R, cover
  <2> QED BY <1>2, <1>3, <1>4, <1>5, <1>6, <2>1, SumCovered
<1>8. SumFunctionOnSet(Billed, S) \in Nat
  <2> HIDE DEF S
  <2> QED BY <1>4, <1>6, SumTyped
<1>9. SumFunctionOnSet(Planned, R) <= campaigns[c].plannedKm /\ campaigns[c].plannedKm \in Nat
  BY DEF Ledger, LedgerOf, TypeOK, IsTable, Campaign
<1>10. Hundredth * Cardinality(S) \in Int
  <2>1. Cardinality(S) \in Nat
    BY <1>4, FS_CardinalityType
  <2> HIDE DEF S
  <2>2. \A n \in Nat : Hundredth * n \in Int
    BY HundredthIsPositive
  <2> QED BY <2>1, <2>2
<1> HIDE DEF S, R
<1>11. 2 * SumFunctionOnSet(Billed, S) <= 2 * campaigns[c].plannedKm + Hundredth * Cardinality(S)
  BY <1>5, <1>7, <1>8, <1>9, <1>10
<1> QED BY <1>11 DEF S

(* No campaign ever bills more than it planned and the rounding of its settlements. *)
THEOREM CampaignsBillWithinPlan == Spec => []BillableWithinCampaignPlan
<1> DEFINE Inv == /\ TypeOK /\ OneDrivePerStartedShift /\ OneSettlementPerCompletedShift
                  /\ OpenShiftsOnlyInOpenCampaigns /\ AutoKmWithinPlan /\ SettledInv /\ Ledger
<1>1. Init => Inv
  BY TypeInit DEF Init, EmptyTable, OneDrivePerStartedShift, OneSettlementPerCompletedShift,
                  OpenShiftsOnlyInOpenCampaigns, AutoKmWithinPlan, SettledInv, Ledger
<1>2. Inv /\ [Next]_vars => Inv'
  BY TypeNext, OneDriveNext, OneSettlementNext, OpenShiftsNext, AutoKmNext, SettledNext, LedgerNext
<1>3. Inv => BillableWithinCampaignPlan
  BY BilledWithinPlan
<1> HIDE DEF Inv
<1> QED BY <1>1, <1>2, <1>3, PTL DEF Spec

-----------------------------------------------------------------------------
(* The odometer *)

DriveKm == [d \in DOMAIN drives |-> drives[d].autoKm + drives[d].manualKm]

(* The sessions that vehicle v has behind it. *)
Driven(v) == {d \in DOMAIN drives : drives[d].vehicle = v /\ drives[d].status = "closed"}

OdometerOf(v) == vehicles[v].odometerKm = SumFunctionOnSet(DriveKm, Driven(v))

(* Sessions are finitely many, and their distances are numbers. *)
LEMMA DrivesFinite ==
  ASSUME TypeOK, NEW S \in SUBSET DOMAIN drives
  PROVE  /\ IsFiniteSet(S)
         /\ \A d \in S : DriveKm[d] \in Nat
<1>1. IsFiniteSet(DriveIds)
  BY IdsFinite
<1>2. IsFiniteSet(S)
  BY <1>1, FS_Subset DEF TypeOK, IsTable
<1>3. \A d \in S : DriveKm[d] \in Nat
  BY DEF DriveKm, TypeOK, IsTable, Drive
<1> QED BY <1>2, <1>3

(* Closed sessions do not change, so neither does their sum. *)
LEMMA DrivenSumStays ==
  ASSUME TypeOK, [Next]_vars, NEW S \in SUBSET DOMAIN drives,
         \A d \in S : drives'[d] = drives[d] /\ d \in DOMAIN drives'
  PROVE  SumFunctionOnSet(DriveKm, S)' = SumFunctionOnSet(DriveKm, S)
<1>1. \A d \in S : DriveKm'[d] = DriveKm[d]
  BY DEF DriveKm
<1>2. IsFiniteSet(S)
  BY DrivesFinite
<1> HIDE DEF DriveKm
<1> QED BY <1>1, <1>2, SumsAgree

(* Every odometer tells the distance of the sessions the vehicle has behind it. *)
OdometersTell == \A v \in DOMAIN vehicles : OdometerOf(v)

(* A vehicle whose odometer and whose closed sessions stay. *)
LEMMA OdometerStays ==
  ASSUME TypeOK, [Next]_vars, NEW v \in DOMAIN vehicles, OdometerOf(v),
         vehicles'[v].odometerKm = vehicles[v].odometerKm, Driven(v)' = Driven(v)
  PROVE  OdometerOf(v)'
<1> PICK S : S = Driven(v)
  OBVIOUS
<1>1. /\ S \in SUBSET DOMAIN drives
      /\ \A d \in S : drives'[d] = drives[d] /\ d \in DOMAIN drives'
  BY ClosedDrivesStay DEF Driven
<1>2. SumFunctionOnSet(DriveKm, S)' = SumFunctionOnSet(DriveKm, S)
  BY <1>1, DrivenSumStays
<1> QED BY <1>2 DEF OdometerOf

(* Closing a session adds it to those its vehicle has behind it, and its distance
   to the odometer. *)
LEMMA OdometerClose ==
  ASSUME TypeOK, VehicleHeldByOneShift, OneDrivePerStartedShift, OdometersTell, [Next]_vars,
         NEW actor \in Operators, NEW d \in DriveIds, CloseDrive(actor, d)
  PROVE  OdometersTell'
<1> PICK v : v = drives[d].vehicle
  OBVIOUS
<1> PICK km : km = TotalKm(drives[d])
  OBVIOUS
<1>1. /\ d \in DOMAIN drives /\ drives[d] \in Drive
      /\ drives[d].status # "closed"
      /\ drives' = [drives EXCEPT ![d].status = "closed"]
      /\ vehicles' = [vehicles EXCEPT ![v].status = "idle", ![v].odometerKm = @ + km]
  BY DEF CloseDrive, DriveTransitions, TypeOK, IsTable
<1>2. v \in DOMAIN vehicles /\ km \in Nat
  BY <1>1 DEF OneDrivePerStartedShift, VehicleHeldByOneShift, TotalKm, Drive
<1>3. /\ DOMAIN drives' = DOMAIN drives
      /\ \A x \in DOMAIN drives \ {d} : drives'[x] = drives[x]
      /\ drives'[d].status = "closed"
      /\ drives'[d].vehicle = v
      /\ drives'[d].autoKm = drives[d].autoKm
      /\ drives'[d].manualKm = drives[d].manualKm
  BY <1>1 DEF Drive
<1>4. /\ DOMAIN vehicles' = DOMAIN vehicles
      /\ \A w \in DOMAIN vehicles \ {v} : vehicles'[w] = vehicles[w]
      /\ vehicles'[v].odometerKm = vehicles[v].odometerKm + km
  BY <1>1, <1>2 DEF TypeOK, IsTable, Vehicle
<1>5. ASSUME NEW w \in DOMAIN vehicles, w # v PROVE OdometerOf(w)'
  <2>1. Driven(w)' = Driven(w)
    BY <1>3, <1>5 DEF Driven
  <2> QED BY <1>4, <1>5, <2>1, OdometerStays DEF OdometersTell
<1>6. OdometerOf(v)'
  <2> PICK S : S = Driven(v)
    OBVIOUS
  <2>1. S \in SUBSET DOMAIN drives /\ d \notin S
    BY <1>1 DEF Driven
  <2>2. Driven(v)' = S \cup {d}
    BY <1>1, <1>3 DEF Driven
  <2>3. SumFunctionOnSet(DriveKm, S)' = SumFunctionOnSet(DriveKm, S)
    BY <1>3, <2>1, DrivenSumStays
  <2>4. \A x \in S \cup {d} : DriveKm'[x] = DriveKm[x]
    BY <1>1, <1>3, <2>1 DEF DriveKm
  <2>5. /\ IsFiniteSet(S)
        /\ \A x \in S \cup {d} : DriveKm[x] \in Nat
    BY <1>1, <2>1, DrivesFinite
  <2>6. DriveKm[d] = km
    BY <1>1 DEF DriveKm, TotalKm
  <2>7. SumFunctionOnSet(DriveKm', S \cup {d}) = km + SumFunctionOnSet(DriveKm', S)
    <3> HIDE DEF DriveKm
    <3> QED BY <2>1, <2>4, <2>5, <2>6, SumAdds
  <2>8. vehicles[v].odometerKm = SumFunctionOnSet(DriveKm, S)
    BY <1>2 DEF OdometersTell, OdometerOf
  <2>9. vehicles[v].odometerKm \in Nat
    BY <1>2 DEF TypeOK, IsTable, Vehicle
  <2> QED BY <1>2, <1>4, <2>2, <2>3, <2>7, <2>8, <2>9 DEF OdometerOf
<1> QED BY <1>4, <1>5, <1>6 DEF OdometersTell

(* Only CloseDrive closes a session, and only it writes an odometer. *)
LEMMA OdometerNext ==
  ASSUME TypeOK, VehicleHeldByOneShift, OneDrivePerStartedShift, OdometersTell, [Next]_vars
  PROVE  OdometersTell'
<1>1. ASSUME NEW v \in DOMAIN vehicles, vehicles'[v].odometerKm = vehicles[v].odometerKm,
             \A d \in DOMAIN drives' : drives'[d].status = "closed" =>
               d \in DOMAIN drives /\ drives[d].status = "closed"
      PROVE  OdometerOf(v)'
  <2>1. \A d \in DOMAIN drives : drives[d].status = "closed" =>
          d \in DOMAIN drives' /\ drives'[d] = drives[d]
    BY ClosedDrivesStay
  <2>2. Driven(v)' = Driven(v)
    BY <1>1, <2>1 DEF Driven
  <2> QED BY <1>1, <2>2, OdometerStays DEF OdometersTell
<1>2. ASSUME NEW actor \in Operators, RegisterVehicle(actor)
      PROVE  OdometersTell'
  <2>1. PICK x \in FreshId(vehicles, VehicleIds) :
          vehicles' = Insert(vehicles, x, [status |-> "idle", odometerKm |-> 0])
    BY <1>2 DEF RegisterVehicle
  <2>2. UNCHANGED <<drives, assignments>>
    BY <1>2 DEF RegisterVehicle
  <2>3. /\ x \notin DOMAIN vehicles
        /\ DOMAIN vehicles' = DOMAIN vehicles \cup {x}
        /\ \A v \in DOMAIN vehicles : vehicles'[v] = vehicles[v]
        /\ vehicles'[x].odometerKm = 0
    BY <2>1, FreshIdIsFree DEF Insert
  <2>4. Driven(x)' = {}
    BY <2>2, <2>3 DEF Driven, OneDrivePerStartedShift, VehicleHeldByOneShift
  <2>5. OdometerOf(x)'
    BY <2>3, <2>4, SumOfNone DEF OdometerOf
  <2>6. \A v \in DOMAIN vehicles : OdometerOf(v)'
    BY <1>1, <2>2, <2>3
  <2> QED BY <2>3, <2>5, <2>6 DEF OdometersTell
<1>3. ASSUME DOMAIN vehicles' = DOMAIN vehicles,
             \A v \in DOMAIN vehicles : vehicles'[v].odometerKm = vehicles[v].odometerKm,
             \A d \in DOMAIN drives' : drives'[d].status = "closed" =>
               d \in DOMAIN drives /\ drives[d].status = "closed"
      PROVE  OdometersTell'
  BY <1>1, <1>3 DEF OdometersTell
<1>4. ASSUME NEW v, NEW status, vehicles' = [vehicles EXCEPT ![v].status = status]
      PROVE  /\ DOMAIN vehicles' = DOMAIN vehicles
             /\ \A x \in DOMAIN vehicles : vehicles'[x].odometerKm = vehicles[x].odometerKm
  <2>1. \A x \in DOMAIN vehicles : vehicles[x] \in Vehicle
    BY DEF TypeOK, IsTable
  <2> QED BY <1>4, <2>1 DEF Vehicle
<1>5. ASSUME NEW actor \in Operators, NEW key \in Keys, NEW in \in Inputs,
             CreateAssignment(actor, key, in)
      PROVE  OdometersTell'
  <2>1. vehicles' = [vehicles EXCEPT ![in.vehicle].status = "reserved"] /\ drives' = drives
    BY <1>5 DEF CreateAssignment
  <2> QED BY <1>3, <1>4, <2>1
<1>6. ASSUME NEW actor \in Operators, NEW a \in AssignmentIds, AbortAssignment(actor, a)
      PROVE  OdometersTell'
  <2>1. vehicles' = [vehicles EXCEPT ![assignments[a].vehicle].status = "idle"] /\ drives' = drives
    BY <1>6 DEF AbortAssignment, ReleaseAssignmentResources
  <2> QED BY <1>3, <1>4, <2>1
<1>7. ASSUME NEW actor \in Operators, NEW a \in AssignmentIds, StartDrive(actor, a)
      PROVE  OdometersTell'
  <2> DEFINE row == [assignment |-> a, vehicle |-> assignments[a].vehicle,
                     operator |-> assignments[a].operator, status |-> "open",
                     autoKm |-> 0, manualKm |-> 0, takeoverCount |-> 0]
  <2>1. PICK d \in FreshId(drives, DriveIds) : drives' = Insert(drives, d, row)
    BY <1>7 DEF StartDrive
  <2>2. vehicles' = [vehicles EXCEPT ![assignments[a].vehicle].status = "on_road"]
    BY <1>7 DEF StartDrive
  <2>3. \A x \in DOMAIN drives' : drives'[x].status = "closed" =>
          x \in DOMAIN drives /\ drives[x].status = "closed"
    BY <2>1 DEF Insert
  <2> HIDE DEF row
  <2> QED BY <1>3, <1>4, <2>2, <2>3
<1>8. ASSUME NEW actor \in Operators, NEW d \in DriveIds, NEW km \in TelemetryKm,
             ReportMileage(actor, d, km)
      PROVE  OdometersTell'
  <2>1. /\ vehicles' = vehicles /\ d \in DOMAIN drives
        /\ drives' = [drives EXCEPT ![d].autoKm = @ + km[1], ![d].manualKm = @ + km[2]]
    BY <1>8 DEF ReportMileage, OwnsOpenDrive
  <2>2. \A x \in DOMAIN drives : drives'[x].status = drives[x].status
    BY <2>1 DEF TypeOK, IsTable, Drive
  <2> QED BY <1>3, <2>1, <2>2
<1>9. ASSUME NEW actor \in Operators, NEW d \in DriveIds, NEW report \in TakeoverReports,
             ReportTakeover(actor, d, report)
      PROVE  OdometersTell'
  <2>1. /\ vehicles' = vehicles /\ d \in DOMAIN drives
        /\ drives' = [drives EXCEPT ![d].takeoverCount = @ + 1,
                                    ![d].manualKm = @ + report.manualKm]
    BY <1>9 DEF ReportTakeover, OwnsOpenDrive
  <2>2. \A x \in DOMAIN drives : drives'[x].status = drives[x].status
    BY <2>1 DEF TypeOK, IsTable, Drive
  <2> QED BY <1>3, <2>1, <2>2
<1>10. ASSUME UNCHANGED <<vehicles, drives>> PROVE OdometersTell'
  BY <1>3, <1>10
<1>11. ASSUME NEW actor \in Operators,
              \/ \E plan \in Plans : CreateCampaign(actor, plan)
              \/ \E c \in CampaignIds, next \in CampaignStatus : TransitionCampaign(actor, c, next)
              \/ \E t \in TakeoverIds : ResolveTakeover(actor, t)
              \/ SettlementStep(actor)
       PROVE  UNCHANGED <<vehicles, drives>>
  BY <1>11 DEF CreateCampaign, TransitionCampaign, ResolveTakeover, SettlementStep,
               SettleAssignment, ApproveSettlement
<1>12. CASE Tick \/ UNCHANGED vars
  BY <1>10, <1>12 DEF Tick, tables, vars
<1> QED BY <1>2, <1>5, <1>6, <1>7, <1>8, <1>9, <1>10, <1>11, <1>12, OdometerClose
        DEF Next, CampaignStep, DriveStep

(* The odometer of every vehicle always is the distance of its closed sessions. *)
THEOREM OdometersTellClosedDrives == Spec => []OdometerEqualsClosedDrives
<1>1. Init => VehicleHeldByOneShift /\ OneDrivePerStartedShift /\ OdometersTell
  BY DEF Init, EmptyTable, VehicleHeldByOneShift, OneDrivePerStartedShift, OdometersTell
<1>2. OdometersTell => OdometerEqualsClosedDrives
  BY DEF OdometersTell, OdometerOf, DriveKm, Driven, OdometerEqualsClosedDrives
<1> QED BY <1>1, <1>2, TypeInit, TypeNext, HoldNext, OneDriveNext, OdometerNext, PTL DEF Spec

-----------------------------------------------------------------------------
(* The audit trail *)

(* The step records at most events of one kind. *)
OnlyRecords(kind) == \A event : event.action # kind => (event \in audit' <=> event \in audit)

(* The step records one event, and no other. *)
LEMMA RecordAdds ==
  ASSUME NEW action, NEW object, NEW detail, Record(action, object, detail)
  PROVE  /\ OnlyRecords(action)
         /\ \A x, e : Audited(action, x, e)' <=> Audited(action, x, e) \/ (x = object /\ e = detail)
BY DEF Record, OnlyRecords, Audited

(* A kind of event that the step does not record keeps its events. *)
LEMMA OthersKept ==
  ASSUME NEW kind, OnlyRecords(kind), NEW other, other # kind
  PROVE  \A x, e : Audited(other, x, e)' <=> Audited(other, x, e)
BY DEF OnlyRecords, Audited

(* What each handler records. *)
LEMMA WhatIsRecorded ==
  ASSUME NEW actor
  PROVE  /\ \A plan \in Plans : CreateCampaign(actor, plan) => OnlyRecords("campaign.create")
         /\ \A c \in CampaignIds, next \in CampaignStatus :
              TransitionCampaign(actor, c, next) => OnlyRecords("campaign.transition")
         /\ RegisterVehicle(actor) => OnlyRecords("vehicle.register")
         /\ \A key \in Keys, in \in Inputs :
              CreateAssignment(actor, key, in) => OnlyRecords("assignment.create")
         /\ \A a \in AssignmentIds : AbortAssignment(actor, a) => OnlyRecords("assignment.abort")
         /\ \A a \in AssignmentIds : StartDrive(actor, a) => OnlyRecords("drive.start")
         /\ \A d \in DriveIds, km \in TelemetryKm :
              ReportMileage(actor, d, km) => OnlyRecords("none")
         /\ \A d \in DriveIds, report \in TakeoverReports :
              ReportTakeover(actor, d, report) => OnlyRecords("drive.takeover")
         /\ \A t \in TakeoverIds :
              ResolveTakeover(actor, t) => OnlyRecords("drive.takeover_resolved")
         /\ \A d \in DriveIds : CloseDrive(actor, d) => OnlyRecords("drive.close")
         /\ \A a \in AssignmentIds, undecided \in SUBSET DriveIds :
              SettleAssignment(actor, a, undecided) => OnlyRecords("settlement.compute")
         /\ \A s \in SettlementIds, hasNote \in BOOLEAN :
              ApproveSettlement(actor, s, hasNote) => OnlyRecords("settlement.approve")
<1>1. \A plan \in Plans : CreateCampaign(actor, plan) => OnlyRecords("campaign.create")
  BY RecordAdds DEF CreateCampaign
<1>2. \A c \in CampaignIds, next \in CampaignStatus :
        TransitionCampaign(actor, c, next) => OnlyRecords("campaign.transition")
  BY RecordAdds DEF TransitionCampaign
<1>3. RegisterVehicle(actor) => OnlyRecords("vehicle.register")
  BY RecordAdds DEF RegisterVehicle
<1>4. \A key \in Keys, in \in Inputs :
        CreateAssignment(actor, key, in) => OnlyRecords("assignment.create")
  BY RecordAdds DEF CreateAssignment
<1>5. \A a \in AssignmentIds : AbortAssignment(actor, a) => OnlyRecords("assignment.abort")
  BY RecordAdds DEF AbortAssignment
<1>6. \A a \in AssignmentIds : StartDrive(actor, a) => OnlyRecords("drive.start")
  BY RecordAdds DEF StartDrive
<1>7. \A d \in DriveIds, km \in TelemetryKm : ReportMileage(actor, d, km) => OnlyRecords("none")
  BY DEF ReportMileage, OnlyRecords
<1>8. \A d \in DriveIds, report \in TakeoverReports :
        ReportTakeover(actor, d, report) => OnlyRecords("drive.takeover")
  BY RecordAdds DEF ReportTakeover
<1>9. \A t \in TakeoverIds : ResolveTakeover(actor, t) => OnlyRecords("drive.takeover_resolved")
  BY RecordAdds DEF ResolveTakeover
<1>10. \A d \in DriveIds : CloseDrive(actor, d) => OnlyRecords("drive.close")
  BY RecordAdds DEF CloseDrive
<1>11. \A a \in AssignmentIds, undecided \in SUBSET DriveIds :
         SettleAssignment(actor, a, undecided) => OnlyRecords("settlement.compute")
  <2>1. ASSUME NEW a \in AssignmentIds, NEW undecided \in SUBSET DriveIds,
               SettleAssignment(actor, a, undecided)
        PROVE  \E s \in SettlementIds : Record("settlement.compute", s, "")
    BY <2>1, FreshIdIsFree DEF SettleAssignment
  <2> QED BY <2>1, RecordAdds
<1>12. \A s \in SettlementIds, hasNote \in BOOLEAN :
         ApproveSettlement(actor, s, hasNote) => OnlyRecords("settlement.approve")
  BY RecordAdds DEF ApproveSettlement
<1> QED BY <1>1, <1>2, <1>3, <1>4, <1>5, <1>6, <1>7, <1>8, <1>9, <1>10, <1>11, <1>12

(* The six parts of the trail. *)
(* The moves of campaign c lead from draft to its status. *)
WayAudited(c) ==
  /\ campaigns[c].status \in Moves(c) \cup {"draft"}
  /\ \A status \in Moves(c) :
       /\ \E prior \in Moves(c) \cup {"draft"} : <<prior, status>> \in CampaignTransitions
       /\ status # campaigns[c].status
            => \E next \in Moves(c) : <<status, next>> \in CampaignTransitions

CampaignsAudited ==
  \A c \in CampaignIds :
    /\ Audited("campaign.create", c, "") <=> c \in DOMAIN campaigns
    /\ c \notin DOMAIN campaigns => Moves(c) = {}
    /\ c \in DOMAIN campaigns => WayAudited(c)

VehiclesAudited ==
  \A v \in VehicleIds : Audited("vehicle.register", v, "") <=> v \in DOMAIN vehicles

ShiftsAudited ==
  \A a \in AssignmentIds :
    /\ Audited("assignment.create", a, "") <=> a \in DOMAIN assignments
    /\ Audited("assignment.abort", a, "")
         <=> a \in DOMAIN assignments /\ assignments[a].status = "aborted"

DrivesAudited ==
  \A d \in DriveIds :
    /\ Audited("drive.start", d, "") <=> d \in DOMAIN drives
    /\ Audited("drive.close", d, "") <=> d \in DOMAIN drives /\ drives[d].status = "closed"

TakeoversAudited ==
  \A t \in TakeoverIds :
    /\ Audited("drive.takeover", t, "") <=> t \in DOMAIN takeovers
    /\ Audited("drive.takeover_resolved", t, "") <=> t \in DOMAIN takeovers /\ takeovers[t].resolved

SettlementsAudited ==
  \A s \in SettlementIds :
    /\ Audited("settlement.compute", s, "") <=> s \in DOMAIN settlements
    /\ Audited("settlement.approve", s, "")
         <=> s \in DOMAIN settlements /\ settlements[s].status = "approved"

(* Only RegisterVehicle adds a vehicle. *)
LEMMA VehiclesAuditedNext == TypeOK /\ VehiclesAudited /\ [Next]_vars => VehiclesAudited'
<1> SUFFICES ASSUME TypeOK, VehiclesAudited, [Next]_vars PROVE VehiclesAudited'
  OBVIOUS
<1>1. ASSUME NEW kind, OnlyRecords(kind), kind # "vehicle.register",
             DOMAIN vehicles' = DOMAIN vehicles
      PROVE  VehiclesAudited'
  <2>1. \A v : Audited("vehicle.register", v, "")' <=> Audited("vehicle.register", v, "")
    BY <1>1, OthersKept
  <2> QED BY <1>1, <2>1 DEF VehiclesAudited
<1>2. ASSUME NEW actor \in Operators, RegisterVehicle(actor)
      PROVE  VehiclesAudited'
  <2>1. PICK v \in FreshId(vehicles, VehicleIds) :
          /\ vehicles' = Insert(vehicles, v, [status |-> "idle", odometerKm |-> 0])
          /\ Record("vehicle.register", v, "")
    BY <1>2 DEF RegisterVehicle
  <2>2. DOMAIN vehicles' = DOMAIN vehicles \cup {v}
    BY <2>1 DEF Insert
  <2>3. \A x : Audited("vehicle.register", x, "")' <=> Audited("vehicle.register", x, "") \/ x = v
    BY <2>1, RecordAdds
  <2> QED BY <2>2, <2>3 DEF VehiclesAudited
<1>3. ASSUME NEW actor \in Operators, NEW key \in Keys, NEW in \in Inputs,
             CreateAssignment(actor, key, in)
      PROVE  VehiclesAudited'
  <2>1. OnlyRecords("assignment.create") /\ DOMAIN vehicles' = DOMAIN vehicles
    BY <1>3, WhatIsRecorded DEF CreateAssignment
  <2> QED BY <1>1, <2>1
<1>4. ASSUME NEW actor \in Operators, NEW a \in AssignmentIds, AbortAssignment(actor, a)
      PROVE  VehiclesAudited'
  <2>1. OnlyRecords("assignment.abort") /\ DOMAIN vehicles' = DOMAIN vehicles
    BY <1>4, WhatIsRecorded DEF AbortAssignment, ReleaseAssignmentResources
  <2> QED BY <1>1, <2>1
<1>5. ASSUME NEW actor \in Operators, DriveStep(actor)
      PROVE  VehiclesAudited'
  <2>1. DOMAIN vehicles' = DOMAIN vehicles
    BY <1>5 DEF DriveStep, StartDrive, ReportMileage, ReportTakeover, ResolveTakeover, CloseDrive
  <2>2. \E kind : OnlyRecords(kind) /\ kind # "vehicle.register"
    BY <1>5, WhatIsRecorded DEF DriveStep
  <2> QED BY <1>1, <2>1, <2>2
<1>6. ASSUME NEW actor \in Operators,
             \/ \E plan \in Plans : CreateCampaign(actor, plan)
             \/ \E c \in CampaignIds, next \in CampaignStatus : TransitionCampaign(actor, c, next)
             \/ SettlementStep(actor)
      PROVE  VehiclesAudited'
  <2>1. vehicles' = vehicles
    BY <1>6 DEF CreateCampaign, TransitionCampaign, SettlementStep, SettleAssignment,
                ApproveSettlement
  <2>2. \E kind : OnlyRecords(kind) /\ kind # "vehicle.register"
    BY <1>6, WhatIsRecorded DEF SettlementStep
  <2> QED BY <1>1, <2>1, <2>2
<1>7. CASE Tick \/ UNCHANGED vars
  <2>1. OnlyRecords("none") /\ vehicles' = vehicles
    BY <1>7 DEF Tick, tables, vars, OnlyRecords
  <2> QED BY <1>1, <2>1
<1> QED BY <1>2, <1>3, <1>4, <1>5, <1>6, <1>7 DEF Next, CampaignStep

(* A takeover is reported or resolved and the event written in one handler. *)
LEMMA TakeoversAuditedNext == TypeOK /\ TakeoversAudited /\ [Next]_vars => TakeoversAudited'
<1> SUFFICES ASSUME TypeOK, TakeoversAudited, [Next]_vars PROVE TakeoversAudited'
  OBVIOUS
<1>1. ASSUME NEW kind, OnlyRecords(kind), takeovers' = takeovers,
             kind \notin {"drive.takeover", "drive.takeover_resolved"}
      PROVE  TakeoversAudited'
  <2>1. \A t : /\ Audited("drive.takeover", t, "")' <=> Audited("drive.takeover", t, "")
               /\ Audited("drive.takeover_resolved", t, "")'
                    <=> Audited("drive.takeover_resolved", t, "")
    BY <1>1, OthersKept
  <2> QED BY <1>1, <2>1 DEF TakeoversAudited
<1>2. ASSUME NEW actor \in Operators, NEW d \in DriveIds, NEW report \in TakeoverReports,
             ReportTakeover(actor, d, report)
      PROVE  TakeoversAudited'
  <2> DEFINE row == [drive |-> d, category |-> report.category, severity |-> report.severity,
                     resolved |-> FALSE]
  <2>1. PICK t \in FreshId(takeovers, TakeoverIds) :
          takeovers' = Insert(takeovers, t, row) /\ Record("drive.takeover", t, "")
    BY <1>2 DEF ReportTakeover
  <2>2. row.resolved = FALSE
    OBVIOUS
  <2> HIDE DEF row
  <2>3. /\ t \notin DOMAIN takeovers
        /\ DOMAIN takeovers' = DOMAIN takeovers \cup {t}
        /\ takeovers'[t].resolved = FALSE
        /\ \A x \in DOMAIN takeovers : takeovers'[x] = takeovers[x]
    BY <2>1, <2>2, FreshIdIsFree DEF Insert
  <2>4. \A x : Audited("drive.takeover", x, "")' <=> Audited("drive.takeover", x, "") \/ x = t
    BY <2>1, RecordAdds
  <2>5. \A x : Audited("drive.takeover_resolved", x, "")'
                 <=> Audited("drive.takeover_resolved", x, "")
    BY <2>1, RecordAdds, OthersKept
  <2> QED BY <2>3, <2>4, <2>5 DEF TakeoversAudited
<1>3. ASSUME NEW actor \in Operators, NEW t \in TakeoverIds, ResolveTakeover(actor, t)
      PROVE  TakeoversAudited'
  <2>1. /\ t \in DOMAIN takeovers
        /\ takeovers' = [takeovers EXCEPT ![t].resolved = TRUE]
        /\ Record("drive.takeover_resolved", t, "")
    BY <1>3 DEF ResolveTakeover
  <2>2. /\ DOMAIN takeovers' = DOMAIN takeovers
        /\ takeovers'[t].resolved
        /\ \A x \in DOMAIN takeovers \ {t} : takeovers'[x] = takeovers[x]
    BY <2>1 DEF TypeOK, IsTable, Takeover
  <2>3. \A x : Audited("drive.takeover_resolved", x, "")'
                 <=> Audited("drive.takeover_resolved", x, "") \/ x = t
    BY <2>1, RecordAdds
  <2>4. \A x : Audited("drive.takeover", x, "")' <=> Audited("drive.takeover", x, "")
    BY <2>1, RecordAdds, OthersKept
  <2> QED BY <2>1, <2>2, <2>3, <2>4 DEF TakeoversAudited
<1>4. ASSUME NEW actor \in Operators,
             \/ CampaignStep(actor)
             \/ \E key \in Keys, in \in Inputs : CreateAssignment(actor, key, in)
             \/ \E a \in AssignmentIds : AbortAssignment(actor, a)
             \/ \E a \in AssignmentIds : StartDrive(actor, a)
             \/ \E d \in DriveIds, km \in TelemetryKm : ReportMileage(actor, d, km)
             \/ \E d \in DriveIds : CloseDrive(actor, d)
             \/ SettlementStep(actor)
      PROVE  TakeoversAudited'
  <2>1. takeovers' = takeovers
    BY <1>4 DEF CampaignStep, CreateCampaign, TransitionCampaign, RegisterVehicle, CreateAssignment,
                AbortAssignment, StartDrive, ReportMileage, CloseDrive, SettlementStep,
                SettleAssignment, ApproveSettlement
  <2>2. \E kind : OnlyRecords(kind) /\ kind \notin {"drive.takeover", "drive.takeover_resolved"}
    BY <1>4, WhatIsRecorded DEF CampaignStep, SettlementStep
  <2> QED BY <1>1, <2>1, <2>2
<1>5. CASE Tick \/ UNCHANGED vars
  <2>1. OnlyRecords("none") /\ takeovers' = takeovers
    BY <1>5 DEF Tick, tables, vars, OnlyRecords
  <2> QED BY <1>1, <2>1
<1> QED BY <1>2, <1>3, <1>4, <1>5 DEF Next, DriveStep

(* A settlement is computed or approved and the event written in one handler. *)
LEMMA SettlementsAuditedNext == TypeOK /\ SettlementsAudited /\ [Next]_vars => SettlementsAudited'
<1> SUFFICES ASSUME TypeOK, SettlementsAudited, [Next]_vars PROVE SettlementsAudited'
  OBVIOUS
<1>1. ASSUME NEW kind, OnlyRecords(kind), settlements' = settlements,
             kind \notin {"settlement.compute", "settlement.approve"}
      PROVE  SettlementsAudited'
  <2>1. \A s : /\ Audited("settlement.compute", s, "")' <=> Audited("settlement.compute", s, "")
               /\ Audited("settlement.approve", s, "")' <=> Audited("settlement.approve", s, "")
    BY <1>1, OthersKept
  <2> QED BY <1>1, <2>1 DEF SettlementsAudited
<1>2. ASSUME NEW actor \in Operators, NEW a \in AssignmentIds, NEW undecided \in SUBSET DriveIds,
             SettleAssignment(actor, a, undecided)
      PROVE  SettlementsAudited'
  <2>1. PICK row : row = ComputedSettlement(a, {d \in DrivesByAssignment(a) : drives[d].status # "discarded"})
    OBVIOUS
  <2>2. PICK s \in FreshId(settlements, SettlementIds) :
          settlements' = Insert(settlements, s, row) /\ Record("settlement.compute", s, "")
    BY <1>2, <2>1 DEF SettleAssignment
  <2>3. row.status = "draft"
    BY <2>1 DEF ComputedSettlement
  <2>4. /\ s \notin DOMAIN settlements
        /\ DOMAIN settlements' = DOMAIN settlements \cup {s}
        /\ settlements'[s].status = "draft"
        /\ \A x \in DOMAIN settlements : settlements'[x] = settlements[x]
    BY <2>2, <2>3, FreshIdIsFree DEF Insert
  <2>5. \A x : Audited("settlement.compute", x, "")'
                 <=> Audited("settlement.compute", x, "") \/ x = s
    BY <2>2, RecordAdds
  <2>6. \A x : Audited("settlement.approve", x, "")' <=> Audited("settlement.approve", x, "")
    BY <2>2, RecordAdds, OthersKept
  <2> QED BY <2>4, <2>5, <2>6 DEF SettlementsAudited
<1>3. ASSUME NEW actor \in Operators, NEW s \in SettlementIds, NEW hasNote \in BOOLEAN,
             ApproveSettlement(actor, s, hasNote)
      PROVE  SettlementsAudited'
  <2>1. /\ s \in DOMAIN settlements
        /\ settlements' = [settlements EXCEPT ![s].status = "approved"]
        /\ Record("settlement.approve", s, "")
    BY <1>3 DEF ApproveSettlement
  <2>2. /\ DOMAIN settlements' = DOMAIN settlements
        /\ settlements'[s].status = "approved"
        /\ \A x \in DOMAIN settlements \ {s} : settlements'[x] = settlements[x]
    BY <2>1 DEF TypeOK, IsTable, Settlement
  <2>3. \A x : Audited("settlement.approve", x, "")'
                 <=> Audited("settlement.approve", x, "") \/ x = s
    BY <2>1, RecordAdds
  <2>4. \A x : Audited("settlement.compute", x, "")' <=> Audited("settlement.compute", x, "")
    BY <2>1, RecordAdds, OthersKept
  <2> QED BY <2>1, <2>2, <2>3, <2>4 DEF SettlementsAudited
<1>4. ASSUME NEW actor \in Operators,
             \/ CampaignStep(actor)
             \/ \E key \in Keys, in \in Inputs : CreateAssignment(actor, key, in)
             \/ \E a \in AssignmentIds : AbortAssignment(actor, a)
             \/ DriveStep(actor)
      PROVE  SettlementsAudited'
  <2>1. settlements' = settlements
    BY <1>4 DEF CampaignStep, CreateCampaign, TransitionCampaign, RegisterVehicle, CreateAssignment,
                AbortAssignment, DriveStep, StartDrive, ReportMileage, ReportTakeover,
                ResolveTakeover, CloseDrive
  <2>2. \E kind : OnlyRecords(kind) /\ kind \notin {"settlement.compute", "settlement.approve"}
    BY <1>4, WhatIsRecorded DEF CampaignStep, DriveStep
  <2> QED BY <1>1, <2>1, <2>2
<1>5. CASE Tick \/ UNCHANGED vars
  <2>1. OnlyRecords("none") /\ settlements' = settlements
    BY <1>5 DEF Tick, tables, vars, OnlyRecords
  <2> QED BY <1>1, <2>1
<1> QED BY <1>2, <1>3, <1>4, <1>5 DEF Next, SettlementStep

(* A session is started or closed and the event written in one handler. *)
LEMMA DrivesAuditedNext == TypeOK /\ DrivesAudited /\ [Next]_vars => DrivesAudited'
<1> SUFFICES ASSUME TypeOK, DrivesAudited, [Next]_vars PROVE DrivesAudited'
  OBVIOUS
<1>1. ASSUME NEW kind, OnlyRecords(kind), kind \notin {"drive.start", "drive.close"},
             DOMAIN drives' = DOMAIN drives,
             \A d \in DOMAIN drives : drives'[d].status = drives[d].status
      PROVE  DrivesAudited'
  <2>1. \A d : /\ Audited("drive.start", d, "")' <=> Audited("drive.start", d, "")
               /\ Audited("drive.close", d, "")' <=> Audited("drive.close", d, "")
    BY <1>1, OthersKept
  <2> QED BY <1>1, <2>1 DEF DrivesAudited
<1>2. ASSUME NEW actor \in Operators, NEW a \in AssignmentIds, StartDrive(actor, a)
      PROVE  DrivesAudited'
  <2> DEFINE row == [assignment |-> a, vehicle |-> assignments[a].vehicle,
                     operator |-> assignments[a].operator, status |-> "open",
                     autoKm |-> 0, manualKm |-> 0, takeoverCount |-> 0]
  <2>1. PICK d \in FreshId(drives, DriveIds) :
          drives' = Insert(drives, d, row) /\ Record("drive.start", d, "")
    BY <1>2 DEF StartDrive
  <2>2. row.status = "open"
    OBVIOUS
  <2> HIDE DEF row
  <2>3. /\ d \notin DOMAIN drives
        /\ DOMAIN drives' = DOMAIN drives \cup {d}
        /\ drives'[d].status = "open"
        /\ \A x \in DOMAIN drives : drives'[x] = drives[x]
    BY <2>1, <2>2, FreshIdIsFree DEF Insert
  <2>4. \A x : Audited("drive.start", x, "")' <=> Audited("drive.start", x, "") \/ x = d
    BY <2>1, RecordAdds
  <2>5. \A x : Audited("drive.close", x, "")' <=> Audited("drive.close", x, "")
    BY <2>1, RecordAdds, OthersKept
  <2> QED BY <2>3, <2>4, <2>5 DEF DrivesAudited
<1>3. ASSUME NEW actor \in Operators, NEW d \in DriveIds, NEW km \in TelemetryKm,
             ReportMileage(actor, d, km)
      PROVE  DrivesAudited'
  <2>1. drives' = [drives EXCEPT ![d].autoKm = @ + km[1], ![d].manualKm = @ + km[2]]
    BY <1>3 DEF ReportMileage
  <2>2. OnlyRecords("none")
    BY <1>3, WhatIsRecorded
  <2>3. \A x \in DOMAIN drives : drives'[x].status = drives[x].status
    BY <2>1 DEF TypeOK, IsTable, Drive
  <2> QED BY <1>1, <2>1, <2>2, <2>3
<1>4. ASSUME NEW actor \in Operators, NEW d \in DriveIds, NEW report \in TakeoverReports,
             ReportTakeover(actor, d, report)
      PROVE  DrivesAudited'
  <2>1. drives' = [drives EXCEPT ![d].takeoverCount = @ + 1, ![d].manualKm = @ + report.manualKm]
    BY <1>4 DEF ReportTakeover
  <2>2. OnlyRecords("drive.takeover")
    BY <1>4, WhatIsRecorded
  <2>3. \A x \in DOMAIN drives : drives'[x].status = drives[x].status
    BY <2>1 DEF TypeOK, IsTable, Drive
  <2> QED BY <1>1, <2>1, <2>2, <2>3
<1>5. ASSUME NEW actor \in Operators, NEW d \in DriveIds, CloseDrive(actor, d)
      PROVE  DrivesAudited'
  <2>1. /\ d \in DOMAIN drives
        /\ drives' = [drives EXCEPT ![d].status = "closed"]
        /\ Record("drive.close", d, "")
    BY <1>5 DEF CloseDrive
  <2>2. /\ DOMAIN drives' = DOMAIN drives
        /\ drives'[d].status = "closed"
        /\ \A x \in DOMAIN drives \ {d} : drives'[x] = drives[x]
    BY <2>1 DEF TypeOK, IsTable, Drive
  <2>3. \A x : Audited("drive.close", x, "")' <=> Audited("drive.close", x, "") \/ x = d
    BY <2>1, RecordAdds
  <2>4. \A x : Audited("drive.start", x, "")' <=> Audited("drive.start", x, "")
    BY <2>1, RecordAdds, OthersKept
  <2> QED BY <2>1, <2>2, <2>3, <2>4 DEF DrivesAudited
<1>6. ASSUME NEW actor \in Operators,
             \/ CampaignStep(actor)
             \/ \E key \in Keys, in \in Inputs : CreateAssignment(actor, key, in)
             \/ \E a \in AssignmentIds : AbortAssignment(actor, a)
             \/ \E t \in TakeoverIds : ResolveTakeover(actor, t)
             \/ SettlementStep(actor)
      PROVE  DrivesAudited'
  <2>1. drives' = drives
    BY <1>6 DEF CampaignStep, CreateCampaign, TransitionCampaign, RegisterVehicle, CreateAssignment,
                AbortAssignment, ResolveTakeover, SettlementStep, SettleAssignment, ApproveSettlement
  <2>2. \E kind : OnlyRecords(kind) /\ kind \notin {"drive.start", "drive.close"}
    BY <1>6, WhatIsRecorded DEF CampaignStep, SettlementStep
  <2> QED BY <1>1, <2>1, <2>2
<1>7. CASE Tick \/ UNCHANGED vars
  <2>1. OnlyRecords("none") /\ drives' = drives
    BY <1>7 DEF Tick, tables, vars, OnlyRecords
  <2> QED BY <1>1, <2>1
<1> QED BY <1>2, <1>3, <1>4, <1>5, <1>6, <1>7 DEF Next, DriveStep

(* A shift is created or aborted and the event written in one handler. *)
LEMMA ShiftsAuditedNext == TypeOK /\ ShiftsAudited /\ [Next]_vars => ShiftsAudited'
<1> SUFFICES ASSUME TypeOK, ShiftsAudited, [Next]_vars PROVE ShiftsAudited'
  OBVIOUS
<1>1. ASSUME NEW kind, OnlyRecords(kind), kind \notin {"assignment.create", "assignment.abort"},
             DOMAIN assignments' = DOMAIN assignments,
             \A a \in DOMAIN assignments :
               assignments'[a].status = "aborted" <=> assignments[a].status = "aborted"
      PROVE  ShiftsAudited'
  <2>1. \A a : /\ Audited("assignment.create", a, "")' <=> Audited("assignment.create", a, "")
               /\ Audited("assignment.abort", a, "")' <=> Audited("assignment.abort", a, "")
    BY <1>1, OthersKept
  <2> QED BY <1>1, <2>1 DEF ShiftsAudited
<1>2. ASSUME NEW actor \in Operators, NEW key \in Keys, NEW in \in Inputs,
             CreateAssignment(actor, key, in)
      PROVE  ShiftsAudited'
  <2>1. PICK a \in FreshId(assignments, AssignmentIds) :
          /\ assignments' = Insert(assignments, a, NewAssignment(key, in))
          /\ Record("assignment.create", a, "")
    BY <1>2 DEF CreateAssignment
  <2>2. /\ a \in AssignmentIds /\ a \notin DOMAIN assignments
        /\ DOMAIN assignments' = DOMAIN assignments \cup {a}
        /\ assignments'[a].status = "planned"
        /\ \A x \in DOMAIN assignments : assignments'[x] = assignments[x]
    BY <2>1, FreshIdIsFree DEF Insert, NewAssignment
  <2>3. \A x : Audited("assignment.create", x, "")'
                 <=> Audited("assignment.create", x, "") \/ x = a
    BY <2>1, RecordAdds
  <2>4. \A x : Audited("assignment.abort", x, "")' <=> Audited("assignment.abort", x, "")
    BY <2>1, RecordAdds, OthersKept
  <2> QED BY <2>2, <2>3, <2>4 DEF ShiftsAudited
<1>3. ASSUME NEW actor \in Operators, NEW a \in AssignmentIds, AbortAssignment(actor, a)
      PROVE  ShiftsAudited'
  <2>1. /\ a \in DOMAIN assignments
        /\ assignments' = [assignments EXCEPT ![a].status = "aborted"]
        /\ Record("assignment.abort", a, "")
    BY <1>3 DEF AbortAssignment, CanAbortAssignment
  <2>2. /\ DOMAIN assignments' = DOMAIN assignments
        /\ assignments'[a].status = "aborted"
        /\ \A x \in DOMAIN assignments \ {a} : assignments'[x] = assignments[x]
    BY <2>1 DEF TypeOK, IsTable, Assignment
  <2>3. \A x : Audited("assignment.abort", x, "")' <=> Audited("assignment.abort", x, "") \/ x = a
    BY <2>1, RecordAdds
  <2>4. \A x : Audited("assignment.create", x, "")' <=> Audited("assignment.create", x, "")
    BY <2>1, RecordAdds, OthersKept
  <2> QED BY <2>1, <2>2, <2>3, <2>4 DEF ShiftsAudited
<1>4. ASSUME NEW x, NEW status \in {"active", "completed"},
             assignments' = [assignments EXCEPT ![x].status = status],
             x \in DOMAIN assignments => assignments[x].status # "aborted",
             NEW kind, OnlyRecords(kind), kind \notin {"assignment.create", "assignment.abort"}
      PROVE  ShiftsAudited'
  <2>1. \A a \in DOMAIN assignments : assignments[a] \in Assignment
    BY DEF TypeOK, IsTable
  <2>2. \A a \in DOMAIN assignments :
          assignments'[a].status = "aborted" <=> assignments[a].status = "aborted"
    BY <1>4, <2>1 DEF Assignment
  <2> QED BY <1>1, <1>4, <2>2
<1>5. ASSUME NEW actor \in Operators, NEW a \in AssignmentIds, StartDrive(actor, a)
      PROVE  ShiftsAudited'
  <2>1. /\ assignments' = [assignments EXCEPT ![a].status = "active"]
        /\ assignments[a].status # "aborted"
    BY <1>5 DEF StartDrive, EnsureStartable
  <2>2. OnlyRecords("drive.start")
    BY <1>5, WhatIsRecorded
  <2> QED BY <1>4, <2>1, <2>2
<1>6. ASSUME NEW actor \in Operators, NEW d \in DriveIds, CloseDrive(actor, d)
      PROVE  ShiftsAudited'
  <2>1. /\ assignments' = [assignments EXCEPT ![drives[d].assignment].status = "completed"]
        /\ assignments[drives[d].assignment].status # "aborted"
    BY <1>6 DEF CloseDrive, AssignmentTransitions
  <2>2. OnlyRecords("drive.close")
    BY <1>6, WhatIsRecorded
  <2> QED BY <1>4, <2>1, <2>2
<1>7. ASSUME NEW actor \in Operators,
             \/ CampaignStep(actor)
             \/ \E d \in DriveIds, km \in TelemetryKm : ReportMileage(actor, d, km)
             \/ \E d \in DriveIds, report \in TakeoverReports : ReportTakeover(actor, d, report)
             \/ \E t \in TakeoverIds : ResolveTakeover(actor, t)
             \/ SettlementStep(actor)
      PROVE  ShiftsAudited'
  <2>1. assignments' = assignments
    BY <1>7 DEF CampaignStep, CreateCampaign, TransitionCampaign, RegisterVehicle, ReportMileage,
                ReportTakeover, ResolveTakeover, SettlementStep, SettleAssignment, ApproveSettlement
  <2>2. \E kind : OnlyRecords(kind) /\ kind \notin {"assignment.create", "assignment.abort"}
    BY <1>7, WhatIsRecorded DEF CampaignStep, SettlementStep
  <2> QED BY <1>1, <2>1, <2>2
<1>8. CASE Tick \/ UNCHANGED vars
  <2>1. OnlyRecords("none") /\ assignments' = assignments
    BY <1>8 DEF Tick, tables, vars, OnlyRecords
  <2> QED BY <1>1, <2>1
<1> QED BY <1>2, <1>3, <1>5, <1>6, <1>7, <1>8 DEF Next, DriveStep

(* A campaign is created or moved and the event written in one handler. *)
LEMMA CampaignsAuditedNext == TypeOK /\ CampaignsAudited /\ [Next]_vars => CampaignsAudited'
<1> SUFFICES ASSUME TypeOK, CampaignsAudited, [Next]_vars PROVE CampaignsAudited'
  OBVIOUS
<1>1. ASSUME NEW kind, OnlyRecords(kind), kind \notin {"campaign.create", "campaign.transition"},
             DOMAIN campaigns' = DOMAIN campaigns,
             \A c \in DOMAIN campaigns : campaigns'[c].status = campaigns[c].status
      PROVE  CampaignsAudited'
  <2>1. \A c, e :
          /\ Audited("campaign.create", c, e)' <=> Audited("campaign.create", c, e)
          /\ Audited("campaign.transition", c, e)' <=> Audited("campaign.transition", c, e)
    BY <1>1, OthersKept
  <2>2. \A c : Moves(c)' = Moves(c)
    BY <2>1 DEF Moves
  <2>3. \A c \in DOMAIN campaigns : WayAudited(c)' <=> WayAudited(c)
    BY <1>1, <2>2 DEF WayAudited
  <2> QED BY <1>1, <2>1, <2>2, <2>3 DEF CampaignsAudited
<1>2. ASSUME NEW actor \in Operators, NEW plan \in Plans, CreateCampaign(actor, plan)
      PROVE  CampaignsAudited'
  <2> DEFINE row == [status |-> "draft", plannedKm |-> plan.plannedKm, committedKm |-> 0,
                     window |-> plan.window]
  <2>1. PICK c \in FreshId(campaigns, CampaignIds) :
          campaigns' = Insert(campaigns, c, row) /\ Record("campaign.create", c, "")
    BY <1>2 DEF CreateCampaign
  <2>2. row.status = "draft"
    OBVIOUS
  <2> HIDE DEF row
  <2>3. /\ c \in CampaignIds /\ c \notin DOMAIN campaigns
        /\ DOMAIN campaigns' = DOMAIN campaigns \cup {c}
        /\ campaigns'[c].status = "draft"
        /\ \A x \in DOMAIN campaigns : campaigns'[x] = campaigns[x]
    BY <2>1, <2>2, FreshIdIsFree DEF Insert
  <2>4. \A x : Audited("campaign.create", x, "")' <=> Audited("campaign.create", x, "") \/ x = c
    BY <2>1, RecordAdds
  <2>5. \A x, e : Audited("campaign.transition", x, e)' <=> Audited("campaign.transition", x, e)
    <3>1. OnlyRecords("campaign.create")
      BY <2>1, RecordAdds
    <3> QED BY <3>1, OthersKept
  <2>6. \A x : Moves(x)' = Moves(x)
    BY <2>5 DEF Moves
  <2>7. \A x \in DOMAIN campaigns : WayAudited(x)' <=> WayAudited(x)
    BY <2>3, <2>6 DEF WayAudited
  <2>8. WayAudited(c)'
    BY <2>3, <2>6 DEF CampaignsAudited, WayAudited
  <2> QED BY <2>3, <2>4, <2>6, <2>7, <2>8 DEF CampaignsAudited
<1>3. ASSUME NEW actor \in Operators, NEW c \in CampaignIds, NEW next \in CampaignStatus,
             TransitionCampaign(actor, c, next)
      PROVE  CampaignsAudited'
  <2>1. /\ c \in DOMAIN campaigns
        /\ <<campaigns[c].status, next>> \in CampaignTransitions
        /\ campaigns' = [campaigns EXCEPT ![c].status = next]
        /\ Record("campaign.transition", c, next)
    BY <1>3 DEF TransitionCampaign
  <2>2. /\ DOMAIN campaigns' = DOMAIN campaigns
        /\ campaigns'[c].status = next
        /\ \A x \in DOMAIN campaigns \ {c} : campaigns'[x] = campaigns[x]
    BY <2>1 DEF TypeOK, IsTable, Campaign
  <2>3. \A x, e : Audited("campaign.transition", x, e)'
                    <=> Audited("campaign.transition", x, e) \/ (x = c /\ e = next)
    BY <2>1, RecordAdds
  <2>4. \A x : Audited("campaign.create", x, "")' <=> Audited("campaign.create", x, "")
    BY <2>1, RecordAdds, OthersKept
  <2>5. /\ Moves(c)' = Moves(c) \cup {next}
        /\ \A x : x # c => Moves(x)' = Moves(x)
    BY <2>3 DEF Moves
  <2>6. ASSUME NEW x \in DOMAIN campaigns \ {c} PROVE WayAudited(x)' <=> WayAudited(x)
    <3>1. campaigns'[x] = campaigns[x] /\ Moves(x)' = Moves(x)
      BY <2>2, <2>5
    <3> QED BY <3>1 DEF WayAudited
  <2>7. WayAudited(c)'
    <3>1. WayAudited(c)
      BY <2>1 DEF CampaignsAudited
    <3>2. ASSUME NEW status \in Moves(c)'
          PROVE  \E prior \in Moves(c)' \cup {"draft"} : <<prior, status>> \in CampaignTransitions
      BY <2>1, <2>5, <3>1, <3>2 DEF WayAudited
    <3>3. ASSUME NEW status \in Moves(c)', status # next
          PROVE  \E later \in Moves(c)' : <<status, later>> \in CampaignTransitions
      BY <2>1, <2>5, <3>1, <3>3 DEF WayAudited
    <3> QED BY <2>2, <2>5, <3>2, <3>3 DEF WayAudited
  <2> QED BY <2>1, <2>2, <2>4, <2>5, <2>6, <2>7 DEF CampaignsAudited
<1>4. ASSUME NEW x, NEW deltaKm, CommitKm(x, deltaKm)
      PROVE  /\ DOMAIN campaigns' = DOMAIN campaigns
             /\ \A c \in DOMAIN campaigns : campaigns'[c].status = campaigns[c].status
  <2>1. \A c \in DOMAIN campaigns : campaigns[c] \in Campaign
    BY DEF TypeOK, IsTable
  <2> QED BY <1>4, <2>1 DEF CommitKm, Campaign
<1>5. ASSUME NEW actor \in Operators, NEW key \in Keys, NEW in \in Inputs,
             CreateAssignment(actor, key, in)
      PROVE  CampaignsAudited'
  <2>1. CommitKm(in.campaign, in.plannedKm)
    BY <1>5 DEF CreateAssignment
  <2>2. OnlyRecords("assignment.create")
    BY <1>5, WhatIsRecorded
  <2> QED BY <1>1, <1>4, <2>1, <2>2
<1>6. ASSUME NEW actor \in Operators, NEW a \in AssignmentIds, AbortAssignment(actor, a)
      PROVE  CampaignsAudited'
  <2>1. CommitKm(assignments[a].campaign, -assignments[a].plannedKm)
    BY <1>6 DEF AbortAssignment, ReleaseAssignmentResources
  <2>2. OnlyRecords("assignment.abort")
    BY <1>6, WhatIsRecorded
  <2> QED BY <1>1, <1>4, <2>1, <2>2
<1>7. ASSUME NEW actor \in Operators,
             RegisterVehicle(actor) \/ DriveStep(actor) \/ SettlementStep(actor)
      PROVE  CampaignsAudited'
  <2>1. campaigns' = campaigns
    BY <1>7 DEF RegisterVehicle, DriveStep, StartDrive, ReportMileage, ReportTakeover,
                ResolveTakeover, CloseDrive, SettlementStep, SettleAssignment, ApproveSettlement
  <2>2. \E kind : OnlyRecords(kind) /\ kind \notin {"campaign.create", "campaign.transition"}
    BY <1>7, WhatIsRecorded DEF DriveStep, SettlementStep
  <2> QED BY <1>1, <2>1, <2>2
<1>8. CASE Tick \/ UNCHANGED vars
  <2>1. OnlyRecords("none") /\ campaigns' = campaigns
    BY <1>8 DEF Tick, tables, vars, OnlyRecords
  <2> QED BY <1>1, <2>1
<1> QED BY <1>2, <1>3, <1>5, <1>6, <1>7, <1>8 DEF Next, CampaignStep

(* In every reachable state the trail and the tables agree: the events that create a
   row, that end its life, and that move a campaign. *)
THEOREM TheTrailIsTrue == Spec => []AuditTrail
<1> DEFINE Inv == /\ TypeOK /\ CampaignsAudited /\ VehiclesAudited /\ ShiftsAudited
                  /\ DrivesAudited /\ TakeoversAudited /\ SettlementsAudited
<1>1. Init => Inv
  BY TypeInit DEF Init, EmptyTable, Audited, Moves, CampaignsAudited, VehiclesAudited,
                  ShiftsAudited, DrivesAudited, TakeoversAudited, SettlementsAudited
<1>2. Inv /\ [Next]_vars => Inv'
  BY TypeNext, CampaignsAuditedNext, VehiclesAuditedNext, ShiftsAuditedNext, DrivesAuditedNext,
     TakeoversAuditedNext, SettlementsAuditedNext
<1>3. Inv => AuditTrail
  <2> SUFFICES ASSUME Inv PROVE AuditTrail
    OBVIOUS
  <2>1. \A c \in DOMAIN campaigns : WayAudited(c)
    BY DEF TypeOK, IsTable, CampaignsAudited
  <2> QED BY <2>1 DEF WayAudited, CampaignsAudited, VehiclesAudited, ShiftsAudited, DrivesAudited,
                      TakeoversAudited, SettlementsAudited, AuditTrail
<1> HIDE DEF Inv
<1> QED BY <1>1, <1>2, <1>3, PTL DEF Spec
-----------------------------------------------------------------------------
(* The page that closing reads is the only reason that a settled campaign cannot be
   closed: when there are no more shifts than fit on it, every campaign that settles
   and has its completed shifts approved can be closed (campaign.go:129-131).  That
   the approved settlement of a shift counts for the campaign of the shift is not
   looked at by the guard, but OneSettlementPerCompletedShift. *)
THEOREM SmallCampaignsCanClose ==
  ASSUME MaxAssignments <= MaxPageSize
  PROVE  Spec => []SettledCampaignCanClose
<1>1. TypeOK /\ OneSettlementPerCompletedShift => SettledCampaignCanClose
  <2> SUFFICES ASSUME TypeOK, OneSettlementPerCompletedShift, NEW c \in DOMAIN campaigns,
                      OpenByCampaign(c) = {},
                      \A a \in CompletedByCampaign(c) :
                        \E s \in SettlementsByAssignment(a) : settlements[s].status = "approved"
               PROVE  EnsureAllSettlementsApproved(c)
    BY DEF SettledCampaignCanClose, EnsureCampaignGuards
  <2>1. Cardinality(CompletedByCampaign(c)) <= MaxPageSize
    <3>1. MaxAssignments \in Nat /\ MaxPageSize \in Nat
      BY BoundsAreNatural
    <3>2. IsFiniteSet(AssignmentIds) /\ Cardinality(AssignmentIds) = MaxAssignments
      BY <3>1, FS_Interval DEF AssignmentIds
    <3>3. CompletedByCampaign(c) \subseteq AssignmentIds
      BY DEF CompletedByCampaign, TypeOK, IsTable
    <3>4. /\ Cardinality(CompletedByCampaign(c)) \in Nat
          /\ Cardinality(CompletedByCampaign(c)) <= MaxAssignments
      BY <3>2, <3>3, FS_Subset, FS_CardinalityType
    <3> QED BY <3>1, <3>4
  <2>2. ASSUME NEW a \in CompletedByCampaign(c)
        PROVE  \E s \in SettlementsByCampaign(c) :
                 settlements[s].status = "approved" /\ settlements[s].assignment = a
    <3>1. PICK s \in SettlementsByAssignment(a) : settlements[s].status = "approved"
      BY <2>2
    <3>2. settlements[s].assignment = a /\ settlements[s].campaign = c
      BY <2>2, <3>1
         DEF OneSettlementPerCompletedShift, SettlementsByAssignment, CompletedByCampaign
    <3> QED BY <3>1, <3>2 DEF SettlementsByAssignment, SettlementsByCampaign
  <2> QED BY <2>1, <2>2 DEF EnsureAllSettlementsApproved
<1> QED BY <1>1, TypeCorrect, ShiftsAreSettledOnce, PTL
=============================================================================
