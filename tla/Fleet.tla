------------------------------- MODULE Fleet -------------------------------
(***************************************************************************)
(* The road-test chain of internal/service/fleet: campaigns, vehicles,     *)
(* assignments (shifts), drive sessions, takeovers and settlements, as     *)
(* rows of the SQLite tables.                                              *)
(*                                                                         *)
(* Every handler runs its whole body inside Store.WithTx, which holds a    *)
(* process-wide mutex and commits or rolls back as a unit, so here one     *)
(* handler is one action.  Each action is the commit of the handler; a     *)
(* handler that returns an error rolls back and changes nothing, which is  *)
(* a stuttering step.  Reads and writes of one transaction see the same    *)
(* row versions, so the optimistic version columns never conflict and are  *)
(* left out.  FleetCalls.tla adds what happens outside the transactions.   *)
(***************************************************************************)
EXTENDS FleetDomain, Tables, FiniteSets, FiniteSetsExt

CONSTANTS
  FleetAdmins,       \* operators with the role fleet_admin
  SafetyOperators,   \* operators with the role safety_operator
  Keys,              \* idempotency keys
  Plans,             \* campaigns that may be created: [plannedKm, window]
  Inputs,            \* shifts that may be requested, see ShiftInputs
  TelemetryKm,       \* <<autoKm, manualKm>> of one mileage report
  TakeoverReports,     \* takeovers that may be reported: [category, severity, manualKm]
  MaxPageSize,       \* domain.MaxPageSize, 100 in the code
  \* bounds of the model
  MaxCampaigns, MaxVehicles, MaxAssignments, MaxDrives, MaxTakeovers, MaxTime

Operators     == FleetAdmins \cup SafetyOperators
CampaignIds   == 1..MaxCampaigns
VehicleIds    == 1..MaxVehicles
AssignmentIds == 1..MaxAssignments
DriveIds      == 1..MaxDrives
TakeoverIds   == 1..MaxTakeovers
SettlementIds == 1..MaxAssignments

ShiftInputs ==
  [campaign : CampaignIds, vehicle : VehicleIds, operator : Operators,
   plannedKm : Nat, shift : Windows]

ASSUME RolesDisjoint == FleetAdmins \cap SafetyOperators = {}
ASSUME BoundsAreNatural ==
  {MaxPageSize, MaxCampaigns, MaxVehicles, MaxAssignments, MaxDrives, MaxTakeovers, MaxTime}
    \subseteq Nat
ASSUME InputsTyped ==
  /\ Plans \subseteq [plannedKm : Nat, window : Windows]
  /\ Inputs \subseteq ShiftInputs
  /\ TelemetryKm \subseteq Nat \X Nat
  /\ TakeoverReports \subseteq [category : TakeoverCategory, severity : Nat, manualKm : Nat]

VARIABLES
  campaigns,    \* campaign id   -> row
  vehicles,     \* vehicle id    -> row
  assignments,  \* assignment id -> row
  drives,       \* drive id      -> row
  takeovers,    \* takeover id   -> row
  settlements,  \* settlement id -> row
  audit,        \* the audit events written so far
  now           \* clock.Now()

tables == <<campaigns, vehicles, assignments, drives, takeovers, settlements, audit>>
vars   == <<tables, now>>

Campaign   == [status : CampaignStatus, plannedKm : Nat, committedKm : Int, window : Windows]
Vehicle    == [status : VehicleStatus, odometerKm : Nat]
Assignment == [campaign : CampaignIds, vehicle : VehicleIds, operator : Operators,
               status : AssignmentStatus, plannedKm : Nat, shift : Windows, key : Keys]
Drive      == [assignment : AssignmentIds, vehicle : VehicleIds, operator : Operators,
               status : DriveStatus, autoKm : Nat, manualKm : Nat, takeoverCount : Nat]
Takeover   == [drive : DriveIds, category : TakeoverCategory, severity : 1..5,
               resolved : BOOLEAN]
Settlement == [campaign : CampaignIds, assignment : AssignmentIds, status : SettlementStatus,
               autoKm : Nat, manualKm : Nat, billableKm : Nat, penaltyKm : Nat,
               criticalEvents : Nat]

Record(action, object, detail) ==
  audit' = audit \cup {[action |-> action, object |-> object, detail |-> detail]}

-----------------------------------------------------------------------------
(* Queries of the repositories. *)

ByIdempotencyKey(key) == {a \in DOMAIN assignments : assignments[a].key = key}

OpenForVehicle(v) ==
  {a \in DOMAIN assignments : assignments[a].vehicle = v /\ Open(assignments[a])}

OpenForOperator(o) ==
  {a \in DOMAIN assignments : assignments[a].operator = o /\ Open(assignments[a])}

OpenByCampaign(c) ==
  {a \in DOMAIN assignments : assignments[a].campaign = c /\ Open(assignments[a])}

CompletedByCampaign(c) ==
  {a \in DOMAIN assignments :
     assignments[a].campaign = c /\ assignments[a].status = "completed"}

DrivesByAssignment(a) == {d \in DOMAIN drives : drives[d].assignment = a}

ActiveByAssignment(a) == {d \in DrivesByAssignment(a) : Active(drives[d])}

UnresolvedCritical(d) ==
  {t \in DOMAIN takeovers :
     /\ takeovers[t].drive = d
     /\ ~takeovers[t].resolved
     /\ \/ takeovers[t].severity >= 4
        \/ takeovers[t].category \in {"perception", "control"}}

SettlementsByAssignment(a) == {s \in DOMAIN settlements : settlements[s].assignment = a}

SettlementsByCampaign(c) == {s \in DOMAIN settlements : settlements[s].campaign = c}

(* Reserves (or, with a negative delta, returns) mileage of campaign c. *)
CommitKm(c, deltaKm) ==
  /\ campaigns[c].committedKm + deltaKm <= campaigns[c].plannedKm
  /\ campaigns' = [campaigns EXCEPT ![c].committedKm = @ + deltaKm]

-----------------------------------------------------------------------------
(* Campaigns and vehicles: internal/service/fleet/campaign.go *)

CreateCampaign(actor, plan) ==
  /\ actor \in FleetAdmins
  /\ plan.plannedKm > 0
  /\ WindowValid(plan.window)
  /\ \E c \in FreshId(campaigns, CampaignIds) :
       /\ campaigns' = Insert(campaigns, c,
            [status |-> "draft", plannedKm |-> plan.plannedKm, committedKm |-> 0,
             window |-> plan.window])
       /\ Record("campaign.create", c, "")
  /\ UNCHANGED <<vehicles, assignments, drives, takeovers, settlements, now>>

(* Mutant: a settlement that is not approved yet is good enough. *)
EnsureAllSettlementsApproved_AnyStatus(c) ==
  CompletedByCampaign(c) \subseteq {settlements[s].assignment : s \in SettlementsByCampaign(c)}

(* Closing reads one page of the completed shifts; when there are more than
   fit on it, closing is refused. *)
EnsureAllSettlementsApproved(c) ==
  LET approved == {settlements[s].assignment :
                     s \in {x \in SettlementsByCampaign(c) : settlements[x].status = "approved"}}
  IN  /\ Cardinality(CompletedByCampaign(c)) <= MaxPageSize
      /\ CompletedByCampaign(c) \subseteq approved

(* Mutant: open shifts do not keep a campaign from settling. *)
EnsureCampaignGuards_OpenShifts(c, next) ==
  next = "closed" => EnsureAllSettlementsApproved(c)

EnsureCampaignGuards(c, next) ==
  /\ next \in {"settling", "closed", "cancelled"} => OpenByCampaign(c) = {}
  /\ next = "closed" => EnsureAllSettlementsApproved(c)

TransitionCampaign(actor, c, next) ==
  /\ actor \in FleetAdmins
  /\ c \in DOMAIN campaigns
  /\ <<campaigns[c].status, next>> \in CampaignTransitions
  /\ EnsureCampaignGuards(c, next)
  /\ campaigns' = [campaigns EXCEPT ![c].status = next]
  /\ Record("campaign.transition", c, next)
  /\ UNCHANGED <<vehicles, assignments, drives, takeovers, settlements, now>>

RegisterVehicle(actor) ==
  /\ actor \in FleetAdmins
  /\ \E v \in FreshId(vehicles, VehicleIds) :
       /\ vehicles' = Insert(vehicles, v, [status |-> "idle", odometerKm |-> 0])
       /\ Record("vehicle.register", v, "")
  /\ UNCHANGED <<campaigns, assignments, drives, takeovers, settlements, now>>

-----------------------------------------------------------------------------
(* Assignments: internal/service/fleet/assignment.go *)

(* The shift would double book neither its vehicle nor its operator. *)
EnsureNoShiftOverlap(in) ==
  \A a \in OpenForVehicle(in.vehicle) \cup OpenForOperator(in.operator) :
    ~WindowsOverlap(in.shift, assignments[a].shift)

(* Mutant: the column has no unique index. *)
KeyIsUnused_NoIndex(key) == TRUE

(* The unique index on idempotency_key lets the row in. *)
KeyIsUnused(key) == ByIdempotencyKey(key) = {}

(* Mutant: the status of the vehicle is not looked at. *)
CanCreateAssignment_AnyVehicle(key, in) ==
  /\ in.plannedKm > 0
  /\ WindowValid(in.shift)
  /\ in.campaign \in DOMAIN campaigns
  /\ EnsureAcceptsAssignments(campaigns[in.campaign])
  /\ EnsureWindowCovers(campaigns[in.campaign], in.shift)
  /\ EnsureCapacity(campaigns[in.campaign], in.plannedKm)
  /\ in.vehicle \in DOMAIN vehicles
  /\ in.operator \in SafetyOperators
  /\ EnsureNoShiftOverlap(in)
  /\ KeyIsUnused(key)

(* What the transaction of CreateAssignment checks before or by its writes.  An
   operator who is not a safety operator cannot drive.  No code path disables an
   operator. *)
CanCreateAssignment(key, in) ==
  /\ in.plannedKm > 0
  /\ WindowValid(in.shift)
  /\ in.campaign \in DOMAIN campaigns
  /\ EnsureAcceptsAssignments(campaigns[in.campaign])
  /\ EnsureWindowCovers(campaigns[in.campaign], in.shift)
  /\ EnsureCapacity(campaigns[in.campaign], in.plannedKm)
  /\ in.vehicle \in DOMAIN vehicles
  /\ vehicles[in.vehicle].status = "idle"
  /\ in.operator \in SafetyOperators
  /\ EnsureNoShiftOverlap(in)
  /\ KeyIsUnused(key)

NewAssignment(key, in) ==
  [campaign |-> in.campaign, vehicle |-> in.vehicle, operator |-> in.operator,
   status |-> "planned", plannedKm |-> in.plannedKm, shift |-> in.shift, key |-> key]

CreateAssignment(actor, key, in) ==
  /\ actor \in FleetAdmins
  /\ CanCreateAssignment(key, in)
  /\ CommitKm(in.campaign, in.plannedKm)
  /\ vehicles' = [vehicles EXCEPT ![in.vehicle].status = "reserved"]
  /\ \E a \in FreshId(assignments, AssignmentIds) :
       /\ assignments' = Insert(assignments, a, NewAssignment(key, in))
       /\ Record("assignment.create", a, "")
  /\ UNCHANGED <<drives, takeovers, settlements, now>>

(* Mutant: ensureNoActiveDrive is not called. *)
CanAbortAssignment_DriveActive(a) ==
  /\ a \in DOMAIN assignments
  /\ <<assignments[a].status, "aborted">> \in AssignmentTransitions

CanAbortAssignment(a) ==
  /\ a \in DOMAIN assignments
  /\ <<assignments[a].status, "aborted">> \in AssignmentTransitions
  /\ ActiveByAssignment(a) = {}
  /\ LET status == vehicles[assignments[a].vehicle].status
     IN  status = "idle" \/ <<status, "idle">> \in VehicleTransitions

(* Mutant: the mileage is not given back. *)
ReleaseAssignmentResources_KeepsKm(a) ==
  /\ UNCHANGED campaigns
  /\ vehicles' = [vehicles EXCEPT ![assignments[a].vehicle].status = "idle"]

(* Mutant: the vehicle stays reserved. *)
ReleaseAssignmentResources_KeepsVehicle(a) ==
  /\ CommitKm(assignments[a].campaign, -assignments[a].plannedKm)
  /\ UNCHANGED vehicles

(* Gives the mileage back to the campaign and the vehicle back to the pool. *)
ReleaseAssignmentResources(a) ==
  /\ CommitKm(assignments[a].campaign, -assignments[a].plannedKm)
  /\ vehicles' = [vehicles EXCEPT ![assignments[a].vehicle].status = "idle"]

AbortAssignment(actor, a) ==
  /\ actor \in FleetAdmins
  /\ CanAbortAssignment(a)
  /\ assignments' = [assignments EXCEPT ![a].status = "aborted"]
  /\ ReleaseAssignmentResources(a)
  /\ Record("assignment.abort", a, "")
  /\ UNCHANGED <<drives, takeovers, settlements, now>>

-----------------------------------------------------------------------------
(* Drive sessions and takeovers: internal/service/fleet/drive.go *)

StartDrive(actor, a) ==
  /\ actor \in SafetyOperators
  /\ a \in DOMAIN assignments
  /\ assignments[a].operator = actor
  /\ EnsureStartable(assignments[a], now)
  /\ ActiveByAssignment(a) = {}
  /\ <<vehicles[assignments[a].vehicle].status, "on_road">> \in VehicleTransitions
  /\ \E d \in FreshId(drives, DriveIds) :
       /\ drives' = Insert(drives, d,
            [assignment |-> a, vehicle |-> assignments[a].vehicle,
             operator |-> assignments[a].operator, status |-> "open",
             autoKm |-> 0, manualKm |-> 0, takeoverCount |-> 0])
       /\ Record("drive.start", d, "")
  /\ vehicles' = [vehicles EXCEPT ![assignments[a].vehicle].status = "on_road"]
  /\ assignments' = [assignments EXCEPT ![a].status = "active"]
  /\ UNCHANGED <<campaigns, takeovers, settlements, now>>

(* The checks the telemetry handlers share. *)
OwnsOpenDrive(actor, d) ==
  /\ actor \in SafetyOperators
  /\ d \in DOMAIN drives
  /\ drives[d].operator = actor
  /\ EnsureAcceptsTelemetry(drives[d])

(* Mutant: the report alone is compared with the plan, not the total. *)
ReportMileage_IgnoresTotal(actor, d, km) ==
  /\ OwnsOpenDrive(actor, d)
  /\ km # <<0, 0>>
  /\ km[1] + km[2] <= assignments[drives[d].assignment].plannedKm
  /\ drives' = [drives EXCEPT ![d].autoKm = @ + km[1], ![d].manualKm = @ + km[2]]
  /\ UNCHANGED <<campaigns, vehicles, assignments, takeovers, settlements, audit, now>>

ReportMileage(actor, d, km) ==
  /\ OwnsOpenDrive(actor, d)
  /\ km # <<0, 0>>
  /\ TotalKm(drives[d]) + km[1] + km[2] <= assignments[drives[d].assignment].plannedKm
  /\ drives' = [drives EXCEPT ![d].autoKm = @ + km[1], ![d].manualKm = @ + km[2]]
  /\ UNCHANGED <<campaigns, vehicles, assignments, takeovers, settlements, audit, now>>

ReportTakeover(actor, d, report) ==
  /\ OwnsOpenDrive(actor, d)
  /\ TakeoverValid(report)
  /\ \E t \in FreshId(takeovers, TakeoverIds) :
       /\ takeovers' = Insert(takeovers, t,
            [drive |-> d, category |-> report.category, severity |-> report.severity,
             resolved |-> FALSE])
       /\ Record("drive.takeover", t, "")
  /\ drives' = [drives EXCEPT ![d].takeoverCount = @ + 1, ![d].manualKm = @ + report.manualKm]
  /\ UNCHANGED <<campaigns, vehicles, assignments, settlements, now>>

(* Mutant: the audit event names the drive in place of the takeover. *)
ResolveTakeover_AuditsDrive(actor, t) ==
  /\ actor \in Operators
  /\ t \in DOMAIN takeovers
  /\ ~takeovers[t].resolved
  /\ takeovers' = [takeovers EXCEPT ![t].resolved = TRUE]
  /\ Record("drive.takeover_resolved", takeovers[t].drive, "")
  /\ UNCHANGED <<campaigns, vehicles, assignments, drives, settlements, now>>

(* Both roles may resolve, whatever the state of the drive or its settlement. *)
ResolveTakeover(actor, t) ==
  /\ actor \in Operators
  /\ t \in DOMAIN takeovers
  /\ ~takeovers[t].resolved
  /\ takeovers' = [takeovers EXCEPT ![t].resolved = TRUE]
  /\ Record("drive.takeover_resolved", t, "")
  /\ UNCHANGED <<campaigns, vehicles, assignments, drives, settlements, now>>

CloseDrive(actor, d) ==
  /\ actor \in SafetyOperators
  /\ d \in DOMAIN drives
  /\ drives[d].operator = actor
  /\ <<drives[d].status, "closed">> \in DriveTransitions
  /\ <<vehicles[drives[d].vehicle].status, "idle">> \in VehicleTransitions
  /\ <<assignments[drives[d].assignment].status, "completed">> \in AssignmentTransitions
  /\ drives' = [drives EXCEPT ![d].status = "closed"]
  /\ vehicles' = [vehicles EXCEPT ![drives[d].vehicle].status = "idle",
                                  ![drives[d].vehicle].odometerKm = @ + TotalKm(drives[d])]
  /\ assignments' = [assignments EXCEPT ![drives[d].assignment].status = "completed"]
  /\ Record("drive.close", d, "")
  /\ UNCHANGED <<campaigns, takeovers, settlements, now>>

-----------------------------------------------------------------------------
(* Settlements: internal/service/fleet/settlement.go *)

AutoKm   == [d \in DOMAIN drives |-> drives[d].autoKm]
ManualKm == [d \in DOMAIN drives |-> drives[d].manualKm]

(* The settlement row of the sessions that count, before it is validated. *)
ComputedSettlement(a, sessions) ==
  LET autoKm   == SumFunctionOnSet(AutoKm, sessions)
      critical == Cardinality(UNION {UnresolvedCritical(d) : d \in sessions})
  IN  [campaign |-> assignments[a].campaign, assignment |-> a, status |-> "draft",
       autoKm |-> autoKm, manualKm |-> SumFunctionOnSet(ManualKm, sessions),
       billableKm |-> ComputeBillableKm(autoKm, critical),
       penaltyKm |-> PenaltyKm(critical), criticalEvents |-> critical]

(* Settlement.Validate: no mileage is negative. *)
SettlementValid(row) == {row.autoKm, row.manualKm, row.billableKm, row.penaltyKm} \subseteq Nat

(* undecided: the drives with triage tickets that are still open or under
   investigation.  The tickets belong to the data loop, which may open or
   decide any of them between two transactions, so Next lets it be any set. *)
SettleAssignment(actor, a, undecided) ==
  LET sessions == {d \in DrivesByAssignment(a) : drives[d].status # "discarded"}
      row      == ComputedSettlement(a, sessions)
  IN  /\ actor \in FleetAdmins
      /\ a \in DOMAIN assignments
      /\ assignments[a].status = "completed"
      /\ SettlementsByAssignment(a) = {}
      /\ DrivesByAssignment(a) # {}
      /\ ActiveByAssignment(a) = {}
      /\ sessions \cap undecided = {}
      /\ SettlementValid(row)
      /\ \E s \in FreshId(settlements, SettlementIds) :
           /\ settlements' = Insert(settlements, s, row)
           /\ Record("settlement.compute", s, "")
      /\ UNCHANGED <<campaigns, vehicles, assignments, drives, takeovers, now>>

(* hasNote: the approver filled in a note, required with critical takeovers. *)
ApproveSettlement(actor, s, hasNote) ==
  /\ actor \in FleetAdmins
  /\ s \in DOMAIN settlements
  /\ settlements[s].status = "draft"
  /\ settlements[s].criticalEvents > 0 => hasNote
  /\ settlements' = [settlements EXCEPT ![s].status = "approved"]
  /\ Record("settlement.approve", s, "")
  /\ UNCHANGED <<campaigns, vehicles, assignments, drives, takeovers, now>>

-----------------------------------------------------------------------------
Tick == now < MaxTime /\ now' = now + 1 /\ UNCHANGED tables

Init ==
  /\ campaigns = EmptyTable
  /\ vehicles = EmptyTable
  /\ assignments = EmptyTable
  /\ drives = EmptyTable
  /\ takeovers = EmptyTable
  /\ settlements = EmptyTable
  /\ audit = {}
  /\ now = 0

CampaignStep(actor) ==
  \/ \E plan \in Plans : CreateCampaign(actor, plan)
  \/ \E c \in CampaignIds, next \in CampaignStatus : TransitionCampaign(actor, c, next)
  \/ RegisterVehicle(actor)

DriveStep(actor) ==
  \/ \E a \in AssignmentIds : StartDrive(actor, a)
  \/ \E d \in DriveIds, km \in TelemetryKm : ReportMileage(actor, d, km)
  \/ \E d \in DriveIds, report \in TakeoverReports : ReportTakeover(actor, d, report)
  \/ \E t \in TakeoverIds : ResolveTakeover(actor, t)
  \/ \E d \in DriveIds : CloseDrive(actor, d)

SettlementStep(actor) ==
  \/ \E a \in AssignmentIds, undecided \in SUBSET DriveIds : SettleAssignment(actor, a, undecided)
  \/ \E s \in SettlementIds, hasNote \in BOOLEAN : ApproveSettlement(actor, s, hasNote)

Next ==
  \/ \E actor \in Operators :
       \/ CampaignStep(actor)
       \/ \E key \in Keys, in \in Inputs : CreateAssignment(actor, key, in)
       \/ \E a \in AssignmentIds : AbortAssignment(actor, a)
       \/ DriveStep(actor)
       \/ SettlementStep(actor)
  \/ Tick

Spec == Init /\ [][Next]_vars

-----------------------------------------------------------------------------
(* Properties *)

(* Every table holds rows of its type, as the columns and the Valid methods of
   internal/domain say. *)
TypeOK ==
  /\ IsTable(campaigns, CampaignIds, Campaign)
  /\ IsTable(vehicles, VehicleIds, Vehicle)
  /\ IsTable(assignments, AssignmentIds, Assignment)
  /\ IsTable(drives, DriveIds, Drive)
  /\ IsTable(takeovers, TakeoverIds, Takeover)
  /\ IsTable(settlements, SettlementIds, Settlement)
  /\ now \in Nat

(* A vehicle is idle exactly when no open shift names it, reserved exactly when
   its one open shift is planned, on the road exactly when that shift is active:
   four handlers write the vehicle and the shift in separate statements, and
   none may leave a vehicle held by nobody or by two shifts. *)
VehicleHeldByOneShift ==
  /\ \A a \in DOMAIN assignments : assignments[a].vehicle \in DOMAIN vehicles
  /\ \A v \in DOMAIN vehicles :
       /\ \A a, b \in OpenForVehicle(v) : a = b
       /\ vehicles[v].status = "idle" <=> OpenForVehicle(v) = {}
       /\ vehicles[v].status = "reserved"
            <=> \E a \in OpenForVehicle(v) : assignments[a].status = "planned"
       /\ vehicles[v].status = "on_road"
            <=> \E a \in OpenForVehicle(v) : assignments[a].status = "active"

(* The chain keeps the promise of VehicleLease: from planning to completion or abort
   a shift has its vehicle to itself.  Who holds a vehicle is read from the shifts,
   whether it is out from the row of the vehicle, which other statements write. *)
Lease == INSTANCE VehicleLease WITH
  Vehicles <- VehicleIds,
  Shifts <- AssignmentIds,
  lease <- [v \in VehicleIds |->
    [by |-> OpenForVehicle(v),
     out |-> v \in DOMAIN vehicles /\ vehicles[v].status = "on_road"]],
  ended <- {a \in DOMAIN assignments : ~Open(assignments[a])}

ImplementsVehicleLease == Lease!Spec

(* A shift has a drive session exactly once it was started, never two: an open
   one while it is active, a closed one once it is completed; the session names
   the vehicle and the operator of the shift.  StartDrive, CloseDrive and
   AbortAssignment each look at only a part of this. *)
OneDrivePerStartedShift ==
  /\ \A d, e \in DOMAIN drives : drives[d].assignment = drives[e].assignment => d = e
  /\ \A d \in DOMAIN drives :
       /\ drives[d].assignment \in DOMAIN assignments
       /\ LET a == assignments[drives[d].assignment]
          IN  /\ <<a.status, drives[d].status>> \in {<<"active", "open">>, <<"completed", "closed">>}
              /\ drives[d].vehicle = a.vehicle
              /\ drives[d].operator = a.operator
  /\ \A a \in DOMAIN assignments :
       assignments[a].status \in {"active", "completed"} => DrivesByAssignment(a) # {}

(* The mileage a campaign has committed is the planned mileage of its shifts that
   were not aborted, and never exceeds the plan: CreateAssignment and
   AbortAssignment update a running counter instead of summing the shifts. *)
QuotaLedger ==
  \A c \in DOMAIN campaigns :
    /\ campaigns[c].committedKm =
         SumFunctionOnSet([a \in DOMAIN assignments |-> assignments[a].plannedKm],
                          {a \in DOMAIN assignments : /\ assignments[a].campaign = c
                                                      /\ assignments[a].status # "aborted"})
    /\ campaigns[c].committedKm <= campaigns[c].plannedKm

(* Two open shifts of one operator never share an instant: no moment, from the start
   of a shift to the last one before its end, belongs to both.  ensureNoShiftOverlap
   compares only the ends of the windows, and must get right that they are half open. *)
NoOperatorDoubleBooked ==
  \A a, b \in DOMAIN assignments :
    /\ a # b
    /\ Open(assignments[a]) /\ Open(assignments[b])
    /\ assignments[a].operator = assignments[b].operator
    => \A moment \in assignments[a].shift.start .. assignments[a].shift.end - 1 :
         moment \notin assignments[b].shift.start .. assignments[b].shift.end - 1

(* Only a scheduled or running campaign has open shifts, and a draft has no shift
   at all: no shift can slip in beside the check that TransitionCampaign makes
   before settling, closing or cancelling. *)
OpenShiftsOnlyInOpenCampaigns ==
  \A a \in DOMAIN assignments :
    /\ assignments[a].campaign \in DOMAIN campaigns
    /\ Open(assignments[a]) => EnsureAcceptsAssignments(campaigns[assignments[a].campaign])
    /\ campaigns[assignments[a].campaign].status # "draft"

(* A shift is settled at most once and only after it was completed, and its
   settlement counts for the campaign of the shift: what SettleAssignment reads
   before it inserts the row stays true. *)
OneSettlementPerCompletedShift ==
  \A s \in DOMAIN settlements :
    /\ SettlementsByAssignment(settlements[s].assignment) = {s}
    /\ settlements[s].assignment \in DOMAIN assignments
    /\ LET a == assignments[settlements[s].assignment]
       IN  a.status = "completed" /\ a.campaign = settlements[s].campaign

(* Once a campaign is closed, every completed shift of it has one settlement and
   it is approved, forever after: campaign.go's ensureCampaignGuards reads the
   shifts and the settlements only at the moment of closing. *)
ClosedCampaignIsSettled ==
  \A a \in DOMAIN assignments :
    /\ campaigns[assignments[a].campaign].status = "closed"
    /\ assignments[a].status = "completed"
    => \E s \in DOMAIN settlements :
         /\ SettlementsByAssignment(a) = {s}
         /\ settlements[s].status = "approved"

(* The odometer of a vehicle is the distance of its closed sessions: CloseDrive
   adds the total it read before it changed the session, once per session. *)
OdometerEqualsClosedDrives ==
  \A v \in DOMAIN vehicles :
    vehicles[v].odometerKm =
      SumFunctionOnSet([d \in DOMAIN drives |-> drives[d].autoKm + drives[d].manualKm],
                       {d \in DOMAIN drives : drives[d].vehicle = v /\ drives[d].status = "closed"})

(* Autonomous mileage never exceeds what the shift planned.  (Manual mileage may:
   ReportTakeover adds it without a check, so the total can exceed the plan.) *)
AutoKmWithinPlan ==
  \A d \in DOMAIN drives : drives[d].autoKm <= assignments[drives[d].assignment].plannedKm

(* What a campaign bills, approved or not, exceeds its planned mileage by no more
   than the rounding of its settlements, half a hundredth of a kilometre for each:
   the billable mileage is bounded by the telemetry, the telemetry by the shift,
   the shifts by the quota, in three handlers that do not know of each other.  (It
   can exceed the plan: round2 in ComputeBillableKm rounds to the nearest hundredth,
   so a campaign planned and driven for 1.006 km bills 1.01.) *)
BillableWithinCampaignPlan ==
  \A c \in DOMAIN campaigns :
    2 * SumFunctionOnSet([s \in DOMAIN settlements |-> settlements[s].billableKm],
                         SettlementsByCampaign(c))
      <= 2 * campaigns[c].plannedKm + Hundredth * Cardinality(SettlementsByCampaign(c))

(* A settlement states the mileage of the session of its shift, whatever is
   reported after it was computed, and counts at least every critical takeover of
   the session that is still unresolved: resolving is possible after the settlement,
   adding a takeover is not.  Its penalty and its billable mileage are what
   ComputeBillableKm gives, at any later time, for the mileage of the session and the
   takeovers counted ("so that stored and recomputed values compare equal",
   settlement.go:70-71). *)
SettlementMatchesDrive ==
  \A s \in DOMAIN settlements :
    \E d \in DOMAIN drives :
      /\ DrivesByAssignment(settlements[s].assignment) = {d}
      /\ settlements[s].autoKm = drives[d].autoKm
      /\ settlements[s].manualKm = drives[d].manualKm
      /\ settlements[s].criticalEvents >= Cardinality(UnresolvedCritical(d))
      /\ settlements[s].penaltyKm = PenaltyKm(settlements[s].criticalEvents)
      /\ settlements[s].billableKm =
           ComputeBillableKm(drives[d].autoKm, settlements[s].criticalEvents)

Audited(action, object, detail) ==
  [action |-> action, object |-> object, detail |-> detail] \in audit

(* The states campaign c moved to, as the trail tells them. *)
Moves(c) == {status \in CampaignStatus : Audited("campaign.transition", c, status)}

(* The audit trail and the tables agree, in both directions: an event that creates
   a row (campaign.create, vehicle.register, assignment.create, drive.start,
   drive.takeover, settlement.compute) is there exactly for the ids with a row, one
   that moves a row to a state it does not leave (assignment.abort, drive.close,
   drive.takeover_resolved, settlement.approve) exactly for the rows in that state,
   and the moves of a campaign lead from draft to its status, each the next of one
   before it and none beside the way.  Of mileage the trail says nothing: ReportMileage
   writes no event. *)
AuditTrail ==
  /\ \A c \in CampaignIds :
       /\ Audited("campaign.create", c, "") <=> c \in DOMAIN campaigns
       /\ c \notin DOMAIN campaigns => Moves(c) = {}
  /\ \A c \in DOMAIN campaigns :
       /\ campaigns[c].status \in Moves(c) \cup {"draft"}
       /\ \A status \in Moves(c) :
            /\ \E prior \in Moves(c) \cup {"draft"} : <<prior, status>> \in CampaignTransitions
            /\ status # campaigns[c].status
                 => \E next \in Moves(c) : <<status, next>> \in CampaignTransitions
  /\ \A v \in VehicleIds : Audited("vehicle.register", v, "") <=> v \in DOMAIN vehicles
  /\ \A a \in AssignmentIds :
       /\ Audited("assignment.create", a, "") <=> a \in DOMAIN assignments
       /\ Audited("assignment.abort", a, "")
            <=> a \in DOMAIN assignments /\ assignments[a].status = "aborted"
  /\ \A d \in DriveIds :
       /\ Audited("drive.start", d, "") <=> d \in DOMAIN drives
       /\ Audited("drive.close", d, "") <=> d \in DOMAIN drives /\ drives[d].status = "closed"
  /\ \A t \in TakeoverIds :
       /\ Audited("drive.takeover", t, "") <=> t \in DOMAIN takeovers
       /\ Audited("drive.takeover_resolved", t, "")
            <=> t \in DOMAIN takeovers /\ takeovers[t].resolved
  /\ \A s \in SettlementIds :
       /\ Audited("settlement.compute", s, "") <=> s \in DOMAIN settlements
       /\ Audited("settlement.approve", s, "")
            <=> s \in DOMAIN settlements /\ settlements[s].status = "approved"

(* Nothing is planned or driven any more for a campaign that is closed or cancelled:
   no later step changes its row (its commitment among the rest) or a shift of it.
   The books of a closed one are final, too: no later step settles another of its
   shifts or changes a settlement.  Those of a cancelled one are not: SettleAssignment
   does not look at the campaign, so a shift that was completed before the campaign
   was cancelled may be settled and approved after. *)
BooksFinal ==
  [][\A c \in DOMAIN campaigns :
       /\ campaigns[c].status \in {"closed", "cancelled"} =>
            /\ campaigns'[c] = campaigns[c]
            /\ \A a \in DOMAIN assignments :
                 assignments[a].campaign = c => assignments'[a] = assignments[a]
       /\ campaigns[c].status = "closed" =>
            /\ SettlementsByCampaign(c)' = SettlementsByCampaign(c)
            /\ \A s \in SettlementsByCampaign(c) : settlements'[s] = settlements[s]
    ]_vars

(* The comment of ensureCampaignGuards (campaign.go:129-131): closing requires that
   no shift still holds a vehicle and that every completed shift has an approved
   settlement.  So a campaign that settles and satisfies both can be closed. *)
SettledCampaignCanClose ==
  \A c \in DOMAIN campaigns :
    /\ campaigns[c].status = "settling"
    /\ OpenByCampaign(c) = {}
    /\ \A a \in CompletedByCampaign(c) :
         \E s \in SettlementsByAssignment(a) : settlements[s].status = "approved"
    => EnsureCampaignGuards(c, "closed")
=============================================================================
