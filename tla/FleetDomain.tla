---------------------------- MODULE FleetDomain ----------------------------
(***************************************************************************)
(* The entities of the road-test chain: their lifecycle states, the moves  *)
(* the state machines of internal/domain allow, the checks an entity makes *)
(* on itself, and the time-window and mileage arithmetic.  Nothing here    *)
(* has state; Fleet.tla applies these definitions to the stored rows.      *)
(*                                                                         *)
(* Units.  Mileage is a natural number of units, Hundredth of them to the  *)
(* hundredth of a kilometre to which a settlement rounds: with Hundredth   *)
(* = 10 a unit is a metre.  Any Hundredth will do, so mileage is as fine   *)
(* as one likes; what floating point adds to that is left out.  Moments    *)
(* are natural numbers.                                                    *)
(***************************************************************************)
EXTENDS Integers

CONSTANT Hundredth   \* the units in 0.01 km

ASSUME HundredthIsPositive == Hundredth \in Nat \ {0}

CampaignStatus == {"draft", "scheduled", "running", "settling", "closed", "cancelled"}

CampaignTransitions ==
  { <<"draft", "scheduled">>,     <<"draft", "cancelled">>,
    <<"scheduled", "running">>,   <<"scheduled", "cancelled">>,
    <<"running", "settling">>,    <<"running", "cancelled">>,
    <<"settling", "closed">> }

VehicleStatus == {"idle", "reserved", "on_road", "maintenance", "retired"}

VehicleTransitions ==
  { <<"idle", "reserved">>,       <<"idle", "maintenance">>,     <<"idle", "retired">>,
    <<"reserved", "on_road">>,    <<"reserved", "idle">>,        <<"reserved", "maintenance">>,
    <<"on_road", "idle">>,        <<"on_road", "maintenance">>,
    <<"maintenance", "idle">>,    <<"maintenance", "retired">> }

AssignmentStatus == {"planned", "active", "completed", "aborted"}

(* Mutant: a completed shift can still be aborted. *)
AssignmentTransitions_AbortCompleted ==
  { <<"planned", "active">>,      <<"planned", "aborted">>,     <<"completed", "aborted">>,
    <<"active", "completed">>,    <<"active", "aborted">> }

AssignmentTransitions ==
  { <<"planned", "active">>,      <<"planned", "aborted">>,
    <<"active", "completed">>,    <<"active", "aborted">> }

DriveStatus == {"open", "paused", "closed", "discarded"}

DriveTransitions ==
  { <<"open", "paused">>,         <<"open", "closed">>,          <<"open", "discarded">>,
    <<"paused", "open">>,         <<"paused", "closed">>,        <<"paused", "discarded">> }

SettlementStatus == {"draft", "approved", "rejected"}

TakeoverCategory == {"perception", "planning", "control", "external"}

-----------------------------------------------------------------------------
(* Time windows are half open: the end is not part of the window.          *)

Windows == [start : Nat, end : Nat]

(* Mutant: windows that share only their last instant are let through. *)
WindowsOverlap_OffByOne(a, b) == a.start + 1 < b.end /\ b.start + 1 < a.end

WindowsOverlap(a, b) == a.start < b.end /\ b.start < a.end

WindowValid(w) == w.end > w.start

EnsureWindowCovers(campaign, shift) ==
  /\ shift.start >= campaign.window.start
  /\ shift.end <= campaign.window.end

-----------------------------------------------------------------------------
(* Campaign *)

RemainingKm(campaign) ==
  IF campaign.plannedKm >= campaign.committedKm
    THEN campaign.plannedKm - campaign.committedKm
    ELSE 0

EnsureCapacity(campaign, requestedKm) ==
  /\ requestedKm > 0
  /\ requestedKm <= RemainingKm(campaign)

(* Mutant: only a cancelled campaign refuses shifts. *)
EnsureAcceptsAssignments_UnlessCancelled(campaign) == campaign.status # "cancelled"

EnsureAcceptsAssignments(campaign) == campaign.status \in {"scheduled", "running"}

(* Assignment *)

Open(assignment) == assignment.status \in {"planned", "active"}

EnsureStartable(assignment, moment) ==
  /\ assignment.status = "planned"
  /\ moment >= assignment.shift.start
  /\ moment < assignment.shift.end

(* Drive session *)

Active(drive) == drive.status \in {"open", "paused"}

(* Mutant: telemetry is accepted after the session was closed. *)
EnsureAcceptsTelemetry_Closed(drive) == drive.status \in {"open", "closed"}

EnsureAcceptsTelemetry(drive) == drive.status = "open"

(* Mutant: manual mileage is forgotten. *)
TotalKm_AutoOnly(drive) == drive.autoKm

TotalKm(drive) == drive.autoKm + drive.manualKm

(* Mutant: the severity is not checked. *)
TakeoverValid_AnySeverity(kind) == kind.category \in TakeoverCategory

(* A takeover event that an operator may record. *)
TakeoverValid(kind) ==
  /\ kind.category \in TakeoverCategory
  /\ kind.severity \in 1..5

(* Settlement *)

PenaltyPerCriticalEvent == 150 * Hundredth

(* The nearest hundredth of a kilometre, the upper one from half way on. *)
Round2(km) ==
  LET over == km % Hundredth
  IN  IF 2 * over >= Hundredth THEN km - over + Hundredth ELSE km - over

Deduction(unresolvedCritical) == unresolvedCritical * PenaltyPerCriticalEvent

PenaltyKm(unresolvedCritical) == Round2(Deduction(unresolvedCritical))

(* Mutant: the penalty is added instead of deducted. *)
ComputeBillableKm_AddsPenalty(autoKm, unresolvedCritical) ==
  Round2(autoKm + Deduction(unresolvedCritical))

ComputeBillableKm(autoKm, unresolvedCritical) ==
  Round2(IF autoKm >= Deduction(unresolvedCritical)
           THEN autoKm - Deduction(unresolvedCritical)
           ELSE 0)
=============================================================================
