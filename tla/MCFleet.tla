------------------------------ MODULE MCFleet ------------------------------
(***************************************************************************)
(* Instances of Fleet for TLC.  Each set of inputs is chosen for one       *)
(* question; README.md says which and why it is large enough.  Mileage is   *)
(* in metres (Hundredth = 10).                                             *)
(***************************************************************************)
EXTENDS Fleet, TLC

CONSTANTS opA, opB

Window(start, end) == [start |-> start, end |-> end]

Plan(plannedKm, start, end) == [plannedKm |-> plannedKm, window |-> Window(start, end)]

Shift(c, v, o, plannedKm, start, end) ==
  [campaign |-> c, vehicle |-> v, operator |-> o, plannedKm |-> plannedKm,
   shift |-> Window(start, end)]

Report(category, severity, manualKm) ==
  [category |-> category, severity |-> severity, manualKm |-> manualKm]

KeySymmetry == Permutations(Keys)

-----------------------------------------------------------------------------
(* Planning: two vehicles and two operators compete for the mileage of two
   campaigns.  The shifts overlap (0-2 and 1-3), touch (0-2 and 2-4), are of
   different operators on one vehicle and of one operator on two vehicles, and
   the plan of the first campaign is too small for all of its shifts.  Of the
   refused ones one asks for nothing, one is empty, one leaves the window of
   the campaign, one has no driver.                                        *)

PlanningPlans == {Plan(3000, 0, 4), Plan(0, 0, 4), Plan(3000, 1, 1)}

PlanningInputs ==
  { Shift(1, 1, opA, 2000, 0, 2), Shift(1, 2, opA, 1000, 1, 3), Shift(1, 2, opB, 1000, 0, 2),
    Shift(2, 1, opB, 1000, 2, 4), Shift(2, 2, opA, 1000, 1, 3) }

RefusedInputs ==
  { Shift(1, 1, opA, 0, 0, 2), Shift(1, 1, opA, 1000, 2, 2), Shift(1, 1, opA, 1000, 3, 5) }
    \cup {Shift(1, 1, admin, 1000, 0, 2) : admin \in FleetAdmins}

AllPlanningInputs == PlanningInputs \cup RefusedInputs

-----------------------------------------------------------------------------
(* Driving: one vehicle, two shifts one after the other, which use the plan of
   the campaign up, with takeovers on both sides of every threshold.  Both shifts
   may be driven to the metre; what they bill is then rounded up, and 2.512 km
   planned are billed as 2.52; 1.003 km are rounded down.                  *)

DrivingPlans == {Plan(2512, 0, 2)}

DrivingInputs == {Shift(1, 1, opA, 2006, 0, 1), Shift(1, 1, opA, 506, 1, 2)}

DrivingKm == {<<0, 0>>, <<506, 0>>, <<1003, 500>>, <<2006, 0>>}

DrivingTakeovers ==
  { Report("planning", 3, 500), Report("external", 4, 0), Report("control", 1, 0),
    Report("external", 6, 0) }

-----------------------------------------------------------------------------
(* Closing: two shifts of two vehicles are driven, settled and approved while
   the campaign is on its way to closed.                                   *)

ClosingPlans == {Plan(2000, 0, 1)}

ClosingInputs == {Shift(1, 1, opA, 1000, 0, 1), Shift(1, 2, opB, 1000, 0, 1)}

ClosingKm == {<<1000, 0>>}

ClosingTakeovers == {Report("perception", 1, 0)}
=============================================================================
