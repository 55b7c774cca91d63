---------------------------- MODULE VehicleLease ----------------------------
(***************************************************************************)
(* What the road-test chain promises about vehicles, without campaigns,    *)
(* clocks, sessions or settlements: a shift has a vehicle to itself from   *)
(* its planning to its end, drives off with it at most once, and does not  *)
(* get it again after it gave it back.  Fleet.tla implements this.         *)
(***************************************************************************)
CONSTANTS Vehicles, Shifts

VARIABLES
  lease,   \* vehicle -> the shifts that hold it, and whether it is out on the road
  ended    \* the shifts that have given their vehicle back

Free == [by |-> {}, out |-> FALSE]

HeldBy(s) == [by |-> {s}, out |-> FALSE]

Reserve(v, s) ==
  /\ lease[v] = Free
  /\ s \notin ended
  /\ \A other \in Vehicles : s \notin lease[other].by
  /\ lease' = [lease EXCEPT ![v] = HeldBy(s)]
  /\ UNCHANGED ended

DriveOff(v, s) ==
  /\ lease[v] = HeldBy(s)
  /\ lease' = [lease EXCEPT ![v].out = TRUE]
  /\ UNCHANGED ended

GiveBack(v, s) ==
  /\ lease[v].by = {s}
  /\ lease' = [lease EXCEPT ![v] = Free]
  /\ ended' = ended \cup {s}

Init == lease = [v \in Vehicles |-> Free] /\ ended = {}

Next == \E v \in Vehicles, s \in Shifts : Reserve(v, s) \/ DriveOff(v, s) \/ GiveBack(v, s)

Spec == Init /\ [][Next]_<<lease, ended>>
=============================================================================
