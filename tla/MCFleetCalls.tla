---------------------------- MODULE MCFleetCalls ----------------------------
(***************************************************************************)
(* Instances of FleetCalls for TLC: two requests for shifts and two        *)
(* batches beside the other handlers, with two keys.  The two shifts are   *)
(* of different vehicles and operators, so that a repeated key is refused  *)
(* by nothing but the key itself.                                          *)
(***************************************************************************)
EXTENDS FleetCalls, TLC

CONSTANTS opA, opB

Window(start, end) == [start |-> start, end |-> end]

CallPlans == {[plannedKm |-> 3000, window |-> Window(0, 1)]}

CallInputs ==
  { [campaign |-> 1, vehicle |-> 1, operator |-> opA, plannedKm |-> 2000, shift |-> Window(0, 1)],
    [campaign |-> 1, vehicle |-> 2, operator |-> opB, plannedKm |-> 1000, shift |-> Window(0, 1)] }

OneList == {<<1, 2>>}

TwoLists == {<<1, 2>>, <<1, 1>>}

Symmetry == Permutations(Keys) \cup Permutations(Calls) \cup Permutations(Batches)
=============================================================================
