----------------------------- MODULE MCPlatform -----------------------------
(***************************************************************************)
(* An instance of Platform for TLC: shifts of one vehicle whose drives     *)
(* deliver a batch, with a bad and a good frame.                           *)
(***************************************************************************)
EXTENDS Platform, TLC

CONSTANTS op, upKey

Window(start, end) == [start |-> start, end |-> end]

OnePlan == {[plannedKm |-> 2000, window |-> Window(0, 2)]}

TwoShifts ==
  { [campaign |-> 1, vehicle |-> 1, operator |-> op, plannedKm |-> 1000, shift |-> Window(0, 1)],
    [campaign |-> 1, vehicle |-> 1, operator |-> op, plannedKm |-> 1000, shift |-> Window(1, 2)] }

EitherDrive ==
  {[actor |-> op, drive |-> d, key |-> upKey, quality |-> <<20, 60>>, intact |-> TRUE] : d \in 1..2}

GoodFrame == {{<<1, 2>>}}

KeySymmetry == Permutations(Keys)
=============================================================================
