----------------------------- MODULE MCSessions -----------------------------
(***************************************************************************)
(* An instance of Sessions for TLC: the bootstrap account and one that it  *)
(* may register, two requests at a time.                                   *)
(***************************************************************************)
EXTENDS Sessions, TLC

CONSTANTS root, driver

SomeAsks ==
  { [op |-> "logout"],
    [op |-> "register", name |-> driver, role |-> "safety_operator"],
    [op |-> "revoke_all", of |-> 2] }

RequestSymmetry == Permutations(Requests)
=============================================================================
