----------------------------- MODULE MCJobQueue -----------------------------
(* Instances of JobQueue for TLC.  Dispatchers are interchangeable. *)
EXTENDS JobQueue, TLC

DispatcherSymmetry == Permutations(Dispatchers)
=============================================================================
