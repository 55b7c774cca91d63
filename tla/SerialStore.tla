---------------------------- MODULE SerialStore ----------------------------
(***************************************************************************)
(* The storage that the services take for granted: one write after the     *)
(* other, each made in full and on what all writes before it left.         *)
(* TxStore.tla implements this.                                            *)
(***************************************************************************)
EXTENDS Naturals, Sequences

CONSTANT Writes    \* what a write may consist of: sets of statements

VARIABLE log    \* the writes that were made: how many each has seen, and its statements

Init == log = << >>

Next == \E wrote \in Writes : log' = Append(log, [saw |-> Len(log), wrote |-> wrote])

Spec == Init /\ [][Next]_log
=============================================================================
