----------------------------- MODULE MCDataLoop -----------------------------
(***************************************************************************)
(* An instance of DataLoop for TLC: one drive uploads two batches, either  *)
(* key possibly asked for by two requests at a time.                       *)
(***************************************************************************)
EXTENDS DataLoop, TLC

CONSTANTS op, k1, k2

Request(key, quality) ==
  [actor |-> op, drive |-> 1, key |-> key, quality |-> quality, intact |-> TRUE]

(* Bad frames on both sides of the threshold between two deadlines, one beside a
   good frame; one batch too long. *)
CurationRequests ==
  { Request(k1, <<14, 55>>), Request(k2, <<15>>), Request(k2, <<60, 60, 60>>) }

(* Each frame by itself, and all of them. *)
FrameSelections == {{f} : f \in FrameIds} \cup {FrameIds}

UploadSymmetry == Permutations(Uploads)
=============================================================================
