--------------------------- MODULE MCUploadQueue ---------------------------
(* Instances of UploadQueue for TLC. *)
EXTENDS UploadQueue, TLC

UploadSymmetry == Permutations(Reqs) \cup Permutations(Readers)
=============================================================================
