---------------------------- MODULE MCFileStore ----------------------------
(* Instances of FileStore for TLC. *)
EXTENDS FileStore, TLC

RequestSymmetry == Permutations(Reqs) \cup Permutations(FileNames)
=============================================================================
