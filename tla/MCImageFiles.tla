---------------------------- MODULE MCImageFiles ----------------------------
(* Instances of ImageFiles. *)
EXTENDS ImageFiles, TLC

Keys == Permutations(Files) \cup Permutations(Pieces) \cup Permutations(ScanIds)
=============================================================================
