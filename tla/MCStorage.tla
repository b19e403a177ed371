------------------------------ MODULE MCStorage ------------------------------
(* Two locations, three units, one kind, one kiosk, one piece. *)
EXTENDS Storage, TLC

Keys == Permutations(LocationIds) \cup Permutations(UnitIds)
=============================================================================
