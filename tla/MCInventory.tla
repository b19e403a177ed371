------------------------------ MODULE MCInventory ------------------------------
(* Instances of Inventory with one piece, which may lie in two units. *)
EXTENDS Inventory, TLC

CONSTANTS p1, p2, m1, u1, u2, k1

MCPieceOf == (p1 :> m1) @@ (p2 :> m1)
MCAt == (k1 :> {u1, u2})
MCAreas == {{u1}}

(* The fields of a check list hold the expected number until it is changed. *)
MCAnswers == {[status |-> "missing", actual |-> 1]}

Keys == Permutations(SessionIds)
=============================================================================
