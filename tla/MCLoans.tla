------------------------------- MODULE MCLoans -------------------------------
(* Instances of Loans.  In the lending instances the stock is put up first  *)
(* and does not change; their behaviours are suffixes of behaviours of Spec. *)
EXTENDS Loans, TLC

CONSTANTS p1, p2, m1, u1, u2

MCPieceOf == (p1 :> m1) @@ (p2 :> m1)
MCKiosks == {{u1}}

(* Keys are interchangeable; those of the placements only while none of them *)
(* is in use at the start, since both are of the same piece.                 *)
Keys == Permutations(LoanIds) \cup Permutations(BatchIds)
AllKeys == Keys \cup Permutations(PlacementIds)

(* One copy in each of two units. *)
StockedInit ==
    /\ placement = (p1 :> [unit |-> u1, copies |-> 1]) @@ (p2 :> [unit |-> u2, copies |-> 1])
    /\ loan = Empty
    /\ batch = Empty

LendingSpec == StockedInit /\ [][CartStep \/ LoanStep \/ BatchStep]_vars
=============================================================================
