------------------------------ MODULE Placements ------------------------------
(***************************************************************************)
(* The placements of pieces on storage units, and what the catalogue       *)
(* handlers do to them.  What a handler does to the tables that refer to   *)
(* placements is said by the modules of those tables.                      *)
(***************************************************************************)
EXTENDS Integers, Tables

CONSTANTS
    Pieces,
    Units,         \* storage units
    PlacementIds,  \* primary keys of piece_placements
    PieceOf,       \* the piece a placement key is used for
    Unlimited,     \* PiecePlacement.copies = NULL: digital or unknown
    MaxRequest,    \* bound: copies named in one form
    MaxCopies      \* bound: copies of a row or a placement

ASSUME PieceAssumption == PieceOf \in [PlacementIds -> Pieces]
ASSUME BoundsAssumption ==
    /\ MaxRequest \in Nat
    /\ MaxCopies \in Nat
    /\ Unlimited \notin Nat

VARIABLE placement  \* table piece_placements

Stock == Nat \cup {Unlimited}
PlacementRow == [unit : Units, copies : Stock]

(* What the field of a form may say; blank is Unlimited. *)
Numbers == 0..MaxRequest \cup {Unlimited}

PlacementOf(piece, unit) ==
    {p \in DOMAIN placement : PieceOf[p] = piece /\ placement[p].unit = unit}

(* The merged number: unknown only if both are, else the sum. *)
AddedCopies(n, m) ==
    IF n = Unlimited /\ m = Unlimited THEN Unlimited
    ELSE (IF n = Unlimited THEN 0 ELSE n) + (IF m = Unlimited THEN 0 ELSE m)

Affordable(n) == n \in 0..MaxCopies \cup {Unlimited}

(* add_placement; add_placement_to_existing, save_piece and create likewise *)
(* when the piece has no placement on the unit.                             *)
Insert(p, unit, n) ==
    /\ p \notin DOMAIN placement
    /\ PlacementOf(PieceOf[p], unit) = {}
    /\ placement' = WithRow(placement, p, [unit |-> unit, copies |-> n])

(* add_placement_to_existing: a scanned duplicate adds to the number. *)
AddCopies(p, n) ==
    /\ p \in DOMAIN placement
    /\ Affordable(AddedCopies(placement[p].copies, n))
    /\ placement' = [placement EXCEPT ![p].copies = AddedCopies(@, n)]

(* update_placement when the target unit holds no placement of the piece. *)
Change(p, unit, n) ==
    /\ p \in DOMAIN placement
    /\ PlacementOf(PieceOf[p], unit) \subseteq {p}
    /\ placement' = [placement EXCEPT ![p].unit = unit, ![p].copies = n]

(* update_placement onto a placement q of the same piece: p is merged into  *)
(* q and its row deleted.  A blank form counts as p's own number.           *)
MergeInto(p, q, n) ==
    LET incoming == IF n = Unlimited THEN placement[p].copies ELSE n IN
    /\ {p, q} \subseteq DOMAIN placement
    /\ p # q /\ PieceOf[p] = PieceOf[q]
    /\ Affordable(AddedCopies(placement[q].copies, incoming))
    /\ placement' = Without([placement EXCEPT ![q].copies = AddedCopies(@, incoming)], {p})

(* delete_placement, and ON DELETE CASCADE of pieces for delete_piece. *)
Drop(gone) ==
    /\ gone # {}
    /\ gone \subseteq DOMAIN placement
    /\ placement' = Without(placement, gone)

PlacementsOf(piece) == {p \in DOMAIN placement : PieceOf[p] = piece}
=============================================================================
