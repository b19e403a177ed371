----------------------------- MODULE MCCatalogue -----------------------------
(* Two publishers with three spellings, two of them alike; three tags; two   *)
(* pieces.                                                                   *)
EXTENDS Catalogue, TLC

CONSTANTS Verbum, VerbumAB, Carus

MCNormal == (Verbum :> Verbum) @@ (VerbumAB :> Verbum) @@ (Carus :> Carus)

(* Bound: several tags at a time only while there is no publisher and at    *)
(* most one piece.                                                          *)
Narrow ==
    \/ Cardinality(DOMAIN tag') <= 1
    \/ pub' = Empty /\ fetching' = {} /\ Cardinality(DOMAIN piece') <= 1
NarrowSpec == Init /\ [][Next /\ Narrow]_vars

Keys == Permutations(PubIds) \cup Permutations(TagIds) \cup Permutations(Pieces)
=============================================================================
