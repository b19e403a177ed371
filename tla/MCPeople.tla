------------------------------ MODULE MCPeople ------------------------------
(* Two people, two pieces and one artist.  Of the three names two differ in *)
(* the case of a letter alone; the third is the artist's.                   *)
EXTENDS People, TLC

CONSTANTS n1, n2, n3, a1, m1, m2

MCFold == n1 :> n1 @@ n2 :> n1 @@ n3 :> n3
MCArtistName == a1 :> n3

Keys == Permutations(PersonIds)

-----------------------------------------------------------------------------
(* Bound: what is enough of one piece is not done with the other, too.      *)
(* Arrangers are named on m1, beside a composer; apply_musicbrainz goes to  *)
(* m1, and it and the jobs wait while m1 is the only piece; and only a new  *)
(* person gets the second spelling of a name.                               *)
On(m, r) == {c \in contrib'[m] : c.role = r}

Narrow ==
    /\ m2 \in DOMAIN contrib' => On(m2, "arranger") = {}
    /\ m1 \in DOMAIN contrib' /\ On(m1, "arranger") # {} => Cardinality(On(m1, "composer")) = 1
    /\ applied' \subseteq {m1}
    /\ \A r \in applying' : r.piece = m1 /\ r.name # n2
    /\ queued' \cup applying' # {} => m2 \notin DOMAIN contrib'
    /\ \A p \in DOMAIN person \cap DOMAIN person' : person'[p].name = n2 => person[p].name = n2

NarrowSpec == Init /\ [][Next /\ Narrow]_vars
=============================================================================
