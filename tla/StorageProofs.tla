---------------------------- MODULE StorageProofs ----------------------------
(***************************************************************************)
(* Storage's tables keep their references and the units stay a forest, for *)
(* every number of locations, units, kinds and kiosks.  TypeOK,            *)
(* ReferencesHold and Forest are inductive together: that the parent of a  *)
(* unit exists is what keeps a new unit out of every cycle.  From the      *)
(* three it follows that the loops which look down the tree, level after   *)
(* level, find just the units from which the walk up meets the start.      *)
(***************************************************************************)
EXTENDS Storage, FiniteSetTheorems, WellFoundedInduction, TLAPS

IInv == TypeOK /\ ReferencesHold /\ Forest

-----------------------------------------------------------------------------
(* Rows of units *)

(* What the invariant says of one unit. *)
LEMMA UnitFacts ==
    ASSUME TypeOK, NEW u \in DOMAIN unit
    PROVE  /\ u \in UnitIds /\ u # None
           /\ unit[u] \in UnitRow
           /\ unit[u].location \in LocationIds
           /\ unit[u].parent \in UnitIds \cup {None}
           /\ unit[u].kind \in KindIds \cup {None}
BY NoneAssumption DEF TypeOK, IsTable, UnitRow

(* A new unit is added to the table, and the rows that were there stay.      *)
LEMMA CreateUnitRows ==
    ASSUME TypeOK, NEW u \in UnitIds, NEW l \in LocationIds, NEW p \in UnitIds \cup {None},
           NEW k \in KindIds \cup {None}, CreateUnit(u, l, p, k)
    PROVE  /\ IsTable(unit, UnitIds, UnitRow)'
           /\ DOMAIN unit' = DOMAIN unit \cup {u}
           /\ unit'[u] = [location |-> l, parent |-> p, kind |-> k, archived |-> FALSE]
           /\ \A v \in DOMAIN unit : unit'[v] = unit[v]
<1> DEFINE row == [location |-> l, parent |-> p, kind |-> k, archived |-> FALSE]
<1>1. row \in UnitRow
  BY DEF UnitRow
<1>2. unit' = WithRow(unit, u, row) /\ u \notin DOMAIN unit
  BY DEF CreateUnit
<1> HIDE DEF row
<1>3. /\ DOMAIN unit' = DOMAIN unit \cup {u}
      /\ unit'[u] = row
      /\ \A v \in DOMAIN unit : unit'[v] = unit[v]
      /\ IsTable(unit', UnitIds, UnitRow)
  BY <1>1, <1>2 DEF WithRow, With, TypeOK, IsTable
<1>4. QED
  BY <1>3 DEF row, IsTable

(* A moved unit keeps its location, and the other rows stay. *)
LEMMA UpdateUnitRows ==
    ASSUME TypeOK, NEW u \in UnitIds, NEW p \in UnitIds \cup {None}, NEW k \in KindIds \cup {None},
           UpdateUnit(u, p, k)
    PROVE  /\ IsTable(unit, UnitIds, UnitRow)'
           /\ DOMAIN unit' = DOMAIN unit
           /\ unit'[u].location = unit[u].location
           /\ unit'[u].parent = p /\ unit'[u].kind = k
           /\ \A v \in DOMAIN unit \ {u} : unit'[v] = unit[v]
<1> DEFINE row == [unit[u] EXCEPT !.parent = p, !.kind = k]
<1>1. u \in DOMAIN unit /\ unit[u] \in UnitRow
  BY UnitFacts DEF UpdateUnit
<1>2. /\ row \in UnitRow
      /\ row.location = unit[u].location /\ row.parent = p /\ row.kind = k
  BY <1>1 DEF UnitRow
<1>3. unit' = [unit EXCEPT ![u] = row]
  BY <1>1 DEF UpdateUnit
<1> HIDE DEF row
<1>4. QED
  BY <1>1, <1>2, <1>3 DEF TypeOK, IsTable

(* An archived unit stays where it is. *)
LEMMA ArchivedRows ==
    ASSUME TypeOK, NEW u \in DOMAIN unit, unit' = [unit EXCEPT ![u].archived = TRUE]
    PROVE  /\ IsTable(unit, UnitIds, UnitRow)'
           /\ DOMAIN unit' = DOMAIN unit
           /\ \A v \in DOMAIN unit : /\ unit'[v].location = unit[v].location
                                     /\ unit'[v].parent = unit[v].parent
                                     /\ unit'[v].kind = unit[v].kind
<1> DEFINE row == [unit[u] EXCEPT !.archived = TRUE]
<1>1. unit[u] \in UnitRow
  BY UnitFacts
<1>2. /\ row \in UnitRow
      /\ row.location = unit[u].location /\ row.parent = unit[u].parent /\ row.kind = unit[u].kind
  BY <1>1 DEF UnitRow
<1>3. unit' = [unit EXCEPT ![u] = row]
  OBVIOUS
<1> HIDE DEF row
<1>4. QED
  BY <1>1, <1>2, <1>3 DEF TypeOK, IsTable

-----------------------------------------------------------------------------
(* The walk by parent_id *)

(* What the walk meets is closed: whose parent is not met is a root. *)
LEMMA AtOrAboveUpClosed ==
    ASSUME TypeOK, ReferencesHold, NEW p \in DOMAIN unit
    PROVE  p \in AtOrAbove(p) /\ UpClosed(AtOrAbove(p))
<1>1. p \in AtOrAbove(p)
  BY DEF AtOrAbove
<1>2. ASSUME NEW v \in AtOrAbove(p), unit[v].parent # None
      PROVE  unit[v].parent \in AtOrAbove(p)
  <2>1. v \in DOMAIN unit
    BY DEF AtOrAbove
  <2>2. unit[v].parent \in DOMAIN unit
    BY <1>2, <2>1 DEF ReferencesHold, ParentFits
  <2>3. ASSUME NEW S \in SUBSET DOMAIN unit, p \in S, UpClosed(S)
        PROVE  unit[v].parent \in S
    <3>1. v \in S
      BY <2>3 DEF AtOrAbove
    <3>2. QED
      BY <1>2, <2>3, <3>1 DEF UpClosed
  <2>4. QED
    BY <2>2, <2>3 DEF AtOrAbove
<1>3. QED
  BY <1>1, <1>2 DEF UpClosed

(* A new unit lies in no cycle, for no unit lies in it. *)
LEMMA CreateUnitForest ==
    ASSUME IInv, NEW u \in UnitIds, NEW l \in LocationIds, NEW p \in UnitIds \cup {None},
           NEW k \in KindIds \cup {None}, CreateUnit(u, l, p, k)
    PROVE  Forest'
<1> USE DEF IInv
<1> SUFFICES ASSUME NEW S \in SUBSET DOMAIN unit', S # {}
             PROVE  \E x \in S : unit'[x].parent \notin S
  BY DEF Forest
<1>1. u \notin DOMAIN unit /\ ParentFits(p, l)
  BY DEF CreateUnit
<1>2. unit'[u].parent = p /\ DOMAIN unit' = DOMAIN unit \cup {u}
  <2>1. /\ unit'[u] = [location |-> l, parent |-> p, kind |-> k, archived |-> FALSE]
        /\ DOMAIN unit' = DOMAIN unit \cup {u}
    BY CreateUnitRows
  <2>2. QED
    BY <2>1
<1>3. CASE S \ {u} = {}
  <2>1. S = {u} /\ p # u
    BY <1>1, <1>3, NoneAssumption DEF ParentFits
  <2>2. QED
    BY <1>2, <2>1
<1>4. CASE S \ {u} # {}
  <2>1. S \ {u} \in SUBSET DOMAIN unit
    BY <1>2
  <2>2. PICK x \in S \ {u} : unit[x].parent \notin S \ {u}
    BY <1>4, <2>1 DEF Forest
  <2>3. unit[x].parent # u
    BY <1>1, <2>1, NoneAssumption DEF ReferencesHold, ParentFits
  <2>4. unit'[x] = unit[x]
    BY <2>1, CreateUnitRows
  <2>5. QED
    BY <2>2, <2>3, <2>4
<1>5. QED
  BY <1>3, <1>4

(* A unit that moves under one it is not above closes no cycle: of a set     *)
(* with both in it, take what is at or above the new parent.                 *)
LEMMA UpdateUnitForest ==
    ASSUME IInv, NEW u \in UnitIds, NEW p \in UnitIds \cup {None}, NEW k \in KindIds \cup {None},
           UpdateUnit(u, p, k)
    PROVE  Forest'
<1> USE DEF IInv
<1> SUFFICES ASSUME NEW S \in SUBSET DOMAIN unit', S # {}
             PROVE  \E x \in S : unit'[x].parent \notin S
  BY DEF Forest
<1>1. /\ DOMAIN unit' = DOMAIN unit
      /\ unit'[u].parent = p
      /\ \A v \in DOMAIN unit \ {u} : unit'[v] = unit[v]
  BY UpdateUnitRows
<1>2. CASE u \notin S
  <2>1. PICK x \in S : unit[x].parent \notin S
    BY <1>1 DEF Forest
  <2>2. unit'[x] = unit[x]
    BY <1>1, <1>2
  <2>3. QED
    BY <2>1, <2>2
<1>3. CASE u \in S /\ p \notin S
  BY <1>1, <1>3
<1>4. CASE u \in S /\ p \in S
  <2> DEFINE T == S \cap AtOrAbove(p)
  <2>1. p \in DOMAIN unit /\ p # None
    BY <1>1, <1>4, NoneAssumption DEF TypeOK, IsTable
  <2>2. u \notin AtOrAbove(p)
    BY <2>1 DEF UpdateUnit, MayMove
  <2>3. p \in T /\ T \in SUBSET DOMAIN unit
    BY <1>1, <1>4, <2>1, AtOrAboveUpClosed
  <2>4. PICK x \in T : unit[x].parent \notin T
    BY <2>3 DEF Forest
  <2>5. unit[x].parent \notin S
    <3>1. x \in AtOrAbove(p) /\ UpClosed(AtOrAbove(p))
      BY <2>1, AtOrAboveUpClosed
    <3>2. unit[x].parent = None \/ unit[x].parent \in AtOrAbove(p)
      BY <3>1 DEF UpClosed
    <3>3. None \notin S
      BY <1>1, NoneAssumption DEF TypeOK, IsTable
    <3>4. QED
      BY <2>4, <3>2, <3>3
  <2>6. x \in DOMAIN unit \ {u}
    BY <1>1, <2>2
  <2>7. QED
    BY <1>1, <2>5, <2>6
<1>5. QED
  BY <1>2, <1>3, <1>4

-----------------------------------------------------------------------------
(* The steps *)

(* Locations and kinds: what is deleted is named by nothing. *)
LEMMA LocationAndKindStep ==
    ASSUME IInv, LocationStep \/ KindStep
    PROVE  IInv'
<1>1. UNCHANGED <<unit, placed, wanted, kiosk>>
  BY DEF LocationStep, KindStep, CreateLocation, DeleteLocation, CreateKind, DeleteKind
<1>2. location' \subseteq LocationIds /\ kind' \subseteq KindIds
  BY DEF IInv, TypeOK, LocationStep, KindStep, CreateLocation, DeleteLocation, CreateKind, DeleteKind
<1>3. TypeOK' /\ Forest'
  BY <1>1, <1>2 DEF IInv, TypeOK, Forest, IsTable
<1>4. ReferencesHold'
  <2>1. \A u \in DOMAIN unit : unit[u].location \in location' /\ unit[u].kind \in kind' \cup {None}
    BY DEF IInv, ReferencesHold, KindGiven, LocationStep, KindStep, CreateLocation, DeleteLocation,
           CreateKind, DeleteKind
  <2>2. \A q \in DOMAIN kiosk : kiosk[q] \in location' \cup {None}
    BY DEF IInv, ReferencesHold, LocationStep, KindStep, CreateLocation, DeleteLocation, CreateKind,
           DeleteKind
  <2>3. QED
    BY <1>1, <2>1, <2>2 DEF IInv, ReferencesHold, ParentFits, KindGiven
<1>5. QED
  BY <1>3, <1>4 DEF IInv

(* A new unit. *)
LEMMA CreateUnitStep ==
    ASSUME IInv, NEW u \in UnitIds, NEW l \in LocationIds, NEW p \in UnitIds \cup {None},
           NEW k \in KindIds \cup {None}, CreateUnit(u, l, p, k)
    PROVE  IInv'
<1>0. TypeOK /\ ReferencesHold
  BY DEF IInv
<1>1. /\ IsTable(unit, UnitIds, UnitRow)'
      /\ DOMAIN unit' = DOMAIN unit \cup {u}
      /\ unit'[u] = [location |-> l, parent |-> p, kind |-> k, archived |-> FALSE]
      /\ \A v \in DOMAIN unit : unit'[v] = unit[v]
  BY <1>0, CreateUnitRows
<1>2. UNCHANGED <<location, kind, placed, wanted, kiosk>>
  BY DEF CreateUnit
<1>3. TypeOK'
  BY <1>0, <1>1, <1>2 DEF TypeOK, IsTable
<1>4. l \in location /\ ParentFits(p, l) /\ KindGiven(k)
  BY DEF CreateUnit
<1>5. ReferencesHold'
  BY <1>0, <1>1, <1>2, <1>4 DEF ReferencesHold, ParentFits, KindGiven
<1>6. QED
  BY <1>3, <1>5, CreateUnitForest DEF IInv

(* A moved unit. *)
LEMMA UpdateUnitStep ==
    ASSUME IInv, NEW u \in UnitIds, NEW p \in UnitIds \cup {None}, NEW k \in KindIds \cup {None},
           UpdateUnit(u, p, k)
    PROVE  IInv'
<1>0. TypeOK /\ ReferencesHold
  BY DEF IInv
<1>1. /\ IsTable(unit, UnitIds, UnitRow)'
      /\ DOMAIN unit' = DOMAIN unit
      /\ unit'[u].location = unit[u].location
      /\ unit'[u].parent = p /\ unit'[u].kind = k
      /\ \A v \in DOMAIN unit \ {u} : unit'[v] = unit[v]
  BY <1>0, UpdateUnitRows
<1>2. UNCHANGED <<location, kind, placed, wanted, kiosk>>
  BY DEF UpdateUnit
<1>3. TypeOK'
  BY <1>0, <1>1, <1>2 DEF TypeOK, IsTable
<1>4. u \in DOMAIN unit /\ ParentFits(p, unit[u].location) /\ KindGiven(k)
  BY DEF UpdateUnit, MayMove
<1>5. \A v \in DOMAIN unit : unit'[v].location = unit[v].location
  BY <1>1
<1>6. ReferencesHold'
  BY <1>0, <1>1, <1>2, <1>4, <1>5 DEF ReferencesHold, ParentFits, KindGiven
<1>7. QED
  BY <1>3, <1>6, UpdateUnitForest DEF IInv

(* A unit goes, or is archived. *)
LEMMA DeleteUnitStep ==
    ASSUME IInv, NEW u \in UnitIds, DeleteUnit(u)
    PROVE  IInv'
<1>0. TypeOK /\ ReferencesHold /\ Forest
  BY DEF IInv
<1>1. UNCHANGED <<location, kind, placed, wanted, kiosk>> /\ u \in DOMAIN unit /\ Children(u) = {}
  BY DEF DeleteUnit
<1>2. CASE unit' = [unit EXCEPT ![u].archived = TRUE]
  <2>1. /\ IsTable(unit, UnitIds, UnitRow)'
        /\ DOMAIN unit' = DOMAIN unit
        /\ \A v \in DOMAIN unit : /\ unit'[v].location = unit[v].location
                                  /\ unit'[v].parent = unit[v].parent
                                  /\ unit'[v].kind = unit[v].kind
    BY <1>0, <1>1, <1>2, ArchivedRows
  <2>2. TypeOK'
    BY <1>0, <1>1, <2>1 DEF TypeOK, IsTable
  <2>3. ReferencesHold'
    BY <1>0, <1>1, <2>1 DEF ReferencesHold, ParentFits, KindGiven
  <2>4. Forest'
    BY <1>0, <2>1 DEF Forest
  <2>5. QED
    BY <2>2, <2>3, <2>4 DEF IInv
<1>3. CASE PlacedOn(u) = {} /\ u \notin wanted /\ unit' = Without(unit, {u})
  <2>1. DOMAIN unit' = DOMAIN unit \ {u} /\ \A v \in DOMAIN unit \ {u} : unit'[v] = unit[v]
    BY <1>3 DEF Without
  <2>2. IsTable(unit', UnitIds, UnitRow)
    BY <1>0, <1>3 DEF TypeOK, IsTable, Without
  <2>3. TypeOK'
    BY <1>0, <1>1, <2>2 DEF TypeOK, IsTable
  <2>4. \A v \in DOMAIN unit : unit[v].parent # u
    BY <1>1 DEF Children
  <2>5. \A m \in Pieces, v \in UnitIds : <<m, v>> \in placed => v \in DOMAIN unit \ {u}
    BY <1>0, <1>3 DEF ReferencesHold, PlacedOn
  <2>6. wanted \subseteq DOMAIN unit \ {u}
    BY <1>0, <1>3 DEF ReferencesHold
  <2>7. ASSUME NEW v \in DOMAIN unit'
        PROVE  /\ unit'[v].location \in location
               /\ \/ unit'[v].parent = None
                  \/ /\ unit'[v].parent \in DOMAIN unit'
                     /\ unit'[unit'[v].parent].location = unit'[v].location
               /\ unit'[v].kind \in kind \cup {None}
    <3>1. v \in DOMAIN unit \ {u} /\ unit'[v] = unit[v] /\ unit[v].parent # u
      BY <2>1, <2>4
    <3>2. /\ unit[v].location \in location
          /\ ParentFits(unit[v].parent, unit[v].location)
          /\ KindGiven(unit[v].kind)
      BY <1>0, <3>1 DEF ReferencesHold
    <3>3. QED
      BY <2>1, <3>1, <3>2 DEF ParentFits, KindGiven
  <2>8. ReferencesHold'
    BY <1>0, <1>1, <2>1, <2>5, <2>6, <2>7 DEF ReferencesHold, ParentFits, KindGiven
  <2>9. Forest'
    BY <1>0, <2>1 DEF Forest
  <2>10. QED
    BY <2>3, <2>8, <2>9 DEF IInv
<1>4. QED
  BY <1>2, <1>3 DEF DeleteUnit

(* Placements, scans and kiosks name what exists. *)
LEMMA UseAndKioskStep ==
    ASSUME IInv, UseStep \/ KioskStep
    PROVE  IInv'
<1>0. TypeOK /\ ReferencesHold /\ Forest
  BY DEF IInv
<1>1. UNCHANGED <<location, kind, unit>>
  BY DEF UseStep, KioskStep, Place, Unplace, Want, Unwant, SetKiosk, DeleteKiosk
<1>2. CASE UseStep
  <2>1. /\ placed' \subseteq Pieces \X UnitIds
        /\ wanted' \subseteq DOMAIN unit
        /\ \A m \in Pieces, u \in UnitIds : <<m, u>> \in placed' => u \in DOMAIN unit
        /\ UNCHANGED kiosk
    <3>1. CASE \E m \in Pieces, u \in UnitIds : Place(m, u) \/ Unplace(m, u)
      <4>1. PICK m \in Pieces, u \in UnitIds : Place(m, u) \/ Unplace(m, u)
        BY <3>1
      <4>2. UNCHANGED <<wanted, kiosk>>
        BY <4>1 DEF Place, Unplace
      <4>3. placed' = placed \ {<<m, u>>} \/ (placed' = placed \cup {<<m, u>>} /\ u \in DOMAIN unit)
        BY <4>1 DEF Place, Unplace
      <4>4. QED
        BY <1>0, <4>2, <4>3 DEF TypeOK, ReferencesHold
    <3>2. CASE \E u \in UnitIds : Want(u) \/ Unwant(u)
      BY <1>0, <3>2 DEF Want, Unwant, TypeOK, ReferencesHold
    <3>3. QED
      BY <1>2, <3>1, <3>2 DEF UseStep
  <2>2. QED
    BY <1>0, <1>1, <2>1 DEF IInv, TypeOK, ReferencesHold, Forest, ParentFits, KindGiven, IsTable
<1>3. CASE KioskStep
  <2>1. UNCHANGED <<placed, wanted>>
    BY <1>3 DEF KioskStep, SetKiosk, DeleteKiosk
  <2>2. /\ IsTable(kiosk', KioskIds, LocationIds \cup {None})
        /\ \A q \in DOMAIN kiosk' : kiosk'[q] \in location \cup {None}
    BY <1>0, <1>3 DEF KioskStep, SetKiosk, DeleteKiosk, With, Without, TypeOK, IsTable, ReferencesHold
  <2>3. QED
    BY <1>0, <1>1, <2>1, <2>2 DEF IInv, TypeOK, ReferencesHold, Forest, ParentFits, KindGiven, IsTable
<1>4. QED
  BY <1>2, <1>3

(* The first tables are empty. *)
LEMMA InitIInv == Init => IInv
BY DEF Init, IInv, TypeOK, ReferencesHold, Forest, IsTable, Empty

(* Every step keeps the invariant. *)
LEMMA NextIInv == IInv /\ [Next]_vars => IInv'
<1> SUFFICES ASSUME IInv, [Next]_vars
             PROVE  IInv'
  OBVIOUS
<1>1. CASE UnitStep
  BY <1>1, CreateUnitStep, UpdateUnitStep, DeleteUnitStep DEF UnitStep
<1>2. CASE UNCHANGED vars
  BY <1>2 DEF vars, IInv, TypeOK, ReferencesHold, Forest, IsTable, ParentFits, KindGiven
<1>3. QED
  BY <1>1, <1>2, LocationAndKindStep, UseAndKioskStep DEF Next

(* The invariant holds in every state. *)
LEMMA IInvHolds == Spec => []IInv
BY InitIInv, NextIInv, PTL DEF Spec

(* The tables keep their shape. *)
THEOREM TypeCorrect == Spec => []TypeOK
BY IInvHolds, PTL DEF IInv

(* Placements, scans, kiosks and units name what exists, whatever is         *)
(* deleted.                                                                  *)
THEOREM ReferencesHoldThm == Spec => []ReferencesHold
BY IInvHolds, PTL DEF IInv

(* Moves make no cycle: no walk by parent_id, up or down, goes on for ever.  *)
THEOREM ForestThm == Spec => []Forest
BY IInvHolds, PTL DEF IInv

-----------------------------------------------------------------------------
(* The search by parent_id *)

(* The library's induction takes a predicate; this one takes the set of the  *)
(* numbers that have it.  Were one missing, there would be a least interval  *)
(* from 0 that ends in such a number.                                        *)
LEMMA InductionTo ==
    ASSUME NEW N \in Nat, NEW S, 0 \in S, \A n \in 0..N : n + 1 \in 0..N /\ n \in S => n + 1 \in S
    PROVE  0..N \subseteq S
<1> DEFINE bad == {0..n : n \in (0..N) \ S}
           R == StrictSubsetOrdering(0..N)
<1> SUFFICES ASSUME bad # {}
             PROVE  FALSE
  OBVIOUS
<1>1. IsWellFoundedOn(R, FiniteSubsetsOf(0..N))
  BY FS_Interval, FS_StrictSubsetOrderingWellFounded
<1>2. bad \subseteq FiniteSubsetsOf(0..N)
  <2>1. ASSUME NEW n \in (0..N) \ S
        PROVE  0..n \in FiniteSubsetsOf(0..N)
    <3>1. n \in Int /\ 0 \in Int /\ 0..n \subseteq 0..N
      OBVIOUS
    <3>2. IsFiniteSet(0..n)
      BY <3>1, FS_Interval
    <3>3. QED
      BY <3>1, <3>2 DEF FiniteSubsetsOf
  <2>2. QED
    BY <2>1
<1>3. PICK X \in bad : \A Y \in bad : ~ (<<Y, X>> \in R)
  BY <1>1, <1>2, WFMin
<1>4. PICK m \in (0..N) \ S : X = 0..m
  OBVIOUS
<1>5. m # 0 /\ m - 1 \in 0..N /\ m - 1 + 1 = m
  BY <1>4
<1>6. m - 1 \notin S
  BY <1>4, <1>5
<1>7. 0..(m - 1) \in bad
  BY <1>5, <1>6
<1>8. <<0..(m - 1), 0..m>> \in R
  BY <1>4, <1>5 DEF StrictSubsetOrdering
<1>9. QED
  BY <1>3, <1>4, <1>7, <1>8

(* The children, among some units, of what was found so far. *)
Under(T, among) == {c \in among : unit[c].parent \in T}

(* f has the first n levels of a search: each adds the children of the last. *)
IsSearch(f, n, start, among) ==
    f = [i \in 0..n |-> IF i = 0 THEN start ELSE f[i - 1] \cup Under(f[i - 1], among)]

(* The recursion of a search defines a function: one that is right up to n   *)
(* can be continued.                                                         *)
LEMMA SearchExists ==
    ASSUME NEW start, NEW among, NEW N \in Nat
    PROVE  \E f : IsSearch(f, N, start, among)
<1> DEFINE S == {n \in 0..N : \E f : IsSearch(f, n, start, among)}
<1>1. 0 \in S
  <2> DEFINE f == [i \in 0..0 |-> start]
  <2>1. IsSearch(f, 0, start, among)
    BY DEF IsSearch
  <2>2. QED
    BY <2>1
<1>2. ASSUME NEW n \in 0..N, n + 1 \in 0..N, n \in S
      PROVE  n + 1 \in S
  <2>1. PICK f : IsSearch(f, n, start, among)
    BY <1>2
  <2> DEFINE g == [i \in 0..(n + 1) |-> IF i \in 0..n THEN f[i] ELSE f[n] \cup Under(f[n], among)]
  <2>2. \A i \in 0..n : f[i] = IF i = 0 THEN start ELSE f[i - 1] \cup Under(f[i - 1], among)
    BY <2>1 DEF IsSearch
  <2>3. \A i \in 0..n : g[i] = f[i]
    BY <1>2
  <2>4. g[n + 1] = f[n] \cup Under(f[n], among)
    BY <1>2
  <2>5. DOMAIN g = 0..(n + 1) /\ g = [i \in 0..(n + 1) |-> g[i]]
    OBVIOUS
  <2> HIDE DEF g
  <2>6. ASSUME NEW i \in 0..(n + 1)
        PROVE  g[i] = IF i = 0 THEN start ELSE g[i - 1] \cup Under(g[i - 1], among)
    <3>1. CASE i = 0
      <4>1. 0 \in 0..n
        OBVIOUS
      <4>2. g[0] = start
        BY <2>2, <2>3, <4>1
      <4>3. QED
        BY <3>1, <4>2
    <3>2. CASE i # 0 /\ i # n + 1
      <4>1. i \in 0..n /\ i - 1 \in 0..n
        BY <3>2
      <4>2. QED
        BY <2>2, <2>3, <3>2, <4>1
    <3>3. CASE i = n + 1
      <4>1. i - 1 = n /\ n \in 0..n /\ i # 0
        BY <3>3
      <4>2. QED
        BY <2>3, <2>4, <3>3, <4>1
    <3>4. QED
      BY <3>1, <3>2, <3>3
  <2>7. IsSearch(g, n + 1, start, among)
    BY <2>6, <2>5 DEF IsSearch
  <2>8. QED
    BY <1>2, <2>7
<1>3. 0..N \subseteq S
  <2> HIDE DEF S
  <2>1. QED
    BY <1>1, <1>2, InductionTo
<1>4. QED
  BY <1>3

(* The levels of a search, one by one. *)
LEMMA SearchLevels ==
    ASSUME NEW start, NEW among, NEW N \in Nat, NEW f, IsSearch(f, N, start, among)
    PROVE  /\ f[0] = start
           /\ \A n \in 0..N : n + 1 \in 0..N => f[n + 1] = f[n] \cup Under(f[n], among)
<1>1. \A i \in 0..N : f[i] = IF i = 0 THEN start ELSE f[i - 1] \cup Under(f[i - 1], among)
  BY DEF IsSearch
<1>2. 0 \in 0..N
  OBVIOUS
<1>3. ASSUME NEW n \in 0..N, n + 1 \in 0..N
      PROVE  f[n + 1] = f[n] \cup Under(f[n], among)
  <2>1. PICK m \in 0..N : m = n + 1
    BY <1>3
  <2>2. m # 0 /\ m - 1 = n
    BY <2>1
  <2>3. f[m] = f[n] \cup Under(f[n], among)
    BY <1>1, <2>2
  <2>4. QED
    BY <2>1, <2>3
<1>4. QED
  BY <1>1, <1>2, <1>3

(* So Below is the last level of such a search. *)
LEMMA BelowIsSearch ==
    ASSUME NEW start, NEW among
    PROVE  \E f : /\ IsSearch(f, Cardinality(UnitIds), start, among)
                  /\ Below(start, among) = f[Cardinality(UnitIds)]
<1> DEFINE N == Cardinality(UnitIds)
           f == CHOOSE g : IsSearch(g, N, start, among)
<1>1. N \in Nat
  BY UnitsAssumption, FS_CardinalityType
<1>2. IsSearch(f, N, start, among)
  BY <1>1, SearchExists
<1>3. Below(start, among) = f[N]
  BY DEF Below, IsSearch, Under
<1>4. QED
  BY <1>2, <1>3

-----------------------------------------------------------------------------
(* What a search finds *)

(* T has the start and is closed under children. *)
Holds(T, start, among) == start \subseteq T /\ Under(T, among) \subseteq T

(* It finds nothing but what any closed set with the start has. *)
LEMMA BelowLeast ==
    ASSUME NEW start, NEW among, NEW T, Holds(T, start, among)
    PROVE  Below(start, among) \subseteq T
<1> DEFINE N == Cardinality(UnitIds)
<1>0. N \in Nat
  BY UnitsAssumption, FS_CardinalityType
<1>1. PICK f : IsSearch(f, N, start, among) /\ Below(start, among) = f[N]
  BY BelowIsSearch
<1> HIDE DEF N
<1> DEFINE S == {n \in 0..N : f[n] \subseteq T}
<1>2. 0 \in S
  <2>1. f[0] = start
    BY <1>0, <1>1, SearchLevels
  <2>2. QED
    BY <1>0, <2>1 DEF Holds
<1>3. ASSUME NEW n \in 0..N, n + 1 \in 0..N, n \in S
      PROVE  n + 1 \in S
  <2>1. f[n + 1] = f[n] \cup Under(f[n], among)
    BY <1>0, <1>1, <1>3, SearchLevels
  <2>2. QED
    BY <1>3, <2>1 DEF Under, Holds
<1>4. N \in S
  <2> HIDE DEF S
  <2>1. QED
    BY <1>0, <1>2, <1>3, InductionTo
<1>5. QED
  BY <1>1, <1>4

(* It finds all of the least closed set: a level that adds nothing is        *)
(* closed, and otherwise every level adds a unit, until all are found.       *)
LEMMA BelowHolds ==
    ASSUME NEW start \in SUBSET UnitIds, NEW among \in SUBSET UnitIds
    PROVE  Holds(Below(start, among), start, among) /\ Below(start, among) \subseteq UnitIds
<1> DEFINE N == Cardinality(UnitIds)
<1>0. N \in Nat
  BY UnitsAssumption, FS_CardinalityType
<1>1. PICK f : IsSearch(f, N, start, among) /\ Below(start, among) = f[N]
  BY BelowIsSearch
<1> HIDE DEF N
<1>2. Under({}, among) \subseteq UnitIds /\ \A T : Under(T, among) \subseteq UnitIds
  BY DEF Under
<1> DEFINE Good(T, n) == /\ start \subseteq T /\ T \subseteq UnitIds
                         /\ Under(T, among) \subseteq T \/ Cardinality(T) >= n
           S == {n \in 0..N : Good(f[n], n)}
<1>3. 0 \in S
  <2>1. f[0] = start
    BY <1>0, <1>1, SearchLevels
  <2>2. Cardinality(start) \in Nat
    BY UnitsAssumption, FS_Subset, FS_CardinalityType
  <2>3. QED
    BY <1>0, <2>1, <2>2
<1>4. ASSUME NEW n \in 0..N, n + 1 \in 0..N, n \in S
      PROVE  n + 1 \in S
  <2>1. f[n + 1] = f[n] \cup Under(f[n], among)
    BY <1>0, <1>1, <1>4, SearchLevels
  <2>2. /\ start \subseteq f[n] /\ f[n] \subseteq UnitIds
        /\ Under(f[n], among) \subseteq f[n] \/ Cardinality(f[n]) >= n
    BY <1>4
  <2>3. start \subseteq f[n + 1] /\ f[n + 1] \subseteq UnitIds
    BY <1>2, <2>1, <2>2
  <2>4. CASE Under(f[n], among) \subseteq f[n]
    <3>1. f[n + 1] = f[n]
      BY <2>1, <2>4
    <3>2. QED
      BY <1>4, <2>3, <2>4, <3>1
  <2>5. CASE Cardinality(f[n]) >= n /\ ~(Under(f[n], among) \subseteq f[n])
    <3>1. PICK c \in Under(f[n], among) : c \notin f[n]
      BY <2>5
    <3>2. IsFiniteSet(f[n]) /\ IsFiniteSet(f[n + 1])
      BY <2>2, <2>3, UnitsAssumption, FS_Subset
    <3>3. Cardinality(f[n] \cup {c}) = Cardinality(f[n]) + 1
      BY <3>1, <3>2, FS_AddElement
    <3>4. f[n] \cup {c} \in SUBSET f[n + 1]
      BY <2>1, <3>1
    <3>5. Cardinality(f[n] \cup {c}) <= Cardinality(f[n + 1])
      BY <3>2, <3>4, FS_Subset
    <3>6. Cardinality(f[n]) \in Nat /\ Cardinality(f[n + 1]) \in Nat
      BY <3>2, FS_CardinalityType
    <3>7. Cardinality(f[n + 1]) >= n + 1
      BY <2>5, <3>3, <3>5, <3>6
    <3>8. QED
      BY <1>4, <2>3, <3>7
  <2>6. QED
    BY <2>2, <2>4, <2>5
<1>5. N \in S
  <2> HIDE DEF S
  <2>1. QED
    BY <1>0, <1>3, <1>4, InductionTo
<1>6. start \subseteq f[N] /\ f[N] \subseteq UnitIds
  BY <1>5
<1>7. Under(f[N], among) \subseteq f[N]
  <2>1. CASE Cardinality(f[N]) >= N
    <3>1. /\ f[N] \in SUBSET UnitIds
          /\ Cardinality(f[N]) <= N
          /\ N = Cardinality(f[N]) => UnitIds = f[N]
      BY <1>6, UnitsAssumption, FS_Subset DEF N
    <3>2. Cardinality(f[N]) \in Nat
      BY <1>6, UnitsAssumption, FS_Subset, FS_CardinalityType
    <3>3. Cardinality(f[N]) = N
      BY <1>0, <2>1, <3>1, <3>2
    <3>4. QED
      BY <1>2, <3>1, <3>3
  <2>2. QED
    BY <1>5, <2>1
<1>8. QED
  BY <1>1, <1>6, <1>7 DEF Holds

-----------------------------------------------------------------------------
(* The trees that the views show, and the form *)

(* A unit that is met lies where the walk began. *)
LEMMA AboveIsNear ==
    ASSUME IInv, NEW u \in DOMAIN unit, NEW v \in AtOrAbove(u)
    PROVE  v \in DOMAIN unit /\ unit[v].location = unit[u].location
<1> DEFINE near == {w \in DOMAIN unit : unit[w].location = unit[u].location}
<1>1. UpClosed(near)
  BY DEF UpClosed, IInv, ReferencesHold, ParentFits
<1>2. v \in near
  BY <1>1 DEF AtOrAbove
<1>3. QED
  BY <1>2

(* The walk from a unit goes on as that from its parent. *)
LEMMA AboveParent ==
    ASSUME IInv, NEW u \in DOMAIN unit
    PROVE  /\ unit[u].parent = None => AtOrAbove(u) \subseteq {u}
           /\ unit[u].parent # None => AtOrAbove(u) \subseteq {u} \cup AtOrAbove(unit[u].parent)
<1>1. CASE unit[u].parent = None
  <2>1. UpClosed({u})
    BY <1>1 DEF UpClosed
  <2>2. QED
    BY <1>1, <2>1 DEF AtOrAbove
<1>2. CASE unit[u].parent # None
  <2>1. PICK p \in DOMAIN unit : p = unit[u].parent
    BY <1>2 DEF IInv, ReferencesHold, ParentFits
  <2>2. p \in AtOrAbove(p) /\ UpClosed(AtOrAbove(p)) /\ AtOrAbove(p) \subseteq DOMAIN unit
    BY AtOrAboveUpClosed DEF IInv, AtOrAbove
  <2>3. UpClosed({u} \cup AtOrAbove(p))
    BY <2>1, <2>2 DEF UpClosed
  <2>4. AtOrAbove(u) \subseteq {u} \cup AtOrAbove(p)
    BY <2>2, <2>3 DEF AtOrAbove
  <2>5. QED
    BY <1>2, <2>1, <2>4
<1>3. QED
  BY <1>1, <1>2

(* The walk goes on to the parent of everything it meets. *)
LEMMA ParentIsMet ==
    ASSUME IInv, NEW u \in DOMAIN unit, NEW v \in AtOrAbove(u), unit[v].parent # None
    PROVE  unit[v].parent \in AtOrAbove(u)
BY AtOrAboveUpClosed DEF IInv, UpClosed

(* The tree of a location lists just the units that lie in live units all    *)
(* the way up.                                                               *)
LEMMA ListedIs ==
    ASSUME IInv, NEW l \in LocationIds
    PROVE  Listed(l) = {u \in DOMAIN unit : unit[u].location = l /\ AtOrAbove(u) \subseteq Live}
<1> DEFINE seen == {u \in Live : unit[u].location = l}
           found == Below(Roots(l), seen)
           T == {u \in DOMAIN unit : unit[u].location = l /\ AtOrAbove(u) \subseteq Live}
<1>0. /\ DOMAIN unit \subseteq UnitIds /\ Live \subseteq DOMAIN unit
      /\ None \notin DOMAIN unit
  BY NoneAssumption DEF IInv, TypeOK, IsTable, Live
<1>1. found \subseteq T
  <2>1. Roots(l) \subseteq T
    BY <1>0, AboveParent DEF Roots
  <2>2. ASSUME NEW c \in seen, unit[c].parent \in T
        PROVE  c \in T
    <3>1. unit[c].parent # None /\ c \in DOMAIN unit
      BY <1>0, <2>2
    <3>2. AtOrAbove(c) \subseteq {c} \cup AtOrAbove(unit[c].parent)
      BY <3>1, AboveParent
    <3>3. QED
      BY <2>2, <3>1, <3>2
  <2>3. Under(T, seen) \subseteq T
    BY <2>2 DEF Under
  <2>4. Holds(T, Roots(l), seen)
    BY <2>1, <2>3 DEF Holds
  <2> HIDE DEF T, seen
  <2>5. QED
    BY <2>4, BelowLeast
<1>2. T \subseteq found
  <2>1. Roots(l) \in SUBSET UnitIds /\ seen \in SUBSET UnitIds
    BY <1>0 DEF Roots
  <2>2. Holds(found, Roots(l), seen)
    <3> HIDE DEF seen
    <3>1. QED
      BY <2>1, BelowHolds
  <2> HIDE DEF found
  <2> SUFFICES ASSUME NEW u \in T, u \notin found
               PROVE  FALSE
    OBVIOUS
  <2> DEFINE S == AtOrAbove(u) \ found
  <2>3. u \in DOMAIN unit /\ unit[u].location = l /\ AtOrAbove(u) \subseteq Live
    OBVIOUS
  <2>4. S # {} /\ S \in SUBSET DOMAIN unit
    BY <1>0, <2>3, AtOrAboveUpClosed DEF IInv
  <2>5. PICK x \in S : unit[x].parent \notin S
    BY <2>4 DEF IInv, Forest
  <2>6. x \in AtOrAbove(u) /\ x \in Live /\ unit[x].location = l /\ x \notin found
    BY <2>3, AboveIsNear
  <2>7. CASE unit[x].parent = None
    <3>1. x \in Roots(l)
      BY <2>6, <2>7 DEF Roots
    <3>2. QED
      BY <2>2, <2>6, <3>1 DEF Holds
  <2>8. CASE unit[x].parent # None
    <3>1. unit[x].parent \in AtOrAbove(u)
      BY <2>3, <2>6, <2>8, ParentIsMet
    <3>2. unit[x].parent \in found
      BY <2>5, <3>1
    <3>3. x \in Under(found, seen)
      BY <2>6, <3>2 DEF Under
    <3>4. QED
      BY <2>2, <2>6, <3>3 DEF Holds
  <2>9. QED
    BY <2>7, <2>8
<1>3. Listed(l) = found
  BY DEF Listed
<1>4. QED
  BY <1>1, <1>2, <1>3

(* Looking down from u finds just the units from which u is met looking up.  *)
LEMMA DownIsUp ==
    ASSUME IInv, NEW u \in DOMAIN unit, NEW near,
           near = {v \in DOMAIN unit : unit[v].location = unit[u].location},
           NEW v \in near
    PROVE  v \in Below({u}, near) <=> u \in AtOrAbove(v)
<1> DEFINE found == Below({u}, near)
           T == {w \in near : u \in AtOrAbove(w)}
<1>0. /\ near \subseteq UnitIds /\ {u} \in SUBSET UnitIds
      /\ None \notin DOMAIN unit /\ u \in near
  BY NoneAssumption DEF IInv, TypeOK, IsTable
<1>1. found \subseteq T
  <2>1. u \in T
    BY <1>0, AtOrAboveUpClosed DEF IInv
  <2>2. ASSUME NEW c \in near, unit[c].parent \in T
        PROVE  u \in AtOrAbove(c)
    <3>1. PICK p \in DOMAIN unit : p = unit[c].parent /\ p # None /\ u \in AtOrAbove(p)
      BY <1>0, <2>2
    <3>2. p \in AtOrAbove(c)
      BY <3>1, AtOrAboveUpClosed DEF IInv, UpClosed
    <3>3. ASSUME NEW S \in SUBSET DOMAIN unit, c \in S, UpClosed(S)
          PROVE  u \in S
      <4>1. p \in S
        BY <3>1, <3>3 DEF UpClosed
      <4>2. QED
        BY <3>1, <3>3, <4>1 DEF AtOrAbove
    <3>4. QED
      BY <3>3 DEF AtOrAbove
  <2>3. Under(T, near) \subseteq T
    BY <2>2 DEF Under
  <2>4. Holds(T, {u}, near)
    BY <2>1, <2>3 DEF Holds
  <2> HIDE DEF T
  <2>5. QED
    BY <2>4, BelowLeast
<1>2. ASSUME u \in AtOrAbove(v), v \notin found
      PROVE  FALSE
  <2>1. Holds(found, {u}, near)
    BY <1>0, BelowHolds
  <2> HIDE DEF found
  <2> DEFINE S == AtOrAbove(v) \ found
  <2>2. v \in S /\ S \in SUBSET DOMAIN unit
    BY <1>2, AtOrAboveUpClosed DEF IInv, AtOrAbove
  <2>3. ASSUME NEW x \in S, unit[x].parent # None
        PROVE  unit[x].parent \in S
    <3>1. unit[x].parent \in AtOrAbove(v)
      BY <2>3, ParentIsMet
    <3>2. x \in near
      BY <2>3, AboveIsNear
    <3>3. unit[x].parent \notin found
      BY <2>1, <2>3, <3>2 DEF Holds, Under
    <3>4. QED
      BY <3>1, <3>3
  <2>4. UpClosed(S)
    BY <2>3 DEF UpClosed
  <2>5. u \in S
    BY <1>2, <2>2, <2>4 DEF AtOrAbove
  <2>6. QED
    BY <2>1, <2>5 DEF Holds
<1>3. QED
  BY <1>1, <1>2

(* What the form offers is what the update takes. *)
LEMMA OfferedIsTaken ==
    ASSUME IInv, NEW u \in DOMAIN unit
    PROVE  ValidParents(u) = {p \in Live : MayMove(u, p)}
<1> DEFINE near == {v \in DOMAIN unit : unit[v].location = unit[u].location}
<1>0. u \in near /\ u \in AtOrAbove(u) /\ None \notin DOMAIN unit
  BY NoneAssumption, AtOrAboveUpClosed DEF IInv, TypeOK, IsTable
<1>1. ValidParents(u) = {v \in near \ Below({u}, near) : ~unit[v].archived}
  BY DEF ValidParents
<1>2. \A v \in near : v \in Below({u}, near) <=> u \in AtOrAbove(v)
  BY DownIsUp
<1>3. \A p \in DOMAIN unit : MayMove(u, p) <=> p \in near /\ u \notin AtOrAbove(p)
  BY <1>0 DEF MayMove, ParentFits
<1>4. QED
  BY <1>1, <1>2, <1>3 DEF Live

(* The tree views lose no live unit that lies in live units all the way up,  *)
(* and show no other: however deep the units lie, the loops find them all.   *)
THEOREM TreeShowsLiveChainsThm == Spec => []TreeShowsLiveChains
<1>1. IInv => TreeShowsLiveChains
  BY ListedIs DEF TreeShowsLiveChains
<1>2. QED
  BY <1>1, IInvHolds, PTL

(* The form that looks down offers just the live units that the update,      *)
(* which looks up, will take.                                                *)
THEOREM FormOffersWhatIsTakenThm == Spec => []FormOffersWhatIsTaken
<1>1. IInv => FormOffersWhatIsTaken
  BY OfferedIsTaken DEF FormOffersWhatIsTaken
<1>2. QED
  BY <1>1, IInvHolds, PTL
=============================================================================
