------------------------------- MODULE Storage -------------------------------
(***************************************************************************)
(* Storage locations and the tree of units in each of them:                *)
(* app/routes/storage.py, app/services/storage.py, the tree views of       *)
(* app/routes/pieces/helpers.py, and what refers to a unit or a location:  *)
(* kinds and kiosks (app/routes/admin), placements, scans.                 *)
(*                                                                         *)
(* Every handler is one step: none awaits.  A form is as old as its page,  *)
(* so the ids in it are any ids.  Foreign keys are enforced: a delete that *)
(* would leave a reference behind fails and changes nothing.               *)
(***************************************************************************)
EXTENDS Integers, FiniteSets, Tables

CONSTANTS
    LocationIds,  \* primary keys of storage_locations
    UnitIds,      \* primary keys of storage_units
    KindIds,      \* primary keys of unit_kinds
    KioskIds,     \* primary keys of kiosks
    Pieces,
    None          \* NULL in parent_id, kind_id, location_id

ASSUME NoneAssumption == None \notin LocationIds \cup UnitIds \cup KindIds
ASSUME UnitsAssumption == IsFiniteSet(UnitIds)

VARIABLES
    location,  \* keys of table storage_locations
    kind,      \* keys of table unit_kinds
    unit,      \* table storage_units
    placed,    \* table piece_placements: pairs of a piece and a unit
    wanted,    \* units that a scan (pre_placement) or an inventory (planned) names
    kiosk      \* table kiosks: the location

vars == <<location, kind, unit, placed, wanted, kiosk>>

UnitRow == [location : LocationIds,
            parent   : UnitIds \cup {None},
            kind     : KindIds \cup {None},
            archived : BOOLEAN]

Init ==
    /\ location = {} /\ kind = {}
    /\ unit = Empty
    /\ placed = {} /\ wanted = {}
    /\ kiosk = Empty

-----------------------------------------------------------------------------
Live == {u \in DOMAIN unit : ~unit[u].archived}
Children(u) == {c \in DOMAIN unit : unit[c].parent = u}
PlacedOn(u) == {m \in Pieces : <<m, u>> \in placed}

(* S with every unit in it has the unit it lies in. *)
UpClosed(S) == \A u \in S : unit[u].parent # None => unit[u].parent \in S

(* What a walk by parent_id from u meets: unit_path, and the check for a    *)
(* cycle in update_unit, which stops where it has been.                     *)
AtOrAbove(u) ==
    {v \in DOMAIN unit : \A S \in SUBSET DOMAIN unit : u \in S /\ UpClosed(S) => v \in S}

KindGiven(k) == k \in kind \cup {None}

(* create_unit's and update_unit's test of the parent: same location. *)
ParentFits(p, l) == p = None \/ (p \in DOMAIN unit /\ unit[p].location = l)

(* Fault: only the unit itself is refused. *)
MayMoveAnywhere(u, p) == p # u /\ ParentFits(p, unit[u].location)

MayMove(u, p) ==
    /\ p # u
    /\ ParentFits(p, unit[u].location)
    /\ p # None => u \notin AtOrAbove(p)

-----------------------------------------------------------------------------
CreateLocation(l) ==
    /\ l \notin location
    /\ location' = location \cup {l}
    /\ UNCHANGED <<kind, unit, placed, wanted, kiosk>>

DeleteLocation(l) ==
    /\ l \in location
    /\ \A u \in DOMAIN unit : unit[u].location # l
    /\ \A k \in DOMAIN kiosk : kiosk[k] # l
    /\ location' = location \ {l}
    /\ UNCHANGED <<kind, unit, placed, wanted, kiosk>>

(* create_unit_kind of storage.py and of admin/unit_kinds.py. *)
CreateKind(k) ==
    /\ k \notin kind
    /\ kind' = kind \cup {k}
    /\ UNCHANGED <<location, unit, placed, wanted, kiosk>>

DeleteKind(k) ==
    /\ k \in kind
    /\ \A u \in DOMAIN unit : unit[u].kind # k
    /\ kind' = kind \ {k}
    /\ UNCHANGED <<location, unit, placed, wanted, kiosk>>

(* Fault: the location of the page does not reach the row. *)
CreateUnitNowhere(u, l, p, k) ==
    /\ u \notin DOMAIN unit
    /\ l \in location
    /\ ParentFits(p, l)
    /\ KindGiven(k)
    /\ unit' = WithRow(unit, u, [location |-> None, parent |-> p, kind |-> k, archived |-> FALSE])
    /\ UNCHANGED <<location, kind, placed, wanted, kiosk>>

CreateUnit(u, l, p, k) ==
    /\ u \notin DOMAIN unit
    /\ l \in location
    /\ ParentFits(p, l)
    /\ KindGiven(k)
    /\ unit' = WithRow(unit, u, [location |-> l, parent |-> p, kind |-> k, archived |-> FALSE])
    /\ UNCHANGED <<location, kind, placed, wanted, kiosk>>

UpdateUnit(u, p, k) ==
    /\ u \in DOMAIN unit
    /\ MayMove(u, p)
    /\ KindGiven(k)
    /\ unit' = [unit EXCEPT ![u].parent = p, ![u].kind = k]
    /\ UNCHANGED <<location, kind, placed, wanted, kiosk>>

(* Fault: only placements are asked for. *)
DeleteUnitWanted(u) ==
    /\ u \in DOMAIN unit
    /\ Children(u) = {} /\ PlacedOn(u) = {}
    /\ unit' = Without(unit, {u})
    /\ UNCHANGED <<location, kind, placed, wanted, kiosk>>

(* delete_unit: a unit that holds pieces is archived; one that a scan or an *)
(* inventory names cannot go.                                               *)
DeleteUnit(u) ==
    /\ u \in DOMAIN unit
    /\ Children(u) = {}
    /\ \/ /\ PlacedOn(u) # {}
          /\ unit' = [unit EXCEPT ![u].archived = TRUE]
       \/ /\ PlacedOn(u) = {}
          /\ u \notin wanted
          /\ unit' = Without(unit, {u})
    /\ UNCHANGED <<location, kind, placed, wanted, kiosk>>

-----------------------------------------------------------------------------
(* What refers to units and locations. *)

(* The placement handlers: none asks whether the unit is archived. *)
Place(m, u) ==
    /\ u \in DOMAIN unit
    /\ placed' = placed \cup {<<m, u>>}
    /\ UNCHANGED <<location, kind, unit, wanted, kiosk>>

Unplace(m, u) ==
    /\ <<m, u>> \in placed
    /\ placed' = placed \ {<<m, u>>}
    /\ UNCHANGED <<location, kind, unit, wanted, kiosk>>

(* quick_scan_upload and create_session store the id of the form. *)
Want(u) ==
    /\ u \in DOMAIN unit
    /\ wanted' = wanted \cup {u}
    /\ UNCHANGED <<location, kind, unit, placed, kiosk>>

(* delete_scan, when no other row names the unit. *)
Unwant(u) ==
    /\ u \in wanted
    /\ wanted' = wanted \ {u}
    /\ UNCHANGED <<location, kind, unit, placed, kiosk>>

(* create_kiosk and update_kiosk of admin/kiosks.py. *)
SetKiosk(k, l) ==
    /\ l \in location \cup {None}
    /\ kiosk' = With(kiosk, [i \in {k} |-> l])
    /\ UNCHANGED <<location, kind, unit, placed, wanted>>

DeleteKiosk(k) ==
    /\ k \in DOMAIN kiosk
    /\ kiosk' = Without(kiosk, {k})
    /\ UNCHANGED <<location, kind, unit, placed, wanted>>

-----------------------------------------------------------------------------
LocationStep == \E l \in LocationIds : CreateLocation(l) \/ DeleteLocation(l)
KindStep == \E k \in KindIds : CreateKind(k) \/ DeleteKind(k)
UnitStep ==
    \E u \in UnitIds :
        \/ \E l \in LocationIds, p \in UnitIds \cup {None}, k \in KindIds \cup {None} :
              CreateUnit(u, l, p, k)
        \/ \E p \in UnitIds \cup {None}, k \in KindIds \cup {None} : UpdateUnit(u, p, k)
        \/ DeleteUnit(u)
UseStep ==
    \/ \E m \in Pieces, u \in UnitIds : Place(m, u) \/ Unplace(m, u)
    \/ \E u \in UnitIds : Want(u) \/ Unwant(u)
KioskStep ==
    \E k \in KioskIds : DeleteKiosk(k) \/ \E l \in LocationIds \cup {None} : SetKiosk(k, l)

Next == LocationStep \/ KindStep \/ UnitStep \/ UseStep \/ KioskStep

Spec == Init /\ [][Next]_vars

-----------------------------------------------------------------------------
(* The loops over the tree *)

(* What a breadth-first search by parent_id finds from the units in start:  *)
(* the loops of unit_subtree_ids, edit_unit_form and _descendant_unit_ids.  *)
Below(start, among) ==
    LET found[n \in 0..Cardinality(UnitIds)] ==
            IF n = 0 THEN start
            ELSE found[n - 1] \cup {c \in among : unit[c].parent \in found[n - 1]}
    IN found[Cardinality(UnitIds)]

Roots(l) == {u \in Live : unit[u].location = l /\ unit[u].parent = None}

(* Fault: the search goes through units that are not to be seen. *)
ListedThroughAll(l) == Below(Roots(l), {u \in DOMAIN unit : unit[u].location = l}) \cap Live

(* build_children of _load_tree, build of _unit_picker_tree and             *)
(* build_subtree of _list_tree: down from the roots, archived units unseen. *)
Listed(l) == Below(Roots(l), {u \in Live : unit[u].location = l})

(* Fault: only the unit and what lies right in it are left out. *)
ValidParentsButChildren(u) ==
    {v \in Live : unit[v].location = unit[u].location /\ v # u /\ unit[v].parent # u}

(* valid_parents of edit_unit_form. *)
ValidParents(u) ==
    LET near == {v \in DOMAIN unit : unit[v].location = unit[u].location} IN
    {v \in near \ Below({u}, near) : ~unit[v].archived}

-----------------------------------------------------------------------------
(* Properties *)

(* Tables keep their shape. *)
TypeOK ==
    /\ location \subseteq LocationIds /\ kind \subseteq KindIds
    /\ IsTable(unit, UnitIds, UnitRow)
    /\ placed \subseteq Pieces \X UnitIds
    /\ wanted \subseteq UnitIds
    /\ IsTable(kiosk, KioskIds, LocationIds \cup {None})

(* Whatever is deleted, archived and moved by whom, a placement, a scan and  *)
(* a kiosk name what exists, and a unit lies in a unit of its own location.  *)
ReferencesHold ==
    /\ \A u \in DOMAIN unit :
          /\ unit[u].location \in location
          /\ ParentFits(unit[u].parent, unit[u].location)
          /\ KindGiven(unit[u].kind)
    /\ \A m \in Pieces, u \in UnitIds : <<m, u>> \in placed => u \in DOMAIN unit
    /\ wanted \subseteq DOMAIN unit
    /\ \A k \in DOMAIN kiosk : kiosk[k] \in location \cup {None}

(* unit_path walks up without looking where it has been, and the views build *)
(* the tree by recursion: after any moves the units form no cycle, that is,  *)
(* in every set of units one does not lie in another of the set.             *)
Forest ==
    \A S \in SUBSET DOMAIN unit :
        S # {} => \E u \in S : unit[u].parent \notin S

(* The tree views lose no live unit: they show it unless it, or a unit it    *)
(* lies in, is archived.                                                     *)
TreeShowsLiveChains ==
    \A l \in LocationIds :
        Listed(l) = {u \in DOMAIN unit : unit[u].location = l /\ AtOrAbove(u) \subseteq Live}

(* edit_unit_form looks down for the units that would make a cycle and       *)
(* update_unit looks up: the form offers just the live units that the update *)
(* will take.                                                                *)
FormOffersWhatIsTaken ==
    \A u \in DOMAIN unit : ValidParents(u) = {p \in Live : MayMove(u, p)}
=============================================================================
