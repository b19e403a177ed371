------------------------------ MODULE Inventory ------------------------------
(***************************************************************************)
(* Taking stock: app/routes/inventory.py, app/routes/kiosk_inventory.py    *)
(* and the kiosk's page of a piece.                                        *)
(*                                                                         *)
(* An editor starts a session, may plan it for a storage unit or location, *)
(* and counts on check lists, or at a kiosk that he has linked to the      *)
(* session: there every view of a piece's page counts one copy of it.      *)
(***************************************************************************)
EXTENDS Integers, FiniteSetsExt, Tables, Placements

CONSTANTS
    Editors,
    SessionIds,  \* primary keys of inventory_sessions
    Kiosks,
    At,          \* the units of a kiosk's location; all units if it has none
    Areas,       \* sets of units: a unit with its subunits, or a location
    None,        \* NULL
    Answers,     \* bound: the checks a form of a check list may send
    MaxCount     \* bound: copies of a placement found in a session

ASSUME StorageAssumption ==
    /\ Areas \subseteq SUBSET Units
    /\ At \in [Kiosks -> SUBSET Units]
ASSUME NullAssumption == None \notin Areas \cup SessionIds \cup Pieces \cup Nat
ASSUME CountAssumption == MaxCount \in Nat

VARIABLES
    session,  \* table inventory_sessions
    check,    \* table inventory_checks: the latest row of a session and placement
    link,     \* Kiosk.active_inventory_session_id
    page      \* the piece whose page the browser of a kiosk is redirected to

vars == <<placement, session, check, link, page>>

CheckStatus == {"not_checked", "found", "partial", "missing", "extra"}

SessionRow == [owner    : Editors,
               ended    : BOOLEAN,
               unit     : Areas \cup {None},   \* planned_unit_id
               location : Areas \cup {None}]   \* planned_location_id
CheckRow == [status : CheckStatus,
             actual : Nat \cup {None}]         \* actual_copies

ASSUME AnswersAssumption == Answers \subseteq CheckRow

Init ==
    /\ placement = Empty
    /\ session = Empty
    /\ check = Empty
    /\ link = [k \in Kiosks |-> None]
    /\ page = [k \in Kiosks |-> None]

-----------------------------------------------------------------------------
(* Sessions *)

IsOpen(s) == s \in DOMAIN session /\ ~session[s].ended
OpenOf(u) == {s \in DOMAIN session : session[s].owner = u /\ ~session[s].ended}

Planned(u, unit, location) ==
    [owner |-> u, ended |-> FALSE, unit |-> unit, location |-> location]

(* Fault: the session at hand stays open. *)
CreateSessionOnly(u, s, unit, location) ==
    /\ s \notin DOMAIN session
    /\ session' = WithRow(session, s, Planned(u, unit, location))
    /\ UNCHANGED <<placement, check, link, page>>

(* create_session ends the latest open session of the same user. *)
CreateSession(u, s, unit, location) ==
    /\ s \notin DOMAIN session
    /\ \/ /\ OpenOf(u) = {}
          /\ session' = WithRow(session, s, Planned(u, unit, location))
       \/ \E old \in OpenOf(u) :
             session' = WithRow([session EXCEPT ![old].ended = TRUE], s,
                                Planned(u, unit, location))
    /\ UNCHANGED <<placement, check, link, page>>

SetPlannedUnit(s, unit) ==
    /\ IsOpen(s)
    /\ session' = [session EXCEPT ![s].unit = unit]
    /\ UNCHANGED <<placement, check, link, page>>

EndSession(s) ==
    /\ IsOpen(s)
    /\ session' = [session EXCEPT ![s].ended = TRUE]
    /\ UNCHANGED <<placement, check, link, page>>

-----------------------------------------------------------------------------
(* Counting *)

(* The new checks hide the earlier ones of their placements. *)
Records(new) == check' = With(check, new)

(* Fault: the check list of a session that has ended still counts. *)
CheckItemAnytime(s, p, answer) ==
    /\ s \in DOMAIN session /\ p \in DOMAIN placement
    /\ Records([sp \in {<<s, p>>} |-> answer])
    /\ UNCHANGED <<placement, session, link, page>>

(* check_item records what the form of a check list says. *)
CheckItem(s, p, answer) ==
    /\ IsOpen(s) /\ p \in DOMAIN placement
    /\ Records([sp \in {<<s, p>>} |-> answer])
    /\ UNCHANGED <<placement, session, link, page>>

(* _status_for_actual; a placement without a number expects nothing. *)
StatusForActual(actual, expected) ==
    CASE actual = 0 -> "missing"
      [] actual > 0 /\ expected \in {0, Unlimited, actual} -> "found"
      [] actual > 0 /\ expected \notin {0, Unlimited} /\ actual < expected -> "partial"
      [] OTHER -> "extra"

(* _latest_actual: 0 if nothing is noted. *)
LatestActual(s, p) ==
    IF <<s, p>> \in DOMAIN check /\ check[<<s, p>>].actual # None THEN check[<<s, p>>].actual ELSE 0

(* _allowed_unit_ids: planned unit, else planned location, else the kiosk's. *)
AllowedUnits(k, s) ==
    IF session[s].unit # None THEN session[s].unit
    ELSE IF session[s].location # None THEN session[s].location
    ELSE At[k]

InScope(k, s, piece) ==
    {p \in PlacementsOf(piece) : placement[p].unit \in AllowedUnits(k, s)}

(* Fault: more may be taken back than was counted. *)
CountedAnyhow(s, p, delta) == LatestActual(s, p) + delta

(* The count never falls below zero. *)
Counted(s, p, delta) == Max({0, LatestActual(s, p) + delta})

(* check_piece_for_kiosk: all placements in scope are counted by delta. *)
CheckPiece(k, piece, delta) ==
    LET s == link[k]
        Row(p) == [status |-> StatusForActual(Counted(s, p, delta), placement[p].copies),
                   actual |-> Counted(s, p, delta)]
    IN  \/ ~IsOpen(s) /\ UNCHANGED check
        \/ /\ IsOpen(s)
           /\ \A p \in InScope(k, s, piece) : Counted(s, p, delta) <= MaxCount
           /\ Records([sp \in {s} \X InScope(k, s, piece) |-> Row(sp[2])])

StartAtKiosk(k, s) ==
    /\ IsOpen(s)
    /\ link' = [link EXCEPT ![k] = s]
    /\ UNCHANGED <<placement, session, check, page>>

StopAtKiosk(k) ==
    /\ link' = [link EXCEPT ![k] = None]
    /\ UNCHANGED <<placement, session, check, page>>

(* kiosk_piece: somebody scans the code of a piece, or reloads its page. *)
ShowPiece(k, piece) ==
    /\ CheckPiece(k, piece, 1)
    /\ UNCHANGED <<placement, session, link, page>>

(* adjust_piece answers with a redirect to the page of the piece ... *)
Adjust(k, piece, delta) ==
    /\ CheckPiece(k, piece, delta)
    /\ page' = [page EXCEPT ![k] = piece]
    /\ UNCHANGED <<placement, session, link>>

(* ... which the browser follows. *)
FollowRedirect(k) ==
    /\ page[k] # None
    /\ CheckPiece(k, page[k], 1)
    /\ page' = [page EXCEPT ![k] = None]
    /\ UNCHANGED <<placement, session, link>>

-----------------------------------------------------------------------------
(* The catalogue *)

(* Fault: placements that have been counted may go. *)
Anything(gone) == TRUE

(* inventory_checks.placement_id has no ON DELETE: the deletion of a         *)
(* placement that was ever checked fails.                                    *)
Unchecked(gone) == \A sp \in DOMAIN check : sp[2] \notin gone

AddPlacement(p, unit, n) ==
    /\ Insert(p, unit, n)
    /\ UNCHANGED <<session, check, link, page>>

(* add_placement_to_existing, when the unit has the piece already. *)
AddToPlacement(p, n) ==
    /\ AddCopies(p, n)
    /\ UNCHANGED <<session, check, link, page>>

UpdatePlacement(p, unit, n) ==
    /\ Change(p, unit, n)
    /\ UNCHANGED <<session, check, link, page>>

MergePlacement(p, q, n) ==
    /\ Unchecked({p})
    /\ MergeInto(p, q, n)
    /\ UNCHANGED <<session, check, link, page>>

(* delete_placement and delete_piece. *)
RemovePlacements(gone) ==
    /\ Unchecked(gone)
    /\ Drop(gone)
    /\ UNCHANGED <<session, check, link, page>>

-----------------------------------------------------------------------------
SessionStep ==
    \/ \E u \in Editors, s \in SessionIds, unit, location \in Areas \cup {None} :
          CreateSession(u, s, unit, location)
    \/ \E s \in SessionIds, unit \in Areas \cup {None} : SetPlannedUnit(s, unit)
    \/ \E s \in SessionIds : EndSession(s)

ListStep ==
    \E s \in SessionIds, p \in PlacementIds, answer \in Answers : CheckItem(s, p, answer)

KioskStep ==
    \E k \in Kiosks :
        \/ \E s \in SessionIds : StartAtKiosk(k, s)
        \/ StopAtKiosk(k)
        \/ \E piece \in Pieces : ShowPiece(k, piece)
        \/ \E piece \in Pieces, delta \in {-1, 1} : Adjust(k, piece, delta)
        \/ FollowRedirect(k)

CatalogueStep ==
    \/ \E p \in PlacementIds, unit \in Units, n \in Numbers :
          AddPlacement(p, unit, n) \/ UpdatePlacement(p, unit, n)
    \/ \E p \in PlacementIds, n \in Numbers : AddToPlacement(p, n)
    \/ \E p, q \in PlacementIds, n \in Numbers : MergePlacement(p, q, n)
    \/ \E p \in PlacementIds : RemovePlacements({p})
    \/ \E piece \in Pieces : RemovePlacements(PlacementsOf(piece))

Next == SessionStep \/ ListStep \/ KioskStep \/ CatalogueStep

Spec == Init /\ [][Next]_vars

-----------------------------------------------------------------------------
(* Properties *)

(* The tables keep their types; a kiosk is linked to nothing or a session.   *)
TypeOK ==
    /\ IsTable(placement, PlacementIds, PlacementRow)
    /\ IsTable(session, SessionIds, SessionRow)
    /\ IsTable(check, SessionIds \X PlacementIds, CheckRow)
    /\ link \in [Kiosks -> SessionIds \cup {None}]
    /\ page \in [Kiosks -> Pieces \cup {None}]

(* inventory.py:89-90: several sessions may be open, but one per user, which *)
(* get_user_default_active_session then takes as the session of his scans.   *)
OneOpenPerUser == \A u \in Editors : \A s, t \in OpenOf(u) : s = t

(* What was counted stays about a placement that exists in a session that    *)
(* exists, whatever the catalogue merges and deletes.                        *)
NoDanglingCheck ==
    \A sp \in DOMAIN check : sp[1] \in DOMAIN session /\ sp[2] \in DOMAIN placement

(* The inductive invariant. *)
IInv ==
    /\ TypeOK
    /\ OneOpenPerUser
    /\ NoDanglingCheck

(* What a session holds stays what it is. *)
Kept(s) ==
    /\ s \in DOMAIN session' /\ session'[s] = session[s]
    /\ \A p \in PlacementIds :
          /\ <<s, p>> \in DOMAIN check' => <<s, p>> \in DOMAIN check
          /\ <<s, p>> \in DOMAIN check =>
                <<s, p>> \in DOMAIN check' /\ check'[<<s, p>>] = check[<<s, p>>]

(* backlog.md:224: once a session has ended nothing is counted in it, though *)
(* kiosks are still linked to it and check lists of it still displayed; and  *)
(* it is not opened again.                                                   *)
EndedSessionFrozen ==
    [][\A s \in DOMAIN session : session[s].ended => Kept(s)]_vars
=============================================================================
