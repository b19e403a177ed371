--------------------------- MODULE InventoryProofs ---------------------------
(***************************************************************************)
(* The invariants of Inventory for any number of sessions, placements and  *)
(* kiosks, and that nothing is counted in a session that has ended.        *)
(***************************************************************************)
EXTENDS Inventory, TLAPS

-----------------------------------------------------------------------------
(* Tables *)

(* A table keeps its type when rows are added or replaced. *)
LEMMA WithType ==
  ASSUME NEW T, NEW N, NEW K, NEW R, IsTable(T, K, R), IsTable(N, K, R)
  PROVE  /\ IsTable(With(T, N), K, R)
         /\ DOMAIN With(T, N) = DOMAIN T \cup DOMAIN N
         /\ \A k \in DOMAIN N : With(T, N)[k] = N[k]
         /\ \A k \in DOMAIN T \ DOMAIN N : With(T, N)[k] = T[k]
  BY DEF IsTable, With

LEMMA WithRowType ==
  ASSUME NEW T, NEW K, NEW R, IsTable(T, K, R), NEW k \in K, NEW r \in R
  PROVE  /\ IsTable(WithRow(T, k, r), K, R)
         /\ DOMAIN WithRow(T, k, r) = DOMAIN T \cup {k}
         /\ WithRow(T, k, r)[k] = r
         /\ \A j \in DOMAIN T \ {k} : WithRow(T, k, r)[j] = T[j]
  BY DEF IsTable, With, WithRow

LEMMA EditRowType ==
  ASSUME NEW T, NEW K, NEW R, IsTable(T, K, R), NEW k \in DOMAIN T, NEW r \in R
  PROVE  /\ IsTable([T EXCEPT ![k] = r], K, R)
         /\ DOMAIN [T EXCEPT ![k] = r] = DOMAIN T
         /\ [T EXCEPT ![k] = r][k] = r
         /\ \A j \in DOMAIN T \ {k} : [T EXCEPT ![k] = r][j] = T[j]
  BY DEF IsTable

LEMMA WithoutType ==
  ASSUME NEW T, NEW K, NEW R, IsTable(T, K, R), NEW gone
  PROVE  /\ IsTable(Without(T, gone), K, R)
         /\ DOMAIN Without(T, gone) = DOMAIN T \ gone
  BY DEF IsTable, Without

-----------------------------------------------------------------------------
(* Placements *)

(* Numbers of copies add up to a number of copies. *)
LEMMA AddedCopiesType ==
  ASSUME NEW n \in Stock, NEW m \in Stock
  PROVE  AddedCopies(n, m) \in Stock
  BY BoundsAssumption DEF AddedCopies, Stock

LEMMA NumbersType == Numbers \subseteq Stock
  BY BoundsAssumption DEF Numbers, Stock

(* A placement that gets another unit or number remains one. *)
LEMMA PlacementRowEdit ==
  ASSUME NEW p \in DOMAIN placement, IsTable(placement, PlacementIds, PlacementRow),
         NEW unit \in Units, NEW n \in Stock
  PROVE  /\ [unit |-> unit, copies |-> n] \in PlacementRow
         /\ placement[p] \in PlacementRow
         /\ placement[p].copies \in Stock
         /\ [placement[p] EXCEPT !.copies = n] \in PlacementRow
         /\ [placement[p] EXCEPT !.unit = unit, !.copies = n] \in PlacementRow
  BY DEF IsTable, PlacementRow

-----------------------------------------------------------------------------
(* Counting *)

(* A count is a number; its maximum with zero is one of the two. *)
LEMMA CountedType ==
  ASSUME TypeOK, NEW s, NEW p, NEW delta \in {-1, 1}
  PROVE  Counted(s, p, delta) \in Nat
<1>1. LatestActual(s, p) \in Nat
  BY DEF LatestActual, TypeOK, IsTable, CheckRow
<1>2. \E x \in {0, LatestActual(s, p) + delta} :
         \A y \in {0, LatestActual(s, p) + delta} : x >= y
  BY <1>1
<1>3. /\ Max({0, LatestActual(s, p) + delta}) \in {0, LatestActual(s, p) + delta}
      /\ Max({0, LatestActual(s, p) + delta}) >= 0
  BY <1>1, <1>2 DEF Max
<1>. QED BY <1>1, <1>3 DEF Counted

LEMMA StatusType ==
  ASSUME NEW n, NEW m
  PROVE  StatusForActual(n, m) \in CheckStatus
  BY DEF StatusForActual, CheckStatus

(* Rows for placements that exist may be added to the checks of a session     *)
(* that exists.                                                              *)
LEMMA RecordsInv ==
  ASSUME IInv, NEW new, IsTable(new, SessionIds \X PlacementIds, CheckRow),
         \A sp \in DOMAIN new : sp[1] \in DOMAIN session /\ sp[2] \in DOMAIN placement,
         Records(new)
  PROVE  /\ IsTable(check', SessionIds \X PlacementIds, CheckRow)
         /\ \A sp \in DOMAIN check' : sp[1] \in DOMAIN session /\ sp[2] \in DOMAIN placement
<1>1. IsTable(check, SessionIds \X PlacementIds, CheckRow)
  BY DEF IInv, TypeOK
<1>2. /\ IsTable(With(check, new), SessionIds \X PlacementIds, CheckRow)
      /\ DOMAIN With(check, new) = DOMAIN check \cup DOMAIN new
  BY <1>1, WithType
<1>. QED
  BY <1>2 DEF IInv, NoDanglingCheck, Records

(* Counting a piece at a kiosk. *)
LEMMA CheckPieceInv ==
  ASSUME IInv, NEW k \in Kiosks, NEW piece, NEW delta \in {-1, 1},
         CheckPiece(k, piece, delta)
  PROVE  /\ IsTable(check', SessionIds \X PlacementIds, CheckRow)
         /\ \A sp \in DOMAIN check' : sp[1] \in DOMAIN session /\ sp[2] \in DOMAIN placement
<1>1. CASE ~IsOpen(link[k]) /\ UNCHANGED check
  BY <1>1 DEF IInv, TypeOK, NoDanglingCheck
<1>2. CASE IsOpen(link[k]) /\ ~(~IsOpen(link[k]) /\ UNCHANGED check)
  <2>. DEFINE s == link[k]
              Row(p) == [status |-> StatusForActual(Counted(s, p, delta), placement[p].copies),
                         actual |-> Counted(s, p, delta)]
              new == [sp \in {s} \X InScope(k, s, piece) |-> Row(sp[2])]
  <2>1. Records(new)
    BY <1>2 DEF CheckPiece
  <2>2. \A p : Row(p) \in CheckRow
    BY CountedType, StatusType DEF IInv, CheckRow
  <2>3. s \in DOMAIN session /\ DOMAIN session \subseteq SessionIds
    BY <1>2 DEF IsOpen, IInv, TypeOK, IsTable
  <2>4. InScope(k, s, piece) \subseteq DOMAIN placement /\ DOMAIN placement \subseteq PlacementIds
    BY DEF InScope, PlacementsOf, IInv, TypeOK, IsTable
  <2>. HIDE DEF s, Row
  <2>5. /\ DOMAIN new = {s} \X InScope(k, s, piece)
        /\ \A sp \in DOMAIN new : new[sp] \in CheckRow
    BY <2>2
  <2>6. /\ IsTable(new, SessionIds \X PlacementIds, CheckRow)
        /\ \A sp \in DOMAIN new : sp[1] \in DOMAIN session /\ sp[2] \in DOMAIN placement
    BY <2>3, <2>4, <2>5 DEF IsTable
  <2>. HIDE DEF new
  <2>. QED BY <2>1, <2>6, RecordsInv
<1>. QED BY <1>1, <1>2 DEF CheckPiece

-----------------------------------------------------------------------------
(* The steps *)

LEMMA InitInv == Init => IInv
  BY DEF Init, Empty, IInv, TypeOK, IsTable, OneOpenPerUser, OpenOf, NoDanglingCheck

(* Starting a session ends the one that its owner had open. *)
LEMMA CreateSessionInv ==
  ASSUME IInv, NEW u \in Editors, NEW s \in SessionIds,
         NEW unit \in Areas \cup {None}, NEW location \in Areas \cup {None},
         CreateSession(u, s, unit, location)
  PROVE  IInv'
<1>. DEFINE row == Planned(u, unit, location)
<1>1. row \in SessionRow /\ row.owner = u /\ ~row.ended
  BY DEF Planned, SessionRow
<1>2. IsTable(session, SessionIds, SessionRow) /\ s \notin DOMAIN session
  BY DEF IInv, TypeOK, CreateSession
<1>. HIDE DEF row
<1>3. CASE OpenOf(u) = {} /\ session' = WithRow(session, s, row)
  <2>1. LET new == WithRow(session, s, row) IN
        /\ IsTable(new, SessionIds, SessionRow)
        /\ DOMAIN new = DOMAIN session \cup {s}
        /\ new[s] = row
        /\ \A t \in DOMAIN session \ {s} : new[t] = session[t]
    BY <1>1, <1>2 DEF IsTable, With, WithRow
  <2>2. OneOpenPerUser'
    BY <1>1, <1>2, <1>3, <2>1 DEF IInv, OneOpenPerUser, OpenOf
  <2>. QED BY <1>3, <2>1, <2>2 DEF CreateSession, IInv, TypeOK, NoDanglingCheck
<1>4. ASSUME NEW old \in OpenOf(u),
             session' = WithRow([session EXCEPT ![old].ended = TRUE], s, row)
      PROVE  IInv'
  <2>. DEFINE closed == [session[old] EXCEPT !.ended = TRUE]
              ended == [session EXCEPT ![old] = closed]
  <2>1. old \in DOMAIN session /\ session[old].owner = u
    BY DEF OpenOf
  <2>2. closed \in SessionRow /\ closed.ended
    BY <1>2, <2>1 DEF IsTable, SessionRow
  <2>3. session' = WithRow(ended, s, row)
    BY <1>4
  <2>. HIDE DEF closed
  <2>4. /\ IsTable(ended, SessionIds, SessionRow)
        /\ DOMAIN ended = DOMAIN session
        /\ ended[old] = closed
        /\ \A t \in DOMAIN session \ {old} : ended[t] = session[t]
    BY <1>2, <2>1, <2>2, EditRowType
  <2>. HIDE DEF ended
  <2>5. /\ IsTable(session', SessionIds, SessionRow)
        /\ DOMAIN session' = DOMAIN session \cup {s}
        /\ session'[s] = row /\ session'[old] = closed
        /\ \A t \in DOMAIN session \ {old} : session'[t] = session[t]
    BY <1>1, <1>2, <2>1, <2>3, <2>4, WithRowType
  <2>6. OneOpenPerUser'
    BY <1>1, <2>1, <2>2, <2>5 DEF IInv, OneOpenPerUser, OpenOf
  <2>. QED BY <2>5, <2>6 DEF CreateSession, IInv, TypeOK, NoDanglingCheck
<1>. QED BY <1>3, <1>4 DEF CreateSession, row

(* Replanning or ending a session opens none. *)
LEMMA EditSessionInv ==
  ASSUME IInv, NEW s \in DOMAIN session, NEW row \in SessionRow,
         row.owner = session[s].owner, row.ended \/ ~session[s].ended,
         session' = [session EXCEPT ![s] = row],
         UNCHANGED <<placement, check, link, page>>
  PROVE  IInv'
<1>1. /\ IsTable(session', SessionIds, SessionRow)
      /\ DOMAIN session' = DOMAIN session
      /\ session'[s] = row
      /\ \A t \in DOMAIN session \ {s} : session'[t] = session[t]
  BY EditRowType DEF IInv, TypeOK
<1>2. OneOpenPerUser'
  BY <1>1 DEF IInv, OneOpenPerUser, OpenOf
<1>. QED BY <1>1, <1>2 DEF IInv, TypeOK, NoDanglingCheck

LEMMA SessionStepInv == IInv /\ SessionStep => IInv'
<1>. SUFFICES ASSUME IInv, SessionStep PROVE IInv'
  OBVIOUS
<1>1. ASSUME NEW s \in SessionIds, NEW unit \in Areas \cup {None}, SetPlannedUnit(s, unit)
      PROVE  IInv'
  <2>. DEFINE row == [session[s] EXCEPT !.unit = unit]
  <2>1. s \in DOMAIN session
    BY <1>1 DEF SetPlannedUnit, IsOpen
  <2>2. /\ row \in SessionRow /\ row.owner = session[s].owner
        /\ row.ended = session[s].ended /\ ~session[s].ended
        /\ session' = [session EXCEPT ![s] = row]
    BY <1>1, <2>1 DEF IInv, TypeOK, IsTable, SessionRow, SetPlannedUnit, IsOpen
  <2>. HIDE DEF row
  <2>. QED BY <1>1, <2>1, <2>2, EditSessionInv DEF SetPlannedUnit
<1>2. ASSUME NEW s \in SessionIds, EndSession(s)
      PROVE  IInv'
  <2>. DEFINE row == [session[s] EXCEPT !.ended = TRUE]
  <2>1. s \in DOMAIN session
    BY <1>2 DEF EndSession, IsOpen
  <2>2. /\ row \in SessionRow /\ row.owner = session[s].owner /\ row.ended
        /\ session' = [session EXCEPT ![s] = row]
    BY <1>2, <2>1 DEF IInv, TypeOK, IsTable, SessionRow, EndSession
  <2>. HIDE DEF row
  <2>. QED BY <1>2, <2>1, <2>2, EditSessionInv DEF EndSession
<1>. QED BY <1>1, <1>2, CreateSessionInv DEF SessionStep

LEMMA ListStepInv == IInv /\ ListStep => IInv'
<1>. SUFFICES ASSUME IInv,
                     NEW s \in SessionIds, NEW p \in PlacementIds, NEW answer \in Answers,
                     CheckItem(s, p, answer)
              PROVE  IInv'
  BY DEF ListStep
<1>. DEFINE new == [sp \in {<<s, p>>} |-> answer]
<1>1. s \in DOMAIN session /\ p \in DOMAIN placement /\ Records(new)
  BY DEF CheckItem, IsOpen
<1>2. /\ IsTable(new, SessionIds \X PlacementIds, CheckRow)
      /\ \A sp \in DOMAIN new : sp[1] \in DOMAIN session /\ sp[2] \in DOMAIN placement
  BY <1>1, AnswersAssumption DEF IsTable
<1>. HIDE DEF new
<1>3. /\ IsTable(check', SessionIds \X PlacementIds, CheckRow)
      /\ \A sp \in DOMAIN check' : sp[1] \in DOMAIN session /\ sp[2] \in DOMAIN placement
  BY <1>1, <1>2, RecordsInv
<1>. QED
  BY <1>3 DEF CheckItem, IInv, TypeOK, OneOpenPerUser, OpenOf, NoDanglingCheck

LEMMA KioskStepInv == IInv /\ KioskStep => IInv'
<1>. SUFFICES ASSUME IInv, KioskStep PROVE IInv'
  OBVIOUS
<1>1. ASSUME NEW k \in Kiosks, NEW piece \in Pieces, NEW delta \in {-1, 1},
             CheckPiece(k, piece, delta), UNCHANGED <<placement, session, link>>,
             page' \in [Kiosks -> Pieces \cup {None}]
      PROVE  IInv'
  <2>1. /\ IsTable(check', SessionIds \X PlacementIds, CheckRow)
        /\ \A sp \in DOMAIN check' : sp[1] \in DOMAIN session /\ sp[2] \in DOMAIN placement
    BY <1>1, CheckPieceInv
  <2>. QED
    BY <1>1, <2>1 DEF IInv, TypeOK, OneOpenPerUser, OpenOf, NoDanglingCheck
<1>2. ASSUME NEW k \in Kiosks, NEW s \in SessionIds, StartAtKiosk(k, s)
      PROVE  IInv'
  BY <1>2 DEF StartAtKiosk, IInv, TypeOK, OneOpenPerUser, OpenOf, NoDanglingCheck
<1>3. ASSUME NEW k \in Kiosks, StopAtKiosk(k)
      PROVE  IInv'
  BY <1>3 DEF StopAtKiosk, IInv, TypeOK, OneOpenPerUser, OpenOf, NoDanglingCheck
<1>4. ASSUME NEW k \in Kiosks, NEW piece \in Pieces, ShowPiece(k, piece)
      PROVE  IInv'
  BY <1>1, <1>4 DEF ShowPiece, IInv, TypeOK
<1>5. ASSUME NEW k \in Kiosks, NEW piece \in Pieces, NEW delta \in {-1, 1}, Adjust(k, piece, delta)
      PROVE  IInv'
  BY <1>1, <1>5 DEF Adjust, IInv, TypeOK
<1>6. ASSUME NEW k \in Kiosks, FollowRedirect(k)
      PROVE  IInv'
  <2>1. page[k] \in Pieces /\ page' \in [Kiosks -> Pieces \cup {None}]
    BY <1>6 DEF FollowRedirect, IInv, TypeOK
  <2>. QED BY <1>1, <1>6, <2>1 DEF FollowRedirect
<1>. QED BY <1>2, <1>3, <1>4, <1>5, <1>6 DEF KioskStep

(* The catalogue keeps every placement that was checked. *)
LEMMA CatalogueInv ==
  ASSUME IInv, IsTable(placement', PlacementIds, PlacementRow),
         \A sp \in DOMAIN check : sp[2] \in DOMAIN placement => sp[2] \in DOMAIN placement',
         UNCHANGED <<session, check, link, page>>
  PROVE  IInv'
  BY DEF IInv, TypeOK, OneOpenPerUser, OpenOf, NoDanglingCheck

LEMMA CatalogueStepInv == IInv /\ CatalogueStep => IInv'
<1>. SUFFICES ASSUME IInv, CatalogueStep PROVE IInv'
  OBVIOUS
<1>. DEFINE Typed(T) == IsTable(T, PlacementIds, PlacementRow)
<1>1. Typed(placement) /\ NoDanglingCheck
  BY DEF IInv, TypeOK
<1>2. \A p \in DOMAIN placement : placement[p] \in PlacementRow /\ placement[p].copies \in Stock
  BY <1>1 DEF IsTable, PlacementRow
<1>3. ASSUME NEW p \in PlacementIds, NEW unit \in Units, NEW n \in Numbers,
             AddPlacement(p, unit, n)
      PROVE  IInv'
  <2>. DEFINE row == [unit |-> unit, copies |-> n]
  <2>1. row \in PlacementRow
    BY NumbersType DEF PlacementRow
  <2>. HIDE DEF row
  <2>2. Typed(WithRow(placement, p, row)) /\ DOMAIN WithRow(placement, p, row) = DOMAIN placement \cup {p}
    BY <1>1, <2>1 DEF IsTable, With, WithRow
  <2>. QED BY <1>3, <2>2, CatalogueInv DEF AddPlacement, Insert, row
<1>4. ASSUME NEW p \in PlacementIds, NEW unit \in Units, NEW n \in Numbers,
             UpdatePlacement(p, unit, n)
      PROVE  IInv'
  <2>. DEFINE row == [placement[p] EXCEPT !.unit = unit, !.copies = n]
  <2>1. p \in DOMAIN placement /\ placement' = [placement EXCEPT ![p] = row]
    BY <1>1, <1>4 DEF UpdatePlacement, Change, IsTable
  <2>2. row \in PlacementRow
    BY <1>2, <2>1, NumbersType DEF PlacementRow
  <2>. HIDE DEF row
  <2>3. Typed(placement') /\ DOMAIN placement' = DOMAIN placement
    BY <1>1, <2>1, <2>2, EditRowType
  <2>. QED BY <1>4, <2>3, CatalogueInv DEF UpdatePlacement
<1>5. ASSUME NEW p \in DOMAIN placement, NEW n \in Stock
      PROVE  LET more == [placement EXCEPT ![p].copies = AddedCopies(@, n)] IN
             Typed(more) /\ DOMAIN more = DOMAIN placement
  <2>. DEFINE row == [placement[p] EXCEPT !.copies = AddedCopies(@, n)]
  <2>1. row \in PlacementRow
    BY <1>2, AddedCopiesType DEF PlacementRow
  <2>2. [placement EXCEPT ![p].copies = AddedCopies(@, n)] = [placement EXCEPT ![p] = row]
    BY <1>1 DEF IsTable
  <2>. HIDE DEF row
  <2>. QED BY <1>1, <2>1, <2>2, EditRowType
<1>6. ASSUME NEW p \in PlacementIds, NEW n \in Numbers, AddToPlacement(p, n)
      PROVE  IInv'
  <2>1. p \in DOMAIN placement /\ n \in Stock
    BY <1>6, NumbersType DEF AddToPlacement, AddCopies
  <2>2. Typed(placement') /\ DOMAIN placement' = DOMAIN placement
    BY <1>5, <1>6, <2>1 DEF AddToPlacement, AddCopies
  <2>. QED BY <1>6, <2>2, CatalogueInv DEF AddToPlacement
<1>7. ASSUME NEW p \in PlacementIds, NEW q \in PlacementIds, NEW n \in Numbers,
             MergePlacement(p, q, n)
      PROVE  IInv'
  <2>. DEFINE incoming == IF n = Unlimited THEN placement[p].copies ELSE n
              more == [placement EXCEPT ![q].copies = AddedCopies(@, incoming)]
  <2>1. p \in DOMAIN placement /\ q \in DOMAIN placement /\ placement' = Without(more, {p})
    BY <1>7 DEF MergePlacement, MergeInto
  <2>2. incoming \in Stock
    BY <1>2, <2>1, NumbersType
  <2>. HIDE DEF incoming
  <2>3. Typed(more) /\ DOMAIN more = DOMAIN placement
    BY <1>5, <2>1, <2>2
  <2>. HIDE DEF more
  <2>4. Typed(placement') /\ DOMAIN placement' = DOMAIN placement \ {p}
    BY <2>1, <2>3, WithoutType
  <2>. QED BY <1>7, <2>4, CatalogueInv DEF MergePlacement, Unchecked
<1>8. ASSUME NEW gone, RemovePlacements(gone)
      PROVE  IInv'
  <2>1. Typed(Without(placement, gone)) /\ DOMAIN Without(placement, gone) = DOMAIN placement \ gone
    BY <1>1, WithoutType
  <2>. QED BY <1>8, <2>1, CatalogueInv DEF RemovePlacements, Unchecked, Drop
<1>. QED BY <1>3, <1>4, <1>6, <1>7, <1>8 DEF CatalogueStep

-----------------------------------------------------------------------------
(* Theorems *)

(* The invariant holds in every reachable state. *)
THEOREM InvariantHolds == Spec => []IInv
<1>1. IInv /\ UNCHANGED vars => IInv'
  BY DEF vars, IInv, TypeOK, OneOpenPerUser, OpenOf, NoDanglingCheck
<1>2. IInv /\ [Next]_vars => IInv'
  BY <1>1, SessionStepInv, ListStepInv, KioskStepInv, CatalogueStepInv DEF Next
<1>. QED BY <1>2, InitInv, PTL DEF Spec

(* The tables keep their types; no count is negative. *)
THEOREM TypeCorrect == Spec => []TypeOK
<1>1. IInv => TypeOK
  BY DEF IInv
<1>. QED BY <1>1, InvariantHolds, PTL

(* No editor has two open sessions (inventory.py:89-90). *)
THEOREM SingleSession == Spec => []OneOpenPerUser
<1>1. IInv => OneOpenPerUser
  BY DEF IInv
<1>. QED BY <1>1, InvariantHolds, PTL

(* What was counted belongs to a session and a placement that exist.         *)
THEOREM ChecksKept == Spec => []NoDanglingCheck
<1>1. IInv => NoDanglingCheck
  BY DEF IInv
<1>. QED BY <1>1, InvariantHolds, PTL

-----------------------------------------------------------------------------
(* Ended sessions *)

(* Rows for an open session leave the checks of the ended ones alone. *)
LEMMA RecordsKept ==
  ASSUME NEW s, s \in DOMAIN session, session[s].ended,
         NEW t, IsOpen(t), NEW new, \A sp \in DOMAIN new : sp[1] = t, Records(new),
         UNCHANGED session
  PROVE  Kept(s)
<1>1. s # t
  BY DEF IsOpen
<1>2. \A p : <<s, p>> \notin DOMAIN new
  BY <1>1
<1>. QED BY <1>2 DEF Kept, Records, With

(* Counting at a kiosk reaches only the open session it is linked to. *)
LEMMA CheckPieceKept ==
  ASSUME NEW s \in DOMAIN session, session[s].ended, UNCHANGED session,
         NEW k, NEW piece, NEW delta, CheckPiece(k, piece, delta)
  PROVE  Kept(s)
<1>1. CASE UNCHANGED check
  BY <1>1 DEF Kept
<1>2. CASE ~UNCHANGED check
  <2>. DEFINE t == link[k]
              Row(p) == [status |-> StatusForActual(Counted(t, p, delta), placement[p].copies),
                         actual |-> Counted(t, p, delta)]
              new == [sp \in {t} \X InScope(k, t, piece) |-> Row(sp[2])]
  <2>1. IsOpen(t) /\ Records(new)
    BY <1>2 DEF CheckPiece
  <2>. HIDE DEF t, Row
  <2>2. \A sp \in DOMAIN new : sp[1] = t
    OBVIOUS
  <2>. HIDE DEF new
  <2>. QED BY <2>1, <2>2, RecordsKept
<1>. QED BY <1>1, <1>2

(* Sessions change while they are open. *)
LEMMA SessionStepKept ==
  ASSUME TypeOK, SessionStep, NEW s \in DOMAIN session, session[s].ended
  PROVE  Kept(s)
<1>1. s \in DOMAIN session' /\ session'[s] = session[s]
  <2>1. \A t, row : t # s => /\ s \in DOMAIN WithRow(session, t, row)
                            /\ WithRow(session, t, row)[s] = session[s]
    BY DEF WithRow, With
  <2>2. \A old, t, row :
           old # s /\ t # s =>
             LET new == WithRow([session EXCEPT ![old].ended = TRUE], t, row) IN
             s \in DOMAIN new /\ new[s] = session[s]
    BY DEF WithRow, With
  <2>3. ASSUME NEW u, NEW t, NEW unit, NEW location, CreateSession(u, t, unit, location)
        PROVE  s \in DOMAIN session' /\ session'[s] = session[s]
    <3>. DEFINE row == Planned(u, unit, location)
    <3>1. t # s
      BY <2>3 DEF CreateSession
    <3>. SUFFICES ASSUME ~(OpenOf(u) = {} /\ session' = WithRow(session, t, row))
                  PROVE  s \in DOMAIN session' /\ session'[s] = session[s]
      BY <2>1, <3>1
    <3>2. PICK old \in OpenOf(u) : session' = WithRow([session EXCEPT ![old].ended = TRUE], t, row)
      BY <2>3 DEF CreateSession
    <3>3. old # s
      BY DEF OpenOf
    <3>. HIDE DEF row
    <3>. QED BY <2>2, <3>1, <3>2, <3>3
  <2>4. ASSUME NEW t, NEW unit, SetPlannedUnit(t, unit) \/ EndSession(t)
        PROVE  s \in DOMAIN session' /\ session'[s] = session[s]
    BY <2>4 DEF SetPlannedUnit, EndSession, IsOpen
  <2>. QED BY <2>3, <2>4 DEF SessionStep
<1>2. UNCHANGED check
  BY DEF SessionStep, CreateSession, SetPlannedUnit, EndSession
<1>. QED BY <1>1, <1>2 DEF Kept

LEMMA StepKept ==
  ASSUME TypeOK, Next, NEW s \in DOMAIN session, session[s].ended
  PROVE  Kept(s)
<1>1. ASSUME NEW t, NEW p, NEW answer, CheckItem(t, p, answer)
      PROVE  Kept(s)
  <2>. DEFINE new == [sp \in {<<t, p>>} |-> answer]
  <2>1. /\ Records(new) /\ IsOpen(t) /\ UNCHANGED session
        /\ \A sp \in DOMAIN new : sp[1] = t
    BY <1>1 DEF CheckItem
  <2>. HIDE DEF new
  <2>. QED BY <2>1, RecordsKept
<1>2. CASE KioskStep
  <2>1. ASSUME UNCHANGED <<session, check>> PROVE Kept(s)
    BY <2>1 DEF Kept
  <2>2. ASSUME NEW k, NEW piece, NEW delta, CheckPiece(k, piece, delta), UNCHANGED session
        PROVE  Kept(s)
    BY <2>2, CheckPieceKept
  <2>3. ASSUME NEW k, NEW t, StartAtKiosk(k, t) \/ StopAtKiosk(k)
        PROVE  Kept(s)
    BY <2>1, <2>3 DEF StartAtKiosk, StopAtKiosk
  <2>4. ASSUME NEW k, NEW piece, NEW delta,
               ShowPiece(k, piece) \/ Adjust(k, piece, delta) \/ FollowRedirect(k)
        PROVE  Kept(s)
    BY <2>2, <2>4 DEF ShowPiece, Adjust, FollowRedirect
  <2>. QED BY <1>2, <2>3, <2>4 DEF KioskStep
<1>3. CASE CatalogueStep
  BY <1>3 DEF Kept, CatalogueStep, AddPlacement, AddToPlacement, UpdatePlacement, MergePlacement,
     RemovePlacements
<1>4. CASE ListStep
  BY <1>1, <1>4 DEF ListStep
<1>5. CASE SessionStep
  BY <1>5, SessionStepKept
<1>. QED BY <1>2, <1>3, <1>4, <1>5 DEF Next

(* Nothing is counted in a session that has ended (backlog.md:224), for any   *)
(* number of kiosks linked to it, and it is not opened again.                *)
THEOREM EndedStaysFrozen == Spec => EndedSessionFrozen
<1>1. TypeOK /\ [Next]_vars => [\A s \in DOMAIN session : session[s].ended => Kept(s)]_vars
  BY StepKept
<1>. QED BY <1>1, TypeCorrect, PTL DEF Spec, EndedSessionFrozen
=============================================================================
