-------------------------------- MODULE Loans --------------------------------
(***************************************************************************)
(* Lending: app/routes/loans.py, the kiosk checkout, and the placement     *)
(* handlers that change what can be lent or cascade into loans.            *)
(*                                                                         *)
(* A LoanBatch starts as the cart of one user, is registered ("picking"),  *)
(* becomes "active" when the sheet music has been fetched and "returned"   *)
(* when everything is back.  A Loan row reserves copies of one placement   *)
(* from the moment it lies in a cart until it is returned.  Every handler  *)
(* runs on the event loop of one web process without awaiting between its  *)
(* statements, so a handler is one step; only return_loan commits twice.   *)
(***************************************************************************)
EXTENDS Integers, FiniteSets, FiniteSetsExt, Functions, Tables, Placements

CONSTANTS
    Users,         \* accounts, kiosk borrowers included
    Editors,       \* the users with User.can_edit
    Admins,        \* the users that may call admin-only handlers
    Outsiders,     \* borrower names that are no account
    Nobody,        \* the empty borrower of a row that still lies in a cart
    Kiosks,        \* for every kiosk the set of storage units of its location
    LoanIds,       \* primary keys of loans
    BatchIds,      \* primary keys of loan_batches
    NoBatch        \* Loan.batch_id = NULL: a single loan

ASSUME UsersAssumption ==
    /\ Editors \subseteq Users
    /\ Admins \subseteq Editors
    /\ Users \cap Outsiders = {}
    /\ Nobody \notin Users \cup Outsiders
ASSUME KiosksAssumption == Kiosks \subseteq SUBSET Units
ASSUME KeysAssumption == NoBatch \notin BatchIds /\ IsFiniteSet(LoanIds)

VARIABLES
    loan,  \* table loans
    batch  \* table loan_batches

vars == <<placement, loan, batch>>

Borrowers == Users \cup Outsiders
Status == {"cart", "picking", "active", "returned"}

LoanRow == [placement : PlacementIds,
            batch     : BatchIds \cup {NoBatch},
            copies    : Nat \ {0},
            borrower  : Borrowers \cup {Nobody},
            picked    : BOOLEAN,
            returned  : BOOLEAN]
BatchRow == [owner    : Users,
             status   : Status,
             borrower : Borrowers \cup {Nobody}]

Init ==
    /\ placement = Empty
    /\ loan = Empty
    /\ batch = Empty

-----------------------------------------------------------------------------
(* Queries *)

RowsOf(b) == {l \in DOMAIN loan : loan[l].batch = b}
OpenRows == {l \in DOMAIN loan : ~loan[l].returned}
OpenRowsOf(b) == RowsOf(b) \cap OpenRows
RowsAt(p) == {l \in DOMAIN loan : loan[l].placement = p}
FreeLoans == LoanIds \ DOMAIN loan

InBatch(l) == loan[l].batch # NoBatch
HasStatus(b, s) == b \in DOMAIN batch /\ batch[b].status \in s
CartsOf(u) == {b \in DOMAIN batch : batch[b].owner = u /\ batch[b].status = "cart"}
InCartOf(u, l) == l \in DOMAIN loan /\ loan[l].batch \in CartsOf(u)

(* The copies that rows of a table of loans hold, each by row and number. *)
CopiesIn(table, rows) == UNION {{l} \X (1..table[l].copies) : l \in rows}

(* The copies of p that open rows outside except hold. *)
Reserved(p, except) == Cardinality(CopiesIn(loan, (RowsAt(p) \cap OpenRows) \ except))

(* Fault: the cap compares with the stock and forgets what is reserved. *)
CapsToStock(p, requested, except, n) ==
    IF placement[p].copies = Unlimited
    THEN n = requested
    ELSE n = Min({requested, placement[p].copies})

(* _cap_to_available(p, requested, exclude_loan_id) returns n. *)
CapsTo(p, requested, except, n) ==
    IF placement[p].copies = Unlimited
    THEN n = requested
    ELSE n = Min({requested, Max({0, placement[p].copies - Reserved(p, except)})})

(* Fault: the cart at hand is not looked for. *)
GetsNewCart(u, c, batches) ==
    /\ c \in BatchIds \ DOMAIN batch
    /\ batches = WithRow(batch, c, [owner |-> u, status |-> "cart", borrower |-> Nobody])

(* _get_or_create_cart(u) returns c and leaves the table batches. *)
GetsCart(u, c, batches) ==
    \/ c \in CartsOf(u) /\ batches = batch
    \/ /\ CartsOf(u) = {}
       /\ c \in BatchIds \ DOMAIN batch
       /\ batches = WithRow(batch, c, [owner |-> u, status |-> "cart", borrower |-> Nobody])

CartRow(p, c, n) ==
    [placement |-> p, batch |-> c, copies |-> n,
     borrower |-> Nobody, picked |-> FALSE, returned |-> FALSE]

(* A row whose cap is zero is deleted, any other gets the capped number. *)
SetCopies(l, n) ==
    loan' = IF n = 0 THEN Without(loan, {l}) ELSE [loan EXCEPT ![l].copies = n]

-----------------------------------------------------------------------------
(* Single loans *)

(* add_loan: an editor registers a loan that bypasses cart and cap. *)
AddLoan(p, who, n) ==
    /\ Editors # {}
    /\ p \in DOMAIN placement
    /\ \E l \in FreeLoans :
          loan' = WithRow(loan, l,
                    [placement |-> p, batch |-> NoBatch, copies |-> n,
                     borrower |-> who, picked |-> TRUE, returned |-> FALSE])
    /\ UNCHANGED <<placement, batch>>

MayReturn(u, l) ==
    \/ u \in Editors
    \/ loan[l].borrower = u
    \/ InBatch(l) /\ batch[loan[l].batch].borrower = u

(* Fault: a batch that is still being fetched is closed, too. *)
LastOpenOfAny(l) ==
    /\ HasStatus(loan[l].batch, {"picking", "active"})
    /\ OpenRowsOf(loan[l].batch) = {l}

(* The row l is the last open one of an active batch. *)
LastOpen(l) ==
    /\ HasStatus(loan[l].batch, {"active"})
    /\ OpenRowsOf(loan[l].batch) = {l}

(* Fault: the button toggles. *)
ToggleReturned(u, l) ==
    /\ l \in DOMAIN loan
    /\ MayReturn(u, l)
    /\ loan' = [loan EXCEPT ![l].returned = ~@]
    /\ UNCHANGED placement

(* The first commit of return_loan. *)
MarkReturned(u, l) ==
    /\ l \in OpenRows
    /\ MayReturn(u, l)
    /\ loan' = [loan EXCEPT ![l].returned = TRUE]
    /\ UNCHANGED placement

(* return_loan: the batch of the last open row closes in a second commit. *)
ReturnLoan(u, l) ==
    /\ MarkReturned(u, l)
    /\ batch' = IF LastOpen(l)
                THEN [batch EXCEPT ![loan[l].batch].status = "returned"]
                ELSE batch

(* return_loan stopped between its commits: process death, or SQLite busy. *)
ReturnLoanInterrupted(u, l) ==
    /\ MarkReturned(u, l)
    /\ LastOpen(l)
    /\ UNCHANGED batch

DeleteLoan(l) ==
    /\ Admins # {}
    /\ l \in DOMAIN loan
    /\ loan' = Without(loan, {l})
    /\ UNCHANGED <<placement, batch>>

-----------------------------------------------------------------------------
(* The cart *)

(* cart_view, and every cart handler that gives up after fetching the cart. *)
OpenCart(u) ==
    /\ \E c \in BatchIds : GetsCart(u, c, batch')
    /\ UNCHANGED <<placement, loan>>

CartAdd(u, p, requested) ==
    /\ p \in DOMAIN placement
    /\ \E c \in BatchIds, n \in 0..MaxCopies :
          /\ GetsCart(u, c, batch')
          /\ \/ \E l \in RowsOf(c) \cap RowsAt(p) :
                   /\ CapsTo(p, loan[l].copies + requested, {l}, n)
                   /\ SetCopies(l, n)
             \/ /\ RowsOf(c) \cap RowsAt(p) = {}
                /\ CapsTo(p, requested, {}, n)
                /\ \/ n = 0 /\ UNCHANGED loan
                   \/ n > 0 /\ \E l \in FreeLoans :
                                  loan' = WithRow(loan, l, CartRow(p, c, n))
    /\ UNCHANGED placement

(* Fault: what lies in the cart already is added again. *)
CartAddAllAgain(u, unit) ==
    LET here == {p \in DOMAIN placement : placement[p].unit = unit} IN
    /\ here # {}
    /\ \E c \in BatchIds :
          LET wanted == {p \in here : CapsTo(p, 1, {}, 1)} IN
          /\ GetsCart(u, c, batch')
          /\ \E new \in SUBSET FreeLoans : \E of \in Bijection(new, wanted) :
                loan' = With(loan, [l \in new |-> CartRow(of[l], c, 1)])
    /\ UNCHANGED placement

(* cart_add_all_from_unit: one copy of all that is free and not yet there. *)
CartAddAllFromUnit(u, unit) ==
    LET here == {p \in DOMAIN placement : placement[p].unit = unit} IN
    /\ here # {}
    /\ \E c \in BatchIds :
          LET wanted == {p \in here : RowsOf(c) \cap RowsAt(p) = {} /\ CapsTo(p, 1, {}, 1)} IN
          /\ GetsCart(u, c, batch')
          /\ \E new \in SUBSET FreeLoans : \E of \in Bijection(new, wanted) :
                loan' = With(loan, [l \in new |-> CartRow(of[l], c, 1)])
    /\ UNCHANGED placement

CartUpdate(u, l, requested) ==
    /\ InCartOf(u, l)
    /\ \E n \in 0..MaxCopies :
          /\ CapsTo(loan[l].placement, requested, {l}, n)
          /\ SetCopies(l, n)
    /\ UNCHANGED <<placement, batch>>

CartRemove(u, l) ==
    /\ InCartOf(u, l)
    /\ loan' = Without(loan, {l})
    /\ UNCHANGED <<placement, batch>>

CartClear(u) ==
    /\ \E c \in BatchIds :
          /\ GetsCart(u, c, batch')
          /\ loan' = Without(loan, RowsOf(c))
    /\ UNCHANGED placement

(* A reader borrows for himself or for somebody without an account. *)
MayBorrowFor(u, who) == u \in Editors \/ who \in Outsiders \/ who = u

(* Fault: the borrower is noted on the batch alone. *)
RegisterBatchOnly(c, status, who, picked) ==
    /\ batch' = [batch EXCEPT ![c].status = status, ![c].borrower = who]
    /\ loan' = [l \in DOMAIN loan |->
                  IF l \in RowsOf(c) THEN [loan[l] EXCEPT !.picked = @ \/ picked] ELSE loan[l]]

(* The cart c becomes a registered batch of who. *)
Register(c, status, who, picked) ==
    /\ batch' = [batch EXCEPT ![c].status = status, ![c].borrower = who]
    /\ loan' = [l \in DOMAIN loan |->
                  IF l \in RowsOf(c)
                  THEN [loan[l] EXCEPT !.borrower = who, !.picked = @ \/ picked]
                  ELSE loan[l]]

CartCheckout(u, who) ==
    /\ MayBorrowFor(u, who)
    /\ \E c \in CartsOf(u) :
          /\ RowsOf(c) # {}
          /\ Register(c, "picking", who, FALSE)
    /\ UNCHANGED placement

(* kiosk_checkout: the music is in hand.  One row leaves the cart as a      *)
(* single loan, several rows turn the cart into an active batch at once.    *)
KioskCheckout(u, who) ==
    /\ who \in Outsiders \cup {u}
    /\ \E c \in CartsOf(u) :
          \/ \E l \in DOMAIN loan :
                /\ RowsOf(c) = {l}
                /\ loan' = [loan EXCEPT ![l].borrower = who, ![l].picked = TRUE,
                                        ![l].batch = NoBatch]
                /\ UNCHANGED batch
          \/ /\ Cardinality(RowsOf(c)) > 1
             /\ Register(c, "active", who, TRUE)
    /\ UNCHANGED placement

-----------------------------------------------------------------------------
(* A registered batch *)

(* mark_picked_up looks at nothing but batch_id. *)
MarkPickedUp(l) ==
    /\ Editors # {}
    /\ l \in DOMAIN loan
    /\ InBatch(l)
    /\ loan' = [loan EXCEPT ![l].picked = TRUE]
    /\ UNCHANGED <<placement, batch>>

MarkNotFound(l) ==
    /\ Editors # {}
    /\ l \in DOMAIN loan
    /\ HasStatus(loan[l].batch, {"picking"})
    /\ ~loan[l].picked
    /\ loan' = Without(loan, {l})
    /\ UNCHANGED <<placement, batch>>

(* Fault: the rows that were not fetched stay. *)
BatchActivateKeepsAll(b) ==
    /\ Editors # {}
    /\ HasStatus(b, {"picking"})
    /\ \E l \in RowsOf(b) : loan[l].picked
    /\ batch' = [batch EXCEPT ![b].status = "active"]
    /\ UNCHANGED <<placement, loan>>

(* batch_activate drops the rows that were never fetched. *)
BatchActivate(b) ==
    /\ Editors # {}
    /\ HasStatus(b, {"picking"})
    /\ \E l \in RowsOf(b) : loan[l].picked
    /\ loan' = Without(loan, {l \in RowsOf(b) : ~loan[l].picked})
    /\ batch' = [batch EXCEPT ![b].status = "active"]
    /\ UNCHANGED placement

(* The open rows in back are returned. *)
ReturnRows(back) ==
    loan' = [l \in DOMAIN loan |->
               IF l \in back THEN [loan[l] EXCEPT !.returned = TRUE] ELSE loan[l]]

(* Fault: the batch closes although rows of another location are still out. *)
BatchReturnAtKioskCloses(units, b) ==
    /\ HasStatus(b, {"active"})
    /\ ReturnRows({l \in OpenRowsOf(b) : placement[loan[l].placement].unit \in units})
    /\ batch' = [batch EXCEPT ![b].status = "returned"]
    /\ UNCHANGED placement

BatchReturnAtKiosk(units, b) ==
    LET back == {l \in OpenRowsOf(b) : placement[loan[l].placement].unit \in units} IN
    /\ HasStatus(b, {"active"})
    /\ ReturnRows(back)
    /\ batch' = IF back = OpenRowsOf(b)
                THEN [batch EXCEPT ![b].status = "returned"]
                ELSE batch
    /\ UNCHANGED placement

BatchReturnAll(b) ==
    /\ Editors # {}
    /\ HasStatus(b, {"active"})
    /\ ReturnRows(OpenRowsOf(b))
    /\ batch' = [batch EXCEPT ![b].status = "returned"]
    /\ UNCHANGED placement

(* Fault: a fetched row goes like any other when its cap is zero. *)
BatchAddMoreDropsRow(b, p, requested) ==
    /\ HasStatus(b, {"picking", "active"})
    /\ \E l \in OpenRowsOf(b) \cap RowsAt(p), n \in 0..MaxCopies :
          /\ CapsTo(p, loan[l].copies + requested, {l}, n)
          /\ SetCopies(l, n)
    /\ UNCHANGED <<placement, batch>>

(* batch_add_more: an open row of p grows as far as the cap allows, and a   *)
(* new row on an active batch counts as fetched.                            *)
BatchAddMore(b, p, requested) ==
    LET existing == OpenRowsOf(b) \cap RowsAt(p) IN
    /\ HasStatus(b, {"picking", "active"})
    /\ p \in DOMAIN placement
    /\ \E n \in 0..MaxCopies :
          \/ \E l \in existing :
                /\ CapsTo(p, loan[l].copies + requested, {l}, n)
                /\ IF n = 0 /\ loan[l].picked THEN UNCHANGED loan ELSE SetCopies(l, n)
          \/ /\ existing = {}
             /\ n > 0
             /\ CapsTo(p, requested, {}, n)
             /\ \E l \in FreeLoans :
                   loan' = WithRow(loan, l,
                             [CartRow(p, b, n) EXCEPT
                                 !.borrower = batch[b].borrower,
                                 !.picked   = batch[b].status = "active"])
    /\ UNCHANGED <<placement, batch>>

-----------------------------------------------------------------------------
(* Placements *)

(* Fault: the foreign key does not cascade. *)
RemovePlacementsOnly(gone) == UNCHANGED loan

(* ON DELETE CASCADE of loans.placement_id, whatever state the loans have. *)
RemovePlacements(gone) ==
    loan' = Without(loan, UNION {RowsAt(p) : p \in gone})

AddPlacement(p, unit, n) ==
    /\ Insert(p, unit, n)
    /\ UNCHANGED <<loan, batch>>

AddToPlacement(p, n) ==
    /\ AddCopies(p, n)
    /\ UNCHANGED <<loan, batch>>

UpdatePlacement(p, unit, n) ==
    /\ Change(p, unit, n)
    /\ UNCHANGED <<loan, batch>>

(* The loans of the merged placement go with its row. *)
MergePlacement(p, q, n) ==
    /\ MergeInto(p, q, n)
    /\ RemovePlacements({p})
    /\ UNCHANGED batch

DeletePlacement(p) ==
    /\ Drop({p})
    /\ RemovePlacements({p})
    /\ UNCHANGED batch

(* delete_piece cascades through the placements into the loans. *)
DeletePiece(piece) ==
    /\ Admins # {}
    /\ Drop(PlacementsOf(piece))
    /\ RemovePlacements(PlacementsOf(piece))
    /\ UNCHANGED batch

-----------------------------------------------------------------------------
Requests == 1..MaxRequest

CartStep ==
    \E u \in Users :
        \/ OpenCart(u)
        \/ \E p \in PlacementIds, n \in Requests : CartAdd(u, p, n)
        \/ \E unit \in Units : CartAddAllFromUnit(u, unit)
        \/ \E l \in LoanIds, n \in Requests : CartUpdate(u, l, n)
        \/ \E l \in LoanIds : CartRemove(u, l)
        \/ CartClear(u)
        \/ \E who \in Borrowers : CartCheckout(u, who)
        \/ \E who \in Borrowers : KioskCheckout(u, who)

LoanStep ==
    \/ \E p \in PlacementIds, who \in Borrowers, n \in Requests : AddLoan(p, who, n)
    \/ \E u \in Users, l \in LoanIds : ReturnLoan(u, l)
    \/ \E u \in Users, l \in LoanIds : ReturnLoanInterrupted(u, l)
    \/ \E l \in LoanIds : DeleteLoan(l)
    \/ \E l \in LoanIds : MarkPickedUp(l)
    \/ \E l \in LoanIds : MarkNotFound(l)

BatchStep ==
    \E b \in BatchIds :
        \/ BatchActivate(b)
        \/ \E units \in Kiosks : BatchReturnAtKiosk(units, b)
        \/ BatchReturnAll(b)
        \/ \E p \in PlacementIds, n \in Requests : BatchAddMore(b, p, n)

PlacementStep ==
    \/ \E p \in PlacementIds, unit \in Units, n \in Numbers : AddPlacement(p, unit, n)
    \/ \E p \in PlacementIds, n \in Numbers : AddToPlacement(p, n)
    \/ \E p \in PlacementIds, unit \in Units, n \in Numbers : UpdatePlacement(p, unit, n)
    \/ \E p, q \in PlacementIds, n \in Numbers : MergePlacement(p, q, n)
    \/ \E p \in PlacementIds : DeletePlacement(p)
    \/ \E piece \in Pieces : DeletePiece(piece)

Next == CartStep \/ LoanStep \/ BatchStep \/ PlacementStep

Spec == Init /\ [][Next]_vars

-----------------------------------------------------------------------------
(* Properties *)

(* The tables keep their columns' types; a row of zero copies is never left  *)
(* behind: the handlers that cap a number to zero delete or refuse the row.  *)
TypeOK ==
    /\ IsTable(placement, PlacementIds, PlacementRow)
    /\ IsTable(loan, LoanIds, LoanRow)
    /\ IsTable(batch, BatchIds, BatchRow)

(* The foreign keys of a loan row: whatever deletes a placement takes its    *)
(* loans along, and no handler ever deletes a batch.                         *)
NoDanglingLoan ==
    \A l \in DOMAIN loan :
        /\ loan[l].placement \in DOMAIN placement
        /\ InBatch(l) => loan[l].batch \in DOMAIN batch

(* loan_batch.py promises one cart batch per user.  Every cart handler takes   *)
(* the first cart it finds, so a second one would hide the user's rows.      *)
OneCartPerUser ==
    \A u \in Users : \A b, c \in CartsOf(u) : b = c

(* A batch that is closed has nothing left to hand in, and nothing joins it  *)
(* later: neither a late add-more nor a kiosk return of one location only.   *)
ReturnedBatchClosed ==
    \A b \in DOMAIN batch : batch[b].status = "returned" => OpenRowsOf(b) = {}

(* ACTIVE means that all is fetched: from the moment a batch is active every row *)
(* in it has been fetched, whichever way the row got there.                  *)
ActiveBatchFetched ==
    \A b \in DOMAIN batch :
        batch[b].status \in {"active", "returned"} => \A l \in RowsOf(b) : loan[l].picked

(* The two add handlers look for one existing row with .first(): a batch     *)
(* holds at most one open row per placement, a cart at most one at all.      *)
OneRowPerPlacement ==
    \A l, m \in DOMAIN loan :
        /\ InBatch(l)
        /\ loan[l].batch = loan[m].batch
        /\ loan[l].placement = loan[m].placement
        /\ loan[l].batch \in DOMAIN batch
        /\ {l, m} \subseteq OpenRows \/ batch[loan[l].batch].status = "cart"
        => l = m

(* Whoever is registered for a batch is registered for each of its rows;     *)
(* rows in a cart have no borrower yet and single loans always have one.     *)
BorrowerAgrees ==
    /\ \A b \in DOMAIN batch : (batch[b].borrower = Nobody) = (batch[b].status = "cart")
    /\ \A l \in DOMAIN loan :
          IF InBatch(l)
          THEN loan[l].borrower = batch[loan[l].batch].borrower
          ELSE loan[l].borrower # Nobody

(* The inductive invariant. *)
IInv ==
    /\ TypeOK
    /\ NoDanglingLoan
    /\ OneCartPerUser
    /\ ReturnedBatchClosed
    /\ ActiveBatchFetched
    /\ OneRowPerPlacement
    /\ BorrowerAgrees

(* The copies of p in carts and batches. *)
BatchReserved(p) ==
    Cardinality(CopiesIn(loan, {l \in RowsAt(p) \cap OpenRows : InBatch(l)}))

(* _cap_to_available: a step that reserves more copies of a placement for a  *)
(* cart or a batch leaves no more reserved than the placement has.           *)
NoCartOverbooks ==
    [][\A p \in DOMAIN placement \cap DOMAIN placement' :
          BatchReserved(p)' > BatchReserved(p) /\ placement'[p].copies # Unlimited
          => Reserved(p, {})' <= placement'[p].copies]_vars

(* A row that came back stays back: as long as the row exists it is neither  *)
(* reopened nor moved to another placement, and it changes batch only by     *)
(* leaving a cart as a single loan.                                          *)
RowsKeepTheirStory ==
    [][\A l \in DOMAIN loan \cap DOMAIN loan' :
          /\ loan'[l].placement = loan[l].placement
          /\ loan[l].returned => loan'[l].returned
          /\ loan[l].batch = loan'[l].batch
             \/ /\ HasStatus(loan[l].batch, {"cart"})
                /\ loan'[l].batch = NoBatch /\ loan'[l].picked]_vars

(* What has been fetched for a registered batch is deleted by nothing but an *)
(* administrator or the cascade of its placement.                            *)
FetchedRowsKept ==
    [][\A l \in DOMAIN loan \ DOMAIN loan' :
          /\ HasStatus(loan[l].batch, {"picking", "active"})
          /\ loan[l].picked
          /\ Admins = {}
          => loan[l].placement \notin DOMAIN placement']_vars

-----------------------------------------------------------------------------
(* The batches as BatchLifecycle sees them. *)
StageOf(b) == IF b \in DOMAIN batch THEN batch[b].status ELSE "none"
BorrowerOf(b) == IF b \in DOMAIN batch THEN batch[b].borrower ELSE Nobody

Lifecycle == INSTANCE BatchLifecycle WITH
    Batches  <- BatchIds,
    Rows     <- LoanIds,
    status   <- [b \in BatchIds |-> StageOf(b)],
    borrower <- [b \in BatchIds |-> BorrowerOf(b)],
    open     <- [b \in BatchIds |-> OpenRowsOf(b)]

(* Every interleaving of cart, kiosk, pickup, return and catalogue handlers  *)
(* keeps the promises of the life cycle.                                     *)
ImplementsLifecycle == Lifecycle!Spec
=============================================================================
