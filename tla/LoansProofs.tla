----------------------------- MODULE LoansProofs -----------------------------
(***************************************************************************)
(* The properties of Loans for every number of users, rows, batches and    *)
(* placements.  IInv is inductive: the lemmas follow the groups of Next,   *)
(* and the handlers that share a way of changing the tables share a lemma. *)
(* The rest of the module shows what a step does to a row, to a batch (a   *)
(* step of BatchLifecycle or none) and to the number of reserved copies.   *)
(***************************************************************************)
EXTENDS Loans, FiniteSetTheorems, TLAPS

-----------------------------------------------------------------------------
(* Tables *)

(* A table keeps its type when one of its rows is replaced. *)
LEMMA EditRowType ==
  ASSUME NEW T, NEW K, NEW R, IsTable(T, K, R),
         NEW k \in DOMAIN T, NEW r \in R
  PROVE  /\ IsTable([T EXCEPT ![k] = r], K, R)
         /\ DOMAIN [T EXCEPT ![k] = r] = DOMAIN T
  BY DEF IsTable

-----------------------------------------------------------------------------
(* Ways to change the tables *)

(* A row of an unreturned batch gets another number of copies, or goes. *)
LEMMA SetCopiesInv ==
  ASSUME IInv, NEW l \in DOMAIN loan, NEW n \in Nat,
         SetCopies(l, n), UNCHANGED <<placement, batch>>
  PROVE  IInv'
<1>1. CASE n = 0
  BY <1>1 DEF IInv, SetCopies, TypeOK, NoDanglingLoan, OneCartPerUser, ReturnedBatchClosed,
     ActiveBatchFetched, OneRowPerPlacement, BorrowerAgrees, Without, IsTable, CartsOf,
     OpenRowsOf, OpenRows, RowsOf, InBatch
<1>2. CASE n # 0
  <2>. DEFINE row == [loan[l] EXCEPT !.copies = n]
  <2>1. loan' = [loan EXCEPT ![l] = row]
    BY <1>2 DEF SetCopies
  <2>2. loan[l] \in LoanRow
    BY DEF IInv, TypeOK, IsTable
  <2>3. /\ row \in LoanRow
        /\ row.placement = loan[l].placement /\ row.batch = loan[l].batch
        /\ row.borrower = loan[l].borrower
        /\ row.picked = loan[l].picked /\ row.returned = loan[l].returned
    BY <1>2, <2>2 DEF LoanRow
  <2>. HIDE DEF row
  <2>4. TypeOK' /\ DOMAIN loan' = DOMAIN loan
    BY <2>1, <2>3, EditRowType DEF IInv, TypeOK
  <2>5. \A m \in DOMAIN loan :
           /\ loan'[m].placement = loan[m].placement /\ loan'[m].batch = loan[m].batch
           /\ loan'[m].borrower = loan[m].borrower
           /\ loan'[m].picked = loan[m].picked /\ loan'[m].returned = loan[m].returned
    BY <2>1, <2>3 DEF IInv, TypeOK, IsTable
  <2>. QED
    BY <2>4, <2>5 DEF IInv, NoDanglingLoan, OneCartPerUser, ReturnedBatchClosed,
       ActiveBatchFetched, OneRowPerPlacement, BorrowerAgrees, CartsOf,
       OpenRowsOf, OpenRows, RowsOf, InBatch
<1>. QED BY <1>1, <1>2

(* Fetching the cart leaves the other batches alone, and the cart is one of  *)
(* the user's that has no borrower; a new one has no rows.                   *)
LEMMA GetsCartFacts ==
  ASSUME IInv, NEW u \in Users, NEW c \in BatchIds, GetsCart(u, c, batch')
  PROVE  /\ IsTable(batch', BatchIds, BatchRow)
         /\ DOMAIN batch' = DOMAIN batch \cup {c}
         /\ \A b \in DOMAIN batch : batch'[b] = batch[b]
         /\ batch'[c].status = "cart" /\ batch'[c].borrower = Nobody
         /\ batch'[c].owner = u
         /\ OneCartPerUser'
         /\ c \notin DOMAIN batch => RowsOf(c) = {}
<1>. USE DEF IInv, TypeOK, CartsOf
<1>1. CASE c \in CartsOf(u) /\ batch' = batch
  BY <1>1 DEF BorrowerAgrees, OneCartPerUser
<1>2. CASE /\ CartsOf(u) = {}
           /\ c \in BatchIds \ DOMAIN batch
           /\ batch' = WithRow(batch, c, [owner |-> u, status |-> "cart", borrower |-> Nobody])
  <2>. DEFINE row == [owner |-> u, status |-> "cart", borrower |-> Nobody]
  <2>1. row \in BatchRow
    BY DEF BatchRow, Status
  <2>2. IsTable(batch, BatchIds, BatchRow) /\ batch' = WithRow(batch, c, row)
    BY <1>2
  <2>. HIDE DEF row
  <2>3. /\ IsTable(batch', BatchIds, BatchRow)
        /\ DOMAIN batch' = DOMAIN batch \cup {c}
        /\ batch'[c] = row
        /\ \A b \in DOMAIN batch : batch'[b] = batch[b]
    BY <2>1, <2>2, <1>2 DEF IsTable, With, WithRow
  <2>. USE DEF row
  <2>4. batch'[c].owner = u /\ batch'[c].status = "cart" /\ batch'[c].borrower = Nobody
    BY <2>3
  <2>5. OneCartPerUser'
    BY <2>3, <2>4, <1>2 DEF OneCartPerUser
  <2>6. RowsOf(c) = {}
    BY <1>2, KeysAssumption DEF NoDanglingLoan, RowsOf, InBatch
  <2>. QED BY <2>3, <2>4, <2>5, <2>6
<1>. QED BY <1>1, <1>2 DEF GetsCart

(* Rows join one batch c that is not returned; the other batches stay.  The  *)
(* caller shows that a new row fits into c and that c had none like it.      *)
LEMMA AddRowsInv ==
  ASSUME IInv, UNCHANGED placement,
         NEW new \in SUBSET FreeLoans, NEW rows \in [new -> LoanRow],
         loan' = With(loan, rows),
         NEW c \in BatchIds,
         IsTable(batch', BatchIds, BatchRow),
         DOMAIN batch' = DOMAIN batch \cup {c},
         \A b \in DOMAIN batch : batch'[b] = batch[b],
         c \notin DOMAIN batch => RowsOf(c) = {} /\ batch'[c].status = "cart",
         OneCartPerUser',
         batch'[c].status # "returned",
         (batch'[c].borrower = Nobody) = (batch'[c].status = "cart"),
         \A l \in new :
            /\ rows[l].batch = c
            /\ rows[l].placement \in DOMAIN placement
            /\ rows[l].borrower = batch'[c].borrower
            /\ batch'[c].status = "active" => rows[l].picked
            /\ \A m \in RowsOf(c) :
                  m \in OpenRows \/ batch'[c].status = "cart"
                  => loan[m].placement # rows[l].placement,
         \A l, m \in new : rows[l].placement = rows[m].placement => l = m
  PROVE  IInv'
<1>1. new \cap DOMAIN loan = {} /\ new \subseteq LoanIds
  BY DEF FreeLoans
<1>2. /\ IsTable(loan', LoanIds, LoanRow)
      /\ DOMAIN loan' = DOMAIN loan \cup new
      /\ \A l \in new : loan'[l] = rows[l]
      /\ \A l \in DOMAIN loan : loan'[l] = loan[l]
  BY <1>1 DEF IInv, TypeOK, IsTable, With
<1>3. TypeOK'
  BY <1>2 DEF IInv, TypeOK
<1>4. NoDanglingLoan'
  BY <1>2 DEF IInv, NoDanglingLoan, InBatch
<1>5. \A l \in new : InBatch(l)' /\ loan'[l].batch = c
  BY <1>2, KeysAssumption DEF InBatch
<1>6. ReturnedBatchClosed'
  BY <1>2 DEF IInv, ReturnedBatchClosed, OpenRowsOf, OpenRows, RowsOf
<1>7. ActiveBatchFetched'
  BY <1>2 DEF IInv, ActiveBatchFetched, RowsOf, TypeOK, IsTable, BatchRow, Status
<1>8. OneRowPerPlacement'
  <2>. SUFFICES ASSUME NEW l \in DOMAIN loan', NEW m \in DOMAIN loan',
                       InBatch(l)', loan'[l].batch = loan'[m].batch,
                       loan'[l].placement = loan'[m].placement,
                       loan'[l].batch \in DOMAIN batch',
                       \/ ~loan'[l].returned /\ ~loan'[m].returned
                       \/ batch'[loan'[l].batch].status = "cart"
                PROVE  l = m
    BY DEF OneRowPerPlacement, OpenRows
  <2>1. CASE l \in new /\ m \in new
    BY <1>2, <2>1
  <2>2. CASE l \in new /\ m \in DOMAIN loan
    BY <1>2, <2>2 DEF RowsOf, OpenRows
  <2>3. CASE l \in DOMAIN loan /\ m \in new
    BY <1>2, <2>3 DEF RowsOf, OpenRows
  <2>4. CASE l \in DOMAIN loan /\ m \in DOMAIN loan
    BY <1>2, <2>4 DEF IInv, OneRowPerPlacement, OpenRows, InBatch, NoDanglingLoan
  <2>. QED BY <1>2, <2>1, <2>2, <2>3, <2>4
<1>9. BorrowerAgrees'
  BY <1>2, <1>5 DEF IInv, BorrowerAgrees, InBatch, NoDanglingLoan
<1>. QED BY <1>3, <1>4, <1>6, <1>7, <1>8, <1>9 DEF IInv

(* A cart turns into a registered batch, which frees its owner for another. *)
LEMMA RegisterInv ==
  ASSUME IInv, UNCHANGED placement,
         NEW u \in Users, NEW c \in CartsOf(u), NEW status \in {"picking", "active"},
         NEW who \in Borrowers, NEW picked \in BOOLEAN,
         status = "active" => picked,
         Register(c, status, who, picked)
  PROVE  IInv'
<1>1. c \in DOMAIN batch /\ c \in BatchIds /\ batch[c] \in BatchRow
  BY DEF CartsOf, IInv, TypeOK, IsTable
<1>2. /\ IsTable(batch', BatchIds, BatchRow)
      /\ DOMAIN batch' = DOMAIN batch
      /\ \A b \in DOMAIN batch \ {c} : batch'[b] = batch[b]
      /\ batch'[c].status = status /\ batch'[c].borrower = who
  <2>. DEFINE row == [batch[c] EXCEPT !.status = status, !.borrower = who]
  <2>1. batch' = [batch EXCEPT ![c] = row]
    BY <1>1 DEF Register
  <2>2. row \in BatchRow /\ row.status = status /\ row.borrower = who
    BY <1>1 DEF BatchRow, Status
  <2>. HIDE DEF row
  <2>. QED BY <1>1, <2>1, <2>2 DEF IInv, TypeOK, IsTable
<1>3. \A l \in DOMAIN loan : loan[l] \in LoanRow
  BY DEF IInv, TypeOK, IsTable
<1>4. /\ DOMAIN loan' = DOMAIN loan
      /\ \A l \in DOMAIN loan \ RowsOf(c) : loan'[l] = loan[l]
      /\ \A l \in RowsOf(c) :
            /\ loan'[l] \in LoanRow
            /\ loan'[l].placement = loan[l].placement /\ loan'[l].batch = c
            /\ loan'[l].returned = loan[l].returned
            /\ loan'[l].borrower = who
            /\ picked => loan'[l].picked
  <2>1. DOMAIN loan' = DOMAIN loan /\ \A l \in DOMAIN loan \ RowsOf(c) : loan'[l] = loan[l]
    BY DEF Register, RowsOf
  <2>2. ASSUME NEW l \in RowsOf(c)
        PROVE  /\ loan'[l] \in LoanRow
               /\ loan'[l].placement = loan[l].placement /\ loan'[l].batch = c
               /\ loan'[l].returned = loan[l].returned
               /\ loan'[l].borrower = who
               /\ picked => loan'[l].picked
    <3>1. loan[l] \in LoanRow /\ loan[l].batch = c /\ l \in DOMAIN loan
      BY <1>3 DEF RowsOf
    <3>2. loan'[l] = [loan[l] EXCEPT !.borrower = who, !.picked = @ \/ picked]
      BY <3>1 DEF Register
    <3>. QED BY <3>1, <3>2 DEF LoanRow
  <2>. QED BY <2>1, <2>2
<1>5. TypeOK'
  <2>1. \A l \in DOMAIN loan : loan'[l] \in LoanRow
    BY <1>3, <1>4
  <2>2. loan' = [l \in DOMAIN loan |-> loan'[l]]
    BY <1>4 DEF Register
  <2>3. IsTable(loan', LoanIds, LoanRow)
    BY <1>4, <2>1, <2>2 DEF IInv, TypeOK, IsTable
  <2>. QED BY <1>2, <2>3 DEF IInv, TypeOK
<1>6. NoDanglingLoan'
  BY <1>2, <1>4 DEF IInv, NoDanglingLoan, InBatch, RowsOf
<1>7. OneCartPerUser'
  <2>1. \A w \in Users : CartsOf(w)' \subseteq CartsOf(w)
    BY <1>2 DEF CartsOf
  <2>. QED BY <2>1 DEF IInv, OneCartPerUser
<1>8. ReturnedBatchClosed'
  BY <1>2, <1>4 DEF IInv, ReturnedBatchClosed, OpenRowsOf, OpenRows, RowsOf
<1>9. ActiveBatchFetched'
  BY <1>2, <1>4 DEF IInv, ActiveBatchFetched, RowsOf
<1>10. OneRowPerPlacement'
  BY <1>1, <1>2, <1>4 DEF IInv, OneRowPerPlacement, InBatch, OpenRows, RowsOf, CartsOf
<1>11. BorrowerAgrees'
  BY <1>1, <1>2, <1>4, UsersAssumption, KeysAssumption
  DEF IInv, BorrowerAgrees, NoDanglingLoan, InBatch, RowsOf, Borrowers, CartsOf
<1>. QED BY <1>5, <1>6, <1>7, <1>8, <1>9, <1>10, <1>11 DEF IInv

(* Rows only leave, placements and new empty carts come and go otherwise. *)
LEMMA FewerRowsInv ==
  ASSUME IInv,
         IsTable(placement', PlacementIds, PlacementRow),
         IsTable(loan', LoanIds, LoanRow),
         DOMAIN loan' \subseteq DOMAIN loan,
         \A l \in DOMAIN loan' :
            loan'[l] = loan[l] /\ loan[l].placement \in DOMAIN placement',
         IsTable(batch', BatchIds, BatchRow),
         DOMAIN batch \subseteq DOMAIN batch',
         \A b \in DOMAIN batch : batch'[b] = batch[b],
         \A b \in DOMAIN batch' \ DOMAIN batch :
            batch'[b].status = "cart" /\ batch'[b].borrower = Nobody,
         OneCartPerUser'
  PROVE  IInv'
<1>1. TypeOK'
  BY DEF TypeOK
<1>2. NoDanglingLoan'
  BY DEF IInv, NoDanglingLoan, InBatch
<1>3. ReturnedBatchClosed'
  BY DEF IInv, ReturnedBatchClosed, OpenRowsOf, OpenRows, RowsOf
<1>4. ActiveBatchFetched'
  BY DEF IInv, ActiveBatchFetched, RowsOf
<1>5. OneRowPerPlacement'
  BY DEF IInv, OneRowPerPlacement, OpenRows, InBatch, NoDanglingLoan
<1>6. BorrowerAgrees'
  BY DEF IInv, BorrowerAgrees, InBatch, NoDanglingLoan
<1>. QED BY <1>1, <1>2, <1>3, <1>4, <1>5, <1>6 DEF IInv

(* Rows are marked fetched or returned, and a batch b may close when none of *)
(* its rows is open any more.                                                *)
LEMMA MarkRowsInv ==
  ASSUME IInv, UNCHANGED placement,
         IsTable(loan', LoanIds, LoanRow),
         DOMAIN loan' = DOMAIN loan,
         \A l \in DOMAIN loan :
            /\ loan'[l].placement = loan[l].placement /\ loan'[l].batch = loan[l].batch
            /\ loan'[l].borrower = loan[l].borrower
            /\ loan[l].picked => loan'[l].picked
            /\ loan[l].returned => loan'[l].returned,
         NEW b,
         \/ batch' = batch
         \/ /\ b \in DOMAIN batch /\ batch[b].status = "active"
            /\ batch' = [batch EXCEPT ![b].status = "returned"]
            /\ OpenRowsOf(b)' = {}
  PROVE  IInv'
<1>1. /\ IsTable(batch', BatchIds, BatchRow)
      /\ DOMAIN batch' = DOMAIN batch
      /\ \A c \in DOMAIN batch :
            /\ batch'[c].owner = batch[c].owner /\ batch'[c].borrower = batch[c].borrower
            /\ \/ batch'[c].status = batch[c].status
               \/ c = b /\ batch[c].status = "active" /\ batch'[c].status = "returned"
                    /\ OpenRowsOf(c)' = {}
  BY DEF IInv, TypeOK, IsTable, BatchRow, Status
<1>2. TypeOK'
  BY <1>1 DEF IInv, TypeOK
<1>3. NoDanglingLoan'
  BY <1>1 DEF IInv, NoDanglingLoan, InBatch
<1>4. OneCartPerUser'
  <2>1. \A u \in Users : CartsOf(u)' \subseteq CartsOf(u)
    BY <1>1 DEF CartsOf
  <2>. QED BY <2>1 DEF IInv, OneCartPerUser
<1>5. ReturnedBatchClosed'
  BY <1>1 DEF IInv, ReturnedBatchClosed, OpenRowsOf, OpenRows, RowsOf
<1>6. ActiveBatchFetched'
  BY <1>1 DEF IInv, ActiveBatchFetched, RowsOf
<1>7. OneRowPerPlacement'
  BY <1>1 DEF IInv, OneRowPerPlacement, OpenRows, InBatch
<1>8. BorrowerAgrees'
  BY <1>1 DEF IInv, BorrowerAgrees, InBatch, NoDanglingLoan
<1>. QED BY <1>2, <1>3, <1>4, <1>5, <1>6, <1>7, <1>8 DEF IInv

-----------------------------------------------------------------------------
(* Single loans *)

LEMMA AddLoanInv ==
  ASSUME IInv, NEW p \in PlacementIds, NEW who \in Borrowers, NEW n \in Requests,
         AddLoan(p, who, n)
  PROVE  IInv'
<1>. USE UsersAssumption, KeysAssumption
     DEF IInv, TypeOK, IsTable, AddLoan, FreeLoans, With, WithRow, InBatch, RowsOf
<1>1. TypeOK'
  BY DEF LoanRow, Requests
<1>2. NoDanglingLoan' /\ OneCartPerUser' /\ ReturnedBatchClosed' /\ ActiveBatchFetched'
  BY DEF NoDanglingLoan, OneCartPerUser, CartsOf, ReturnedBatchClosed, OpenRowsOf, OpenRows,
     ActiveBatchFetched
<1>3. OneRowPerPlacement'
  BY DEF OneRowPerPlacement, OpenRows
<1>4. BorrowerAgrees'
  BY DEF BorrowerAgrees, Borrowers
<1>. QED BY <1>1, <1>2, <1>3, <1>4

(* A row with a flag raised is still a row and a table stays a table. *)
LEMMA MarkReturnedFacts ==
  ASSUME IInv, NEW u \in Users, NEW l \in LoanIds, MarkReturned(u, l)
  PROVE  /\ l \in DOMAIN loan
         /\ IsTable(loan', LoanIds, LoanRow)
         /\ DOMAIN loan' = DOMAIN loan
         /\ \A m \in DOMAIN loan \ {l} : loan'[m] = loan[m]
         /\ loan'[l] = [loan[l] EXCEPT !.returned = TRUE]
<1>1. l \in DOMAIN loan /\ loan[l] \in LoanRow
  BY DEF MarkReturned, OpenRows, IInv, TypeOK, IsTable
<1>2. [loan[l] EXCEPT !.returned = TRUE] \in LoanRow
  BY <1>1 DEF LoanRow
<1>. QED BY <1>1, <1>2 DEF MarkReturned, IInv, TypeOK, IsTable

LEMMA ReturnLoanInv ==
  ASSUME IInv, NEW u \in Users, NEW l \in LoanIds,
         ReturnLoan(u, l) \/ ReturnLoanInterrupted(u, l)
  PROVE  IInv'
<1>1. MarkReturned(u, l)
  BY DEF ReturnLoan, ReturnLoanInterrupted
<1>2. /\ l \in DOMAIN loan
      /\ IsTable(loan', LoanIds, LoanRow)
      /\ DOMAIN loan' = DOMAIN loan
      /\ \A m \in DOMAIN loan \ {l} : loan'[m] = loan[m]
      /\ loan'[l] = [loan[l] EXCEPT !.returned = TRUE]
  BY <1>1, MarkReturnedFacts
<1>3. \A m \in DOMAIN loan :
         /\ loan'[m].placement = loan[m].placement /\ loan'[m].batch = loan[m].batch
         /\ loan'[m].borrower = loan[m].borrower
         /\ loan[m].picked => loan'[m].picked
         /\ loan[m].returned => loan'[m].returned
  BY <1>2 DEF IInv, TypeOK, IsTable, LoanRow
<1>4. PICK b : b = loan[l].batch
  OBVIOUS
<1>5. \/ batch' = batch
      \/ /\ b \in DOMAIN batch /\ batch[b].status = "active"
         /\ batch' = [batch EXCEPT ![b].status = "returned"]
         /\ OpenRowsOf(b) = {l}
  BY <1>4 DEF ReturnLoan, ReturnLoanInterrupted, LastOpen, HasStatus
<1>6. loan'[l].returned
  BY <1>2 DEF IInv, TypeOK, IsTable, LoanRow
<1>7. OpenRowsOf(b) = {l} => OpenRowsOf(b)' = {}
  <2>1. OpenRowsOf(b)' \subseteq OpenRowsOf(b) \ {l}
    BY <1>2, <1>3, <1>6 DEF OpenRowsOf, OpenRows, RowsOf
  <2>. QED BY <2>1
<1>. QED
  BY <1>1, <1>2, <1>3, <1>5, <1>7, MarkRowsInv DEF MarkReturned

LEMMA LeaveInv ==
  ASSUME IInv, NEW gone, loan' = Without(loan, gone), UNCHANGED <<placement, batch>>
  PROVE  IInv'
<1>1. /\ IsTable(loan', LoanIds, LoanRow)
      /\ DOMAIN loan' \subseteq DOMAIN loan
      /\ \A l \in DOMAIN loan' : loan'[l] = loan[l] /\ loan[l].placement \in DOMAIN placement
  BY DEF Without, IInv, TypeOK, IsTable, NoDanglingLoan
<1>2. OneCartPerUser'
  BY DEF IInv, OneCartPerUser, CartsOf
<1>. QED BY <1>1, <1>2, FewerRowsInv DEF IInv, TypeOK

LEMMA MarkPickedUpInv ==
  ASSUME IInv, NEW l \in LoanIds, MarkPickedUp(l)
  PROVE  IInv'
<1>1. l \in DOMAIN loan /\ loan[l] \in LoanRow
  BY DEF MarkPickedUp, IInv, TypeOK, IsTable
<1>2. [loan[l] EXCEPT !.picked = TRUE] \in LoanRow
  BY <1>1 DEF LoanRow
<1>3. /\ IsTable(loan', LoanIds, LoanRow)
      /\ DOMAIN loan' = DOMAIN loan
      /\ \A m \in DOMAIN loan :
            /\ loan'[m].placement = loan[m].placement /\ loan'[m].batch = loan[m].batch
            /\ loan'[m].borrower = loan[m].borrower
            /\ loan[m].picked => loan'[m].picked
            /\ loan[m].returned => loan'[m].returned
  BY <1>1, <1>2 DEF MarkPickedUp, IInv, TypeOK, IsTable, LoanRow
<1>. QED BY <1>3, MarkRowsInv DEF MarkPickedUp

(* A step of LoanStep preserves the invariant. *)
LEMMA LoanStepInv == IInv /\ LoanStep => IInv'
<1>. SUFFICES ASSUME IInv, LoanStep PROVE IInv'
  OBVIOUS
<1>1. ASSUME NEW p \in PlacementIds, NEW who \in Borrowers, NEW n \in Requests, AddLoan(p, who, n)
      PROVE  IInv'
  BY <1>1, AddLoanInv
<1>2. ASSUME NEW u \in Users, NEW l \in LoanIds,
             ReturnLoan(u, l) \/ ReturnLoanInterrupted(u, l)
      PROVE  IInv'
  BY <1>2, ReturnLoanInv
<1>3. ASSUME NEW l \in LoanIds, DeleteLoan(l) \/ MarkNotFound(l)
      PROVE  IInv'
  BY <1>3, LeaveInv DEF DeleteLoan, MarkNotFound
<1>4. ASSUME NEW l \in LoanIds, MarkPickedUp(l)
      PROVE  IInv'
  BY <1>4, MarkPickedUpInv
<1>. QED BY <1>1, <1>2, <1>3, <1>4 DEF LoanStep

-----------------------------------------------------------------------------
(* The cart *)

LEMMA EmptyCartInv ==
  ASSUME IInv, NEW u \in Users, OpenCart(u) \/ CartClear(u)
  PROVE  IInv'
<1>1. PICK c \in BatchIds : /\ GetsCart(u, c, batch')
                            /\ loan' = loan \/ loan' = Without(loan, RowsOf(c))
                            /\ placement' = placement
  BY DEF OpenCart, CartClear
<1>2. /\ IsTable(batch', BatchIds, BatchRow)
      /\ DOMAIN batch' = DOMAIN batch \cup {c}
      /\ \A b \in DOMAIN batch : batch'[b] = batch[b]
      /\ batch'[c].status = "cart" /\ batch'[c].borrower = Nobody
      /\ OneCartPerUser'
  BY <1>1, GetsCartFacts
<1>3. /\ IsTable(loan', LoanIds, LoanRow)
      /\ DOMAIN loan' \subseteq DOMAIN loan
      /\ \A l \in DOMAIN loan' : loan'[l] = loan[l] /\ loan[l].placement \in DOMAIN placement
  BY <1>1 DEF Without, IInv, TypeOK, IsTable, NoDanglingLoan
<1>. QED BY <1>1, <1>2, <1>3, FewerRowsInv DEF IInv, TypeOK

(* A capped row joins the batch c; shared by the two add handlers. *)
LEMMA JoinInv ==
  ASSUME IInv, UNCHANGED placement,
         NEW l \in FreeLoans, NEW row \in LoanRow,
         loan' = WithRow(loan, l, row),
         NEW c \in BatchIds,
         IsTable(batch', BatchIds, BatchRow),
         DOMAIN batch' = DOMAIN batch \cup {c},
         \A b \in DOMAIN batch : batch'[b] = batch[b],
         c \notin DOMAIN batch => RowsOf(c) = {} /\ batch'[c].status = "cart",
         OneCartPerUser',
         batch'[c].status # "returned",
         (batch'[c].borrower = Nobody) = (batch'[c].status = "cart"),
         row.batch = c,
         row.placement \in DOMAIN placement,
         row.borrower = batch'[c].borrower,
         batch'[c].status = "active" => row.picked,
         \A m \in RowsOf(c) :
            m \in OpenRows \/ batch'[c].status = "cart" => loan[m].placement # row.placement
  PROVE  IInv'
<1>. DEFINE rows == [k \in {l} |-> row]
<1>1. {l} \in SUBSET FreeLoans /\ rows \in [{l} -> LoanRow] /\ loan' = With(loan, rows)
  BY DEF WithRow
<1>2. \A k \in {l} : rows[k] = row
  OBVIOUS
<1>. HIDE DEF rows
<1>. QED BY <1>1, <1>2, AddRowsInv

LEMMA CartAddInv ==
  ASSUME IInv, NEW u \in Users, NEW p \in PlacementIds, NEW requested \in Requests,
         CartAdd(u, p, requested)
  PROVE  IInv'
<1>1. PICK c \in BatchIds, n \in 0..MaxCopies :
         /\ GetsCart(u, c, batch')
         /\ \/ \E l \in RowsOf(c) \cap RowsAt(p) : SetCopies(l, n)
            \/ /\ RowsOf(c) \cap RowsAt(p) = {}
               /\ \/ UNCHANGED loan
                  \/ n > 0 /\ \E l \in FreeLoans : loan' = WithRow(loan, l, CartRow(p, c, n))
  BY DEF CartAdd
<1>2. /\ IsTable(batch', BatchIds, BatchRow)
      /\ DOMAIN batch' = DOMAIN batch \cup {c}
      /\ \A b \in DOMAIN batch : batch'[b] = batch[b]
      /\ batch'[c].status = "cart" /\ batch'[c].borrower = Nobody
      /\ OneCartPerUser'
      /\ c \notin DOMAIN batch => RowsOf(c) = {}
  BY <1>1, GetsCartFacts
<1>3. ASSUME NEW l \in RowsOf(c) \cap RowsAt(p), SetCopies(l, n)
      PROVE  IInv'
  <2>1. batch' = batch
    BY <1>1, <1>2, <1>3 DEF GetsCart
  <2>2. l \in DOMAIN loan /\ n \in Nat /\ placement' = placement
    BY BoundsAssumption DEF RowsOf, CartAdd
  <2>. QED BY <1>3, <2>1, <2>2, SetCopiesInv
<1>4. CASE UNCHANGED loan
  <2>1. OpenCart(u)
    BY <1>1, <1>4 DEF OpenCart, CartAdd
  <2>. QED BY <2>1, EmptyCartInv
<1>5. ASSUME RowsOf(c) \cap RowsAt(p) = {}, n > 0,
             NEW l \in FreeLoans, loan' = WithRow(loan, l, CartRow(p, c, n))
      PROVE  IInv'
  <2>1. /\ CartRow(p, c, n) \in LoanRow
        /\ CartRow(p, c, n).batch = c
        /\ CartRow(p, c, n).placement = p
        /\ CartRow(p, c, n).borrower = Nobody
    BY <1>5, BoundsAssumption DEF CartRow, LoanRow
  <2>2. p \in DOMAIN placement /\ placement' = placement
    BY DEF CartAdd
  <2>3. \A m \in RowsOf(c) : loan[m].placement # p
    BY <1>5 DEF RowsOf, RowsAt
  <2>4. PICK row : row = CartRow(p, c, n)
    OBVIOUS
  <2>5. row \in LoanRow /\ loan' = WithRow(loan, l, row)
    BY <1>5, <2>1, <2>4
  <2>6. row.batch = c /\ row.placement = p /\ row.borrower = Nobody
    BY <2>1, <2>4
  <2>. QED BY <1>2, <2>2, <2>3, <2>5, <2>6, JoinInv
<1>. QED BY <1>1, <1>3, <1>4, <1>5

LEMMA CartAddAllInv ==
  ASSUME IInv, NEW u \in Users, NEW unit \in Units, CartAddAllFromUnit(u, unit)
  PROVE  IInv'
<1>0. PICK c \in BatchIds, wanted \in SUBSET DOMAIN placement, new \in SUBSET FreeLoans :
         /\ GetsCart(u, c, batch')
         /\ \A p \in wanted : RowsOf(c) \cap RowsAt(p) = {}
         /\ \E of \in Bijection(new, wanted) :
               loan' = With(loan, [l \in new |-> CartRow(of[l], c, 1)])
  BY DEF CartAddAllFromUnit
<1>1. PICK of \in Bijection(new, wanted) :
         loan' = With(loan, [l \in new |-> CartRow(of[l], c, 1)])
  BY <1>0
<1>2. /\ IsTable(batch', BatchIds, BatchRow)
      /\ DOMAIN batch' = DOMAIN batch \cup {c}
      /\ \A b \in DOMAIN batch : batch'[b] = batch[b]
      /\ batch'[c].status = "cart" /\ batch'[c].borrower = Nobody
      /\ OneCartPerUser'
      /\ c \notin DOMAIN batch => RowsOf(c) = {}
  BY <1>0, GetsCartFacts
<1>3. of \in [new -> wanted] /\ \A l, m \in new : of[l] = of[m] => l = m
  BY DEF Bijection, Injection, IsInjective
<1>4. placement' = placement /\ DOMAIN placement \subseteq PlacementIds
  BY DEF CartAddAllFromUnit, IInv, TypeOK, IsTable
<1>. DEFINE rows == [l \in new |-> CartRow(of[l], c, 1)]
<1>5. rows \in [new -> LoanRow]
  BY <1>3, <1>4 DEF CartRow, LoanRow
<1>6. \A l \in new : rows[l].batch = c /\ rows[l].placement = of[l] /\ rows[l].borrower = Nobody
  BY DEF CartRow
<1>7. \A l \in new : /\ of[l] \in DOMAIN placement
                     /\ \A m \in RowsOf(c) : loan[m].placement # of[l]
  BY <1>0, <1>3 DEF RowsOf, RowsAt
<1>8. loan' = With(loan, rows)
  BY <1>1
<1>. HIDE DEF rows
<1>9. \A l, m \in new : rows[l].placement = rows[m].placement => l = m
  BY <1>3, <1>6
<1>10. \A l \in new : /\ rows[l].placement \in DOMAIN placement
                      /\ \A m \in RowsOf(c) : loan[m].placement # rows[l].placement
  BY <1>6, <1>7
<1>. QED BY <1>2, <1>4, <1>5, <1>6, <1>8, <1>9, <1>10, AddRowsInv

LEMMA KioskCheckoutInv ==
  ASSUME IInv, NEW u \in Users, NEW who \in Borrowers, KioskCheckout(u, who)
  PROVE  IInv'
<1>1. PICK c \in CartsOf(u) :
         /\ placement' = placement
         /\ \/ \E l \in DOMAIN loan :
                  /\ RowsOf(c) = {l}
                  /\ loan' = [loan EXCEPT ![l].borrower = who, ![l].picked = TRUE,
                                          ![l].batch = NoBatch]
                  /\ batch' = batch
            \/ Register(c, "active", who, TRUE)
  BY DEF KioskCheckout
<1>2. ASSUME NEW l \in DOMAIN loan, batch' = batch,
             loan' = [loan EXCEPT ![l].borrower = who, ![l].picked = TRUE, ![l].batch = NoBatch]
      PROVE  IInv'
  <2>. DEFINE row == [loan[l] EXCEPT !.borrower = who, !.picked = TRUE, !.batch = NoBatch]
  <2>1. loan[l] \in LoanRow
    BY DEF IInv, TypeOK, IsTable
  <2>2. row \in LoanRow /\ row.batch = NoBatch /\ row.borrower = who
        /\ row.placement = loan[l].placement
    BY <2>1 DEF LoanRow
  <2>3. loan' = [loan EXCEPT ![l] = row]
    BY <1>2
  <2>. HIDE DEF row
  <2>4. /\ IsTable(loan', LoanIds, LoanRow)
        /\ DOMAIN loan' = DOMAIN loan
        /\ loan'[l] = row
        /\ \A m \in DOMAIN loan \ {l} : loan'[m] = loan[m]
    BY <2>2, <2>3 DEF IInv, TypeOK, IsTable
  <2>5. TypeOK'
    BY <1>1, <1>2, <2>4 DEF IInv, TypeOK
  <2>9. NoDanglingLoan'
    BY <1>1, <1>2, <2>2, <2>4 DEF IInv, NoDanglingLoan, InBatch
  <2>10. OneCartPerUser'
    BY <1>2 DEF IInv, OneCartPerUser, CartsOf
  <2>6. ReturnedBatchClosed' /\ ActiveBatchFetched'
    BY <1>2, <2>2, <2>4, KeysAssumption
    DEF IInv, TypeOK, IsTable, ReturnedBatchClosed, ActiveBatchFetched, OpenRowsOf, OpenRows, RowsOf
  <2>7. OneRowPerPlacement'
    BY <1>2, <2>2, <2>4 DEF IInv, OneRowPerPlacement, OpenRows, InBatch
  <2>8. BorrowerAgrees'
    <3>1. who # Nobody
      BY UsersAssumption DEF Borrowers
    <3>2. ~InBatch(l)' /\ \A m \in DOMAIN loan \ {l} : InBatch(m)' = InBatch(m)
      BY <2>2, <2>4 DEF InBatch
    <3>. QED BY <1>2, <2>2, <2>4, <3>1, <3>2 DEF IInv, BorrowerAgrees
  <2>. QED BY <2>5, <2>6, <2>7, <2>8, <2>9, <2>10 DEF IInv
<1>3. CASE Register(c, "active", who, TRUE)
  BY <1>1, <1>3, RegisterInv
<1>. QED BY <1>1, <1>2, <1>3

(* A step of CartStep preserves the invariant. *)
LEMMA CartStepInv == IInv /\ CartStep => IInv'
<1>. SUFFICES ASSUME IInv, NEW u \in Users,
                     \/ OpenCart(u)
                     \/ \E p \in PlacementIds, n \in Requests : CartAdd(u, p, n)
                     \/ \E unit \in Units : CartAddAllFromUnit(u, unit)
                     \/ \E l \in LoanIds, n \in Requests : CartUpdate(u, l, n)
                     \/ \E l \in LoanIds : CartRemove(u, l)
                     \/ CartClear(u)
                     \/ \E who \in Borrowers : CartCheckout(u, who)
                     \/ \E who \in Borrowers : KioskCheckout(u, who)
              PROVE  IInv'
  BY DEF CartStep
<1>1. CASE OpenCart(u) \/ CartClear(u)
  BY <1>1, EmptyCartInv
<1>2. ASSUME NEW p \in PlacementIds, NEW n \in Requests, CartAdd(u, p, n)
      PROVE  IInv'
  BY <1>2, CartAddInv
<1>3. ASSUME NEW unit \in Units, CartAddAllFromUnit(u, unit)
      PROVE  IInv'
  BY <1>3, CartAddAllInv
<1>4. ASSUME NEW l \in LoanIds, NEW requested \in Requests, CartUpdate(u, l, requested)
      PROVE  IInv'
  <2>1. PICK n \in 0..MaxCopies : l \in DOMAIN loan /\ SetCopies(l, n)
    BY <1>4 DEF CartUpdate, InCartOf
  <2>2. n \in Nat
    BY BoundsAssumption
  <2>. QED BY <1>4, <2>1, <2>2, SetCopiesInv DEF CartUpdate
<1>5. ASSUME NEW l \in LoanIds, CartRemove(u, l)
      PROVE  IInv'
  BY <1>5, LeaveInv DEF CartRemove
<1>6. ASSUME NEW who \in Borrowers, CartCheckout(u, who)
      PROVE  IInv'
  <2>1. PICK c \in CartsOf(u) : Register(c, "picking", who, FALSE)
    BY <1>6 DEF CartCheckout
  <2>. QED BY <1>6, <2>1, RegisterInv DEF CartCheckout
<1>7. ASSUME NEW who \in Borrowers, KioskCheckout(u, who)
      PROVE  IInv'
  BY <1>7, KioskCheckoutInv
<1>. QED BY <1>1, <1>2, <1>3, <1>4, <1>5, <1>6, <1>7

-----------------------------------------------------------------------------
(* A registered batch *)

LEMMA BatchActivateInv ==
  ASSUME IInv, NEW b \in BatchIds, BatchActivate(b)
  PROVE  IInv'
<1>. USE DEF IInv, TypeOK, IsTable, BatchActivate, Without, HasStatus
<1>1. TypeOK'
  BY DEF BatchRow, Status
<1>2. NoDanglingLoan'
  BY DEF NoDanglingLoan, InBatch
<1>3. OneCartPerUser'
  BY DEF OneCartPerUser, CartsOf, BatchRow
<1>4. ReturnedBatchClosed'
  BY DEF ReturnedBatchClosed, OpenRowsOf, OpenRows, RowsOf, BatchRow
<1>5. ActiveBatchFetched'
  BY DEF ActiveBatchFetched, RowsOf, BatchRow
<1>6. OneRowPerPlacement'
  BY DEF OneRowPerPlacement, OpenRows, InBatch, BatchRow
<1>7. BorrowerAgrees'
  BY DEF BorrowerAgrees, InBatch, NoDanglingLoan, BatchRow
<1>. QED BY <1>1, <1>2, <1>3, <1>4, <1>5, <1>6, <1>7

(* The rows in back are returned, and b closes if no open row is left. *)
LEMMA ReturnRowsInv ==
  ASSUME IInv, UNCHANGED placement,
         NEW b \in BatchIds, HasStatus(b, {"active"}),
         NEW back \in SUBSET OpenRowsOf(b),
         ReturnRows(back),
         \/ batch' = batch
         \/ back = OpenRowsOf(b) /\ batch' = [batch EXCEPT ![b].status = "returned"]
  PROVE  IInv'
<1>1. \A l \in DOMAIN loan : loan[l] \in LoanRow
  BY DEF IInv, TypeOK, IsTable
<1>2. ASSUME NEW l \in DOMAIN loan
      PROVE  /\ loan'[l] \in LoanRow
             /\ loan'[l].placement = loan[l].placement /\ loan'[l].batch = loan[l].batch
             /\ loan'[l].borrower = loan[l].borrower
             /\ loan[l].picked => loan'[l].picked
             /\ loan[l].returned => loan'[l].returned
             /\ l \in back => loan'[l].returned
  <2>1. loan'[l] = IF l \in back THEN [loan[l] EXCEPT !.returned = TRUE] ELSE loan[l]
    BY DEF ReturnRows
  <2>. QED BY <1>1, <2>1 DEF LoanRow
<1>3. DOMAIN loan' = DOMAIN loan /\ loan' = [l \in DOMAIN loan |-> loan'[l]]
  BY DEF ReturnRows
<1>4. IsTable(loan', LoanIds, LoanRow)
  BY <1>2, <1>3 DEF IInv, TypeOK, IsTable
<1>5. back = OpenRowsOf(b) => OpenRowsOf(b)' = {}
  BY <1>2, <1>3 DEF OpenRowsOf, OpenRows, RowsOf
<1>. QED BY <1>2, <1>3, <1>4, <1>5, MarkRowsInv DEF HasStatus

LEMMA BatchAddMoreInv ==
  ASSUME IInv, NEW b \in BatchIds, NEW p \in PlacementIds, NEW requested \in Requests,
         BatchAddMore(b, p, requested)
  PROVE  IInv'
<1>. DEFINE existing == OpenRowsOf(b) \cap RowsAt(p)
<1>1. PICK n \in 0..MaxCopies :
         \/ \E l \in existing : UNCHANGED loan \/ SetCopies(l, n)
         \/ /\ existing = {} /\ n > 0
            /\ \E l \in FreeLoans :
                  loan' = WithRow(loan, l,
                            [CartRow(p, b, n) EXCEPT
                                !.borrower = batch[b].borrower,
                                !.picked   = batch[b].status = "active"])
  BY DEF BatchAddMore
<1>2. /\ n \in Nat
      /\ b \in DOMAIN batch /\ batch[b].status \in {"picking", "active"}
      /\ p \in DOMAIN placement
      /\ placement' = placement /\ batch' = batch
  BY BoundsAssumption DEF BatchAddMore, HasStatus
<1>3. OneCartPerUser'
  BY <1>2 DEF IInv, OneCartPerUser, CartsOf
<1>4. CASE UNCHANGED loan
  BY <1>2, <1>3, <1>4, FewerRowsInv DEF IInv, TypeOK, NoDanglingLoan
<1>5. ASSUME NEW l \in existing, SetCopies(l, n)
      PROVE  IInv'
  BY <1>2, <1>5, SetCopiesInv DEF OpenRowsOf, RowsOf
<1>6. ASSUME existing = {}, n > 0, NEW l \in FreeLoans,
             loan' = WithRow(loan, l,
                       [CartRow(p, b, n) EXCEPT
                           !.borrower = batch[b].borrower,
                           !.picked   = batch[b].status = "active"])
      PROVE  IInv'
  <2>1. PICK row : row = [CartRow(p, b, n) EXCEPT
                             !.borrower = batch[b].borrower,
                             !.picked   = batch[b].status = "active"]
    OBVIOUS
  <2>2. batch[b] \in BatchRow
    BY <1>2 DEF IInv, TypeOK, IsTable
  <2>8. n \in Nat \ {0}
    BY <1>2, <1>6
  <2>3. /\ row \in LoanRow
        /\ row.batch = b /\ row.placement = p
        /\ row.borrower = batch[b].borrower
        /\ batch[b].status = "active" => row.picked
    BY <1>2, <2>8, <2>1, <2>2 DEF CartRow, LoanRow, BatchRow
  <2>4. loan' = WithRow(loan, l, row)
    BY <1>6, <2>1
  <2>5. (batch[b].borrower = Nobody) = (batch[b].status = "cart")
    BY <1>2 DEF IInv, BorrowerAgrees
  <2>6. \A m \in RowsOf(b) : m \in OpenRows => loan[m].placement # p
    BY <1>6 DEF OpenRowsOf, RowsAt, RowsOf
  <2>7. IsTable(batch, BatchIds, BatchRow)
    BY DEF IInv, TypeOK
  <2>. QED BY <1>2, <1>3, <2>3, <2>4, <2>5, <2>6, <2>7, JoinInv
<1>. QED BY <1>1, <1>4, <1>5, <1>6

(* A step of BatchStep preserves the invariant. *)
LEMMA BatchStepInv == IInv /\ BatchStep => IInv'
<1>. SUFFICES ASSUME IInv, NEW b \in BatchIds,
                     \/ BatchActivate(b)
                     \/ \E units \in Kiosks : BatchReturnAtKiosk(units, b)
                     \/ BatchReturnAll(b)
                     \/ \E p \in PlacementIds, n \in Requests : BatchAddMore(b, p, n)
              PROVE  IInv'
  BY DEF BatchStep
<1>1. CASE BatchActivate(b)
  BY <1>1, BatchActivateInv
<1>2. ASSUME NEW units \in Kiosks, BatchReturnAtKiosk(units, b)
      PROVE  IInv'
  <2>1. PICK back \in SUBSET OpenRowsOf(b) :
           /\ ReturnRows(back)
           /\ \/ batch' = batch
              \/ back = OpenRowsOf(b) /\ batch' = [batch EXCEPT ![b].status = "returned"]
    BY <1>2 DEF BatchReturnAtKiosk
  <2>2. UNCHANGED placement /\ HasStatus(b, {"active"})
    BY <1>2 DEF BatchReturnAtKiosk
  <2>. QED BY <2>1, <2>2, ReturnRowsInv
<1>3. CASE BatchReturnAll(b)
  <2>1. PICK back \in SUBSET OpenRowsOf(b) :
           /\ ReturnRows(back)
           /\ back = OpenRowsOf(b) /\ batch' = [batch EXCEPT ![b].status = "returned"]
    BY <1>3 DEF BatchReturnAll
  <2>2. UNCHANGED placement /\ HasStatus(b, {"active"})
    BY <1>3 DEF BatchReturnAll
  <2>. QED BY <2>1, <2>2, ReturnRowsInv
<1>4. ASSUME NEW p \in PlacementIds, NEW n \in Requests, BatchAddMore(b, p, n)
      PROVE  IInv'
  BY <1>4, BatchAddMoreInv
<1>. QED BY <1>1, <1>2, <1>3, <1>4

-----------------------------------------------------------------------------
(* Placements *)

(* Whatever happens to the placements, the loans of those that go, go too. *)
LEMMA PlacementInv ==
  ASSUME IInv, NEW gone,
         IsTable(placement', PlacementIds, PlacementRow),
         DOMAIN placement \ gone \subseteq DOMAIN placement',
         (loan' = loan /\ gone = {}) \/ RemovePlacements(gone),
         UNCHANGED batch
  PROVE  IInv'
<1>1. /\ IsTable(loan', LoanIds, LoanRow)
      /\ DOMAIN loan' \subseteq DOMAIN loan
      /\ \A l \in DOMAIN loan' : loan'[l] = loan[l] /\ loan[l].placement \in DOMAIN placement'
  BY DEF RemovePlacements, Without, RowsAt, IInv, TypeOK, IsTable, NoDanglingLoan
<1>2. OneCartPerUser'
  BY DEF IInv, OneCartPerUser, CartsOf
<1>. QED BY <1>1, <1>2, FewerRowsInv DEF IInv, TypeOK

(* Numbers of copies stay numbers. *)
LEMMA AddedCopiesType ==
  ASSUME NEW n \in Stock, NEW m \in Stock
  PROVE  AddedCopies(n, m) \in Stock
BY DEF AddedCopies, Stock

(* A step of PlacementStep preserves the invariant. *)
LEMMA PlacementStepInv == IInv /\ PlacementStep => IInv'
<1>. SUFFICES ASSUME IInv, PlacementStep PROVE IInv'
  OBVIOUS
<1>0. Numbers \subseteq Stock
  BY BoundsAssumption DEF Numbers, Stock
<1>1. ASSUME NEW p \in PlacementIds, NEW unit \in Units, NEW n \in Numbers,
             AddPlacement(p, unit, n)
      PROVE  IInv'
  <2>1. /\ IsTable(placement', PlacementIds, PlacementRow)
        /\ DOMAIN placement \subseteq DOMAIN placement'
    BY <1>0, <1>1 DEF AddPlacement, Insert, WithRow, With, PlacementRow, IInv, TypeOK, IsTable
  <2>. QED BY <1>1, <2>1, PlacementInv DEF AddPlacement
<1>2. ASSUME NEW p \in PlacementIds, NEW n \in Numbers, AddToPlacement(p, n)
      PROVE  IInv'
  <2>1. placement[p] \in PlacementRow
    BY <1>2 DEF AddToPlacement, AddCopies, IInv, TypeOK, IsTable
  <2>2. AddedCopies(placement[p].copies, n) \in Stock
    BY <1>0, <2>1, AddedCopiesType DEF PlacementRow
  <2>3. /\ IsTable(placement', PlacementIds, PlacementRow)
        /\ DOMAIN placement' = DOMAIN placement
    BY <1>2, <2>1, <2>2 DEF AddToPlacement, AddCopies, PlacementRow, IInv, TypeOK, IsTable
  <2>. QED BY <1>2, <2>3, PlacementInv DEF AddToPlacement
<1>3. ASSUME NEW p \in PlacementIds, NEW unit \in Units, NEW n \in Numbers,
             UpdatePlacement(p, unit, n)
      PROVE  IInv'
  <2>1. /\ IsTable(placement', PlacementIds, PlacementRow)
        /\ DOMAIN placement' = DOMAIN placement
    BY <1>0, <1>3 DEF UpdatePlacement, Change, PlacementRow, IInv, TypeOK, IsTable
  <2>. QED BY <1>3, <2>1, PlacementInv DEF UpdatePlacement
<1>4. ASSUME NEW p \in PlacementIds, NEW q \in PlacementIds, NEW n \in Numbers,
             MergePlacement(p, q, n)
      PROVE  IInv'
  <2>. DEFINE incoming == IF n = Unlimited THEN placement[p].copies ELSE n
  <2>1. placement[p] \in PlacementRow /\ placement[q] \in PlacementRow
    BY <1>4 DEF MergePlacement, MergeInto, IInv, TypeOK, IsTable
  <2>2. AddedCopies(placement[q].copies, incoming) \in Stock
    BY <1>0, <2>1, AddedCopiesType DEF PlacementRow
  <2>3. placement' = Without([placement EXCEPT ![q].copies =
                                 AddedCopies(placement[q].copies, incoming)], {p})
    BY <1>4 DEF MergePlacement, MergeInto
  <2>. HIDE DEF incoming
  <2>4. /\ IsTable(placement', PlacementIds, PlacementRow)
        /\ DOMAIN placement' = DOMAIN placement \ {p}
    BY <2>1, <2>2, <2>3 DEF Without, PlacementRow, IInv, TypeOK, IsTable
  <2>. QED BY <1>4, <2>4, PlacementInv DEF MergePlacement
<1>5. ASSUME NEW p \in PlacementIds, DeletePlacement(p)
      PROVE  IInv'
  <2>1. /\ IsTable(placement', PlacementIds, PlacementRow)
        /\ DOMAIN placement' = DOMAIN placement \ {p}
    BY <1>5 DEF DeletePlacement, Drop, Without, IInv, TypeOK, IsTable
  <2>. QED BY <1>5, <2>1, PlacementInv DEF DeletePlacement
<1>6. ASSUME NEW piece \in Pieces, DeletePiece(piece)
      PROVE  IInv'
  <2>1. PICK gone : /\ placement' = Without(placement, gone)
                    /\ RemovePlacements(gone)
                    /\ batch' = batch
    BY <1>6 DEF DeletePiece, Drop
  <2>2. /\ IsTable(placement', PlacementIds, PlacementRow)
        /\ DOMAIN placement' = DOMAIN placement \ gone
    BY <2>1 DEF Without, IInv, TypeOK, IsTable
  <2>. QED BY <2>1, <2>2, PlacementInv
<1>. QED BY <1>1, <1>2, <1>3, <1>4, <1>5, <1>6 DEF PlacementStep

-----------------------------------------------------------------------------
(* The invariant of the whole *)

(* The empty database satisfies the invariant. *)
LEMMA InitInv == Init => IInv
BY DEF Init, Empty, IInv, TypeOK, IsTable, NoDanglingLoan, OneCartPerUser, CartsOf,
   ReturnedBatchClosed, ActiveBatchFetched, OneRowPerPlacement, BorrowerAgrees

(* Every handler, and doing nothing, preserves it. *)
LEMMA NextInv == IInv /\ [Next]_vars => IInv'
<1>. SUFFICES ASSUME IInv, [Next]_vars PROVE IInv'
  OBVIOUS
<1>1. CASE Next
  BY <1>1, CartStepInv, LoanStepInv, BatchStepInv, PlacementStepInv DEF Next
<1>2. CASE UNCHANGED vars
  BY <1>2 DEF vars, IInv, TypeOK, NoDanglingLoan, OneCartPerUser, CartsOf, ReturnedBatchClosed,
     OpenRowsOf, OpenRows, RowsOf, InBatch, ActiveBatchFetched, OneRowPerPlacement, BorrowerAgrees
<1>. QED BY <1>1, <1>2

(* All the invariants together hold in every reachable state. *)
THEOREM InvariantHolds == Spec => []IInv
BY InitInv, NextInv, PTL DEF Spec

(* The columns keep their types and no row of zero copies is left behind. *)
THEOREM TypeCorrect == Spec => []TypeOK
BY InvariantHolds, PTL DEF IInv

(* No user ever has two carts, so the first one found is the only one. *)
THEOREM SingleCart == Spec => []OneCartPerUser
BY InvariantHolds, PTL DEF IInv

(* A returned batch holds no open row, whichever handler touches it later. *)
THEOREM ReturnedStaysClosed == Spec => []ReturnedBatchClosed
BY InvariantHolds, PTL DEF IInv

(* All rows of an active batch have been fetched. *)
THEOREM ActiveIsFetched == Spec => []ActiveBatchFetched
BY InvariantHolds, PTL DEF IInv

(* The single row that the add handlers look up is unique. *)
THEOREM RowIsUnique == Spec => []OneRowPerPlacement
BY InvariantHolds, PTL DEF IInv

(* A row's borrower is the borrower of its batch. *)
THEOREM BorrowersAgree == Spec => []BorrowerAgrees
BY InvariantHolds, PTL DEF IInv

-----------------------------------------------------------------------------
(* A batch seen from BatchLifecycle *)

(* Rows come, go or change what their batch sees of them only in batch c, or *)
(* by leaving it; single loans are in no batch.                              *)
Touches(c) ==
    \A l \in DOMAIN loan \cup DOMAIN loan' :
        \/ /\ l \in DOMAIN loan /\ l \in DOMAIN loan'
           /\ loan'[l].batch = loan[l].batch /\ loan'[l].returned = loan[l].returned
        \/ /\ l \in DOMAIN loan => loan[l].batch \in {c, NoBatch}
           /\ l \in DOMAIN loan' => loan'[l].batch \in {c, NoBatch}

(* Batch c alone is new, or goes on to its next stage. *)
Advances(c) ==
    /\ c \in BatchIds
    /\ DOMAIN batch' = DOMAIN batch \cup {c}
    /\ \A b \in DOMAIN batch \ {c} : batch'[b] = batch[b]
    /\ \/ c \notin DOMAIN batch /\ batch'[c].status = "cart"
       \/ /\ c \in DOMAIN batch /\ batch[c].status = "cart"
          /\ batch'[c].status \in {"picking", "active"}
          /\ batch'[c].borrower \in Borrowers
          /\ OpenRowsOf(c)' = OpenRowsOf(c)
       \/ /\ c \in DOMAIN batch /\ batch[c].status = "picking"
          /\ batch'[c].status = "active"
          /\ batch'[c].borrower = batch[c].borrower
          /\ OpenRowsOf(c)' \subseteq OpenRowsOf(c)
       \/ /\ c \in DOMAIN batch /\ batch[c].status = "active"
          /\ batch'[c].status = "returned"
          /\ batch'[c].borrower = batch[c].borrower

LEMMA OthersUntouched ==
  ASSUME NEW c, Touches(c), NEW b \in BatchIds, b # c
  PROVE  OpenRowsOf(b)' = OpenRowsOf(b)
BY KeysAssumption DEF Touches, OpenRowsOf, OpenRows, RowsOf

(* What the refinement mapping gives for a batch. *)
LEMMA StageFacts ==
  ASSUME IInv, NEW b \in BatchIds
  PROVE  /\ b \in DOMAIN batch => StageOf(b) = batch[b].status /\ BorrowerOf(b) = batch[b].borrower
         /\ b \notin DOMAIN batch => StageOf(b) = "none" /\ BorrowerOf(b) = Nobody
         /\ b \notin DOMAIN batch => OpenRowsOf(b) = {}
         /\ StageOf(b) = "returned" => OpenRowsOf(b) = {}
         /\ OpenRowsOf(b) \subseteq LoanIds
<1>1. /\ b \in DOMAIN batch => StageOf(b) = batch[b].status /\ BorrowerOf(b) = batch[b].borrower
      /\ b \notin DOMAIN batch => StageOf(b) = "none" /\ BorrowerOf(b) = Nobody
  BY DEF StageOf, BorrowerOf
<1>2. b \notin DOMAIN batch => OpenRowsOf(b) = {}
  BY KeysAssumption DEF IInv, NoDanglingLoan, InBatch, OpenRowsOf, RowsOf
<1>3. StageOf(b) = "returned" => OpenRowsOf(b) = {}
  BY <1>1 DEF IInv, ReturnedBatchClosed
<1>4. OpenRowsOf(b) \subseteq LoanIds
  BY DEF IInv, TypeOK, IsTable, OpenRowsOf, RowsOf
<1>. QED BY <1>1, <1>2, <1>3, <1>4

(* A step that stays with one batch is a step of the life cycle or none. *)
LEMMA OneBatchStep ==
  ASSUME IInv, IInv', NEW c, Touches(c), batch' = batch \/ Advances(c)
  PROVE  [Lifecycle!Next]_(Lifecycle!vars)
<1>. DEFINE status == [b \in BatchIds |-> StageOf(b)]
            borrower == [b \in BatchIds |-> BorrowerOf(b)]
            open == [b \in BatchIds |-> OpenRowsOf(b)]
<1>1. \A b \in BatchIds \ {c} : /\ StageOf(b)' = StageOf(b)
                                /\ BorrowerOf(b)' = BorrowerOf(b)
                                /\ OpenRowsOf(b)' = OpenRowsOf(b)
  <2>1. \A b \in BatchIds \ {c} : OpenRowsOf(b)' = OpenRowsOf(b)
    BY OthersUntouched
  <2>2. \A b \in BatchIds \ {c} : StageOf(b)' = StageOf(b) /\ BorrowerOf(b)' = BorrowerOf(b)
    BY DEF Advances, StageOf, BorrowerOf
  <2>. QED BY <2>1, <2>2
<1>2. CASE c \notin BatchIds
  <2>1. \A b \in BatchIds : /\ StageOf(b)' = StageOf(b)
                            /\ BorrowerOf(b)' = BorrowerOf(b)
                            /\ OpenRowsOf(b)' = OpenRowsOf(b)
    BY <1>1, <1>2
  <2>2. status' = status /\ borrower' = borrower /\ open' = open
    BY <2>1
  <2>. QED BY <2>2 DEF Lifecycle!vars
<1>. SUFFICES ASSUME c \in BatchIds PROVE [Lifecycle!Next]_(Lifecycle!vars)
  BY <1>2
<1>3. /\ status' = [status EXCEPT ![c] = StageOf(c)']
      /\ borrower' = [borrower EXCEPT ![c] = BorrowerOf(c)']
      /\ open' = [open EXCEPT ![c] = OpenRowsOf(c)']
      /\ status[c] = StageOf(c) /\ borrower[c] = BorrowerOf(c) /\ open[c] = OpenRowsOf(c)
  BY <1>1
<1>. PICK now : now = OpenRowsOf(c)'
  OBVIOUS
<1>4. now \in SUBSET LoanIds
  BY DEF IInv, TypeOK, IsTable, OpenRowsOf, RowsOf
<1>5. CASE batch' = batch
  <2>1. status' = status /\ borrower' = borrower
    BY <1>5 DEF StageOf, BorrowerOf
  <2>2. CASE StageOf(c) \in {"cart", "picking", "active"}
    <3>1. Lifecycle!Change(c, now)
      BY <1>3, <2>1, <2>2 DEF Lifecycle!Change
    <3>. QED BY <1>4, <3>1 DEF Lifecycle!Next
  <2>3. CASE StageOf(c) \notin {"cart", "picking", "active"}
    <3>1. ASSUME c \notin DOMAIN batch PROVE OpenRowsOf(c)' = OpenRowsOf(c)
      <4>1. OpenRowsOf(c) = {} /\ OpenRowsOf(c)' = {}
        BY <1>5, <3>1, KeysAssumption DEF IInv, NoDanglingLoan, InBatch, OpenRowsOf, RowsOf
      <4>. QED BY <4>1
    <3>2. ASSUME c \in DOMAIN batch PROVE OpenRowsOf(c)' = OpenRowsOf(c)
      <4>1. batch[c].status = "returned"
        BY <2>3, <3>2, StageFacts DEF IInv, TypeOK, IsTable, BatchRow, Status
      <4>2. OpenRowsOf(c) = {} /\ OpenRowsOf(c)' = {}
        BY <1>5, <3>2, <4>1 DEF IInv, ReturnedBatchClosed
      <4>. QED BY <4>2
    <3>3. OpenRowsOf(c)' = OpenRowsOf(c)
      BY <3>1, <3>2
    <3>4. open' = open
      BY <1>3, <3>3
    <3>. QED BY <2>1, <3>4 DEF Lifecycle!vars
  <2>. QED BY <2>2, <2>3
<1>6. CASE Advances(c)
  <2>1. c \in DOMAIN batch' /\ StageOf(c)' = batch'[c].status /\ BorrowerOf(c)' = batch'[c].borrower
    BY <1>6 DEF Advances, StageOf, BorrowerOf
  <2>2. CASE c \notin DOMAIN batch /\ batch'[c].status = "cart"
    <3>1. StageOf(c) = "none" /\ BorrowerOf(c) = Nobody /\ BorrowerOf(c)' = Nobody
      BY <2>1, <2>2, StageFacts DEF IInv, BorrowerAgrees
    <3>2. borrower' = borrower
      BY <1>3, <3>1
    <3>3. Lifecycle!Open(c, now)
      BY <1>3, <2>1, <2>2, <3>1, <3>2 DEF Lifecycle!Open
    <3>. QED BY <1>4, <3>3 DEF Lifecycle!Next
  <2>3. CASE /\ c \in DOMAIN batch /\ batch[c].status = "cart"
             /\ batch'[c].status \in {"picking", "active"}
             /\ batch'[c].borrower \in Borrowers
             /\ OpenRowsOf(c)' = OpenRowsOf(c)
    <3>1. StageOf(c) = "cart" /\ open' = open
      BY <1>3, <2>3, StageFacts
    <3>2. Lifecycle!Register(c, batch'[c].status, batch'[c].borrower)
      BY <1>3, <2>1, <2>3, <3>1 DEF Lifecycle!Register
    <3>. QED BY <2>3, <3>2 DEF Lifecycle!Next, Lifecycle!Stages
  <2>4. CASE /\ c \in DOMAIN batch /\ batch[c].status = "picking"
             /\ batch'[c].status = "active"
             /\ batch'[c].borrower = batch[c].borrower
             /\ OpenRowsOf(c)' \subseteq OpenRowsOf(c)
    <3>1. StageOf(c) = "picking" /\ BorrowerOf(c)' = BorrowerOf(c)
      BY <2>1, <2>4, StageFacts
    <3>4. borrower' = borrower
      BY <1>3, <3>1
    <3>2. Lifecycle!Activate(c, now)
      BY <1>3, <2>1, <2>4, <3>1, <3>4 DEF Lifecycle!Activate
    <3>. QED BY <1>4, <3>2 DEF Lifecycle!Next
  <2>5. CASE /\ c \in DOMAIN batch /\ batch[c].status = "active"
             /\ batch'[c].status = "returned"
             /\ batch'[c].borrower = batch[c].borrower
    <3>1. StageOf(c) = "active" /\ BorrowerOf(c)' = BorrowerOf(c)
      BY <2>1, <2>5, StageFacts
    <3>4. borrower' = borrower
      BY <1>3, <3>1
    <3>2. OpenRowsOf(c)' = {}
      BY <2>1, <2>5 DEF IInv, ReturnedBatchClosed
    <3>3. Lifecycle!Close(c)
      BY <1>3, <2>1, <2>5, <3>1, <3>2, <3>4 DEF Lifecycle!Close
    <3>. QED BY <3>3 DEF Lifecycle!Next
  <2>. QED BY <1>6, <2>2, <2>3, <2>4, <2>5 DEF Advances
<1>. QED BY <1>5, <1>6

(* Placements go, with their rows. *)
LEMMA RowsLostStep ==
  ASSUME IInv, batch' = batch, NEW gone, loan' = Without(loan, gone)
  PROVE  [Lifecycle!Next]_(Lifecycle!vars)
<1>. DEFINE lost == gone \cap LoanIds
<1>1. \A b \in BatchIds : OpenRowsOf(b)' = OpenRowsOf(b) \ lost
  BY DEF Without, OpenRowsOf, OpenRows, RowsOf, IInv, TypeOK, IsTable
<1>2. \A b \in BatchIds : StageOf(b)' = StageOf(b) /\ BorrowerOf(b)' = BorrowerOf(b)
  BY DEF StageOf, BorrowerOf
<1>3. lost \in SUBSET LoanIds
  OBVIOUS
<1>. HIDE DEF lost
<1>4. Lifecycle!Lose(lost)
  BY <1>1, <1>2 DEF Lifecycle!Lose
<1>. QED BY <1>3, <1>4 DEF Lifecycle!Next

-----------------------------------------------------------------------------
(* What a step keeps of the rows *)

(* No row is reopened, moved, or put into another batch. *)
KeepsStory ==
    \A l \in DOMAIN loan \cap DOMAIN loan' :
        /\ loan'[l].placement = loan[l].placement
        /\ loan[l].returned => loan'[l].returned
        /\ loan[l].batch = loan'[l].batch
           \/ /\ HasStatus(loan[l].batch, {"cart"})
              /\ loan'[l].batch = NoBatch /\ loan'[l].picked

(* No fetched row of a registered batch goes without its placement. *)
KeepsFetched ==
    \A l \in DOMAIN loan \ DOMAIN loan' :
        /\ HasStatus(loan[l].batch, {"picking", "active"})
        /\ loan[l].picked
        /\ Admins = {}
        => loan[l].placement \notin DOMAIN placement'

(* Rows leave the batch c that may. *)
LEMMA LeaveKeeps ==
  ASSUME IInv, NEW c, NEW gone, loan' = Without(loan, gone),
         \A l \in gone \cap DOMAIN loan :
            /\ loan[l].batch \in {c, NoBatch}
            /\ HasStatus(loan[l].batch, {"picking", "active"}) /\ loan[l].picked
               => Admins # {}
  PROVE  KeepsStory /\ KeepsFetched /\ Touches(c)
BY DEF Without, KeepsStory, KeepsFetched, Touches

(* Rows join the batch c, or none. *)
LEMMA JoinKeeps ==
  ASSUME IInv, NEW c, NEW new \in SUBSET FreeLoans, NEW rows, DOMAIN rows = new,
         loan' = With(loan, rows),
         \A l \in new : rows[l].batch \in {c, NoBatch}
  PROVE  KeepsStory /\ KeepsFetched /\ Touches(c)
<1>1. /\ DOMAIN loan' = DOMAIN loan \cup new
      /\ new \cap DOMAIN loan = {}
      /\ \A l \in new : loan'[l] = rows[l]
      /\ \A l \in DOMAIN loan : loan'[l] = loan[l]
  BY DEF With, FreeLoans
<1>. QED BY <1>1 DEF KeepsStory, KeepsFetched, Touches

(* Rows of c are returned, rows are fetched, or get their borrower. *)
LEMMA MarkKeeps ==
  ASSUME IInv, NEW c, DOMAIN loan' = DOMAIN loan,
         \A l \in DOMAIN loan :
            /\ loan'[l].placement = loan[l].placement /\ loan'[l].batch = loan[l].batch
            /\ loan[l].returned => loan'[l].returned
            /\ loan'[l].returned = loan[l].returned \/ loan[l].batch = c
  PROVE  KeepsStory /\ KeepsFetched /\ Touches(c)
BY DEF KeepsStory, KeepsFetched, Touches

(* A row gets another number of copies, or goes from a cart or unfetched. *)
LEMMA SetCopiesKeeps ==
  ASSUME IInv, NEW l \in DOMAIN loan, NEW n \in Nat, SetCopies(l, n),
         NEW c, loan[l].batch = c,
         n = 0 => ~loan[l].picked \/ ~HasStatus(c, {"picking", "active"})
  PROVE  KeepsStory /\ KeepsFetched /\ Touches(c)
<1>1. CASE n = 0
  BY <1>1, LeaveKeeps DEF SetCopies
<1>2. CASE n # 0
  <2>1. loan[l] \in LoanRow
    BY DEF IInv, TypeOK, IsTable
  <2>2. loan' = [loan EXCEPT ![l] = [loan[l] EXCEPT !.copies = n]]
    BY <1>2 DEF SetCopies
  <2>3. /\ DOMAIN loan' = DOMAIN loan
        /\ \A m \in DOMAIN loan :
              /\ loan'[m].placement = loan[m].placement /\ loan'[m].batch = loan[m].batch
              /\ loan'[m].returned = loan[m].returned
    BY <2>1, <2>2 DEF LoanRow
  <2>. QED BY <2>3, MarkKeeps
<1>. QED BY <1>1, <1>2

(* The cart that is at hand is no registered batch, and a new one is opened. *)
LEMMA GetsCartKeeps ==
  ASSUME IInv, NEW u \in Users, NEW c \in BatchIds, GetsCart(u, c, batch')
  PROVE  /\ batch' = batch \/ Advances(c)
         /\ ~HasStatus(c, {"picking", "active"})
<1>1. /\ DOMAIN batch' = DOMAIN batch \cup {c}
      /\ \A b \in DOMAIN batch : batch'[b] = batch[b]
      /\ batch'[c].status = "cart"
  BY GetsCartFacts
<1>2. CASE c \in DOMAIN batch
  BY <1>1, <1>2 DEF GetsCart, CartsOf, HasStatus
<1>3. CASE c \notin DOMAIN batch
  BY <1>1, <1>3 DEF Advances, HasStatus
<1>. QED BY <1>2, <1>3

(* The cart becomes a registered batch with all its rows. *)
LEMMA RegisterKeeps ==
  ASSUME IInv, NEW u \in Users, NEW c \in CartsOf(u), NEW status \in {"picking", "active"},
         NEW who \in Borrowers, NEW picked \in BOOLEAN,
         Register(c, status, who, picked)
  PROVE  KeepsStory /\ KeepsFetched /\ Touches(c) /\ Advances(c)
<1>1. c \in DOMAIN batch /\ c \in BatchIds /\ batch[c].status = "cart" /\ batch[c] \in BatchRow
  BY DEF CartsOf, IInv, TypeOK, IsTable
<1>2. /\ DOMAIN loan' = DOMAIN loan
      /\ \A l \in DOMAIN loan :
            /\ loan'[l].placement = loan[l].placement /\ loan'[l].batch = loan[l].batch
            /\ loan'[l].returned = loan[l].returned
  <2>1. DOMAIN loan' = DOMAIN loan
    BY DEF Register
  <2>2. ASSUME NEW l \in DOMAIN loan
        PROVE  /\ loan'[l].placement = loan[l].placement /\ loan'[l].batch = loan[l].batch
               /\ loan'[l].returned = loan[l].returned
    <3>1. loan[l] \in LoanRow
      BY DEF IInv, TypeOK, IsTable
    <3>2. loan'[l] = IF l \in RowsOf(c)
                     THEN [loan[l] EXCEPT !.borrower = who, !.picked = @ \/ picked]
                     ELSE loan[l]
      BY DEF Register
    <3>. QED BY <3>1, <3>2 DEF LoanRow
  <2>. QED BY <2>1, <2>2
<1>3. KeepsStory /\ KeepsFetched /\ Touches(c)
  BY <1>2, MarkKeeps
<1>4. OpenRowsOf(c)' = OpenRowsOf(c)
  BY <1>2 DEF OpenRowsOf, OpenRows, RowsOf
<1>5. /\ DOMAIN batch' = DOMAIN batch
      /\ \A b \in DOMAIN batch \ {c} : batch'[b] = batch[b]
      /\ batch'[c].status = status /\ batch'[c].borrower = who
  BY <1>1 DEF Register, BatchRow
<1>. QED BY <1>1, <1>3, <1>4, <1>5 DEF Advances

(* At the kiosk a single row leaves the cart. *)
LEMMA KioskSingleKeeps ==
  ASSUME IInv, NEW u \in Users, NEW c \in CartsOf(u), NEW who \in Borrowers,
         NEW l \in DOMAIN loan, RowsOf(c) = {l},
         loan' = [loan EXCEPT ![l].borrower = who, ![l].picked = TRUE, ![l].batch = NoBatch]
  PROVE  KeepsStory /\ KeepsFetched /\ Touches(c)
<1>1. loan[l] \in LoanRow
  BY DEF IInv, TypeOK, IsTable
<1>2. PICK row : row = [loan[l] EXCEPT !.borrower = who, !.picked = TRUE, !.batch = NoBatch]
  OBVIOUS
<1>3. /\ row.placement = loan[l].placement /\ row.returned = loan[l].returned
      /\ row.batch = NoBatch /\ row.picked
  BY <1>1, <1>2 DEF LoanRow
<1>4. loan' = [loan EXCEPT ![l] = row]
  BY <1>2
<1>5. loan[l].batch = c
  BY DEF RowsOf
<1>6. HasStatus(c, {"cart"})
  BY DEF CartsOf, HasStatus
<1>7. /\ DOMAIN loan' = DOMAIN loan
      /\ loan'[l] = row
      /\ \A m \in DOMAIN loan \ {l} : loan'[m] = loan[m]
  BY <1>4
<1>. QED BY <1>3, <1>5, <1>6, <1>7 DEF KeepsStory, KeepsFetched, Touches

(* The three promises at once; c is the one batch a step may work on. *)
Keeps(c) ==
    KeepsStory /\ KeepsFetched /\ Touches(c) /\ (batch' = batch \/ Advances(c))

LEMMA EmptyCartKeeps ==
  ASSUME IInv, NEW u \in Users, OpenCart(u) \/ CartClear(u)
  PROVE  \E c : Keeps(c)
<1>1. PICK c \in BatchIds : /\ GetsCart(u, c, batch')
                            /\ loan' = loan \/ loan' = Without(loan, RowsOf(c))
  BY DEF OpenCart, CartClear
<1>2. (batch' = batch \/ Advances(c)) /\ ~HasStatus(c, {"picking", "active"})
  BY <1>1, GetsCartKeeps
<1>3. ASSUME loan' = loan
      PROVE  KeepsStory /\ KeepsFetched /\ Touches(c)
  BY <1>3, MarkKeeps
<1>4. ASSUME loan' = Without(loan, RowsOf(c))
      PROVE  KeepsStory /\ KeepsFetched /\ Touches(c)
  <2>1. \A l \in RowsOf(c) : loan[l].batch = c
    BY DEF RowsOf
  <2>. QED BY <1>2, <1>4, <2>1, LeaveKeeps
<1>. QED BY <1>1, <1>2, <1>3, <1>4 DEF Keeps

LEMMA CartAddKeeps ==
  ASSUME IInv, NEW u \in Users, NEW p \in PlacementIds, NEW requested \in Requests,
         CartAdd(u, p, requested)
  PROVE  \E c : Keeps(c)
<1>1. PICK c \in BatchIds, n \in 0..MaxCopies :
         /\ GetsCart(u, c, batch')
         /\ \/ \E l \in RowsOf(c) \cap RowsAt(p) : SetCopies(l, n)
            \/ UNCHANGED loan
            \/ \E l \in FreeLoans : loan' = WithRow(loan, l, CartRow(p, c, n))
  BY DEF CartAdd
<1>2. (batch' = batch \/ Advances(c)) /\ ~HasStatus(c, {"picking", "active"})
  BY <1>1, GetsCartKeeps
<1>3. ASSUME NEW l \in RowsOf(c) \cap RowsAt(p), SetCopies(l, n)
      PROVE  KeepsStory /\ KeepsFetched /\ Touches(c)
  <2>1. l \in DOMAIN loan /\ loan[l].batch = c /\ n \in Nat
    BY BoundsAssumption DEF RowsOf
  <2>. QED BY <1>2, <1>3, <2>1, SetCopiesKeeps
<1>4. ASSUME UNCHANGED loan
      PROVE  KeepsStory /\ KeepsFetched /\ Touches(c)
  BY <1>4, MarkKeeps
<1>5. ASSUME NEW l \in FreeLoans, loan' = WithRow(loan, l, CartRow(p, c, n))
      PROVE  KeepsStory /\ KeepsFetched /\ Touches(c)
  <2>. DEFINE rows == [k \in {l} |-> CartRow(p, c, n)]
  <2>1. loan' = With(loan, rows) /\ DOMAIN rows = {l}
    BY <1>5 DEF WithRow
  <2>2. \A k \in {l} : rows[k].batch = c
    BY DEF CartRow
  <2>. HIDE DEF rows
  <2>. QED BY <2>1, <2>2, JoinKeeps
<1>. QED BY <1>1, <1>2, <1>3, <1>4, <1>5 DEF Keeps

LEMMA CartAddAllKeeps ==
  ASSUME IInv, NEW u \in Users, NEW unit \in Units, CartAddAllFromUnit(u, unit)
  PROVE  \E c : Keeps(c)
<1>1. PICK c \in BatchIds, wanted \in SUBSET DOMAIN placement, new \in SUBSET FreeLoans :
         /\ GetsCart(u, c, batch')
         /\ \E of \in Bijection(new, wanted) :
               loan' = With(loan, [l \in new |-> CartRow(of[l], c, 1)])
  BY DEF CartAddAllFromUnit
<1>2. (batch' = batch \/ Advances(c)) /\ ~HasStatus(c, {"picking", "active"})
  BY <1>1, GetsCartKeeps
<1>3. PICK of \in Bijection(new, wanted) :
         loan' = With(loan, [l \in new |-> CartRow(of[l], c, 1)])
  BY <1>1
<1>. DEFINE rows == [l \in new |-> CartRow(of[l], c, 1)]
<1>4. loan' = With(loan, rows) /\ DOMAIN rows = new /\ \A l \in new : rows[l].batch = c
  BY <1>3 DEF CartRow
<1>. HIDE DEF rows
<1>. QED BY <1>2, <1>4, JoinKeeps DEF Keeps

LEMMA KioskCheckoutKeeps ==
  ASSUME IInv, NEW u \in Users, NEW who \in Borrowers, KioskCheckout(u, who)
  PROVE  \E c : Keeps(c)
<1>1. PICK c \in CartsOf(u) :
         \/ \E l \in DOMAIN loan :
               /\ RowsOf(c) = {l}
               /\ loan' = [loan EXCEPT ![l].borrower = who, ![l].picked = TRUE,
                                       ![l].batch = NoBatch]
               /\ batch' = batch
         \/ Register(c, "active", who, TRUE)
  BY DEF KioskCheckout
<1>2. ASSUME NEW l \in DOMAIN loan, RowsOf(c) = {l}, batch' = batch,
             loan' = [loan EXCEPT ![l].borrower = who, ![l].picked = TRUE, ![l].batch = NoBatch]
      PROVE  Keeps(c)
  BY <1>2, KioskSingleKeeps DEF Keeps
<1>3. CASE Register(c, "active", who, TRUE)
  BY <1>3, RegisterKeeps DEF Keeps
<1>. QED BY <1>1, <1>2, <1>3

LEMMA CartStepKeeps == IInv /\ CartStep => \E c : Keeps(c)
<1>. SUFFICES ASSUME IInv, NEW u \in Users,
                     \/ OpenCart(u)
                     \/ \E p \in PlacementIds, n \in Requests : CartAdd(u, p, n)
                     \/ \E unit \in Units : CartAddAllFromUnit(u, unit)
                     \/ \E l \in LoanIds, n \in Requests : CartUpdate(u, l, n)
                     \/ \E l \in LoanIds : CartRemove(u, l)
                     \/ CartClear(u)
                     \/ \E who \in Borrowers : CartCheckout(u, who)
                     \/ \E who \in Borrowers : KioskCheckout(u, who)
              PROVE  \E c : Keeps(c)
  BY DEF CartStep
<1>1. CASE OpenCart(u) \/ CartClear(u)
  BY <1>1, EmptyCartKeeps
<1>2. ASSUME NEW p \in PlacementIds, NEW n \in Requests, CartAdd(u, p, n)
      PROVE  \E c : Keeps(c)
  BY <1>2, CartAddKeeps
<1>3. ASSUME NEW unit \in Units, CartAddAllFromUnit(u, unit)
      PROVE  \E c : Keeps(c)
  BY <1>3, CartAddAllKeeps
<1>4. ASSUME NEW l \in LoanIds, NEW requested \in Requests, CartUpdate(u, l, requested)
      PROVE  Keeps(loan[l].batch)
  <2>1. PICK n \in 0..MaxCopies : l \in DOMAIN loan /\ SetCopies(l, n)
    BY <1>4 DEF CartUpdate, InCartOf
  <2>2. n \in Nat /\ batch' = batch
    BY <1>4, BoundsAssumption DEF CartUpdate
  <2>3. ~HasStatus(loan[l].batch, {"picking", "active"})
    BY <1>4 DEF CartUpdate, InCartOf, CartsOf, HasStatus
  <2>. QED BY <2>1, <2>2, <2>3, SetCopiesKeeps DEF Keeps
<1>5. ASSUME NEW l \in LoanIds, CartRemove(u, l)
      PROVE  Keeps(loan[l].batch)
  <2>1. ~HasStatus(loan[l].batch, {"picking", "active"})
    BY <1>5 DEF CartRemove, InCartOf, CartsOf, HasStatus
  <2>. QED BY <1>5, <2>1, LeaveKeeps DEF CartRemove, Keeps
<1>6. ASSUME NEW who \in Borrowers, CartCheckout(u, who)
      PROVE  \E c : Keeps(c)
  <2>1. PICK c \in CartsOf(u) : Register(c, "picking", who, FALSE)
    BY <1>6 DEF CartCheckout
  <2>. QED BY <2>1, RegisterKeeps DEF Keeps
<1>7. ASSUME NEW who \in Borrowers, KioskCheckout(u, who)
      PROVE  \E c : Keeps(c)
  BY <1>7, KioskCheckoutKeeps
<1>. QED BY <1>1, <1>2, <1>3, <1>4, <1>5, <1>6, <1>7

LEMMA ReturnLoanKeeps ==
  ASSUME IInv, IInv', NEW u \in Users, NEW l \in LoanIds,
         ReturnLoan(u, l) \/ ReturnLoanInterrupted(u, l)
  PROVE  \E c : Keeps(c)
<1>1. MarkReturned(u, l)
  BY DEF ReturnLoan, ReturnLoanInterrupted
<1>2. /\ l \in DOMAIN loan
      /\ DOMAIN loan' = DOMAIN loan
      /\ \A m \in DOMAIN loan \ {l} : loan'[m] = loan[m]
      /\ loan'[l] = [loan[l] EXCEPT !.returned = TRUE]
  BY <1>1, MarkReturnedFacts
<1>3. PICK c : c = loan[l].batch
  OBVIOUS
<1>4. \A m \in DOMAIN loan :
         /\ loan'[m].placement = loan[m].placement /\ loan'[m].batch = loan[m].batch
         /\ loan[m].returned => loan'[m].returned
         /\ loan'[m].returned = loan[m].returned \/ loan[m].batch = c
  BY <1>2, <1>3 DEF IInv, TypeOK, IsTable, LoanRow
<1>5. KeepsStory /\ KeepsFetched /\ Touches(c)
  BY <1>2, <1>4, MarkKeeps
<1>6. \/ batch' = batch
      \/ /\ c \in DOMAIN batch /\ batch[c].status = "active"
         /\ batch' = [batch EXCEPT ![c].status = "returned"]
  BY <1>3 DEF ReturnLoan, ReturnLoanInterrupted, LastOpen, HasStatus
<1>7. batch' = batch \/ Advances(c)
  BY <1>6 DEF Advances, IInv, TypeOK, IsTable, BatchRow
<1>. QED BY <1>5, <1>7 DEF Keeps

LEMMA LoanStepKeeps == IInv /\ IInv' /\ LoanStep => \E c : Keeps(c)
<1>. SUFFICES ASSUME IInv, IInv', LoanStep PROVE \E c : Keeps(c)
  OBVIOUS
<1>1. ASSUME NEW p \in PlacementIds, NEW who \in Borrowers, NEW n \in Requests, AddLoan(p, who, n)
      PROVE  \E c : Keeps(c)
  <2>1. PICK l \in FreeLoans :
           loan' = WithRow(loan, l,
                     [placement |-> p, batch |-> NoBatch, copies |-> n,
                      borrower |-> who, picked |-> TRUE, returned |-> FALSE])
    BY <1>1 DEF AddLoan
  <2>. DEFINE rows == [k \in {l} |->
                        [placement |-> p, batch |-> NoBatch, copies |-> n,
                         borrower |-> who, picked |-> TRUE, returned |-> FALSE]]
  <2>2. loan' = With(loan, rows) /\ DOMAIN rows = {l} /\ \A k \in {l} : rows[k].batch = NoBatch
    BY <2>1 DEF WithRow
  <2>. HIDE DEF rows
  <2>3. KeepsStory /\ KeepsFetched /\ Touches(NoBatch)
    BY <2>2, JoinKeeps
  <2>. QED BY <1>1, <2>3 DEF AddLoan, Keeps
<1>2. ASSUME NEW u \in Users, NEW l \in LoanIds,
             ReturnLoan(u, l) \/ ReturnLoanInterrupted(u, l)
      PROVE  \E c : Keeps(c)
  BY <1>2, ReturnLoanKeeps
<1>3. ASSUME NEW l \in LoanIds, DeleteLoan(l) \/ MarkNotFound(l)
      PROVE  Keeps(loan[l].batch)
  <2>1. /\ loan' = Without(loan, {l}) /\ batch' = batch
        /\ Admins # {} \/ ~loan[l].picked
    BY <1>3 DEF DeleteLoan, MarkNotFound
  <2>. QED BY <2>1, LeaveKeeps DEF Keeps
<1>4. ASSUME NEW l \in LoanIds, MarkPickedUp(l)
      PROVE  Keeps(NoBatch)
  <2>1. l \in DOMAIN loan /\ loan[l] \in LoanRow
    BY <1>4 DEF MarkPickedUp, IInv, TypeOK, IsTable
  <2>2. /\ DOMAIN loan' = DOMAIN loan
        /\ \A m \in DOMAIN loan :
              /\ loan'[m].placement = loan[m].placement /\ loan'[m].batch = loan[m].batch
              /\ loan'[m].returned = loan[m].returned
    BY <1>4, <2>1 DEF MarkPickedUp, LoanRow
  <2>3. KeepsStory /\ KeepsFetched /\ Touches(NoBatch)
    BY <2>2, MarkKeeps
  <2>. QED BY <1>4, <2>3 DEF Keeps, MarkPickedUp
<1>. QED BY <1>1, <1>2, <1>3, <1>4 DEF LoanStep

LEMMA BatchActivateKeeps ==
  ASSUME IInv, NEW b \in BatchIds, BatchActivate(b)
  PROVE  Keeps(b)
<1>1. /\ b \in DOMAIN batch /\ batch[b] \in BatchRow /\ batch[b].status = "picking"
      /\ loan' = Without(loan, {l \in RowsOf(b) : ~loan[l].picked})
      /\ batch' = [batch EXCEPT ![b].status = "active"]
  BY DEF BatchActivate, HasStatus, IInv, TypeOK, IsTable
<1>2. KeepsStory /\ KeepsFetched /\ Touches(b)
  <2>1. \A l \in {l \in RowsOf(b) : ~loan[l].picked} : loan[l].batch = b /\ ~loan[l].picked
    BY DEF RowsOf
  <2>. QED BY <1>1, <2>1, LeaveKeeps
<1>3. OpenRowsOf(b)' \subseteq OpenRowsOf(b)
  BY <1>1 DEF Without, OpenRowsOf, OpenRows, RowsOf
<1>4. Advances(b)
  BY <1>1, <1>3 DEF Advances, BatchRow
<1>. QED BY <1>2, <1>4 DEF Keeps

LEMMA ReturnRowsKeeps ==
  ASSUME IInv, NEW b \in BatchIds, HasStatus(b, {"active"}),
         NEW back \in SUBSET OpenRowsOf(b),
         ReturnRows(back),
         batch' = batch \/ batch' = [batch EXCEPT ![b].status = "returned"]
  PROVE  Keeps(b)
<1>1. DOMAIN loan' = DOMAIN loan
  BY DEF ReturnRows
<1>2. ASSUME NEW l \in DOMAIN loan
      PROVE  /\ loan'[l].placement = loan[l].placement /\ loan'[l].batch = loan[l].batch
             /\ loan[l].returned => loan'[l].returned
             /\ loan'[l].returned = loan[l].returned \/ loan[l].batch = b
  <2>1. loan[l] \in LoanRow
    BY DEF IInv, TypeOK, IsTable
  <2>2. loan'[l] = IF l \in back THEN [loan[l] EXCEPT !.returned = TRUE] ELSE loan[l]
    BY DEF ReturnRows
  <2>3. l \in back => loan[l].batch = b
    BY DEF OpenRowsOf, RowsOf
  <2>. QED BY <2>1, <2>2, <2>3 DEF LoanRow
<1>3. KeepsStory /\ KeepsFetched /\ Touches(b)
  BY <1>1, <1>2, MarkKeeps
<1>4. batch' = batch \/ Advances(b)
  BY DEF HasStatus, Advances, IInv, TypeOK, IsTable, BatchRow
<1>. QED BY <1>3, <1>4 DEF Keeps

LEMMA BatchAddMoreKeeps ==
  ASSUME IInv, NEW b \in BatchIds, NEW p \in PlacementIds, NEW requested \in Requests,
         BatchAddMore(b, p, requested)
  PROVE  Keeps(b)
<1>1. PICK n \in 0..MaxCopies :
         \/ \E l \in OpenRowsOf(b) \cap RowsAt(p) :
               UNCHANGED loan \/ (SetCopies(l, n) /\ (n = 0 => ~loan[l].picked))
         \/ \E l \in FreeLoans :
               loan' = WithRow(loan, l,
                         [CartRow(p, b, n) EXCEPT
                             !.borrower = batch[b].borrower,
                             !.picked   = batch[b].status = "active"])
  BY DEF BatchAddMore
<1>2. n \in Nat /\ batch' = batch
  BY BoundsAssumption DEF BatchAddMore
<1>3. ASSUME UNCHANGED loan
      PROVE  KeepsStory /\ KeepsFetched /\ Touches(b)
  BY <1>3, MarkKeeps
<1>4. ASSUME NEW l \in OpenRowsOf(b), SetCopies(l, n), n = 0 => ~loan[l].picked
      PROVE  KeepsStory /\ KeepsFetched /\ Touches(b)
  <2>1. l \in DOMAIN loan /\ loan[l].batch = b
    BY DEF OpenRowsOf, RowsOf
  <2>. QED BY <1>2, <1>4, <2>1, SetCopiesKeeps
<1>5. ASSUME NEW l \in FreeLoans,
             loan' = WithRow(loan, l,
                       [CartRow(p, b, n) EXCEPT
                           !.borrower = batch[b].borrower,
                           !.picked   = batch[b].status = "active"])
      PROVE  KeepsStory /\ KeepsFetched /\ Touches(b)
  <2>. DEFINE rows == [k \in {l} |-> [CartRow(p, b, n) EXCEPT
                                        !.borrower = batch[b].borrower,
                                        !.picked   = batch[b].status = "active"]]
  <2>1. loan' = With(loan, rows) /\ DOMAIN rows = {l} /\ \A k \in {l} : rows[k].batch = b
    BY <1>5 DEF WithRow, CartRow
  <2>. HIDE DEF rows
  <2>. QED BY <2>1, JoinKeeps
<1>. QED BY <1>1, <1>2, <1>3, <1>4, <1>5 DEF Keeps

LEMMA BatchStepKeeps == IInv /\ BatchStep => \E c : Keeps(c)
<1>. SUFFICES ASSUME IInv, NEW b \in BatchIds,
                     \/ BatchActivate(b)
                     \/ \E units \in Kiosks : BatchReturnAtKiosk(units, b)
                     \/ BatchReturnAll(b)
                     \/ \E p \in PlacementIds, n \in Requests : BatchAddMore(b, p, n)
              PROVE  Keeps(b)
  BY DEF BatchStep
<1>1. CASE BatchActivate(b)
  BY <1>1, BatchActivateKeeps
<1>2. ASSUME \/ \E units \in Kiosks : BatchReturnAtKiosk(units, b)
             \/ BatchReturnAll(b)
      PROVE  Keeps(b)
  <2>1. PICK back \in SUBSET OpenRowsOf(b) :
           /\ HasStatus(b, {"active"})
           /\ ReturnRows(back)
           /\ batch' = batch \/ batch' = [batch EXCEPT ![b].status = "returned"]
    BY <1>2 DEF BatchReturnAtKiosk, BatchReturnAll
  <2>. QED BY <2>1, ReturnRowsKeeps
<1>3. ASSUME NEW p \in PlacementIds, NEW n \in Requests, BatchAddMore(b, p, n)
      PROVE  Keeps(b)
  BY <1>3, BatchAddMoreKeeps
<1>. QED BY <1>1, <1>2, <1>3

LEMMA PlacementStepKeeps ==
  IInv /\ PlacementStep => KeepsStory /\ KeepsFetched /\ [Lifecycle!Next]_(Lifecycle!vars)
<1>. SUFFICES ASSUME IInv, PlacementStep
              PROVE  KeepsStory /\ KeepsFetched /\ [Lifecycle!Next]_(Lifecycle!vars)
  OBVIOUS
<1>1. PICK gone : /\ batch' = batch
                  /\ \/ loan' = loan /\ gone = {}
                     \/ RemovePlacements(gone) /\ DOMAIN placement' \cap gone = {}
  <2>. DEFINE Fits(gone) ==
         /\ batch' = batch
         /\ \/ loan' = loan /\ gone = {}
            \/ RemovePlacements(gone) /\ DOMAIN placement' \cap gone = {}
  <2>1. ASSUME \/ \E p \in PlacementIds, unit \in Units, n \in Numbers :
                    AddPlacement(p, unit, n) \/ UpdatePlacement(p, unit, n)
               \/ \E p \in PlacementIds, n \in Numbers : AddToPlacement(p, n)
        PROVE  Fits({})
    BY <2>1 DEF AddPlacement, AddToPlacement, UpdatePlacement
  <2>2. ASSUME NEW p \in PlacementIds, NEW q \in PlacementIds, NEW n \in Numbers,
               MergePlacement(p, q, n)
        PROVE  Fits({p})
    BY <2>2 DEF MergePlacement, MergeInto, Without
  <2>3. ASSUME NEW p \in PlacementIds, DeletePlacement(p)
        PROVE  Fits({p})
    BY <2>3 DEF DeletePlacement, Drop, Without
  <2>4. ASSUME NEW piece \in Pieces, DeletePiece(piece)
        PROVE  Fits(PlacementsOf(piece))
    BY <2>4 DEF DeletePiece, Drop, Without
  <2>5. \E gone : Fits(gone)
    BY <2>1, <2>2, <2>3, <2>4 DEF PlacementStep
  <2>. QED BY <2>5
<1>2. CASE loan' = loan
  <2>1. KeepsStory /\ KeepsFetched
    BY <1>2 DEF KeepsStory, KeepsFetched
  <2>2. UNCHANGED Lifecycle!vars
    BY <1>1, <1>2 DEF Lifecycle!vars, StageOf, BorrowerOf, OpenRowsOf, OpenRows, RowsOf
  <2>. QED BY <2>1, <2>2
<1>3. CASE RemovePlacements(gone) /\ DOMAIN placement' \cap gone = {}
  <2>1. loan' = Without(loan, UNION {RowsAt(p) : p \in gone})
    BY <1>3 DEF RemovePlacements
  <2>2. \A l \in DOMAIN loan \ DOMAIN loan' : loan[l].placement \notin DOMAIN placement'
    BY <1>3, <2>1 DEF Without, RowsAt
  <2>3. KeepsStory /\ KeepsFetched
    BY <2>1, <2>2 DEF Without, KeepsStory, KeepsFetched
  <2>4. [Lifecycle!Next]_(Lifecycle!vars)
    BY <1>1, <2>1, RowsLostStep
  <2>. QED BY <2>3, <2>4
<1>. QED BY <1>1, <1>2, <1>3

(* Every handler keeps what the rows and the batches promise. *)
LEMMA NextKeeps ==
  ASSUME IInv, IInv', [Next]_vars
  PROVE  /\ [KeepsStory]_vars
         /\ [KeepsFetched]_vars
         /\ [Lifecycle!Next]_(Lifecycle!vars)
<1>1. CASE CartStep \/ LoanStep \/ BatchStep
  <2>1. PICK c : Keeps(c)
    BY <1>1, CartStepKeeps, LoanStepKeeps, BatchStepKeeps
  <2>2. [Lifecycle!Next]_(Lifecycle!vars)
    BY <2>1, OneBatchStep DEF Keeps
  <2>. QED BY <2>1, <2>2 DEF Keeps
<1>2. CASE PlacementStep
  BY <1>2, PlacementStepKeeps
<1>3. CASE UNCHANGED vars
  <2>1. UNCHANGED Lifecycle!vars
    BY <1>3 DEF vars, Lifecycle!vars, StageOf, BorrowerOf, OpenRowsOf, OpenRows, RowsOf
  <2>. QED BY <1>3, <2>1
<1>. QED BY <1>1, <1>2, <1>3 DEF Next

(* A row that came back stays back and no row changes batch, except from a   *)
(* cart into a single loan at the kiosk.                                     *)
THEOREM StoriesAreKept == Spec => RowsKeepTheirStory
<1>1. IInv /\ IInv' /\ [Next]_vars => [KeepsStory]_vars
  BY NextKeeps
<1>. QED BY <1>1, InvariantHolds, PTL DEF Spec, RowsKeepTheirStory, KeepsStory

(* What was fetched for a batch goes only by an administrator or with its    *)
(* placement.                                                                *)
THEOREM FetchedIsKept == Spec => FetchedRowsKept
<1>1. IInv /\ IInv' /\ [Next]_vars => [KeepsFetched]_vars
  BY NextKeeps
<1>. QED BY <1>1, InvariantHolds, PTL DEF Spec, FetchedRowsKept, KeepsFetched

(* Every behaviour of the handlers is one of the life cycle of batches.      *)
THEOREM LifecycleImplemented == Spec => ImplementsLifecycle
<1>1. Init => Lifecycle!Init
  BY DEF Init, Empty, Lifecycle!Init, StageOf, BorrowerOf, OpenRowsOf, OpenRows, RowsOf
<1>2. IInv /\ IInv' /\ [Next]_vars => [Lifecycle!Next]_(Lifecycle!vars)
  BY NextKeeps
<1>. QED BY <1>1, <1>2, InvariantHolds, PTL DEF Spec, ImplementsLifecycle, Lifecycle!Spec

-----------------------------------------------------------------------------
(* Counting copies *)

(* The least of two numbers, and the number itself or zero. *)
LEMMA MinOfTwo ==
  ASSUME NEW a \in Int, NEW b \in Int
  PROVE  Min({a, b}) \in {a, b} /\ Min({a, b}) <= a /\ Min({a, b}) <= b
<1>1. \E x \in {a, b} : \A y \in {a, b} : x <= y
  <2>1. CASE a <= b
    BY <2>1
  <2>2. CASE b <= a
    BY <2>2
  <2>. QED BY <2>1, <2>2
<1>2. Min({a, b}) \in {a, b} /\ \A y \in {a, b} : Min({a, b}) <= y
  BY <1>1 DEF Min
<1>. QED BY <1>2

LEMMA MaxOfTwo ==
  ASSUME NEW a \in Int, NEW b \in Int
  PROVE  Max({a, b}) \in {a, b} /\ Max({a, b}) >= a /\ Max({a, b}) >= b
<1>1. \E x \in {a, b} : \A y \in {a, b} : x >= y
  <2>1. CASE a >= b
    BY <2>1
  <2>2. CASE b >= a
    BY <2>2
  <2>. QED BY <2>1, <2>2
<1>2. Max({a, b}) \in {a, b} /\ \A y \in {a, b} : Max({a, b}) >= y
  BY <1>1 DEF Max
<1>. QED BY <1>2

(* What one row holds. *)
LEMMA RowCopies ==
  ASSUME NEW l, NEW n \in Nat
  PROVE  IsFiniteSet({l} \X (1..n)) /\ Cardinality({l} \X (1..n)) = n
<1>1. IsFiniteSet({l}) /\ Cardinality({l}) = 1
  BY FS_Singleton
<1>2. IsFiniteSet(1..n) /\ Cardinality(1..n) = n
  BY FS_Interval
<1>3. IsFiniteSet({l} \X (1..n)) /\ Cardinality({l} \X (1..n)) = 1 * n
  BY <1>1, <1>2, FS_Product, Zenon
<1>. QED BY <1>3

(* Finitely many rows hold finitely many copies. *)
LEMMA CopiesAreFinite ==
  ASSUME NEW table, NEW rows, IsFiniteSet(rows), \A l \in rows : table[l].copies \in Nat
  PROVE  IsFiniteSet(CopiesIn(table, rows))
<1>. DEFINE S == {{l} \X (1..table[l].copies) : l \in rows}
            f == [l \in rows |-> {l} \X (1..table[l].copies)]
<1>1. f \in Surjection(rows, S)
  BY DEF Surjection
<1>2. IsFiniteSet(S)
  BY <1>1, FS_Surjection
<1>3. ASSUME NEW T \in S PROVE IsFiniteSet(T)
  <2>1. PICK l \in rows : T = {l} \X (1..table[l].copies)
    OBVIOUS
  <2>2. table[l].copies \in Nat
    OBVIOUS
  <2>. QED BY <2>1, <2>2, RowCopies
<1>. HIDE DEF S
<1>4. IsFiniteSet(UNION S)
  BY <1>2, <1>3, FS_UNION
<1>. QED BY <1>4 DEF CopiesIn, S

(* Fewer rows with fewer copies hold fewer. *)
LEMMA FewerCopies ==
  ASSUME NEW table, NEW rows, IsFiniteSet(rows), \A l \in rows : table[l].copies \in Nat,
         NEW after, NEW fewer \in SUBSET rows,
         \A l \in fewer : after[l].copies \in Nat /\ after[l].copies <= table[l].copies
  PROVE  Cardinality(CopiesIn(after, fewer)) <= Cardinality(CopiesIn(table, rows))
<1>1. CopiesIn(after, fewer) \subseteq CopiesIn(table, rows)
  BY DEF CopiesIn
<1>. QED BY <1>1, CopiesAreFinite, FS_Subset

(* One row more adds no more than its own copies. *)
LEMMA OneMoreRow ==
  ASSUME NEW table, NEW rows, IsFiniteSet(rows), \A r \in rows : table[r].copies \in Nat,
         NEW l, NEW n \in Nat, NEW after, NEW more,
         more \ {l} \subseteq rows,
         \A m \in more \ {l} : after[m].copies = table[m].copies,
         l \in more => after[l].copies = n
  PROVE  Cardinality(CopiesIn(after, more)) <= Cardinality(CopiesIn(table, rows)) + n
<1>. DEFINE own == {l} \X (1..n)
            all == CopiesIn(table, rows) \cup own
<1>1. CopiesIn(after, more) \subseteq all
  BY DEF CopiesIn
<1>2. IsFiniteSet(own) /\ Cardinality(own) = n
  BY RowCopies
<1>3. IsFiniteSet(CopiesIn(table, rows))
  BY CopiesAreFinite
<1>. HIDE DEF own
<1>4. /\ IsFiniteSet(all)
      /\ Cardinality(all) = Cardinality(CopiesIn(table, rows)) + n
                            - Cardinality(CopiesIn(table, rows) \cap own)
  BY <1>2, <1>3, FS_Union
<1>5. Cardinality(CopiesIn(table, rows) \cap own) \in Nat /\ Cardinality(CopiesIn(table, rows)) \in Nat
  BY <1>3, FS_Intersection, FS_CardinalityType
<1>6. Cardinality(CopiesIn(after, more)) <= Cardinality(all)
  BY <1>1, <1>4, FS_Subset
<1>7. Cardinality(CopiesIn(after, more)) \in Nat
  BY <1>1, <1>4, FS_Subset, FS_CardinalityType
<1>. QED BY <1>4, <1>5, <1>6, <1>7

(* The rows of the table loans are finitely many and hold numbers. *)
LEMMA LoansAreFinite ==
  ASSUME IInv, NEW rows \in SUBSET DOMAIN loan
  PROVE  /\ IsFiniteSet(rows)
         /\ \A l \in rows : loan[l].copies \in Nat
<1>1. rows \subseteq LoanIds
  BY DEF IInv, TypeOK, IsTable
<1>2. \A l \in rows : loan[l].copies \in Nat
  BY DEF IInv, TypeOK, IsTable, LoanRow
<1>. QED BY <1>1, <1>2, FS_Subset, KeysAssumption

(* What remains is never more than what the cap leaves. *)
LEMMA CapLeaves ==
  ASSUME IInv, NEW p \in DOMAIN placement, NEW requested \in Nat, NEW except, NEW n \in Nat,
         n > 0, CapsTo(p, requested, except, n), placement[p].copies # Unlimited
  PROVE  Reserved(p, except) \in Nat /\ Reserved(p, except) + n <= placement[p].copies
<1>1. placement[p].copies \in Nat
  BY DEF IInv, TypeOK, IsTable, PlacementRow, Stock
<1>2. Reserved(p, except) \in Nat
  <2>. DEFINE rows == (RowsAt(p) \cap OpenRows) \ except
  <2>1. IsFiniteSet(rows) /\ \A l \in rows : loan[l].copies \in Nat
    BY LoansAreFinite DEF RowsAt
  <2>. HIDE DEF rows
  <2>2. Cardinality(CopiesIn(loan, rows)) \in Nat
    BY <2>1, CopiesAreFinite, FS_CardinalityType
  <2>. QED BY <2>2 DEF Reserved, rows
<1>. DEFINE free == placement[p].copies - Reserved(p, except)
<1>3. n = Min({requested, Max({0, free})})
  BY DEF CapsTo
<1>4. free \in Int
  BY <1>1, <1>2
<1>. HIDE DEF free
<1>5. Max({0, free}) \in {0, free} /\ Max({0, free}) \in Int
  <2>1. Max({0, free}) \in {0, free}
    BY <1>4, MaxOfTwo
  <2>. QED BY <1>4, <2>1
<1>6. n <= Max({0, free})
  BY <1>3, <1>5, MinOfTwo
<1>7. n <= free
  BY <1>5, <1>6
<1>. QED BY <1>1, <1>2, <1>7 DEF free

(* A step that reserves more of p for carts and batches stays in its stock. *)
NotOverbooked(p) ==
    BatchReserved(p)' > BatchReserved(p) /\ placement'[p].copies # Unlimited
    => Reserved(p, {})' <= placement'[p].copies

(* No row of a cart or a batch joins p or grows. *)
LEMMA QuietAt ==
  ASSUME IInv, NEW p,
         \A m \in DOMAIN loan' :
            loan'[m].placement = p /\ ~loan'[m].returned /\ loan'[m].batch # NoBatch
            => /\ m \in DOMAIN loan
               /\ loan[m].placement = p /\ ~loan[m].returned /\ loan[m].batch # NoBatch
               /\ loan'[m].copies = loan[m].copies
  PROVE  NotOverbooked(p)
<1>. DEFINE before == {l \in RowsAt(p) \cap OpenRows : InBatch(l)}
            after == {l \in RowsAt(p)' \cap OpenRows' : InBatch(l)'}
<1>1. IsFiniteSet(before) /\ \A l \in before : loan[l].copies \in Nat
  BY LoansAreFinite DEF RowsAt
<1>2. after \subseteq before /\ \A l \in after : loan'[l].copies = loan[l].copies
  BY DEF RowsAt, OpenRows, InBatch
<1>. HIDE DEF before, after
<1>3. CopiesIn(loan', after) \subseteq CopiesIn(loan, before)
  BY <1>2 DEF CopiesIn
<1>4. IsFiniteSet(CopiesIn(loan, before))
  BY <1>1, CopiesAreFinite
<1>5. /\ Cardinality(CopiesIn(loan', after)) <= Cardinality(CopiesIn(loan, before))
      /\ Cardinality(CopiesIn(loan', after)) \in Nat
      /\ Cardinality(CopiesIn(loan, before)) \in Nat
  BY <1>3, <1>4, FS_Subset, FS_CardinalityType
<1>6. BatchReserved(p) = Cardinality(CopiesIn(loan, before))
  BY DEF BatchReserved, before
<1>7. BatchReserved(p)' = Cardinality(CopiesIn(loan', after))
  BY DEF BatchReserved, after
<1>. QED BY <1>5, <1>6, <1>7 DEF NotOverbooked

(* The one row of p that joins or grows has been capped. *)
LEMMA CapHolds ==
  ASSUME IInv, NEW p \in DOMAIN placement, placement' = placement,
         NEW l, NEW requested \in Nat, NEW n \in Nat, n > 0,
         NEW except, except = {l} \/ (except = {} /\ l \notin DOMAIN loan),
         CapsTo(p, requested, except, n),
         \A m \in DOMAIN loan' :
            loan'[m].placement = p
            => \/ m \in DOMAIN loan /\ m # l /\ loan'[m] = loan[m]
               \/ m = l /\ loan'[m].copies = n
  PROVE  NotOverbooked(p)
<1>. DEFINE before == (RowsAt(p) \cap OpenRows) \ except
            after == (RowsAt(p)' \cap OpenRows') \ {}
<1>. SUFFICES ASSUME placement[p].copies # Unlimited
              PROVE  Reserved(p, {})' <= placement[p].copies
  BY DEF NotOverbooked
<1>1. IsFiniteSet(before) /\ \A m \in before : loan[m].copies \in Nat
  BY LoansAreFinite DEF RowsAt
<1>2. /\ after \ {l} \subseteq before
      /\ \A m \in after \ {l} : loan'[m].copies = loan[m].copies
      /\ l \in after => loan'[l].copies = n
  BY DEF RowsAt, OpenRows
<1>3. Reserved(p, except) \in Nat /\ Reserved(p, except) + n <= placement[p].copies
  BY CapLeaves
<1>4. placement[p].copies \in Nat
  BY DEF IInv, TypeOK, IsTable, PlacementRow, Stock
<1>. HIDE DEF before, after
<1>5. Cardinality(CopiesIn(loan', after)) <= Cardinality(CopiesIn(loan, before)) + n
  BY <1>1, <1>2, OneMoreRow
<1>6. Reserved(p, except) = Cardinality(CopiesIn(loan, before))
  BY DEF Reserved, before
<1>7. Reserved(p, {})' = Cardinality(CopiesIn(loan', after))
  BY DEF Reserved, after
<1>8. IsFiniteSet(CopiesIn(loan', after))
  <2>1. CopiesIn(loan', after) \subseteq CopiesIn(loan, before) \cup ({l} \X (1..n))
    BY <1>2 DEF CopiesIn
  <2>2. IsFiniteSet(CopiesIn(loan, before) \cup ({l} \X (1..n)))
    BY <1>1, CopiesAreFinite, RowCopies, FS_Union
  <2>. QED BY <2>1, <2>2, FS_Subset
<1>9. Cardinality(CopiesIn(loan', after)) \in Nat
  BY <1>8, FS_CardinalityType
<1>. QED BY <1>3, <1>4, <1>5, <1>6, <1>7, <1>9

(* Rows stay as they are, leave, come back, or become single loans. *)
LEMMA QuietStep ==
  ASSUME IInv,
         \A m \in DOMAIN loan' :
            \/ loan'[m].returned
            \/ loan'[m].batch = NoBatch
            \/ /\ m \in DOMAIN loan
               /\ loan'[m].placement = loan[m].placement /\ loan'[m].batch = loan[m].batch
               /\ loan'[m].returned = loan[m].returned /\ loan'[m].copies = loan[m].copies
  PROVE  \A p : NotOverbooked(p)
BY QuietAt

(* A row of a cart or a batch gets the capped number. *)
LEMMA SetCopiesCapped ==
  ASSUME IInv, placement' = placement,
         NEW l \in DOMAIN loan, NEW requested \in Nat, NEW n \in Nat,
         CapsTo(loan[l].placement, requested, {l}, n), SetCopies(l, n)
  PROVE  \A p \in DOMAIN placement : NotOverbooked(p)
<1>1. CASE n = 0
  BY <1>1, QuietStep DEF SetCopies, Without
<1>2. CASE n # 0
  <2>1. loan[l] \in LoanRow
    BY DEF IInv, TypeOK, IsTable
  <2>2. loan' = [loan EXCEPT ![l] = [loan[l] EXCEPT !.copies = n]]
    BY <1>2 DEF SetCopies
  <2>3. /\ DOMAIN loan' = DOMAIN loan
        /\ \A m \in DOMAIN loan \ {l} : loan'[m] = loan[m]
        /\ loan'[l].placement = loan[l].placement /\ loan'[l].copies = n
    BY <2>1, <2>2 DEF LoanRow
  <2>4. loan[l].placement \in DOMAIN placement
    BY DEF IInv, NoDanglingLoan
  <2>5. NotOverbooked(loan[l].placement)
    BY <1>2, <2>3, <2>4, CapHolds
  <2>6. ASSUME NEW p \in DOMAIN placement, p # loan[l].placement
        PROVE  NotOverbooked(p)
    BY <2>3, <2>6, QuietAt
  <2>. QED BY <2>5, <2>6
<1>. QED BY <1>1, <1>2

(* New rows with the capped number, at most one of each placement. *)
LEMMA JoinCapped ==
  ASSUME IInv, placement' = placement,
         NEW new \in SUBSET FreeLoans, NEW rows, DOMAIN rows = new,
         loan' = With(loan, rows),
         NEW requested \in Nat, NEW n \in Nat, n > 0,
         \A l \in new : /\ CapsTo(rows[l].placement, requested, {}, n)
                        /\ rows[l].copies = n,
         \A l, m \in new : rows[l].placement = rows[m].placement => l = m
  PROVE  \A p \in DOMAIN placement : NotOverbooked(p)
<1>1. /\ DOMAIN loan' = DOMAIN loan \cup new
      /\ new \cap DOMAIN loan = {}
      /\ \A l \in new : loan'[l] = rows[l]
      /\ \A l \in DOMAIN loan : loan'[l] = loan[l]
  BY DEF With, FreeLoans
<1>. TAKE p \in DOMAIN placement
<1>2. ASSUME NEW l \in new, rows[l].placement = p
      PROVE  NotOverbooked(p)
  <2>1. CapsTo(p, requested, {}, n) /\ l \notin DOMAIN loan
    BY <1>1, <1>2
  <2>2. \A m \in DOMAIN loan' :
           loan'[m].placement = p
           => \/ m \in DOMAIN loan /\ m # l /\ loan'[m] = loan[m]
              \/ m = l /\ loan'[m].copies = n
    BY <1>1, <1>2
  <2>. QED BY <2>1, <2>2, CapHolds
<1>3. ASSUME \A l \in new : rows[l].placement # p
      PROVE  NotOverbooked(p)
  BY <1>1, <1>3, QuietAt
<1>. QED BY <1>2, <1>3

LEMMA CartAddCapped ==
  ASSUME IInv, NEW u \in Users, NEW p \in PlacementIds, NEW requested \in Requests,
         CartAdd(u, p, requested)
  PROVE  \A q \in DOMAIN placement : NotOverbooked(q)
<1>1. PICK c \in BatchIds, n \in 0..MaxCopies :
         \/ \E l \in RowsOf(c) \cap RowsAt(p) :
               CapsTo(p, loan[l].copies + requested, {l}, n) /\ SetCopies(l, n)
         \/ UNCHANGED loan
         \/ /\ CapsTo(p, requested, {}, n) /\ n > 0
            /\ \E l \in FreeLoans : loan' = WithRow(loan, l, CartRow(p, c, n))
  BY DEF CartAdd
<1>2. n \in Nat /\ requested \in Nat /\ placement' = placement
  BY BoundsAssumption DEF CartAdd, Requests
<1>3. ASSUME NEW l \in RowsOf(c) \cap RowsAt(p),
             CapsTo(p, loan[l].copies + requested, {l}, n), SetCopies(l, n)
      PROVE  \A q \in DOMAIN placement : NotOverbooked(q)
  <2>1. l \in DOMAIN loan /\ loan[l].placement = p
    BY DEF RowsAt
  <2>2. loan[l].copies + requested \in Nat
    BY <1>2, <2>1 DEF IInv, TypeOK, IsTable, LoanRow
  <2>. QED BY <1>2, <1>3, <2>1, <2>2, SetCopiesCapped
<1>4. CASE UNCHANGED loan
  BY <1>4, QuietStep
<1>5. ASSUME CapsTo(p, requested, {}, n), n > 0,
             NEW l \in FreeLoans, loan' = WithRow(loan, l, CartRow(p, c, n))
      PROVE  \A q \in DOMAIN placement : NotOverbooked(q)
  <2>. DEFINE rows == [k \in {l} |-> CartRow(p, c, n)]
  <2>1. loan' = With(loan, rows) /\ DOMAIN rows = {l}
    BY <1>5 DEF WithRow
  <2>2. \A k \in {l} : rows[k].placement = p /\ rows[k].copies = n
    BY DEF CartRow
  <2>. HIDE DEF rows
  <2>. QED BY <1>2, <1>5, <2>1, <2>2, JoinCapped
<1>. QED BY <1>1, <1>3, <1>4, <1>5

LEMMA CartAddAllCapped ==
  ASSUME IInv, NEW u \in Users, NEW unit \in Units, CartAddAllFromUnit(u, unit)
  PROVE  \A q \in DOMAIN placement : NotOverbooked(q)
<1>1. PICK c \in BatchIds, wanted \in SUBSET DOMAIN placement, new \in SUBSET FreeLoans :
         /\ \A p \in wanted : CapsTo(p, 1, {}, 1)
         /\ \E of \in Bijection(new, wanted) :
               loan' = With(loan, [l \in new |-> CartRow(of[l], c, 1)])
  BY DEF CartAddAllFromUnit
<1>2. PICK of \in Bijection(new, wanted) :
         loan' = With(loan, [l \in new |-> CartRow(of[l], c, 1)])
  BY <1>1
<1>3. of \in [new -> wanted] /\ \A l, m \in new : of[l] = of[m] => l = m
  BY DEF Bijection, Injection, IsInjective
<1>. DEFINE rows == [l \in new |-> CartRow(of[l], c, 1)]
<1>4. loan' = With(loan, rows) /\ DOMAIN rows = new
  BY <1>2
<1>5. \A l \in new : rows[l].placement = of[l] /\ rows[l].copies = 1
  BY DEF CartRow
<1>. HIDE DEF rows
<1>6. \A l \in new : CapsTo(rows[l].placement, 1, {}, 1) /\ rows[l].copies = 1
  BY <1>1, <1>3, <1>5
<1>7. \A l, m \in new : rows[l].placement = rows[m].placement => l = m
  BY <1>3, <1>5
<1>8. placement' = placement /\ 1 \in Nat /\ 1 > 0
  BY DEF CartAddAllFromUnit
<1>. QED BY <1>4, <1>6, <1>7, <1>8, JoinCapped

LEMMA BatchAddMoreCapped ==
  ASSUME IInv, NEW b \in BatchIds, NEW p \in PlacementIds, NEW requested \in Requests,
         BatchAddMore(b, p, requested)
  PROVE  \A q \in DOMAIN placement : NotOverbooked(q)
<1>1. PICK n \in 0..MaxCopies :
         \/ \E l \in OpenRowsOf(b) \cap RowsAt(p) :
               \/ UNCHANGED loan
               \/ CapsTo(p, loan[l].copies + requested, {l}, n) /\ SetCopies(l, n)
         \/ /\ n > 0 /\ CapsTo(p, requested, {}, n)
            /\ \E l \in FreeLoans :
                  loan' = WithRow(loan, l,
                            [CartRow(p, b, n) EXCEPT
                                !.borrower = batch[b].borrower,
                                !.picked   = batch[b].status = "active"])
  BY DEF BatchAddMore
<1>2. n \in Nat /\ requested \in Nat /\ placement' = placement
  BY BoundsAssumption DEF BatchAddMore, Requests
<1>3. ASSUME NEW l \in RowsAt(p),
             CapsTo(p, loan[l].copies + requested, {l}, n), SetCopies(l, n)
      PROVE  \A q \in DOMAIN placement : NotOverbooked(q)
  <2>1. l \in DOMAIN loan /\ loan[l].placement = p
    BY DEF RowsAt
  <2>2. loan[l].copies + requested \in Nat
    BY <1>2, <2>1 DEF IInv, TypeOK, IsTable, LoanRow
  <2>. QED BY <1>2, <1>3, <2>1, <2>2, SetCopiesCapped
<1>4. CASE UNCHANGED loan
  BY <1>4, QuietStep
<1>5. ASSUME CapsTo(p, requested, {}, n), n > 0, NEW l \in FreeLoans,
             loan' = WithRow(loan, l,
                       [CartRow(p, b, n) EXCEPT
                           !.borrower = batch[b].borrower,
                           !.picked   = batch[b].status = "active"])
      PROVE  \A q \in DOMAIN placement : NotOverbooked(q)
  <2>. DEFINE rows == [k \in {l} |-> [CartRow(p, b, n) EXCEPT
                                        !.borrower = batch[b].borrower,
                                        !.picked   = batch[b].status = "active"]]
  <2>1. loan' = With(loan, rows) /\ DOMAIN rows = {l}
    BY <1>5 DEF WithRow
  <2>2. \A k \in {l} : rows[k].placement = p /\ rows[k].copies = n
    BY DEF CartRow
  <2>. HIDE DEF rows
  <2>. QED BY <1>2, <1>5, <2>1, <2>2, JoinCapped
<1>. QED BY <1>1, <1>3, <1>4, <1>5

(* The steps that change rows otherwise leave the numbers alone. *)
LEMMA CartStepCapped ==
  IInv /\ CartStep => \A p \in DOMAIN placement : NotOverbooked(p)
<1>. SUFFICES ASSUME IInv, NEW u \in Users,
                     \/ OpenCart(u)
                     \/ \E p \in PlacementIds, n \in Requests : CartAdd(u, p, n)
                     \/ \E unit \in Units : CartAddAllFromUnit(u, unit)
                     \/ \E l \in LoanIds, n \in Requests : CartUpdate(u, l, n)
                     \/ \E l \in LoanIds : CartRemove(u, l)
                     \/ CartClear(u)
                     \/ \E who \in Borrowers : CartCheckout(u, who)
                     \/ \E who \in Borrowers : KioskCheckout(u, who)
              PROVE  \A p \in DOMAIN placement : NotOverbooked(p)
  BY DEF CartStep
<1>1. CASE OpenCart(u) \/ CartClear(u) \/ \E l \in LoanIds : CartRemove(u, l)
  BY <1>1, QuietStep DEF OpenCart, CartClear, CartRemove, Without
<1>2. ASSUME NEW p \in PlacementIds, NEW n \in Requests, CartAdd(u, p, n)
      PROVE  \A q \in DOMAIN placement : NotOverbooked(q)
  BY <1>2, CartAddCapped
<1>3. ASSUME NEW unit \in Units, CartAddAllFromUnit(u, unit)
      PROVE  \A q \in DOMAIN placement : NotOverbooked(q)
  BY <1>3, CartAddAllCapped
<1>4. ASSUME NEW l \in LoanIds, NEW requested \in Requests, CartUpdate(u, l, requested)
      PROVE  \A q \in DOMAIN placement : NotOverbooked(q)
  <2>1. PICK n \in 0..MaxCopies : /\ l \in DOMAIN loan
                                  /\ CapsTo(loan[l].placement, requested, {l}, n)
                                  /\ SetCopies(l, n)
    BY <1>4 DEF CartUpdate, InCartOf
  <2>2. n \in Nat /\ requested \in Nat /\ placement' = placement
    BY <1>4, BoundsAssumption DEF CartUpdate, Requests
  <2>. QED BY <2>1, <2>2, SetCopiesCapped
<1>5. ASSUME NEW c \in CartsOf(u), NEW status, NEW who, NEW picked, Register(c, status, who, picked)
      PROVE  \A q : NotOverbooked(q)
  <2>1. DOMAIN loan' = DOMAIN loan
    BY <1>5 DEF Register
  <2>2. ASSUME NEW l \in DOMAIN loan
        PROVE  /\ loan'[l].placement = loan[l].placement /\ loan'[l].batch = loan[l].batch
               /\ loan'[l].returned = loan[l].returned /\ loan'[l].copies = loan[l].copies
    <3>1. loan[l] \in LoanRow
      BY DEF IInv, TypeOK, IsTable
    <3>2. loan'[l] = IF l \in RowsOf(c)
                     THEN [loan[l] EXCEPT !.borrower = who, !.picked = @ \/ picked]
                     ELSE loan[l]
      BY <1>5 DEF Register
    <3>. QED BY <3>1, <3>2 DEF LoanRow
  <2>. QED BY <2>1, <2>2, QuietStep
<1>6. ASSUME NEW who \in Borrowers, NEW l \in DOMAIN loan,
             loan' = [loan EXCEPT ![l].borrower = who, ![l].picked = TRUE, ![l].batch = NoBatch]
      PROVE  \A q : NotOverbooked(q)
  <2>1. loan[l] \in LoanRow
    BY DEF IInv, TypeOK, IsTable
  <2>2. /\ DOMAIN loan' = DOMAIN loan
        /\ \A m \in DOMAIN loan \ {l} : loan'[m] = loan[m]
        /\ loan'[l].batch = NoBatch
    BY <1>6, <2>1 DEF LoanRow
  <2>. QED BY <2>2, QuietStep
<1>7. ASSUME NEW who \in Borrowers, CartCheckout(u, who) \/ KioskCheckout(u, who)
      PROVE  \A q : NotOverbooked(q)
  BY <1>5, <1>6, <1>7 DEF CartCheckout, KioskCheckout
<1>. QED BY <1>1, <1>2, <1>3, <1>4, <1>7

LEMMA LoanStepCapped ==
  IInv /\ LoanStep => \A p \in DOMAIN placement : NotOverbooked(p)
<1>. SUFFICES ASSUME IInv, LoanStep PROVE \A p : NotOverbooked(p)
  OBVIOUS
<1>1. ASSUME NEW p \in PlacementIds, NEW who \in Borrowers, NEW n \in Requests, AddLoan(p, who, n)
      PROVE  \A q : NotOverbooked(q)
  <2>1. PICK l \in FreeLoans :
           loan' = WithRow(loan, l,
                     [placement |-> p, batch |-> NoBatch, copies |-> n,
                      borrower |-> who, picked |-> TRUE, returned |-> FALSE])
    BY <1>1 DEF AddLoan
  <2>2. \A m \in DOMAIN loan' : \/ loan'[m].batch = NoBatch
                                \/ m \in DOMAIN loan /\ loan'[m] = loan[m]
    BY <2>1 DEF WithRow, With
  <2>. QED BY <2>2, QuietStep
<1>2. ASSUME NEW u \in Users, NEW l \in LoanIds,
             ReturnLoan(u, l) \/ ReturnLoanInterrupted(u, l)
      PROVE  \A q : NotOverbooked(q)
  <2>1. /\ l \in DOMAIN loan
        /\ DOMAIN loan' = DOMAIN loan
        /\ \A m \in DOMAIN loan \ {l} : loan'[m] = loan[m]
        /\ loan'[l] = [loan[l] EXCEPT !.returned = TRUE]
    BY <1>2, MarkReturnedFacts DEF ReturnLoan, ReturnLoanInterrupted
  <2>2. loan'[l].returned
    BY <2>1 DEF IInv, TypeOK, IsTable, LoanRow
  <2>. QED BY <2>1, <2>2, QuietStep
<1>3. ASSUME NEW l \in LoanIds, DeleteLoan(l) \/ MarkNotFound(l)
      PROVE  \A q : NotOverbooked(q)
  BY <1>3, QuietStep DEF DeleteLoan, MarkNotFound, Without
<1>4. ASSUME NEW l \in LoanIds, MarkPickedUp(l)
      PROVE  \A q : NotOverbooked(q)
  <2>1. l \in DOMAIN loan /\ loan[l] \in LoanRow
    BY <1>4 DEF MarkPickedUp, IInv, TypeOK, IsTable
  <2>2. /\ DOMAIN loan' = DOMAIN loan
        /\ \A m \in DOMAIN loan :
              /\ loan'[m].placement = loan[m].placement /\ loan'[m].batch = loan[m].batch
              /\ loan'[m].returned = loan[m].returned /\ loan'[m].copies = loan[m].copies
    BY <1>4, <2>1 DEF MarkPickedUp, LoanRow
  <2>. QED BY <2>2, QuietStep
<1>. QED BY <1>1, <1>2, <1>3, <1>4 DEF LoanStep

LEMMA BatchStepCapped ==
  IInv /\ BatchStep => \A p \in DOMAIN placement : NotOverbooked(p)
<1>. SUFFICES ASSUME IInv, NEW b \in BatchIds,
                     \/ BatchActivate(b)
                     \/ \E units \in Kiosks : BatchReturnAtKiosk(units, b)
                     \/ BatchReturnAll(b)
                     \/ \E p \in PlacementIds, n \in Requests : BatchAddMore(b, p, n)
              PROVE  \A p \in DOMAIN placement : NotOverbooked(p)
  BY DEF BatchStep
<1>1. CASE BatchActivate(b)
  BY <1>1, QuietStep DEF BatchActivate, Without
<1>2. ASSUME NEW back, ReturnRows(back)
      PROVE  \A p : NotOverbooked(p)
  <2>1. DOMAIN loan' = DOMAIN loan
    BY <1>2 DEF ReturnRows
  <2>2. ASSUME NEW l \in DOMAIN loan
        PROVE  loan'[l].returned \/ loan'[l] = loan[l]
    <3>1. loan[l] \in LoanRow
      BY DEF IInv, TypeOK, IsTable
    <3>2. loan'[l] = IF l \in back THEN [loan[l] EXCEPT !.returned = TRUE] ELSE loan[l]
      BY <1>2 DEF ReturnRows
    <3>. QED BY <3>1, <3>2 DEF LoanRow
  <2>. QED BY <2>1, <2>2, QuietStep
<1>3. CASE BatchReturnAll(b) \/ \E units \in Kiosks : BatchReturnAtKiosk(units, b)
  BY <1>2, <1>3 DEF BatchReturnAtKiosk, BatchReturnAll
<1>4. ASSUME NEW p \in PlacementIds, NEW n \in Requests, BatchAddMore(b, p, n)
      PROVE  \A q \in DOMAIN placement : NotOverbooked(q)
  BY <1>4, BatchAddMoreCapped
<1>. QED BY <1>1, <1>3, <1>4

LEMMA PlacementStepCapped ==
  IInv /\ PlacementStep => \A p \in DOMAIN placement : NotOverbooked(p)
<1>. SUFFICES ASSUME IInv, PlacementStep PROVE \A p : NotOverbooked(p)
  OBVIOUS
<1>1. PICK gone : loan' = loan \/ loan' = Without(loan, gone)
  BY DEF PlacementStep, AddPlacement, AddToPlacement, UpdatePlacement, MergePlacement,
     DeletePlacement, DeletePiece, RemovePlacements
<1>. QED BY <1>1, QuietStep DEF Without

(* A cart or a batch never takes more of a placement than is there.          *)
THEOREM CartsStayWithinStock == Spec => NoCartOverbooks
<1>1. IInv /\ [Next]_vars
      => [\A p \in DOMAIN placement \cap DOMAIN placement' : NotOverbooked(p)]_vars
  BY CartStepCapped, LoanStepCapped, BatchStepCapped, PlacementStepCapped DEF Next
<1>. QED BY <1>1, InvariantHolds, PTL DEF Spec, NoCartOverbooks, NotOverbooked
=============================================================================
