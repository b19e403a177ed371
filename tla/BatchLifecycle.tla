---------------------------- MODULE BatchLifecycle ----------------------------
(***************************************************************************)
(* What a borrower may rely on about a loan batch, whatever the handlers,  *)
(* the kiosk and the catalogue do: its stages only go forward, its         *)
(* borrower is settled once, when it is registered, and a returned batch   *)
(* is over: it holds no open row and never gets one again.                 *)
(***************************************************************************)
CONSTANTS Batches, Rows, Borrowers, Nobody

VARIABLES
    status,    \* stage of every batch
    borrower,  \* who answers for it
    open       \* its rows that are not returned

vars == <<status, borrower, open>>

Stages == {"none", "cart", "picking", "active", "returned"}

TypeOK ==
    /\ status \in [Batches -> Stages]
    /\ borrower \in [Batches -> Borrowers \cup {Nobody}]
    /\ open \in [Batches -> SUBSET Rows]

Init ==
    /\ status = [b \in Batches |-> "none"]
    /\ borrower = [b \in Batches |-> Nobody]
    /\ open = [b \in Batches |-> {}]

(* A cart appears, possibly with its first rows. *)
Open(b, rows) ==
    /\ status[b] = "none"
    /\ status' = [status EXCEPT ![b] = "cart"]
    /\ open' = [open EXCEPT ![b] = rows]
    /\ UNCHANGED borrower

(* Rows come and go, or are returned, while the batch is in use. *)
Change(b, rows) ==
    /\ status[b] \in {"cart", "picking", "active"}
    /\ open' = [open EXCEPT ![b] = rows]
    /\ UNCHANGED <<status, borrower>>

(* Checkout, with the music still to be fetched or already in hand. *)
Register(b, stage, who) ==
    /\ status[b] = "cart"
    /\ stage \in {"picking", "active"}
    /\ status' = [status EXCEPT ![b] = stage]
    /\ borrower' = [borrower EXCEPT ![b] = who]
    /\ UNCHANGED open

(* What was not fetched is given up. *)
Activate(b, fetched) ==
    /\ status[b] = "picking"
    /\ fetched \subseteq open[b]
    /\ status' = [status EXCEPT ![b] = "active"]
    /\ open' = [open EXCEPT ![b] = fetched]
    /\ UNCHANGED borrower

Close(b) ==
    /\ status[b] = "active"
    /\ status' = [status EXCEPT ![b] = "returned"]
    /\ open' = [open EXCEPT ![b] = {}]
    /\ UNCHANGED borrower

(* A placement leaves the catalogue and takes its rows out of all batches. *)
Lose(gone) ==
    /\ open' = [b \in Batches |-> open[b] \ gone]
    /\ UNCHANGED <<status, borrower>>

Next ==
    \/ \E b \in Batches, rows \in SUBSET Rows : Open(b, rows) \/ Change(b, rows) \/ Activate(b, rows)
    \/ \E b \in Batches, stage \in Stages, who \in Borrowers : Register(b, stage, who)
    \/ \E b \in Batches : Close(b)
    \/ \E gone \in SUBSET Rows : Lose(gone)

Spec == Init /\ [][Next]_vars
=============================================================================
