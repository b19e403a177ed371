------------------------------- MODULE Tables -------------------------------
(***************************************************************************)
(* A database table is a function from the primary keys in use to rows.    *)
(* The operators below are what the ORM session of the program (SQLModel   *)
(* over SQLite) does to one table inside a transaction.  SQLite hands out  *)
(* the rowid of a deleted row again, so a key outside the domain is free   *)
(* whatever happened before.                                               *)
(***************************************************************************)

(* A table with keys from Keys and rows from Rows. *)
IsTable(table, Keys, Rows) ==
    DOMAIN table \subseteq Keys /\ table \in [DOMAIN table -> Rows]

Empty == [k \in {} |-> k]

(* session.add of the rows of the table new, none of whose keys is in use. *)
With(table, new) ==
    [k \in DOMAIN table \cup DOMAIN new |->
        IF k \in DOMAIN new THEN new[k] ELSE table[k]]

(* session.add of one row. *)
WithRow(table, key, row) == With(table, [k \in {key} |-> row])

(* session.delete of the rows with a key in gone, or an ON DELETE CASCADE. *)
Without(table, gone) == [k \in DOMAIN table \ gone |-> table[k]]
=============================================================================
