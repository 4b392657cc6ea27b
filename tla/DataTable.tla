------------------------------ MODULE DataTable ------------------------------
(***************************************************************************)
(* DataTable (src/state_persistence.cpp): what the SQL statements that it  *)
(* forms do to a table.  A table is a function from the primary key, the   *)
(* first variable of an Entry, to the rest of the row.  Each statement is  *)
(* one transaction of SQLite.                                              *)
(***************************************************************************)
EXTENDS FiniteSets

\* CREATE TABLE of a table that did not exist.
NewTable == [k \in {} |-> k]

\* SELECT count of the rows.
NumberItems(table) == Cardinality(DOMAIN table)

\* INSERT: a key that is in use is refused.
InsertItem(table, key, row) ==
    [k \in DOMAIN table \cup {key} |->
        IF k \in DOMAIN table THEN table[k] ELSE row]

\* SELECT of a key that is there.
GetItem(table, key) == table[key]

\* UPDATE: without a row of that key nothing happens, and it is no error.
SetItem(table, key, row) ==
    [k \in DOMAIN table |-> IF k = key THEN row ELSE table[k]]

\* DELETE of one row, and of all.
DeleteItem(table, key) == [k \in DOMAIN table \ {key} |-> table[k]]
DeleteAllItems(table) == NewTable
=============================================================================
