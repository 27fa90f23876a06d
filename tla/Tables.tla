------------------------------ MODULE Tables --------------------------------
(* Tables of the database: a table is a function from the ids of its records *)
(* to their rows, and a patch is a record with some fields of a row.         *)

CONSTANT None   \* NULL: no record, nothing in a column

\* The row as a patch leaves it: {...row, ...patch}.
Over(patch, row) == [f \in DOMAIN row |-> IF f \in DOMAIN patch THEN patch[f] ELSE row[f]]

\* A table after a record is written, and after one is deleted.
With(table, id, row) == [k \in DOMAIN table \cup {id} |-> IF k = id THEN row ELSE table[k]]
Without(table, id) == [k \in DOMAIN table \ {id} |-> table[k]]
=============================================================================
