------------------------------- MODULE Tables -------------------------------
(***************************************************************************)
(* A table of the database: a function from the ids of the rows that exist *)
(* to what is kept of each row.                                            *)
(***************************************************************************)

Table(ids, row) == UNION {[here -> row] : here \in SUBSET ids}
Empty == [x \in {} |-> x]
Insert(table, id, row) == [x \in DOMAIN table \cup {id} |-> IF x = id THEN row ELSE table[x]]
Delete(table, ids) == [x \in DOMAIN table \ ids |-> table[x]]
=============================================================================
