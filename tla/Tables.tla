------------------------------- MODULE Tables -------------------------------
(***************************************************************************)
(* A SQLite table as a function from the ids of its rows to the rows.      *)
(***************************************************************************)
EXTENDS Integers

(* A table maps the ids of its rows, a subset of Ids, to rows. *)
IsTable(t, Ids, Row) == DOMAIN t \subseteq Ids /\ t \in [DOMAIN t -> Row]

EmptyTable == [id \in {} |-> id]

(* INSERT: the row gets the lowest id that is still free (LastInsertId). *)
FreshId(t, Ids) ==
  {id \in Ids \ DOMAIN t : \A other \in Ids \ DOMAIN t : id <= other}

Insert(t, id, row) == [x \in DOMAIN t \cup {id} |-> IF x = id THEN row ELSE t[x]]
=============================================================================
