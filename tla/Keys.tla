-------------------------------- MODULE Keys --------------------------------
(***************************************************************************)
(* How the handlers number the rows of their tables.                       *)
(***************************************************************************)
EXTENDS Integers

\* available_primary_key is one more than the highest key of the table, and
\* on an empty table the handlers start from first.
IsNextId(i, used, first) ==
  /\ \A j \in used : j < i
  /\ i = first \/ i - 1 \in used
=============================================================================
