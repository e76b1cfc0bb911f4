-------------------------------- MODULE MCWAL --------------------------------
(* Model checking of WAL.  The constants are given in the WAL_*.cfg files. *)
(* In WAL_durable a segment is 10 cells: a header (1), an insert (6) and a *)
(* delete (3) fill it exactly, two inserts rotate, and a delete written    *)
(* behind the torn header of an insert may end inside that insert.  In the *)
(* other runs it is 8 cells, and inserts of 4 and 5 meet the roll-over     *)
(* test at its boundary and on both sides of it.                           *)
EXTENDS WAL
=============================================================================
