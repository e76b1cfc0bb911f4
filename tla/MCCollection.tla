---------------------------- MODULE MCCollection ----------------------------
(* Model checking of Collection.  Ids and items are model values; no       *)
(* definition tells one from another, so the runs of invariants treat them *)
(* as interchangeable.                                                     *)
EXTENDS Collection, TLC

Interchangeable == Permutations(ExternalIDs) \cup Permutations(Items)
=============================================================================
