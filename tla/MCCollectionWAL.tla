-------------------------- MODULE MCCollectionWAL --------------------------
(* Model checking of CollectionWAL.  The constants are given in the        *)
(* CollectionWAL_*.cfg files; ids and items are model values.              *)
EXTENDS CollectionWAL
=============================================================================
