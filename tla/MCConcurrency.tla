--------------------------- MODULE MCConcurrency ---------------------------
(* Model checking of Concurrency.  The constants are given in the          *)
(* Concurrency_*.cfg files; clients are model values.                      *)
EXTENDS Concurrency
=============================================================================
