---------------------------- MODULE MCLifecycle ----------------------------
(* Model checking of Lifecycle.  The constants are given in the            *)
(* Lifecycle_*.cfg files.                                                  *)
EXTENDS Lifecycle
=============================================================================
