------------------------------ MODULE MCKqueue ------------------------------
(* Kqueue on a small instance; the constants are in the .cfg files.        *)
EXTENDS Kqueue
==============================================================================
