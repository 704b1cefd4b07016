----------------------------- MODULE MCConnect -----------------------------
(* Instances of Connect for TLC; the configurations give the values.       *)
EXTENDS Connect, TLC
==============================================================================
