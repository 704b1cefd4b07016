------------------------------ MODULE MCServer ------------------------------
(* Instances of Server for TLC: the constants are given in the .cfg files. *)
EXTENDS Server, TLC

\* No address is told apart; sound for the safety properties.
AddrSymmetry == Permutations(Addrs)
==============================================================================
