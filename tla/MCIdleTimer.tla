---------------------------- MODULE MCIdleTimer ----------------------------
(* An instance of IdleTimer for TLC; the configuration gives the values.   *)
EXTENDS IdleTimer
==============================================================================
