---------------------------- MODULE MCEventLoop ----------------------------
(* Instances of EventLoop for TLC; the configurations give the values.     *)
EXTENDS EventLoop, TLC
==============================================================================
