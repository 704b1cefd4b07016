------------------------------ MODULE MCFramePool ------------------------------
(* FramePool on a small instance; the constants are in the .cfg file.      *)
EXTENDS FramePool
==============================================================================
