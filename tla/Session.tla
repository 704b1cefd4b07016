------------------------------- MODULE Session -------------------------------
(***************************************************************************)
(* What the server promises the application about each connection: it is   *)
(* announced by ConnectCallback once, its end by ConnectCloseCallback at   *)
(* most once and only after the announcement, and nothing is said of it    *)
(* afterwards.  Server implements this (Server!SessionSpec).               *)
(***************************************************************************)
CONSTANT Conns

VARIABLE phase   \* of each connection: "unknown", "announced" or "ended"

Init == phase = [c \in Conns |-> "unknown"]

Announce(c) == phase[c] = "unknown" /\ phase' = [phase EXCEPT ![c] = "announced"]

End(c) == phase[c] = "announced" /\ phase' = [phase EXCEPT ![c] = "ended"]

Next == \E c \in Conns : Announce(c) \/ End(c)

Spec == Init /\ [][Next]_phase
==============================================================================
