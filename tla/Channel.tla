------------------------------- MODULE Channel -------------------------------
(***************************************************************************)
(* What a connection promises the application, buffers, handlers and loop  *)
(* left out: the peer is sent the bytes given to write, numbered in the    *)
(* order they were given, each once and without a gap; messageCallback is  *)
(* given the peer's frames one at a time and no more than arrived; and the *)
(* end is final: after it nothing is sent and nothing arrives, although    *)
(* frames already read may still be handled and bytes given are lost.      *)
(* Connect implements this (Connect!ChannelSpec).                          *)
(***************************************************************************)
EXTENDS Naturals, Sequences

VARIABLES given,     \* bytes given to write
          out,       \* the bytes sent
          arrived,   \* frames the peer sent
          handled,   \* frames given to messageCallback
          closed     \* the connection has ended

vars == <<given, out, arrived, handled, closed>>

Bytes(n) == [i \in 1 .. n |-> i]

Init ==
    /\ given = 0
    /\ out = <<>>
    /\ arrived = 0
    /\ handled = 0
    /\ closed = FALSE

\* More may be given, and any part of what was given and not sent is sent.
Send ==
    /\ given <= given'
    /\ \E n \in Len(out) .. given' : out' = Bytes(n)

\* More may be given, and none of it is sent.
Lose == given <= given' /\ out' = out

\* The next frame is handled, or none.
Handle == handled' \in {handled, handled + 1} /\ handled' <= arrived

Arrive ==
    /\ ~closed
    /\ arrived' = arrived + 1
    /\ UNCHANGED <<given, out, handled, closed>>

Exchange == ~closed /\ Send /\ Handle /\ UNCHANGED <<arrived, closed>>

Close == ~closed /\ closed' = TRUE /\ Lose /\ Handle /\ UNCHANGED arrived

Afterwards == closed /\ Lose /\ Handle /\ UNCHANGED <<arrived, closed>>

Next == Arrive \/ Exchange \/ Close \/ Afterwards

Spec == Init /\ [][Next]_vars
==============================================================================
