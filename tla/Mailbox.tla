------------------------------- MODULE Mailbox -------------------------------
(***************************************************************************)
(* What an event loop promises to the goroutines that hand it closures: a  *)
(* mailbox.  Closures are named by the order in which they were accepted   *)
(* (1, 2, 3, ...).  Each is executed at most once, in that order, by one   *)
(* executor, and none is executed after the mailbox has halted.            *)
(*                                                                         *)
(* EventLoop implements this specification (EventLoop!MailboxSpec).        *)
(***************************************************************************)
EXTENDS Naturals, Sequences

VARIABLES pending,   \* closures accepted and not yet executed, oldest first
          executed,  \* closures executed, in the order of execution
          halted     \* the executor has gone

mailboxVars == <<pending, executed, halted>>

Init ==
    /\ pending = <<>>
    /\ executed = <<>>
    /\ halted = FALSE

\* A closure is accepted at any time, even by a halted mailbox.
Post ==
    /\ pending' = Append(pending, Len(executed) + Len(pending) + 1)
    /\ UNCHANGED <<executed, halted>>

\* The oldest pending closure runs.
Execute ==
    /\ ~halted
    /\ pending # <<>>
    /\ executed' = Append(executed, Head(pending))
    /\ pending' = Tail(pending)
    /\ UNCHANGED halted

\* The executor goes; whatever is pending stays pending for ever.
Halt ==
    /\ ~halted
    /\ halted' = TRUE
    /\ UNCHANGED <<pending, executed>>

Next == Post \/ Execute \/ Halt

Spec == Init /\ [][Next]_mailboxVars
==============================================================================
