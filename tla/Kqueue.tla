-------------------------------- MODULE Kqueue --------------------------------
(***************************************************************************)
(* The kqueue multiplexer with the events of net/event_loop: changes of an *)
(* interest set are collected in a list and given to the kernel by the     *)
(* next Kevent, when the descriptor may be closed, or its number may       *)
(* belong to another connection of the loop.                               *)
(*                                                                         *)
(* One loop and one descriptor number, which connections own one after the *)
(* other.  The buffers of a connection are reduced to whether input waits  *)
(* and how many writes the output takes: Connect has their contents.       *)
(***************************************************************************)
EXTENDS Naturals, Sequences

CONSTANTS MaxOwners,  \* bound: connections that own the number
          MaxOut,     \* bound: writes it takes to send what waits in outBuffer
          MaxWrites   \* bound: writes of other goroutines

ASSUME KqueueAssumption ==
    /\ MaxOwners \in Nat \ {0}
    /\ MaxOut \in Nat \ {0}
    /\ MaxWrites \in Nat

Owners == 1 .. MaxOwners
Filters == {"Read", "Write"}
Changes == [filter : Filters, op : {"ADD", "DELETE"}, owner : Owners]
Reports == [filter : Filters, err : BOOLEAN, from : 0 .. MaxOwners]
Closures == {"connected", "close", "write"} \X Owners

VARIABLES
    \* the kernel
    filters,   \* filters of the descriptor in the kqueue
    rcv, gone, \* its data to be read; its peer: "no" or gone by "fin" or "rst"
    space,     \* its send buffer has space
    \* the connection that owns the number, or did so last
    owner,
    conn,      \* "new" (its closure appended), "open" (in eventPool) or "closed"
    events,    \* event.events
    oldEvents, \* event.oldEvents
    out,       \* how many writes it takes to empty outBuffer
    mixed,     \* history: outBuffer has held bytes of an earlier owner
    \* the earlier owners
    asking,    \* those whose event asks about writing again
    \* the goroutines that call WriteInSelfLoop
    writes,    \* how many calls were made
    begun,     \* of them, on each connection: state was looked at, nothing appended
    \* the multiplexer and the loop
    changes,   \* this.changes
    pc,        \* "kevent", "handle" or "run"
    batch,     \* events reported and still to be handled
    functions, left

sockVars == <<rcv, gone, space>>
writers == <<writes, begun>>
connVars == <<owner, conn, events, oldEvents, out, mixed>>
loopVars == <<pc, batch, functions, left>>
vars == <<filters, sockVars, connVars, asking, writers, changes, loopVars>>

TypeOK ==
    /\ filters \subseteq Filters
    /\ rcv \in BOOLEAN /\ space \in BOOLEAN
    /\ gone \in {"no", "fin", "rst"}
    /\ owner \in Owners
    /\ conn \in {"new", "open", "closed"}
    /\ events \subseteq Filters \cup {"Err"}
    /\ oldEvents \subseteq Filters \cup {"Err"}
    /\ out \in 0 .. MaxOut
    /\ mixed \in BOOLEAN
    /\ asking \subseteq Owners
    /\ writes \in 0 .. MaxWrites
    /\ begun \in [Owners -> Nat]
    /\ changes \in Seq(Changes)
    /\ pc \in {"kevent", "handle", "run"}
    /\ batch \in Seq(Reports)
    /\ pc = "run" => batch = <<>>
    /\ functions \in Seq(Closures)
    /\ left \in 0 .. Len(functions)

\* The first connection has been accepted.
Init ==
    /\ filters = {}
    /\ rcv = FALSE /\ gone = "no" /\ space = TRUE
    /\ owner = 1 /\ conn = "new"
    /\ events = {} /\ oldEvents = {}
    /\ out = 0 /\ mixed = FALSE
    /\ asking = {}
    /\ writes = 0 /\ begun = [o \in Owners |-> 0]
    /\ changes = <<>>
    /\ pc = "run" /\ batch = <<>>
    /\ functions = <<<<"connected", 1>>>>
    /\ left = 0
------------------------------------------------------------------------------
(* Peers, the main loop, and goroutines that call Close.                   *)

PeerSend ==
    /\ conn # "closed" /\ gone = "no"
    /\ rcv' = TRUE
    /\ UNCHANGED <<filters, gone, space, connVars, asking, writers, changes, loopVars>>

PeerEnds ==
    /\ conn # "closed" /\ gone # "rst"
    /\ \/ gone = "no" /\ gone' = "fin"
       \/ gone' = "rst"
    /\ UNCHANGED <<filters, rcv, space, connVars, asking, writers, changes, loopVars>>

PeerDrain ==
    /\ ~space
    /\ space' = TRUE
    /\ UNCHANGED <<filters, rcv, gone, connVars, asking, writers, changes, loopVars>>

\* The number is free, and accept(2) gives it to a connection of the same loop, which
\* takes its buffers from the pool: one that an earlier owner gave back may hold what
\* that one has written since.
Accept ==
    /\ conn = "closed" /\ owner < MaxOwners
    /\ rcv' = FALSE /\ gone' = "no" /\ space' = TRUE
    /\ owner' = owner + 1 /\ conn' = "new"
    /\ events' = {} /\ oldEvents' = {}
    /\ \/ out' = 0 /\ mixed' = FALSE
       \/ asking # {} /\ out' \in 1 .. MaxOut /\ mixed' = TRUE
    /\ functions' = Append(functions, <<"connected", owner + 1>>)
    /\ UNCHANGED <<filters, asking, writers, changes, pc, batch, left>>

\* Bounded: one Close of a connection is on its way at a time.
Close ==
    /\ conn = "open"
    /\ \A i \in 1 .. Len(functions) : functions[i] # <<"close", owner>>
    /\ functions' = Append(functions, <<"close", owner>>)
    /\ UNCHANGED <<filters, sockVars, connVars, asking, writers, changes, pc, batch,
                   left>>

\* state is looked at once: the closure is appended later, and runs later still.
WriteInSelfLoop ==
    /\ conn = "open" /\ writes < MaxWrites
    /\ writes' = writes + 1
    /\ begun' = [begun EXCEPT ![owner] = @ + 1]
    /\ UNCHANGED <<filters, sockVars, connVars, asking, changes, loopVars>>

RunInLoop(who) ==
    /\ begun[who] > 0
    /\ begun' = [begun EXCEPT ![who] = @ - 1]
    /\ functions' = Append(functions, <<"write", who>>)
    /\ UNCHANGED <<filters, sockVars, connVars, asking, writes, changes, pc, batch, left>>
------------------------------------------------------------------------------
(* An event whose interest set goes through several changes in a handler.  *)

Change(f, op) == [filter |-> f, op |-> op, owner |-> owner]

\* The change of one filter on the way from the interest set old to new.
kEvent(f, old, new) ==
    CASE f \in new \ old -> <<Change(f, "ADD")>>
      [] f \in old \ new -> <<Change(f, "DELETE")>>
      [] OTHER -> <<>>

kEvents(old, new) == kEvent("Read", old, new) \o kEvent("Write", old, new)

\* Mutant: the old events are the ones before the last change but one.
oldForUpdateStale(e) == e.old

\* oldEvents is saved before each single change.
oldForUpdate(e) == e.new

\* An event under way: its events, its oldEvents, the changes made so far.
ThisEvent == [new |-> events, old |-> oldEvents, chg |-> <<>>]

update(e, new) ==
    [new |-> new, old |-> oldForUpdate(e), chg |-> e.chg \o kEvents(oldForUpdate(e), new)]

EnableReading(e, isEnable) ==
    update(e, IF isEnable THEN e.new \cup {"Read"} ELSE e.new \ {"Read"})
EnableWriting(e, isEnable) ==
    update(e, IF isEnable THEN e.new \cup {"Write"} ELSE e.new \ {"Write"})
EnableErrorEvent(e) == update(e, e.new \cup {"Err"})
DisableAll(e) == update(e, {})

\* RemoveEvent deletes what oldEvents, which DisableAll has just set, says.
UnRegister(e) == [e EXCEPT !.chg = @ \o kEvents(e.old, {})]

\* The event is left as e, its changes added to the list.
Becomes(e) ==
    /\ events' = e.new
    /\ oldEvents' = e.old
    /\ changes' = changes \o e.chg

closeEvent ==
    /\ Becomes(UnRegister(DisableAll(ThisEvent)))
    /\ conn' = "closed"
    /\ filters' = {}
------------------------------------------------------------------------------
(* WaitEvent.                                                              *)

\* Kevent applies the changes one after the other; one that cannot be applied
\* (ENOENT, or EBADF after close) is reported as an event, from its owner.
ApplyChange ==
    LET c == Head(changes)
    IN  /\ pc = "kevent" /\ changes # <<>>
        /\ changes' = Tail(changes)
        /\ \/ /\ c.op = "ADD" /\ conn # "closed"
              /\ filters' = filters \cup {c.filter}
              /\ UNCHANGED batch
           \/ /\ c.op = "DELETE" /\ c.filter \in filters
              /\ filters' = filters \ {c.filter}
              /\ UNCHANGED batch
           \/ /\ IF c.op = "ADD" THEN conn = "closed" ELSE c.filter \notin filters
              /\ batch' = Append(batch, [filter |-> c.filter, err |-> TRUE,
                                         from |-> c.owner])
              /\ UNCHANGED filters
        /\ UNCHANGED <<sockVars, connVars, asking, writers, pc, functions, left>>

\* EV_EOF, which WaitEvent translates like EV_ERROR, comes with the data.
Ready(f) ==
    /\ f \in filters
    /\ IF f = "Read" THEN rcv \/ gone # "no" ELSE space \/ gone = "rst"
Report(f) ==
    [filter |-> f, from |-> 0,
     err |-> IF f = "Read" THEN gone # "no" ELSE gone = "rst"]

\* With errors nothing else is reported; else what is ready, in any order.
Kevent ==
    /\ pc = "kevent" /\ changes = <<>>
    /\ pc' = "handle"
    /\ \/ batch # <<>> /\ UNCHANGED batch
       \/ batch = <<>> /\ \E n \in 0 .. 2, order \in [1 .. 2 -> Filters] :
              /\ order[1] # order[2]
              /\ {order[i] : i \in 1 .. n} = {f \in Filters : Ready(f)}
              /\ batch' = [i \in 1 .. n |-> Report(order[i])]
    /\ UNCHANGED <<filters, sockVars, connVars, asking, writers, changes, functions, left>>
------------------------------------------------------------------------------
(* The handlers.                                                           *)

\* write: sent, or (all or a part of it) kept, or failed; kept without trying when
\* output waits already.
write(e) ==
    \/ /\ out = 0 /\ gone # "rst" /\ space
       /\ space' \in BOOLEAN
       /\ Becomes(e)
       /\ UNCHANGED <<filters, conn, out>>
    \/ /\ out = 0 /\ gone # "rst"
       /\ space' = FALSE /\ out' \in 1 .. MaxOut
       /\ Becomes(EnableWriting(e, TRUE))
       /\ UNCHANGED <<filters, conn>>
    \/ /\ out = 0 /\ gone = "rst"
       /\ closeEvent
       /\ UNCHANGED <<space, out>>
    \/ /\ out > 0 /\ out' \in out .. MaxOut
       /\ Becomes(e)
       /\ UNCHANGED <<filters, space, conn>>

\* One read (what it leaves is like data sent later), and at most one reply.
readEvent ==
    \/ /\ out > 0
       /\ Becomes(EnableReading(ThisEvent, FALSE))
       /\ UNCHANGED <<filters, rcv, space, conn, out>>
    \/ /\ out = 0 /\ rcv
       /\ rcv' = FALSE
       /\ \/ write(ThisEvent)
          \/ UNCHANGED <<filters, space, conn, events, oldEvents, changes, out>>
    \/ /\ out = 0 /\ ~rcv /\ gone # "no"
       /\ closeEvent
       /\ UNCHANGED <<rcv, space, out>>
    \/ /\ out = 0 /\ ~rcv /\ gone = "no"
       /\ UNCHANGED <<filters, rcv, space, conn, events, oldEvents, changes, out>>

StopWriting(e) == IF "Write" \in e.new THEN EnableWriting(e, FALSE) ELSE e
StartReading(e) == IF "Read" \in e.new THEN e ELSE EnableReading(e, TRUE)

\* Mutant: reading stays off.
FlushedNoRead(e) == StopWriting(e)

Flushed(e) == StartReading(StopWriting(e))

\* A write of nothing empties an empty outBuffer too.
writeEvent ==
    \/ /\ gone # "rst" /\ (space \/ out = 0)
       /\ out' = 0 /\ space' \in IF out = 0 THEN {space} ELSE BOOLEAN
       /\ Becomes(Flushed(ThisEvent))
       /\ UNCHANGED <<filters, rcv, conn>>
    \/ /\ gone # "rst" /\ out > 0
       /\ space' = FALSE /\ out' \in IF space THEN 1 .. out - 1 ELSE {out}
       /\ UNCHANGED <<filters, rcv, conn, events, oldEvents, changes>>
    \/ /\ gone = "rst"
       /\ closeEvent
       /\ UNCHANGED <<rcv, space, out>>

\* The event found in eventPool, if any, handles the report.
HandleEvent ==
    LET r == Head(batch)
    IN  /\ pc = "handle" /\ batch # <<>>
        /\ batch' = Tail(batch)
        /\ \/ /\ conn # "open"
              /\ UNCHANGED <<filters, rcv, space, conn, events, oldEvents, changes, out>>
           \/ /\ conn = "open" /\ r.err
              /\ closeEvent
              /\ UNCHANGED <<rcv, space, out>>
           \/ conn = "open" /\ ~r.err /\ r.filter = "Write" /\ writeEvent
           \/ conn = "open" /\ ~r.err /\ r.filter = "Read" /\ readEvent
        /\ UNCHANGED <<gone, owner, mixed, asking, writers, pc, functions, left>>

\* Mutant: the rest of the batch is left for the next time.
BatchLeft == TRUE
BatchHandled == batch = <<>>

runAllFunctionInLoop ==
    /\ pc = "handle" /\ BatchHandled
    /\ pc' = "run"
    /\ left' = Len(functions)
    /\ UNCHANGED <<filters, sockVars, connVars, asking, writers, changes, batch,
                   functions>>

\* AddEvent finds no interest yet; reading and errors are asked for afterwards.
ConnectedHandle ==
    /\ conn' = "open"
    /\ Becomes(EnableErrorEvent(EnableReading(ThisEvent, TRUE)))
    /\ UNCHANGED <<filters, space, out, mixed, asking>>

\* EnableWriting on the event of an earlier owner, which DisableAll has emptied: the
\* first time the kernel is asked about the number, whoever owns it now.
StaleChange(who) ==
    IF who \in asking THEN <<>> ELSE <<[Change("Write", "ADD") EXCEPT !.owner = who]>>

\* write of a connection that has closed.  While the number is free it fails (EBADF),
\* and closeEvent finds the state Disconnected.  Later it writes to the owner's peer,
\* or fails there, or keeps bytes in a buffer that is back in the pool, where a
\* connection that took it may have put output of its own: in no one's output here,
\* or in the owner's.
writeClosed(who) ==
    /\ \/ UNCHANGED <<space, out, mixed, asking, changes>>
       \/ /\ conn # "closed" /\ gone # "rst" /\ space
          /\ space' = FALSE
          /\ UNCHANGED <<out, mixed, asking, changes>>
       \/ /\ conn # "closed" /\ gone # "rst"
          /\ space' = FALSE
          /\ changes' = changes \o StaleChange(who)
          /\ asking' = asking \cup {who}
          /\ \/ UNCHANGED <<out, mixed>>
             \/ out = 0 /\ out' \in 1 .. MaxOut /\ mixed' = TRUE
       \/ /\ conn # "closed" /\ out > 0
          /\ out' \in out .. MaxOut /\ mixed' = TRUE
          /\ UNCHANGED <<space, asking, changes>>
    /\ UNCHANGED <<filters, conn, events, oldEvents>>

RunFunction ==
    LET what == Head(functions)[1]
        whose == Head(functions)[2]
    IN  /\ pc = "run" /\ left > 0
        /\ left' = left - 1
        /\ functions' = Tail(functions)
        /\ \/ what = "connected" /\ ConnectedHandle
           \/ /\ what = "close" /\ whose = owner /\ conn = "open"
              /\ closeEvent
              /\ UNCHANGED <<space, out, mixed, asking>>
           \/ /\ what = "close" /\ ~(whose = owner /\ conn = "open")
              /\ UNCHANGED <<filters, space, conn, events, oldEvents, changes, out, mixed,
                             asking>>
           \/ /\ what = "write" /\ whose = owner /\ conn = "open"
              /\ write(ThisEvent)
              /\ UNCHANGED <<mixed, asking>>
           \/ what = "write" /\ ~(whose = owner /\ conn = "open") /\ writeClosed(whose)
        /\ UNCHANGED <<rcv, gone, owner, writers, pc, batch>>

WaitEvent ==
    /\ pc = "run" /\ left = 0
    /\ pc' = "kevent"
    /\ UNCHANGED <<filters, sockVars, connVars, asking, writers, changes, batch, functions,
                   left>>

LoopStep ==
    \/ WaitEvent
    \/ ApplyChange
    \/ Kevent
    \/ HandleEvent
    \/ runAllFunctionInLoop
    \/ RunFunction

Next ==
    \/ LoopStep
    \/ PeerSend \/ PeerEnds \/ PeerDrain
    \/ Accept \/ Close
    \/ WriteInSelfLoop \/ \E who \in Owners : RunInLoop(who)

\* The loop runs, and the peer reads what it is sent.
Spec == Init /\ [][Next]_vars /\ WF_vars(LoopStep) /\ WF_vars(PeerDrain)
------------------------------------------------------------------------------
(* What must hold.                                                         *)

\* Whether the kernel has filter f once the changes on the list are applied.
Pending(f) ==
    \/ \E i \in 1 .. Len(changes) :
          /\ changes[i].filter = f /\ changes[i].op = "ADD"
          /\ \A j \in i + 1 .. Len(changes) : changes[j].filter # f
    \/ f \in filters /\ \A i \in 1 .. Len(changes) : changes[i].filter # f

\* Filter f may be asked for in the name of the number by an earlier owner's event.
AskedByEarlier(f) == f = "Write" /\ asking # {}

\* The kernel's filters and the list of changes together are the interest set of
\* an open connection, however many changes one handler makes and whatever earlier
\* owners of the number have left on the list; but a write of an earlier owner that is
\* run late asks about writing in the name of the number.
InterestApplied ==
    conn = "open" =>
        \A f \in Filters : /\ f \in events => Pending(f)
                           /\ Pending(f) => f \in events \/ AskedByEarlier(f)

\* So the kernel is, or is about to be, asked about writing while output waits (unless
\* an earlier owner has put it into the buffer), about reading at least when none does,
\* and about writing when none does only in the name of an earlier owner.
KernelFollowsBuffer ==
    conn = "open" => /\ out > 0 /\ ~mixed => Pending("Write")
                     /\ out = 0 => Pending("Read")
                     /\ Pending("Write") => out > 0 \/ AskedByEarlier("Write")

\* Data that arrives is read, unless the connection closes, or output of an earlier
\* owner in its buffer keeps reading off.
DataRead == (conn = "open" /\ rcv) ~> (~rcv \/ conn = "closed" \/ mixed)

\* A connection that closes "removes the registration with the loop, deletes
\* fd-event-loop": an error in a change of one connection is not reported to
\* another, which would be closed for it.
ErrorsAreOwn ==
    (pc = "handle" /\ conn = "open" /\ batch # <<>>) => Head(batch).from \in {0, owner}
==============================================================================
