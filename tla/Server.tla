-------------------------------- MODULE Server --------------------------------
(***************************************************************************)
(* The server: the acceptor on the main loop, connections handed to the    *)
(* sub loops in turn, the pool of connections by peer address, the         *)
(* callbacks of the application, and Server.Stop on a goroutine of its own.*)
(*                                                                         *)
(* A loop is reduced to its iterations (EventLoop has the details of the   *)
(* queue), a connection to its life (Connect has its handlers): its peer   *)
(* may finish, with or without reading what waits for it, or reset, and    *)
(* any goroutine, the idle timer's included, may call Close on it.         *)
(* Connections are numbered in the order of arrival.                       *)
(***************************************************************************)
EXTENDS Naturals, Sequences, FiniteSets

CONSTANTS NumLoops,        \* options.NumLoops
          Addrs,           \* addresses of peers
          MaxConns,        \* bound: connections that arrive
          StopAfterStart   \* is Stop called only once every loop is running?

ASSUME ServerAssumption ==
    /\ NumLoops \in Nat \ {0}
    /\ MaxConns \in Nat
    /\ StopAfterStart \in BOOLEAN
    /\ 0 \notin Addrs

Main == 0
SubLoops == 1 .. NumLoops
Loops == {Main} \cup SubLoops
Conns == 1 .. MaxConns
None == 0

Closure(k, c) == [kind |-> k, conn |-> c]
Closures == {Closure("closeAccept", None)}
                \cup {Closure(k, c) : k \in {"connected", "close"}, c \in Conns}

VARIABLES
    \* the connections
    status,        \* "none", "backlog" (in the kernel), "new" (Disconnected, its
                   \* closure appended), "open", "closed"; "refused": New failed;
                   \* "stuck": not registered, descriptor open, nobody's any more
    addr, home,    \* peerAddr and loop of a connection
    gone,          \* the peer, until the connection is closed: "no"; "fin": has
                   \* finished, reading is on; "unread": has finished, reading is
                   \* off for output that waits; "drains": so too, and the output
                   \* can be written; "rst"
    asked,         \* connections on which Close was called
    \* the server
    connectPool,   \* connection pooled under an address, or None
    nextLoopIndex,
    listening,     \* the acceptor's event is registered and reading
    \* the loops
    running, pc, ready,
    functions,     \* closures appended and not yet run, oldest first
    left,          \* how many of them are in the batch being run
    \* Stop
    stop,          \* "idle", "range", "loops", "done"
    stopping,      \* the loop Stop is at
    waiting,       \* it has cleared running and waits for waitDone
    unseen, due,   \* addresses the range over the pool may, and must, still visit
    \* history
    told,          \* callbacks of the application, of each connection
    saw,           \* connections open and in the pool when Stop was called
    crashed        \* the Go runtime found two goroutines in the map

connVars == <<status, addr, home, gone, asked>>
loopVars == <<running, pc, ready, functions, left>>
stopVars == <<stop, stopping, waiting, unseen, due, saw>>
vars == <<connVars, connectPool, nextLoopIndex, listening, loopVars, stopVars, told,
          crashed>>

TypeOK ==
    /\ status \in [Conns -> {"none", "backlog", "new", "open", "closed", "refused",
                             "stuck"}]
    /\ addr \in [Conns -> Addrs \cup {None}]
    /\ home \in [Conns -> Loops]
    /\ gone \in [Conns -> {"no", "fin", "unread", "drains", "rst"}]
    /\ asked \subseteq Conns
    /\ connectPool \in [Addrs -> Conns \cup {None}]
    /\ nextLoopIndex \in SubLoops
    /\ listening \in BOOLEAN
    /\ running \in [Loops -> BOOLEAN]
    /\ pc \in [Loops -> {"new", "handle", "run", "done"}]
    /\ ready \in [Loops -> SUBSET (Conns \cup {None})]
    /\ functions \in [Loops -> Seq(Closures)]
    /\ left \in [Loops -> Nat]
    /\ \A l \in Loops : left[l] <= Len(functions[l])
    /\ stop \in {"idle", "range", "loops", "done"}
    /\ stopping \in Nat /\ waiting \in BOOLEAN
    /\ unseen \subseteq Addrs /\ due \subseteq Addrs
    /\ told \in [Conns -> Seq({"connect", "close"})]
    /\ saw \subseteq Conns
    /\ crashed \in BOOLEAN

\* New, and Start up to the goroutines of the loops.
Init ==
    /\ status = [c \in Conns |-> "none"]
    /\ addr = [c \in Conns |-> None]
    /\ home = [c \in Conns |-> Main]
    /\ gone = [c \in Conns |-> "no"]
    /\ asked = {}
    /\ connectPool = [a \in Addrs |-> None]
    /\ nextLoopIndex = 1
    /\ listening = TRUE
    /\ running = [l \in Loops |-> FALSE]
    /\ pc = [l \in Loops |-> "new"]
    /\ ready = [l \in Loops |-> {}]
    /\ functions = [l \in Loops |-> <<>>]
    /\ left = [l \in Loops |-> 0]
    /\ stop = "idle" /\ stopping = Main /\ waiting = FALSE
    /\ unseen = {} /\ due = {}
    /\ told = [c \in Conns |-> <<>>]
    /\ saw = {}
    /\ crashed = FALSE
------------------------------------------------------------------------------
(* The peers, and goroutines that call Close.                              *)

\* The server's side of c holds the address of its peer, until a reset frees it.
Occupied(c) == status[c] \in {"backlog", "new", "open", "stuck"} /\ gone[c] # "rst"

\* The kernel completes the handshake, even when the acceptor is closed: its
\* duplicated descriptor keeps the listening socket.
PeerConnect(c, a) ==
    /\ status[c] = "none"
    /\ \A d \in Conns : d < c => status[d] # "none"
    /\ \A d \in Conns : addr[d] = a => ~Occupied(d)
    /\ status' = [status EXCEPT ![c] = "backlog"]
    /\ addr' = [addr EXCEPT ![c] = a]
    /\ UNCHANGED <<home, gone, asked, connectPool, nextLoopIndex, listening, loopVars,
                   stopVars, told, crashed>>

\* It finishes (a connection that has stopped reading before is not told apart from one
\* that does so for the report of the end), or resets.
PeerEnds(c) ==
    /\ Occupied(c)
    /\ \/ gone[c] = "no" /\ gone' = [gone EXCEPT ![c] = "fin"]
       \/ gone' = [gone EXCEPT ![c] = "rst"]
    /\ UNCHANGED <<status, addr, home, asked, connectPool, nextLoopIndex, listening,
                   loopVars, stopVars, told, crashed>>

\* A peer that has finished may still read what waits for it, or never do so.
PeerReads(c) ==
    /\ gone[c] = "unread" /\ status[c] = "open"
    /\ gone' = [gone EXCEPT ![c] = "drains"]
    /\ UNCHANGED <<status, addr, home, asked, connectPool, nextLoopIndex, listening,
                   loopVars, stopVars, told, crashed>>

Post(l, closure) == functions' = [functions EXCEPT ![l] = Append(@, closure)]

\* Close, once, by the application or the idle timer on any goroutine: nothing
\* unless open, else a closure, which may find the connection closed.
Close(c) ==
    /\ c \notin asked
    /\ status[c] = "open"
    /\ asked' = asked \cup {c}
    /\ Post(home[c], Closure("close", c))
    /\ UNCHANGED <<status, addr, home, gone, connectPool, nextLoopIndex, listening,
                   running, pc, ready, left, stopVars, told, crashed>>
------------------------------------------------------------------------------
(* The pool, and the callbacks that change it.                             *)

\* Mutant: the pool is not told.
addConnectNever(name, c) == UNCHANGED connectPool

addConnect(name, c) == connectPool' = [connectPool EXCEPT ![name] = c]

\* Mutant: the entry stays.
removeConnectNever(name) == UNCHANGED <<connectPool, due>>

\* Whatever is pooled under the name goes; a range over the pool need not see it.
removeConnect(name) ==
    /\ connectPool' = [connectPool EXCEPT ![name] = None]
    /\ due' = due \ {name}

Callback(c, which) == told' = [told EXCEPT ![c] = Append(@, which)]

\* Mutant: a connection is closed as often as that is asked for.
DisconnectedNever(c) == FALSE

Disconnected(c) == status[c] # "open"

\* The descriptor is closed: nothing of its peer is reported any more.
Forgotten(c) == gone' = [gone EXCEPT ![c] = "no"]

\* Connect.closeEvent with Server.connectCloseEvent.
closeEvent(c) ==
    IF Disconnected(c)
    THEN UNCHANGED <<status, gone, connectPool, due, told>>
    ELSE /\ status' = [status EXCEPT ![c] = "closed"]
         /\ Forgotten(c)
         /\ Callback(c, "close")
         /\ removeConnect(addr[c])

\* Mutant: the index does not wrap.
getOneLoopFromPoolNoWrap == nextLoopIndex + 1

\* The index of the next sub loop.
getOneLoopFromPool == (nextLoopIndex % NumLoops) + 1

\* The main loop's handler: accept(2) may fail; connect.New may fail, which
\* closes the descriptor; else the connection is pooled and its closure appended.
AcceptHandle ==
    /\ pc[Main] = "handle" /\ ready[Main] # {}
    /\ ready' = [ready EXCEPT ![Main] = {}]
    /\ \/ /\ UNCHANGED <<connVars, nextLoopIndex, connectPool, functions>>
       \/ \E c \in Conns :
             /\ status[c] = "backlog"
             /\ \A d \in Conns : d < c => status[d] # "backlog"
             /\ nextLoopIndex' = getOneLoopFromPool
             /\ home' = [home EXCEPT ![c] = nextLoopIndex]
             /\ \/ /\ status' = [status EXCEPT ![c] = "refused"]
                   /\ Forgotten(c)
                   /\ UNCHANGED <<connectPool, functions>>
                \/ /\ status' = [status EXCEPT ![c] = "new"]
                   /\ addConnect(addr[c], c)
                   /\ Post(nextLoopIndex, Closure("connected", c))
                   /\ UNCHANGED gone
             /\ UNCHANGED <<addr, asked>>
    /\ UNCHANGED <<listening, running, pc, left, stopVars, told, crashed>>

\* A sub loop's handler for a connection whose peer has gone: it closes; but while
\* output waits a read only switches reading off, until the output is written.
HandleEvent(l, c) ==
    /\ pc[l] = "handle" /\ c \in ready[l] \cap Conns
    /\ ready' = [ready EXCEPT ![l] = @ \ {c}]
    /\ \/ gone[c] \in {"fin", "rst"} /\ closeEvent(c)
       \/ /\ \/ gone[c] = "fin" /\ gone' = [gone EXCEPT ![c] = "unread"]
             \/ gone[c] = "drains" /\ gone' \in {[gone EXCEPT ![c] = "unread"],
                                                [gone EXCEPT ![c] = "fin"]}
          /\ UNCHANGED <<status, connectPool, due, told>>
    /\ UNCHANGED <<addr, home, asked, nextLoopIndex, listening, running, pc, functions,
                   left, stop, stopping, waiting, unseen, saw, crashed>>

\* The first iteration begins; what its wait may find, the next one finds.
Run(l) ==
    /\ pc[l] = "new"
    /\ pc' = [pc EXCEPT ![l] = "handle"]
    /\ running' = [running EXCEPT ![l] = TRUE]
    /\ UNCHANGED <<connVars, connectPool, nextLoopIndex, listening, ready, functions,
                   left, stopVars, told, crashed>>

\* Mutant: the connections are not asked about.
ReportedMainOnly(l) ==
    {x \in {None} : l = Main /\ listening /\ \E c \in Conns : status[c] = "backlog"}

\* What the multiplexer reports: for the main loop that a connection waits, for a sub
\* loop the connections whose peer has gone, unless all they wait for is to write.
Reported(l) ==
    IF l = Main
    THEN {x \in {None} : listening /\ \E c \in Conns : status[c] = "backlog"}
    ELSE {c \in Conns : /\ home[c] = l /\ status[c] = "open"
                        /\ gone[c] \in {"fin", "drains", "rst"}}

\* The batch has been run, running looked at, and the wait reports events ...
EndOfBatch(l) == pc[l] = "run" /\ left[l] = 0

WaitEvent(l) ==
    /\ EndOfBatch(l) /\ running[l]
    /\ Reported(l) # {}
    /\ ready' = [ready EXCEPT ![l] = Reported(l)]
    /\ pc' = [pc EXCEPT ![l] = "handle"]
    /\ UNCHANGED <<connVars, connectPool, nextLoopIndex, listening, running, functions,
                   left, stopVars, told, crashed>>

\* ... or nothing (it timed out, or was woken, just before).  The closures present
\* when the handlers are through are the next batch.
runAllFunctionInLoop(l) ==
    /\ \/ EndOfBatch(l) /\ running[l]
       \/ pc[l] = "handle" /\ ready[l] = {}
    /\ left' = [left EXCEPT ![l] = Len(functions[l])]
    /\ pc' = [pc EXCEPT ![l] = "run"]
    /\ UNCHANGED <<connVars, connectPool, nextLoopIndex, listening, running, ready,
                   functions, stopVars, told, crashed>>

\* Mutant: the loop leaves only when no closure waits, and is not woken for it.
RunEndsIdle(l) ==
    /\ EndOfBatch(l) /\ ~running[l] /\ functions[l] = <<>>
    /\ pc' = [pc EXCEPT ![l] = "done"]
    /\ UNCHANGED <<connVars, connectPool, nextLoopIndex, listening, running, ready,
                   functions, left, stopVars, told, crashed>>

\* running was cleared: close(waitDone).
RunEnds(l) ==
    /\ EndOfBatch(l) /\ ~running[l]
    /\ pc' = [pc EXCEPT ![l] = "done"]
    /\ UNCHANGED <<connVars, connectPool, nextLoopIndex, listening, running, ready,
                   functions, left, stopVars, told, crashed>>

\* The closure of newConnected.  Registering may fail (c.Close() then does
\* nothing), or what comes after it (c.Close() then appends a closure); either
\* way the pool forgets the connection, and ConnectCallback is called.
ConnectedHandle(l, c) ==
    /\ Callback(c, "connect")
    /\ \/ /\ status' = [status EXCEPT ![c] = "open"]
          /\ functions' = [functions EXCEPT ![l] = Tail(@)]
          /\ UNCHANGED <<connectPool, due>>
       \/ /\ status' = [status EXCEPT ![c] = "stuck"]
          /\ functions' = [functions EXCEPT ![l] = Tail(@)]
          /\ removeConnect(addr[c])
       \/ /\ status' = [status EXCEPT ![c] = "open"]
          /\ functions' = [functions EXCEPT ![l] = Append(Tail(@), Closure("close", c))]
          /\ removeConnect(addr[c])

RunFunction(l) ==
    LET closure == Head(functions[l])
    IN  /\ pc[l] = "run" /\ left[l] > 0
        /\ left' = [left EXCEPT ![l] = @ - 1]
        /\ \/ /\ closure.kind = "connected"
              /\ ConnectedHandle(l, closure.conn)
              /\ UNCHANGED <<gone, listening>>
           \/ /\ closure.kind = "close"
              /\ closeEvent(closure.conn)
              /\ functions' = [functions EXCEPT ![l] = Tail(@)]
              /\ UNCHANGED listening
           \/ /\ closure.kind = "closeAccept"
              /\ listening' = FALSE
              /\ functions' = [functions EXCEPT ![l] = Tail(@)]
              /\ UNCHANGED <<status, gone, connectPool, due, told>>
        /\ UNCHANGED <<addr, home, asked, nextLoopIndex, running, pc, ready, stop,
                       stopping, waiting, unseen, saw, crashed>>

LoopStep(l) ==
    \/ Run(l)
    \/ WaitEvent(l)
    \/ l = Main /\ AcceptHandle
    \/ \E c \in Conns : HandleEvent(l, c)
    \/ runAllFunctionInLoop(l)
    \/ RunFunction(l)
    \/ RunEnds(l)
------------------------------------------------------------------------------
(* Stop.                                                                   *)

Pooled == {a \in Addrs : connectPool[a] # None}

\* tcpAccept.Close appends a closure; the range over the pool begins.
Stop ==
    /\ stop = "idle"
    /\ StopAfterStart => \A l \in Loops : pc[l] # "new"
    /\ stop' = "range"
    /\ Post(Main, Closure("closeAccept", None))
    /\ unseen' = Addrs /\ due' = Pooled
    /\ saw' = {c \in Conns : status[c] = "open" /\ connectPool[addr[c]] = c}
    /\ UNCHANGED <<connVars, connectPool, nextLoopIndex, listening, running, pc, ready,
                   left, stopping, waiting, told, crashed>>

\* v.Close() of one connection of the range: ErrConnectionClosed unless open.
StopVisit(a) ==
    /\ stop = "range"
    /\ a \in unseen \cap Pooled
    /\ unseen' = unseen \ {a} /\ due' = due \ {a}
    /\ LET c == connectPool[a]
       IN  IF status[c] = "open" THEN Post(home[c], Closure("close", c))
                                 ELSE UNCHANGED functions
    /\ UNCHANGED <<connVars, connectPool, nextLoopIndex, listening, running, pc, ready,
                   left, stop, stopping, waiting, saw, told, crashed>>

\* Mutant: the range is left at the first ErrConnectionClosed.
RangeOverEarly == due = {} \/ \E a \in due : Disconnected(connectPool[a])

\* Entries added during the range may be left out.
RangeOver == due = {}

StopRangeEnd ==
    /\ stop = "range"
    /\ RangeOver
    /\ stop' = "loops"
    /\ unseen' = {}
    /\ UNCHANGED <<connVars, connectPool, nextLoopIndex, listening, loopVars, stopping,
                   waiting, due, saw, told, crashed>>

NextLoop ==
    /\ stopping' = stopping + 1
    /\ waiting' = FALSE
    /\ stop' = IF stopping = NumLoops THEN "done" ELSE "loops"

\* EventLoop.Stop of the main loop, then of each sub loop: ErrClosed when the
\* loop is not running (yet), else running is cleared ...
StopLoop ==
    /\ stop = "loops" /\ ~waiting
    /\ IF running[stopping]
       THEN /\ running' = [running EXCEPT ![stopping] = FALSE]
            /\ waiting' = TRUE
            /\ UNCHANGED <<stop, stopping>>
       ELSE NextLoop /\ UNCHANGED running
    /\ UNCHANGED <<connVars, connectPool, nextLoopIndex, listening, pc, ready, functions,
                   left, unseen, due, saw, told, crashed>>

\* ... and the loop's end waited for.
StopLoopDone ==
    /\ stop = "loops" /\ waiting /\ pc[stopping] = "done"
    /\ NextLoop
    /\ UNCHANGED <<connVars, connectPool, nextLoopIndex, listening, loopVars, unseen,
                   due, saw, told, crashed>>

StopStep == (\E a \in Addrs : StopVisit(a)) \/ StopRangeEnd \/ StopLoop \/ StopLoopDone
------------------------------------------------------------------------------
(* connectPool is a map without a lock.  Two goroutines that are both about *)
(* to use it, one of them to write, may do so one after the other, or at   *)
(* once: then the Go runtime ends the process.                             *)

StopRanges == stop = "range"

InMap(l) ==
    \/ pc[l] = "handle" /\ ready[l] # {}
    \/ /\ pc[l] = "run" /\ left[l] > 0
       /\ LET closure == Head(functions[l])
          IN  \/ closure.kind = "connected"
              \/ closure.kind = "close" /\ status[closure.conn] = "open"

MapRace ==
    /\ \/ \E l, m \in Loops : l # m /\ InMap(l) /\ InMap(m)
       \/ \E l \in Loops : InMap(l) /\ StopRanges
    /\ crashed' = TRUE
    /\ UNCHANGED <<connVars, connectPool, nextLoopIndex, listening, loopVars, stopVars,
                   told>>

Next ==
    /\ ~crashed
    /\ \/ \E c \in Conns : \/ \E a \in Addrs : PeerConnect(c, a)
                           \/ PeerEnds(c)
                           \/ PeerReads(c)
                           \/ Close(c)
       \/ \E l \in Loops : LoopStep(l)
       \/ Stop
       \/ StopStep
       \/ MapRace

\* The goroutines of the loops and of Stop run, unless the process has ended.
Fairness ==
    /\ \A l \in Loops : WF_vars(~crashed /\ LoopStep(l))
    /\ WF_vars(~crashed /\ StopStep)

Spec == Init /\ [][Next]_vars
FairSpec == Spec /\ Fairness
------------------------------------------------------------------------------
(* What must hold.                                                         *)

\* A connection found in the pool can be used: it is not closed, and its peer
\* has the address it is pooled under, whatever else had that address before.
PoolHoldsOpen ==
    \A a \in Pooled : /\ status[connectPool[a]] \in {"new", "open"}
                      /\ addr[connectPool[a]] = a

CloseQueued(c) ==
    \E i \in 1 .. Len(functions[home[c]]) :
        functions[home[c]][i] = Closure("close", c)

HasNamesake(c) == \E d \in Conns \ {c} : addr[d] = addr[c]

\* A live connection is missing in the pool (so that Stop does not reach it)
\* only when its registration failed and it is about to close, or when another
\* connection came from the same address: then the later one replaced it, or the
\* late removal of the earlier one took it out.
MissingOnlyForNamesake ==
    \A c \in Conns :
        (status[c] \in {"new", "open"} /\ connectPool[addr[c]] # c) =>
            CloseQueued(c) \/ HasNamesake(c)

\* When Stop comes to the loops, every connection that was open and in the pool
\* when it was called is closed or has a close in its loop's queue, however the
\* range interleaves with removals, unless a namesake took it out of the pool.
StopAsksAll ==
    stop \in {"loops", "done"} =>
        \A c \in saw : status[c] = "closed" \/ CloseQueued(c) \/ HasNamesake(c)

\* The application hears of each connection as Session says, whichever of the
\* peer, Close, Stop and a failed registration ends it, in any order and twice.
Phase(c) ==
    CASE told[c] = <<>> -> "unknown"
      [] told[c] = <<"connect">> -> "announced"
      [] told[c] = <<"connect", "close">> -> "ended"
      [] OTHER -> "wrong"
App == INSTANCE Session WITH phase <- [c \in Conns |-> Phase(c)]
SessionSpec == App!Spec

\* A connection whose peer has reset is closed in the end, and one whose peer has
\* finished is closed or is left with reading off for output that waits (for ever, if
\* the peer does not read); so is one whose peer reads that output after all.  Unless
\* the server is stopped, or the process ends.
GoneIsClosed ==
    \A c \in Conns : (status[c] = "open" /\ gone[c] \in {"fin", "drains", "rst"})
                        ~> (\/ status[c] = "closed"
                            \/ gone[c] = "unread"
                            \/ stop # "idle" \/ crashed)

\* Stop returns: it waits for each loop in turn, and each loop sees that running
\* was cleared, whatever is in its queue.
StopReturns == stop # "idle" ~> (stop = "done" \/ crashed)
------------------------------------------------------------------------------
(* What the comments of the code promise and the code does not keep.       *)

\* Stop: "first close the acceptor and the connections, then the loops".
StopClosesConnections ==
    stop = "done" => \A c \in Conns : status[c] \notin {"new", "open", "stuck"}
==============================================================================
