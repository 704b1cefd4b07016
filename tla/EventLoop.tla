------------------------------ MODULE EventLoop ------------------------------
(***************************************************************************)
(* One event loop of net/event_loop on the epoll multiplexer: the loop's   *)
(* goroutine (EventLoop.Run), the closures other goroutines hand to it     *)
(* (RunInLoop), the eventfd that wakes it, and Stop.                       *)
(*                                                                         *)
(* A closure is named by its position in the order of the appends to       *)
(* this.functions.  The I/O handlers and the closures are abstracted to    *)
(* what they can do to the loop itself: call RunInLoop on it, any number   *)
(* of times, and return.                                                   *)
(***************************************************************************)
EXTENDS Naturals, Sequences, FiniteSets

CONSTANTS Callers,   \* the goroutines, other than the loop's, that use the loop
          Loop,      \* the loop's own goroutine
          NoOne,     \* holder of a free mutex
          Fds,       \* descriptors registered with the loop
          Wake,      \* wakeEventFd
          MaxPosts   \* bound: closures appended in a behaviour

ASSUME LoopAssumption ==
    /\ Loop \notin Callers
    /\ NoOne \notin Callers \cup {Loop}
    /\ Wake \notin Fds
    /\ MaxPosts \in Nat

VARIABLES
    functions,      \* this.functions: closures appended and not yet taken
    mutex,          \* holder of this.mutex
    running,        \* this.running
    waitDone,       \* this.waitDone has been closed
    multi,          \* epoll descriptor and wakeEventFd: "open" or "closed"
    wakeCount,      \* the counter of the eventfd wakeEventFd
    pc,             \* where the loop's goroutine is
    ready,          \* entries of the current EpollWait batch not yet handled
    functionsTemp,  \* closures taken by runAllFunctionInLoop, not yet run
    stop,           \* progress of each caller's call of Stop
    posted,         \* history: number of closures appended
    ran             \* history: closures run, in order

loopVars == <<running, waitDone, pc, ready>>
queueVars == <<functions, functionsTemp, posted, ran>>
vars == <<functions, mutex, running, waitDone, multi, wakeCount, pc, ready,
          functionsTemp, stop, posted, ran>>

TypeOK ==
    /\ functions \in Seq(Nat)
    /\ mutex \in Callers \cup {Loop, NoOne}
    /\ running \in BOOLEAN
    /\ waitDone \in BOOLEAN
    /\ multi \in {"open", "closed"}
    /\ wakeCount \in Nat
    /\ pc \in {"new", "wait", "dispatch", "run", "done"}
    /\ ready \in SUBSET (Fds \cup {Wake})
    /\ functionsTemp \in Seq(Nat)
    /\ stop \in [Callers -> {"idle", "set", "wait", "stopped", "ErrClosed"}]
    /\ posted \in Nat
    /\ ran \in Seq(Nat)
    /\ pc # "dispatch" => ready = {}
    /\ pc # "run" => functionsTemp = <<>>
    /\ waitDone <=> pc = "done"

\* New: the loop exists, its goroutine has not started (Server.New, Server.Start).
Init ==
    /\ functions = <<>>
    /\ mutex = NoOne
    /\ running = FALSE
    /\ waitDone = FALSE
    /\ multi = "open"
    /\ wakeCount = 0
    /\ pc = "new"
    /\ ready = {}
    /\ functionsTemp = <<>>
    /\ stop = [g \in Callers |-> "idle"]
    /\ posted = 0
    /\ ran = <<>>
------------------------------------------------------------------------------
(* RunInLoop, by any goroutine.                                            *)

\* The goroutine is running code that may call RunInLoop: a caller outside
\* Stop, the loop inside a handler or a closure.
MayPost(g) ==
    \/ g \in Callers /\ stop[g] \notin {"set", "wait"}
    \/ /\ g = Loop
       /\ \/ pc = "dispatch" /\ ready \cap Fds # {}
          \/ pc = "run" /\ functionsTemp # <<>>

\* Mutant: the closure is pushed in front of the queue.
PushFront(fun) == <<fun>> \o functions

\* this.functions = append(this.functions, fun)
Pushed(fun) == Append(functions, fun)

\* RunInLoop locks the mutex and appends.
RunInLoop(g) ==
    /\ MayPost(g)
    /\ mutex = NoOne
    /\ posted < MaxPosts
    /\ mutex' = g
    /\ functions' = Pushed(posted + 1)
    /\ posted' = posted + 1
    /\ UNCHANGED <<loopVars, multi, wakeCount, functionsTemp, stop, ran>>

\* Mutant: the eventfd is not written.
NotWritten == wakeCount
Written == IF multi = "open" THEN wakeCount + 1 ELSE wakeCount

\* The rest of RunInLoop: the eventfd is written with the mutex held (the
\* write fails, unnoticed, when the descriptor is closed), then the deferred
\* unlock runs.
wake(g) ==
    /\ g # NoOne
    /\ mutex = g
    /\ wakeCount' = Written
    /\ mutex' = NoOne
    /\ UNCHANGED <<loopVars, queueVars, multi, stop>>
------------------------------------------------------------------------------
(* Run, by the loop's goroutine.                                           *)

Run ==
    /\ pc = "new"
    /\ running' = TRUE
    /\ pc' = "wait"
    /\ UNCHANGED <<functions, mutex, waitDone, multi, wakeCount, ready,
                   functionsTemp, stop, posted, ran>>

\* Mutant: the wake descriptor is handled whether or not it was reported.
ReportedAlwaysWake(batch) == Wake \in batch
Reported(batch) == Wake \in batch => wakeCount > 0

\* EpollWait returns a batch of ready descriptors: an empty one after
\* PollTimeMs, on EINTR or on an error, any other one when its descriptors are
\* ready.  A full batch (len(waitEvents)) may leave the wake descriptor out.
WaitEvent ==
    /\ pc = "wait"
    /\ \E batch \in SUBSET (Fds \cup {Wake}) :
          /\ Reported(batch)
          /\ ready' = batch
    /\ pc' = "dispatch"
    /\ UNCHANGED <<queueVars, mutex, running, waitDone, multi, wakeCount, stop>>

\* Reading an eventfd resets its counter.  The descriptor is blocking: with a
\* zero counter the read would not return.
wakeHandlerRead ==
    /\ pc = "dispatch"
    /\ mutex # Loop
    /\ Wake \in ready
    /\ wakeCount > 0
    /\ wakeCount' = 0
    /\ ready' = ready \ {Wake}
    /\ UNCHANGED <<queueVars, mutex, running, waitDone, multi, pc, stop>>

\* The handler of one ready descriptor returns.
HandleEvent(fd) ==
    /\ pc = "dispatch"
    /\ mutex # Loop
    /\ fd \in ready \cap Fds
    /\ ready' = ready \ {fd}
    /\ UNCHANGED <<queueVars, mutex, running, waitDone, multi, wakeCount, pc,
                   stop>>

\* Mutant: the slice is copied and this.functions is not reset.
NotReset == functions
Reset == <<>>

\* The critical section of runAllFunctionInLoop.
runAllFunctionInLoop ==
    /\ pc = "dispatch"
    /\ ready = {}
    /\ mutex = NoOne
    /\ functionsTemp' = functions
    /\ functions' = Reset
    /\ pc' = "run"
    /\ UNCHANGED <<posted, ran, mutex, running, waitDone, multi, wakeCount,
                   ready, stop>>

\* functionsTemp[i]() returns.
RunFunction ==
    /\ pc = "run"
    /\ mutex # Loop
    /\ functionsTemp # <<>>
    /\ ran' = Append(ran, Head(functionsTemp))
    /\ functionsTemp' = Tail(functionsTemp)
    /\ UNCHANGED <<functions, posted, loopVars, mutex, multi, wakeCount, stop>>

\* Mutant: the loop never looks at this.running again.
NeverStops == TRUE
GoesOn == running

\* Mutant: running is looked at after every closure, not after the batch.
AfterEachFunction == GoesOn => functionsTemp = <<>>

\* Mutant: the last closure of the batch may be left out.
AllButOne == Len(functionsTemp) <= 1
BatchOver == functionsTemp = <<>>

\* The end of an iteration of Run: leave when running was cleared.
CheckRunning ==
    /\ pc = "run"
    /\ mutex # Loop
    /\ BatchOver
    /\ pc' = IF GoesOn THEN "wait" ELSE "done"
    /\ waitDone' = ~GoesOn
    /\ UNCHANGED <<queueVars, mutex, running, multi, wakeCount, ready, stop>>

LoopStep ==
    \/ Run
    \/ WaitEvent
    \/ wakeHandlerRead
    \/ \E fd \in Fds : HandleEvent(fd)
    \/ runAllFunctionInLoop
    \/ RunFunction
    \/ CheckRunning
------------------------------------------------------------------------------
(* Stop, by a caller: read running, clear it, wait for the loop, close.    *)

StopIdle(g) == stop[g] \notin {"set", "wait"} /\ mutex # g

StopErrClosed(g) ==
    /\ StopIdle(g)
    /\ ~running
    /\ stop' = [stop EXCEPT ![g] = "ErrClosed"]
    /\ UNCHANGED <<loopVars, queueVars, mutex, multi, wakeCount>>

StopGet(g) ==
    /\ StopIdle(g)
    /\ running
    /\ stop' = [stop EXCEPT ![g] = "set"]
    /\ UNCHANGED <<loopVars, queueVars, mutex, multi, wakeCount>>

StopSet(g) ==
    /\ stop[g] = "set"
    /\ running' = FALSE
    /\ stop' = [stop EXCEPT ![g] = "wait"]
    /\ UNCHANGED <<queueVars, mutex, waitDone, multi, wakeCount, pc, ready>>

\* Mutant: Stop does not wait for the loop.
LoopNeedNotEnd == TRUE
LoopHasEnded == waitDone

\* <-this.waitDone, then EventCtrl.Stop: both descriptors are closed.
StopClose(g) ==
    /\ stop[g] = "wait"
    /\ LoopHasEnded
    /\ multi' = "closed"
    /\ stop' = [stop EXCEPT ![g] = "stopped"]
    /\ UNCHANGED <<loopVars, queueVars, mutex, wakeCount>>

CallerStep(g) ==
    \/ StopErrClosed(g)
    \/ StopGet(g)
    \/ StopSet(g)
    \/ StopClose(g)

Next ==
    \/ LoopStep
    \/ \E g \in Callers \cup {Loop} : RunInLoop(g) \/ wake(g)
    \/ \E g \in Callers : CallerStep(g)

\* The Go scheduler runs every goroutine that can run.  EpollWait has a timeout
\* and so always returns; sync.Mutex hands a contended lock to a waiter that
\* has starved, which is strong fairness for the loop's critical section.
\* Nothing obliges a caller to begin a call.
Fairness ==
    /\ WF_vars(LoopStep)
    /\ SF_vars(runAllFunctionInLoop)
    /\ \A g \in Callers \cup {Loop} : WF_vars(wake(g))
    /\ \A g \in Callers : WF_vars(StopSet(g)) /\ WF_vars(StopClose(g))

Spec == Init /\ [][Next]_vars
FairSpec == Spec /\ Fairness
------------------------------------------------------------------------------
(* What must hold.                                                         *)

\* No lost wakeup: when the loop is about to block in EpollWait while closures
\* are queued, and no RunInLoop is half way, the wake descriptor is readable,
\* so that EpollWait returns at once instead of after PollTimeMs.
NoLostWakeup ==
    (pc = "wait" /\ functions # <<>> /\ mutex = NoOne) => wakeCount > 0

\* The wake descriptor is blocking, so whenever the batch says it is readable
\* its counter must still be positive when wakeHandlerRead gets to it: otherwise
\* the read would block the loop and every connection on it.
WakeReadNeverBlocks == Wake \in ready => wakeCount > 0

\* The closures that were run, the rest of the batch being run and the queue
\* are, in this order, exactly the closures that were appended: RunInLoop
\* closures are neither lost nor repeated nor reordered between the queue and
\* the loop, whoever appends while the loop takes and runs them.
RunsInPostingOrder ==
    ran \o functionsTemp \o functions = [k \in 1 .. posted |-> k]

\* The descriptors of the multiplexer are closed by Stop only after the loop has
\* left: the loop never waits on, and RunInLoop never wakes, a descriptor number
\* that may already belong to something else while the loop is alive.
PollerOpenWhileLoopRuns == pc # "done" => multi = "open"

\* Some call of Stop has cleared running, which Run had set.
StopRequested == pc # "new" /\ ~running

\* A closure handed to RunInLoop is run in the end, unless Stop is called.
PostedRuns ==
    \A k \in 1 .. MaxPosts : posted >= k ~> (Len(ran) >= k \/ StopRequested)

\* Stop returns: the loop sees that running was cleared, without being woken.
StopReturns ==
    \A g \in Callers : stop[g] = "wait" ~> stop[g] = "stopped"

\* The loop implements the mailbox: closures run in the order of RunInLoop, at
\* most once, and none after waitDone is closed.
MB == INSTANCE Mailbox WITH pending <- functionsTemp \o functions,
                            executed <- ran,
                            halted <- waitDone
MailboxSpec == MB!Spec
==============================================================================
