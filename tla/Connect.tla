------------------------------- MODULE Connect -------------------------------
(***************************************************************************)
(* One connection of net/connect on its event loop (epoll): registration,  *)
(* the read, write, error and close handlers, the output buffer and the    *)
(* interest set that follows it, closing, and the calls other goroutines   *)
(* make (WriteInSelfLoop, Close, ShutdownWrite).                           *)
(*                                                                         *)
(* Input is counted in frames: how bytes become frames is FrameStream's    *)
(* subject.  Every write of the connection is ReplyLen bytes long, and     *)
(* bytes are numbered in the order of the calls of write, so that a byte   *)
(* lost, repeated or moved shows.  Of the kernel's socket the model keeps  *)
(* what epoll_wait, read and write report.  One loop action makes at most  *)
(* one read or write, so the peer may act between any two of them.         *)
(***************************************************************************)
EXTENDS Naturals, Sequences, FiniteSets

CONSTANTS Users,            \* goroutines, other than the loop's, that use the connection
          ReplyLen,         \* bytes of one write
          SndCap,           \* bytes the kernel's send buffer holds
          ReadMax,          \* frames one read returns at most (len(this.buf))
          MaxFrames,        \* bound: frames the peer sends
          MaxCalls,         \* bound: calls of WriteInSelfLoop, Close, ShutdownWrite
          OffLoopShutdown   \* may the other goroutines call ShutdownWrite?

ASSUME ConnectAssumption ==
    /\ ReplyLen \in Nat \ {0}
    /\ SndCap \in Nat \ {0}
    /\ ReadMax \in Nat \ {0}
    /\ MaxFrames \in Nat
    /\ MaxCalls \in Nat
    /\ OffLoopShutdown \in BOOLEAN

VARIABLES
    \* the connection
    state,       \* this.state
    events,      \* this.event.events, which epoll_ctl passes to the kernel
    registered,  \* the event is in eventPool and in epoll
    fd,          \* "open", or "closed": the number may belong to something else
    released,    \* how many times the descriptor and the buffers were released
    reopened,    \* history: how many ShutdownWrites overwrote Disconnected
    outBuffer,   \* this.outBuffer
    temp,        \* frames of the last read still to be decoded
    \* its loop
    pc,          \* "run", "handle", "frames", "writeEnd", "take"
    revents,     \* what the multiplexer reported for the descriptor
    functions,   \* closures of the loop that belong to this connection
    left,        \* closures of the batch being run that are still to run
    \* the kernel's socket
    recvQ, fin, rst, wrShut, sndQ,
    \* the other goroutines
    user,        \* progress of each goroutine's call
    calls,       \* calls made so far
    \* history
    produced,       \* bytes handed to write
    wire,           \* bytes the kernel accepted, in order
    sent, handled,  \* frames the peer sent, frames given to messageCallback
    closeAsked,     \* some closure that closes the connection was appended
    connectFailed,  \* ConnectedHandle returned an error
    touched         \* the descriptor or the buffers were used after their release

connVars == <<state, events, registered, fd, released, reopened>>
dataVars == <<outBuffer, produced, wire, sndQ>>
peerVars == <<fin, rst, sent>>
userVars == <<user, calls>>
flagVars == <<closeAsked, connectFailed>>
vars == <<connVars, dataVars, temp, pc, revents, functions, left, recvQ, wrShut,
          peerVars, userVars, handled, flagVars, touched>>

Closures == {"connected", "close", "write"}

TypeOK ==
    /\ state \in {"Disconnected", "Connected", "Disconnecting"}
    /\ events \in SUBSET {"Read", "Write", "Err"}
    /\ registered \in BOOLEAN
    /\ fd \in {"open", "closed"}
    /\ released \in Nat /\ reopened \in Nat
    /\ outBuffer \in Seq(Nat)
    /\ temp \in Nat
    /\ pc \in {"run", "handle", "frames", "writeEnd", "take"}
    /\ revents \in SUBSET {"Close", "Err", "Write", "Read"}
    /\ functions \in Seq(Closures)
    /\ left \in 0 .. Len(functions)
    /\ recvQ \in Nat /\ sndQ \in 0 .. SndCap
    /\ fin \in BOOLEAN /\ rst \in BOOLEAN /\ wrShut \in BOOLEAN
    /\ user \in [Users -> {"idle", "write", "close", "set", "shutdown"}]
    /\ calls \in Nat
    /\ produced \in Nat
    /\ wire \in Seq(Nat)
    /\ sent \in Nat /\ handled \in Nat
    /\ closeAsked \in BOOLEAN /\ connectFailed \in BOOLEAN /\ touched \in BOOLEAN
    /\ pc # "run" => left = 0
    /\ pc # "frames" => temp = 0
    /\ registered => fd = "open"

\* newConnected: the connection is new and its ConnectedHandle closure appended.
Init ==
    /\ state = "Disconnected"
    /\ events = {}
    /\ registered = FALSE
    /\ fd = "open"
    /\ released = 0 /\ reopened = 0
    /\ outBuffer = <<>>
    /\ temp = 0
    /\ pc = "run"
    /\ revents = {}
    /\ functions = <<"connected">>
    /\ left = 0
    /\ recvQ = 0 /\ sndQ = 0
    /\ fin = FALSE /\ rst = FALSE /\ wrShut = FALSE
    /\ user = [g \in Users |-> "idle"]
    /\ calls = 0
    /\ produced = 0
    /\ wire = <<>>
    /\ sent = 0 /\ handled = 0
    /\ closeAsked = FALSE /\ connectFailed = FALSE /\ touched = FALSE
------------------------------------------------------------------------------
(* The kernel's socket, as seen through its system calls.                  *)

Space == SndCap - sndQ

\* write(2) fails: EBADF, ECONNRESET or EPIPE.
SendFails == fd = "closed" \/ rst \/ wrShut

\* What write(2) of len bytes may take; 0 is EAGAIN.
Accepts(len) ==
    IF Space = 0 THEN {0} ELSE {n \in 1 .. len : n <= Space}

\* write(2) takes the first n bytes of data.
Transmit(data, n) ==
    /\ wire' = wire \o SubSeq(data, 1, n)
    /\ sndQ' = sndQ + n

\* What epoll reports.  Error and hang-up are reported whatever is asked for.
In == "Read" \in events /\ (recvQ > 0 \/ fin \/ rst)
Out == "Write" \in events /\ (Space > 0 \/ rst \/ wrShut)
Hup == rst \/ (fin /\ wrShut)

PeerSend ==
    /\ fd = "open" /\ ~fin /\ ~rst
    /\ sent < MaxFrames
    /\ sent' = sent + 1
    /\ recvQ' = recvQ + 1
    /\ UNCHANGED <<connVars, dataVars, temp, pc, revents, functions, left, fin,
                   rst, wrShut, userVars, handled, flagVars, touched>>

PeerFin ==
    /\ fd = "open" /\ ~fin /\ ~rst
    /\ fin' = TRUE
    /\ UNCHANGED <<connVars, dataVars, temp, pc, revents, functions, left, recvQ,
                   rst, sent, wrShut, userVars, handled, flagVars, touched>>

PeerReset ==
    /\ fd = "open" /\ ~rst
    /\ rst' = TRUE
    /\ UNCHANGED <<connVars, dataVars, temp, pc, revents, functions, left, recvQ,
                   fin, sent, wrShut, userVars, handled, flagVars, touched>>

\* The peer takes bytes out of the send buffer.
PeerDrain ==
    /\ sndQ > 0 /\ ~rst
    /\ \E n \in 1 .. sndQ : sndQ' = sndQ - n
    /\ UNCHANGED <<connVars, outBuffer, produced, wire, temp, pc, revents,
                   functions, left, recvQ, wrShut, peerVars, userVars, handled,
                   flagVars, touched>>
------------------------------------------------------------------------------
(* The event of the connection: its interest set, which epoll_ctl passes   *)
(* on, and its registration.                                               *)

EnableReading(asked, isEnable) ==
    IF isEnable THEN asked \cup {"Read"} ELSE asked \ {"Read"}
EnableWriting(asked, isEnable) ==
    IF isEnable THEN asked \cup {"Write"} ELSE asked \ {"Write"}
EnableErrorEvent(asked) == asked \cup {"Err"}
DisableAll == {}

Register == registered' = TRUE

\* Mutant: the event stays in the pool.
UnRegisterNever == UNCHANGED registered
UnRegister == registered' = FALSE
------------------------------------------------------------------------------
(* closeEvent and write, called from handlers and closures.                *)

\* Mutants: the state is not looked at; a half-closed connection counts as closed.
IsClosedNever == FALSE
IsClosedUnlessConnected == state # "Connected"
IsClosed == state = "Disconnected"

\* DisableAll, UnRegister, the callback that forgets the connection in the
\* server's pool, close(2), and both buffers back to their pool.
closeEvent ==
    IF IsClosed
    THEN UNCHANGED connVars
    ELSE /\ state' = "Disconnected"
         /\ events' = DisableAll
         /\ UnRegister
         /\ fd' = "closed"
         /\ released' = released + 1
         /\ UNCHANGED reopened

NextBytes == [i \in 1 .. ReplyLen |-> produced + i]

\* Mutant: the socket is tried although output is waiting.
MustQueueNever == FALSE
MustQueue == outBuffer # <<>>

\* Mutant: EPOLLOUT is asked for after EAGAIN, not after a short write.
MustEnableEagain(n) == n = 0
MustEnable(n) == n < ReplyLen

\* Bytes already waiting go first; else the socket is tried and the rest kept.
\* On a released descriptor the write fails, or goes to whatever has its number.
write ==
    /\ produced' = produced + ReplyLen
    /\ touched' = (touched \/ fd = "closed")
    /\ \/ /\ MustQueue
          /\ outBuffer' = outBuffer \o NextBytes
          /\ UNCHANGED <<connVars, wire, sndQ>>
       \/ /\ ~MustQueue /\ ~SendFails
          /\ \E n \in Accepts(ReplyLen) :
                /\ Transmit(NextBytes, n)
                /\ outBuffer' = SubSeq(NextBytes, n + 1, ReplyLen)
                /\ events' = IF MustEnable(n) THEN EnableWriting(events, TRUE) ELSE events
          /\ UNCHANGED <<state, registered, fd, released, reopened>>
       \/ /\ ~MustQueue /\ SendFails
          /\ closeEvent
          /\ UNCHANGED <<outBuffer, wire, sndQ>>
       \/ /\ ~MustQueue /\ fd = "closed"
          /\ UNCHANGED <<connVars, outBuffer, wire, sndQ>>
------------------------------------------------------------------------------
(* One iteration of the loop: wait, the handler of the event, closures.    *)

\* The translation of what epoll reports.
rEvents ==
    {e \in {"Close", "Err", "Write", "Read"} :
        \/ e = "Close" /\ Hup /\ ~In
        \/ e = "Err" /\ rst
        \/ e = "Write" /\ Out
        \/ e = "Read" /\ In}

WaitEvent ==
    /\ pc = "run" /\ left = 0
    /\ revents' = IF registered THEN rEvents ELSE {}
    /\ pc' = "handle"
    /\ UNCHANGED <<connVars, dataVars, temp, functions, left, recvQ, wrShut,
                   peerVars, userVars, handled, flagVars, touched>>

\* HandleEvent runs one handler: close before error before write before read.
Handler ==
    CASE revents \cap {"Close", "Err"} # {} -> "closeEvent"
      [] revents \cap {"Close", "Err"} = {} /\ "Write" \in revents -> "writeEvent"
      [] revents = {"Read"} -> "readEvent"
      [] OTHER -> "none"

NoHandler ==
    /\ pc = "handle" /\ Handler = "none"
    /\ pc' = "take"
    /\ UNCHANGED <<connVars, dataVars, temp, revents, functions, left, recvQ,
                   wrShut, peerVars, userVars, handled, flagVars, touched>>

errEvent ==
    /\ pc = "handle" /\ Handler = "closeEvent"
    /\ closeEvent
    /\ pc' = "take"
    /\ revents' = {}
    /\ UNCHANGED <<dataVars, temp, functions, left, recvQ, wrShut, peerVars,
                   userVars, handled, flagVars, touched>>

\* Mutant: reading goes on while output is waiting.
MustPauseNever == FALSE
MustPause == outBuffer # <<>>

\* Mutant: the end of the stream is noticed before the data is read.
AtEndFinFirst == fin \/ recvQ = 0
AtEnd == recvQ = 0

\* While output is waiting reading is switched off; else one read: the end of
\* the stream or an error closes, data goes to the decoding loop.  The loop is
\* the only reader, so a readable descriptor does not answer EAGAIN.
readEvent ==
    /\ pc = "handle" /\ Handler = "readEvent"
    /\ revents' = {}
    /\ \/ /\ MustPause
          /\ events' = EnableReading(events, FALSE)
          /\ pc' = "take"
          /\ UNCHANGED <<state, registered, fd, released, reopened, temp, recvQ>>
       \/ /\ ~MustPause /\ AtEnd
          /\ closeEvent
          /\ pc' = "take"
          /\ UNCHANGED <<temp, recvQ>>
       \/ /\ ~MustPause
          /\ \E n \in 1 .. recvQ : n <= ReadMax /\ temp' = n /\ recvQ' = recvQ - n
          /\ pc' = "frames"
          /\ UNCHANGED connVars
    /\ UNCHANGED <<dataVars, functions, left, wrShut, peerVars, userVars, handled,
                   flagVars, touched>>

\* One turn of the decoding loop of readEvent: messageCallback returns with or
\* without a reply, which is encoded and written.  The loop goes on, and the rest
\* goes to inBuffer, even when the write closed the connection.
messageCallback ==
    /\ pc = "frames" /\ temp > 0
    /\ temp' = temp - 1
    /\ handled' = handled + 1
    /\ pc' = IF temp = 1 THEN "take" ELSE "frames"
    /\ \/ write
       \/ /\ touched' = (touched \/ fd = "closed")
          /\ UNCHANGED <<connVars, dataVars>>
    /\ UNCHANGED <<revents, functions, left, recvQ, wrShut, peerVars, userVars,
                   flagVars>>

\* Mutant: reading stays off when the output has been written.
FlushedNoRead(asked) == EnableWriting(asked, FALSE)

\* The output has been written: back from writing to reading.
Flushed(asked) == EnableReading(EnableWriting(asked, FALSE), TRUE)

\* One write(2) of writeEvent, of the first len bytes waiting; it is followed by
\* another when more says so and the kernel took them all.
WriteSome(len, more) ==
    /\ \/ /\ SendFails
          /\ closeEvent
          /\ pc' = "take"
          /\ UNCHANGED <<outBuffer, wire, sndQ>>
       \/ /\ ~SendFails
          /\ \E n \in Accepts(len) :
                /\ Transmit(outBuffer, n)
                /\ outBuffer' = SubSeq(outBuffer, n + 1, Len(outBuffer))
                /\ events' = IF n = Len(outBuffer) THEN Flushed(events) ELSE events
                /\ pc' = IF n = len /\ more THEN "writeEnd" ELSE "take"
          /\ UNCHANGED <<state, registered, fd, released, reopened>>
    /\ revents' = {}
    /\ UNCHANGED <<produced, temp, functions, left, recvQ, wrShut, peerVars,
                   userVars, handled, flagVars, touched>>

\* PeekAll gives the bytes up to the end of the ring, then those that wrapped.
writeEvent ==
    /\ pc = "handle" /\ Handler = "writeEvent"
    /\ \E first \in 1 .. Len(outBuffer) : WriteSome(first, first < Len(outBuffer))

writeEventEnd == pc = "writeEnd" /\ WriteSome(Len(outBuffer), FALSE)

runAllFunctionInLoop ==
    /\ pc = "take"
    /\ left' = Len(functions)
    /\ pc' = "run"
    /\ UNCHANGED <<connVars, dataVars, temp, revents, functions, recvQ, wrShut,
                   peerVars, userVars, handled, flagVars, touched>>

\* The closure of newConnected: EPOLL_CTL_ADD, then two EPOLL_CTL_MOD, of which
\* only the last one's error is returned.  On an error c.Close() is called: it
\* does nothing when the ADD failed, state being Disconnected still.
ConnectedHandle ==
    \/ /\ state' = "Connected"
       /\ events' = EnableErrorEvent(EnableReading(events, TRUE))
       /\ Register
       /\ functions' = Tail(functions)
       /\ UNCHANGED <<fd, released, reopened, flagVars>>
    \/ /\ connectFailed' = TRUE
       /\ functions' = Tail(functions)
       /\ UNCHANGED <<connVars, closeAsked>>
    \/ /\ state' = "Connected"
       /\ events' = EnableErrorEvent(EnableReading(events, TRUE))
       /\ Register
       /\ connectFailed' = TRUE
       /\ functions' = Append(Tail(functions), "close")
       /\ closeAsked' = TRUE
       /\ UNCHANGED <<fd, released, reopened>>

RunFunction ==
    /\ pc = "run" /\ left > 0
    /\ left' = left - 1
    /\ \/ /\ Head(functions) = "connected"
          /\ ConnectedHandle
          /\ UNCHANGED <<dataVars, touched>>
       \/ /\ Head(functions) = "close"
          /\ closeEvent
          /\ functions' = Tail(functions)
          /\ UNCHANGED <<dataVars, touched, flagVars>>
       \/ /\ Head(functions) = "write"
          /\ write
          /\ functions' = Tail(functions)
          /\ UNCHANGED flagVars
    /\ UNCHANGED <<temp, pc, revents, recvQ, wrShut, peerVars, userVars, handled>>

LoopStep ==
    \/ WaitEvent
    \/ NoHandler
    \/ errEvent
    \/ readEvent
    \/ messageCallback
    \/ writeEvent
    \/ writeEventEnd
    \/ runAllFunctionInLoop
    \/ RunFunction
------------------------------------------------------------------------------
(* Calls of the connection's methods.                                      *)

\* The loop's goroutine calls a method inside messageCallback.
InCallback == pc = "frames" /\ calls < MaxCalls /\ calls' = calls + 1

CallbackPost(closure) ==
    /\ InCallback
    /\ closure = "write" => state = "Connected"
    /\ closure = "close" => state # "Disconnected"
    /\ functions' = Append(functions, closure)
    /\ closeAsked' = (closeAsked \/ closure = "close")
    /\ UNCHANGED <<connVars, dataVars, temp, pc, revents, left, recvQ, wrShut,
                   peerVars, user, handled, connectFailed, touched>>

CallbackShutdownWrite ==
    /\ InCallback
    /\ state = "Connected"
    /\ state' = "Disconnecting"
    /\ wrShut' = TRUE
    /\ UNCHANGED <<events, registered, fd, released, reopened, dataVars, temp, pc,
                   revents, functions, left, recvQ, peerVars, user, handled, flagVars,
                   touched>>

\* Another goroutine calls a method: the state is looked at first ...
Begin(g, next) ==
    /\ user[g] = "idle"
    /\ calls < MaxCalls
    /\ calls' = calls + 1
    /\ user' = [user EXCEPT ![g] = next]
    /\ UNCHANGED <<connVars, dataVars, temp, pc, revents, functions, left, recvQ,
                   wrShut, peerVars, handled, flagVars, touched>>

WriteInSelfLoop(g) == state = "Connected" /\ Begin(g, "write")
Close(g) == state # "Disconnected" /\ Begin(g, "close")
ShutdownWrite(g) == OffLoopShutdown /\ state = "Connected" /\ Begin(g, "set")

\* ... and acted upon later.
RunInLoop(g) ==
    /\ user[g] \in {"write", "close"}
    /\ functions' = Append(functions, user[g])
    /\ closeAsked' = (closeAsked \/ user[g] = "close")
    /\ user' = [user EXCEPT ![g] = "idle"]
    /\ UNCHANGED <<connVars, dataVars, temp, pc, revents, left, recvQ, wrShut,
                   peerVars, calls, handled, connectFailed, touched>>

\* The assignment overwrites what has happened since, a closeEvent too: the next
\* closeEvent takes the connection for one that is still to be closed.
ShutdownWriteSet(g) ==
    /\ user[g] = "set"
    /\ state' = "Disconnecting"
    /\ reopened' = IF state = "Disconnected" THEN reopened + 1 ELSE reopened
    /\ user' = [user EXCEPT ![g] = "shutdown"]
    /\ UNCHANGED <<events, registered, fd, released, dataVars, temp, pc, revents,
                   functions, left, recvQ, wrShut, peerVars, calls, handled,
                   flagVars, touched>>

ShutdownWriteCall(g) ==
    /\ user[g] = "shutdown"
    /\ wrShut' = (wrShut \/ fd = "open")
    /\ touched' = (touched \/ fd = "closed")
    /\ user' = [user EXCEPT ![g] = "idle"]
    /\ UNCHANGED <<connVars, dataVars, temp, pc, revents, functions, left, recvQ,
                   peerVars, calls, handled, flagVars>>

CallStep ==
    \/ \E closure \in {"write", "close"} : CallbackPost(closure)
    \/ CallbackShutdownWrite
    \/ \E g \in Users : \/ WriteInSelfLoop(g)
                        \/ Close(g)
                        \/ ShutdownWrite(g)
                        \/ RunInLoop(g)
                        \/ ShutdownWriteSet(g)
                        \/ ShutdownWriteCall(g)

PeerStep == PeerSend \/ PeerFin \/ PeerReset \/ PeerDrain

Next == LoopStep \/ CallStep \/ PeerStep

\* The loop's goroutine keeps running (EventLoop), a goroutine that has passed
\* the check of the state gets to append its closure, and the peer reads what it
\* is sent: a peer that does not is meant to stop the connection.
Fairness ==
    /\ WF_vars(LoopStep)
    /\ \A g \in Users : WF_vars(RunInLoop(g))
    /\ WF_vars(PeerDrain)

Spec == Init /\ [][Next]_vars
FairSpec == Spec /\ Fairness
------------------------------------------------------------------------------
(* What must hold.                                                         *)

\* The interest set follows the output buffer: EPOLLOUT is asked for exactly
\* while bytes are waiting (else they are never sent, or the loop spins), and
\* reading is off only while bytes are waiting (else it is never resumed).
Backpressure ==
    registered => /\ "Write" \in events <=> outBuffer # <<>>
                  /\ "Read" \notin events => outBuffer # <<>>

\* The peer is sent the bytes of the calls of write, in that order, without gap
\* or repetition, whatever write(2) takes each time and wherever the ring wraps.
RepliesInOrder ==
    /\ wire = [i \in 1 .. Len(wire) |-> i]
    /\ fd = "open" => wire \o outBuffer = [i \in 1 .. produced |-> i]

\* Input is not read while output waits, so the buffer holds at most the replies
\* to one read and what WriteInSelfLoop added: a peer that sends and does not
\* read cannot make it grow.
OutBufferBounded == Len(outBuffer) <= (ReadMax + calls) * ReplyLen

\* Every way to close, from two handlers, from closures posted twice or after
\* the fact, releases the descriptor and the pooled buffers once; they are released
\* again only when a ShutdownWrite on another goroutine had looked at the state before
\* closeEvent and assigned it afterwards, and as often as that happened.
CloseOnce == released <= 1 + reopened

\* A connection that was closed because the peer finished, and for no other
\* reason (all its output was sent), has given every frame of the peer to
\* messageCallback first, however often reading was switched off in between, and
\* whether or not its own side was shut down with ShutdownWrite.
EofLosesNothing ==
    (fd = "closed" /\ ~rst /\ ~closeAsked /\ Len(wire) = produced) => handled = sent

\* The connection implements Channel: in every step of the handlers, the closures
\* and the kernel, bytes go out in the order of the calls of write, frames are
\* handled one by one, and closeEvent is final, whoever called it and whatever is
\* still queued, decoded or written after it.
Ends == INSTANCE Channel WITH given <- produced, out <- wire, arrived <- sent,
                              closed <- (fd = "closed")
ChannelSpec == Ends!Spec

\* Every frame the peer sends is handled, unless the connection closes or was
\* never registered: reading is always resumed.
FramesHandled ==
    \A k \in 1 .. MaxFrames :
        sent >= k ~> (handled >= k \/ fd = "closed" \/ connectFailed)

\* Every byte handed to write reaches the kernel, unless the connection closes.
BytesFlushed ==
    \A k \in 1 .. (MaxFrames + MaxCalls) * ReplyLen :
        produced >= k ~> (Len(wire) >= k \/ fd = "closed")

\* A Close that was accepted closes.
CloseTakesEffect == closeAsked ~> fd = "closed"
------------------------------------------------------------------------------
(* What the comments of the code promise and the code does not keep.       *)

\* closeEvent: "remove the registration with the loop, delete fd-event-loop": a
\* closed connection does not use the descriptor and the buffers it gave back.
NoUseAfterClose == ~touched
==============================================================================
