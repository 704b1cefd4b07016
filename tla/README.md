# Verification of zput_net_golang

`zput_net_golang` is a TCP server library for Go built on event loops: one
acceptor on a main loop, connections spread over several loops, each loop a
goroutine around `epoll_wait` (`kqueue` on BSD), non-blocking sockets, codecs
that cut the byte stream into frames, and a user callback per frame. This
directory models its core in TLA+, checks it with TLC on small instances and
proves the most important safety properties with TLAPS for all instances.

Paths below are relative to the repository (`src/`); `PROJECT.json` maps every
definition to the lines it models.

## 1. The system

| part | source | state | operations |
|---|---|---|---|
| event loop | `net/event_loop/event_loop.go` | `functions` under `mutex`, `running`, `waitDone` | `Run`, `RunInLoop`, `runAllFunctionInLoop`, `Stop` |
| events | `net/event_loop/event.go` | interest set `events`, reported set `revents`, the four handlers | `EnableReading`, `EnableWriting`, `EnableErrorEvent`, `DisableAll`, `Register`, `UnRegister`, `HandleEvent` |
| multiplexer (epoll) | `net/multiplex/epoll.go` | epoll descriptor, `wakeEventFd`, `eventPool` | `WaitEvent`, `Wake`, `wakeHandlerRead`, `AddEvent`, `ModifyEvent`, `RemoveEvent`, `Close` |
| multiplexer (kqueue) | `net/multiplex/kqueue.go` | the same, and a list of deferred changes | the same |
| connection | `net/connect/connect.go` | `state`, `inBuffer`, `temporaryBuf`, `outBuffer`, `activeTime` | `ConnectedHandle`, `readEvent`, `writeEvent`, `errEvent`, `closeEvent`, `write`, `WriteInSelfLoop`, `Close`, `ShutdownWrite`, `Read`, `ReadN`, `ShiftN`, `ResetBuffer`, `closeTimeoutConn` |
| codecs | `net/protocol/codec.go` | none | `Decode` and `Encode` of five codecs |
| acceptor | `net/accept/accept.go` | listener, its duplicated descriptor | `Listen`, accepting, `Close` |
| server | `net/server/server.go` | `connectPool`, the loops, the timing wheel | `Start`, `newConnected`, `removeConnect`, `getOneLoopFromPool`, `Stop` |
| options, logging, schedule, example, benchmarks | the rest | none that a protocol depends on | |

How they interact. Everything that belongs to a connection is meant to happen on
the goroutine of its loop. Another goroutine reaches it by `RunInLoop`, which
appends a closure under the mutex and writes to the wake descriptor; the loop
alternates between waiting, handlers and closures. The server appends a closure
that registers a new connection with its loop; `Close` and `WriteInSelfLoop` look
at `state` on the caller's goroutine and append a closure; `ShutdownWrite` acts at
once on the caller's goroutine. A connection is forgotten by the server in a
callback from `closeEvent`; until then `Server.Stop` finds it in `connectPool`. The
idle timer runs on goroutines of the timing wheel and ends in `Close`.

What is hard to test here:

* the hand-over between goroutines: the append, the wake and the swap of the
  queue interleave with the loop's wait; `running` is read and written by `Stop`
  and `Run` in steps; `state` is checked on one goroutine and used on another;
* back-pressure: reading is off while output waits, and every path must bring
  the interest set back, whatever `write(2)` accepts and wherever the ring wraps;
* closing: by the peer, by errors, by two kinds of closures and by a failed
  registration, in any order and more than once;
* the pool of connections: a plain map, keyed by the peer's address, changed by
  every loop and read by `Server.Stop`, while addresses come back with new peers;
* stopping: connections are asked to close through loops that are about to leave;
* descriptor numbers and pooled memory that are used again while something still
  refers to their former use (kqueue's deferred changes, frames in byte buffers);
* framing: the stream is cut anywhere and a frame may lie across `inBuffer` and
  `temporaryBuf`; length fields of several widths meet zero and overflow;
* liveness: nothing posted, sent or received may be forgotten.

`PROJECT.json` ("hazards") lists each such place with its line and the properties
that watch it.

## 2. The modules

| module | models | uses |
|---|---|---|
| `Mailbox` | abstract: what a loop promises about closures | |
| `EventLoop` | `Run`, `RunInLoop`, `runAllFunctionInLoop`, `Stop`, the eventfd | instantiates `Mailbox` |
| `Channel` | abstract: what a connection promises about the bytes given to it, the frames of its peer and its end | |
| `Connect` | one connection on its loop (epoll): handlers, output buffer, closures, other goroutines, the peer and the kernel's socket | instantiates `Channel` |
| `Session` | abstract: what the application is told about each connection | |
| `Server` | the acceptor, several loops and connections, `connectPool`, `Stop` | instantiates `Session` |
| `IdleTimer` | `closeTimeoutConn` and `activeTime` against a clock | |
| `Kqueue` | one descriptor number on kqueue: deferred changes, successive owners | |
| `Codec` | the codecs and the input view they use, as operators | |
| `FrameStream` | the decoding loop of `readEvent` over a stream | `Codec` |
| `FramePool` | the pooled memory the frames lie in | |
| `MC...` | instances for TLC; `MCFrameStream` also makes the inputs: streams, codecs, and where the frames end | the module of that name |
| `EventLoop_proofs`, `Connect_proofs`, `Server_proofs`, `IdleTimer_proofs`, `Kqueue_proofs` | theorems | the module of that name |
| `ConnectFlow_proofs` | more theorems about `Connect` | `Connect_proofs` |
| `Codec_proofs` | lemmas about length fields and the input view, and what `Decode` takes from it and finds in it | `Codec` |
| `FrameStream_proofs` | theorems about `FrameStream` | `FrameStream`, `Codec_proofs` |

The modules divide the system by the question asked. `EventLoop` has every step of
the queue and nothing of what closures do; `Connect` has one connection in full and
its loop as a sequence of calls; `Server` has many connections, each reduced to its
life, and loops reduced to their iterations. What a module assumes of another is
what the other is checked for: closures run in the order of posting and at most
once (`Mailbox`), and a connection is closed once (`CloseOnce`). The last holds as
long as no `ShutdownWrite` on another goroutine assigns the state after `closeEvent`
did; `Server` and `Kqueue` leave that call out.

### EventLoop

One action per step that another goroutine can see. `RunInLoop(g)` is the lock and
the append, `wake(g)` the write of the eventfd and the unlock: the mutex is held
between the two, as in the code. `runAllFunctionInLoop` is the swap; the closures
are then run one by one. The wait and the handling of each ready descriptor are
separate actions. `Stop` has three steps (look at `running`, clear it, wait for
`waitDone` and close the multiplexer), and two goroutines may be in it at once. A
closure is named by its position in the order of the appends; handlers and
closures are abstracted to the calls of `RunInLoop` they make. `Mailbox` is the
promise: closures run at most once, in the order of posting, and none after the
loop has gone; the mapping is `pending <- functionsTemp \o functions`,
`executed <- ran`, `halted <- waitDone`.

### Connect

The variables are the fields of the connection, of its loop as far as this
connection sees it, and of the kernel's socket as far as `epoll_wait`, `read` and
`write` report it. Each handler is one action, cut only where it makes another
system call: `readEvent` is followed by one `messageCallback` per frame,
`writeEvent` by `writeEventEnd` for the part of the ring that wrapped. The ring
buffer is a sequence; `PeekAll`'s cut is a nondeterministic `first`. Input is
counted in frames; output bytes carry their number, so that a byte lost, repeated
or moved shows. The closures of the connection are `"connected"`, `"write"` and
`"close"`; the other closures of the loop do nothing to this connection. A
goroutine's call is split into the check of `state` and the append (or, for
`ShutdownWrite`, the assignment and `shutdown(2)`), since nothing in the code
makes them one step. `OffLoopShutdown` says whether goroutines other than the
loop's call `ShutdownWrite`; the code does not forbid it. `reopened` is a history
variable: how often such a call has assigned `Disconnecting` to the state of a
connection that was closed between its look at the state and the assignment.

`ConnectedHandle` fails at its first `epoll_ctl` or at its last one; the `Close` of
`newConnected` takes effect only in the second case, because in the first the state
is still `Disconnected`. After `closeEvent` the descriptor number may belong to
something else: a later `write` may fail or succeed, and `touched` records that it
was made. A write that reaches a stranger is not followed further.

`Channel` is what the connection promises the application, with buffers, handlers
and closures left out: the peer is sent a growing prefix of the bytes given to
`write`, frames are handled one at a time and no more than arrived, and after the
end nothing is sent and nothing arrives, although frames of the last read may still
be handled and bytes still given are lost. The mapping is `given <- produced`,
`out <- wire`, `arrived <- sent`, `handled <- handled`, `closed <- (fd = "closed")`.

### Server

`accept`, pooling, the hand-over to a sub loop, the callbacks, `Close` and `Stop`
of several connections on several loops. Each access to `connectPool` is an action
of its own: the main loop's insertion, the sub loops' removals, and the visits of
the range in `Stop`, which sees an entry added meanwhile or not, as Go's range over
a map does. Two accesses that may happen at once, one of them a write, make the Go
runtime end the process: `MapRace` sets `crashed`, and nothing happens any more.
The properties speak of all orders of accesses that do not collide.

An iteration of a loop is a wait (the check of `running` before it included), the
handlers, and a batch; iterations that find nothing are not shown, and the first wait
of `Run` finds nothing. The check and the append of `Close` are one step here
(`Connect` has them apart). `gone` says how far the end of a peer has come. A reset
closes the connection at the next report. A peer that has finished (`"fin"`) is closed
by the next read, unless output waits: then that read only switches reading off
(`"unread"`), the kernel has nothing to report until the peer reads some of the output
(`"drains"`), and the read that ends the connection follows when all of it is written.
A peer need not read, and then such a connection stays. When the descriptor is
closed its peer is forgotten (`Forgotten`). A peer's address can come back
as soon as the kernel has forgotten the former connection, which a reset does before
the server has noticed. `tcpAccept.Close` takes the listener's event off the loop, but
the listener was duplicated (`File()`) and the duplicate stays open: connections still
arrive in the backlog, where nobody accepts them. `"stuck"` is a connection whose
registration failed: its descriptor is open and nothing refers to it. `Session` is
what the application is promised: `ConnectCallback` once, then `ConnectCloseCallback`
at most once.

### IdleTimer

A clock with units finer than the second; `activeTime` is kept in whole seconds, as
`Unix()` gives them, and the interval is computed against the exact time. The timing
wheel is external: it fires up to a tick early and `Late` late. `Close` and the
closure it appends are apart, so that activity may come in between. `missed` records
that a timer fired while the connection was not registered: `closeTimeoutConn` then
neither closes nor starts another timer. An `IdleTime` of 0 starts no timer, so it
is assumed positive.

### Kqueue

One descriptor number, the filters the kernel has for it, the list `changes` that
the next `Kevent` applies, and the connections that own the number one after the
other. The handlers are those of `Connect`, reduced to their changes of the
interest set; `update` computes the changes from `oldEvents` as `kEvents` does. The
kernel applies the list one change at a time; a change that fails is reported as an
error event, and errors take the place of other reports. `from` is the history of a
change: whose handler put it on the list. A read takes all there is, a second
arrival stands for the rest; `out` counts the writes that are still needed.

The closures of `WriteInSelfLoop` are here too, and may run when their connection has
closed and its number and its buffers have a new owner (`writeClosed`): the write may
reach the new owner's peer, fill its send buffer, put bytes into a buffer that the new
owner has taken or will take, and, after `EAGAIN` or a short write, ask the kernel about
writing in the name of the number. Two history variables name what comes of it:
`asking`, the earlier owners whose events ask about writing again, and `mixed`, that the
owner's buffer has held bytes of an earlier one. Numbers and buffers are followed to the
owner of this number; what a write does to other connections through the pool is not.

### Codec, FrameStream and FramePool

The input of a connection is a record of `inBuffer` and `temporaryBuf`; `ReadN`
and `ShiftN` have the case distinctions of the code (zero and negative counts
included), and `Decode` and `Encode` follow the codecs. `Base` stands for 256.
`FrameStream` cuts a stream at every place and runs the loop of `readEvent`.
The reference is a part of each input and knows nothing of buffers: `ends` says where
the frames of the whole stream end (at its delimiters; for the length-field codec
where the encoded messages end, `messages` being given), `Frame(input, k)` is frame
`k` cut from the stream, and `FrameCount` how many there are. `InputsAssumption` says
what makes an input: `ends` holds the positions of the delimiters and no others, and
the bytes between two ends are a header of `offset` bytes and what `Encode` makes of
a message. `FramePool`
abstracts the bytes to whose they are, and follows the buffers: taken from the pool
by `Read` and `ReadN`, given back by `ShiftN` and `ResetBuffer`, while the frame that
was cut from them is handled. A buffer no one refers to stands for a new one, since
`sync.Pool` may always return one.

## 3. What is checked

| run | checks | states | result |
|---|---|---|---|
| `event_loop` | `TypeOK`, `NoLostWakeup`, `WakeReadNeverBlocks`, `RunsInPostingOrder`, `PollerOpenWhileLoopRuns`, `MailboxSpec` (refinement), `PostedRuns`, `StopReturns` | 11 thousand | hold |
| `connect` | `TypeOK`, `Backpressure`, `RepliesInOrder`, `OutBufferBounded`, `CloseOnce`, `EofLosesNothing`, `ChannelSpec` (refinement) | 497 thousand | hold |
| `connect_live` | `Backpressure`, `RepliesInOrder`, `CloseOnce`, `FramesHandled`, `BytesFlushed`, `CloseTakesEffect`, with `ShutdownWrite` from any goroutine | 113 thousand | hold |
| `frame_stream` | `TypeOK`, `NoByteLost`, `FramesMatch`, `CompleteHandled` | 118 thousand | hold |
| `server` | `TypeOK`, `PoolHoldsOpen`, `MissingOnlyForNamesake`, `StopAsksAll`, `SessionSpec` (refinement) | 1.8 million | hold |
| `server_live` | `GoneIsClosed`, `StopReturns` | 97 thousand | hold |
| `idle_timer` | `TypeOK`, `NotTooEarly`, `NotTooLate` | 29 thousand | hold |
| `kqueue` | `TypeOK`, `InterestApplied`, `KernelFollowsBuffer`, `DataRead` | 1.2 million | hold |
| `use_after_close` | `NoUseAfterClose` | | violated |
| `frame_alias` | `FrameIntact` | | violated |
| `server_stop` | `StopClosesConnections` | | violated |
| `kqueue_stale_error` | `ErrorsAreOwn` | | violated |

What the passing runs say, in words:

* `NoLostWakeup`: a loop never settles down to wait while a closure is queued and
  nobody is about to wake it; otherwise the closure would run only after the
  timeout of `EpollWait`. `WakeReadNeverBlocks`: the wake descriptor is blocking, so
  a reported wake must still be there when it is read. `RunsInPostingOrder`: no
  closure is lost, run twice or overtaken between the queue, the batch and the run.
  `PollerOpenWhileLoopRuns`: `Stop` closes the descriptors after the loop has left.
  `PostedRuns`: a closure runs, unless `Stop` is called.
* `Backpressure`: `EPOLLOUT` is asked for exactly while output waits, and reading is
  off only then. `RepliesInOrder`: what the peer is sent is the bytes of the calls of
  `write`, in order, each once. `OutBufferBounded`: a peer that sends and does not
  read makes the output grow by the replies to one read at most. `CloseOnce`: one
  release of descriptor and buffers, and one more only for each `ShutdownWrite` on
  another goroutine that assigned the state after `closeEvent` had. `EofLosesNothing`:
  what the peer sent before it finished is handled before the connection closes.
  `ChannelSpec`: every step, of a handler, a closure, a caller or the kernel, is one
  of `Channel`, so that an end is final and the output never goes back.
  `FramesHandled`, `BytesFlushed`, `CloseTakesEffect`: nothing received, written or
  asked for is forgotten.
* `PoolHoldsOpen`: the pool never holds a closed connection, however insertions,
  late removals and reused addresses interleave. `MissingOnlyForNamesake`: a live
  connection is missing from the pool only when another one had the same address, or
  when it is about to close. `StopAsksAll`: a range that runs beside removals and
  insertions still reaches every connection that was open when it began, unless a
  namesake took it out of the pool. `SessionSpec`: the application is told of each
  connection in order and once. `GoneIsClosed`: a connection whose peer has reset is
  closed; one whose peer has finished is closed, or is left with reading off for output
  that waits, and in that case again as soon as the peer reads it.
* `NotTooEarly`: an idle connection is closed after the idle time less the rounding
  to seconds. `NotTooLate`: the chain of timers neither breaks nor drifts, unless the
  first timer came before the registration.
* `InterestApplied`: the filters in the kernel and the changes on the list are
  together the interest set of the owner, whatever earlier owners left on the list when
  they closed; a write of an earlier owner that runs late can add the filter for
  writing, and nothing else. `KernelFollowsBuffer` is `Backpressure` for kqueue: writing
  is asked for while output of the owner waits, reading whenever nothing waits, and
  writing without need only in the name of an earlier owner. `DataRead`: data is read,
  unless the connection closes or an earlier owner's bytes are in its buffer (they keep
  reading off, and nothing sends them).
* `NoByteLost`: at every moment the unread input is exactly the stream without the
  bytes handed out. `FramesMatch`: the frames are those of the reference, in order, and
  each takes its own bytes with it; a codec whose frames depend on what a read brings
  (built-in, fixed-length) hands out every byte it takes once and in order.
  `CompleteHandled`: when the decoding loop ends, every frame of the reference whose
  last byte was read has been handed out, and of a fixed-length frame fewer bytes are
  left than it has; an incomplete frame may wait. An empty message ends the reference of
  the length-field codec, so this is about the messages before it.

The runs that end in a violation compare a comment of the code with what the code
does ("findings" in `PROJECT.json` quotes it): a posted write is carried out on a
connection closed in the meantime; a frame lies in a byte buffer that is already
back in the pool; a connection survives `Server.Stop`; an error left by a closed
connection on the list of kqueue closes the next one with its number.

Each property of a passing run has a mutant: a definition of the model changed
the way a plausible slip in the code would (a missing wake, a missing reset of
the interest set, a state not looked at, a rest not kept, an off-by-one), under
which TLC finds the property violated. The mutated forms stand next to the
originals in the modules.

### Other behaviour the models show

No run is made of the following; each can be seen by adding the property named.

* With `OffLoopShutdown = TRUE` a connection can be released twice (add the invariant
  `released <= 1` to `MCConnectLive.cfg`): `ShutdownWrite` writes `Disconnecting` over
  the `Disconnected` of a close, and a second close releases everything again.
  `CloseOnce` bounds how often: once for each such assignment.
* A write that runs after its connection has closed can ask the kernel about writing on
  the descriptor of the next owner of the number, and bytes it leaves in a buffer that
  is back in the pool stall the connection that takes it: `InterestApplied`,
  `KernelFollowsBuffer` and `DataRead` without `AskedByEarlier` and `mixed` are violated.
  On epoll the same write is `NoUseAfterClose`; its `EPOLL_CTL_MOD` replaces the new
  owner's interest set, which `Connect`, with one connection, does not show.
* A peer that finishes while output waits for it, and never reads it, keeps its
  connection open for as long as it likes, without an idle timer: `GoneIsClosed` without
  its disjunct `gone[c] = "unread"` is violated.
* Two concurrent `Stop`s of one loop both see `running` and close the poller twice.
  The loop is not hurt by it; `Server.Stop` does not do it.
* A connection whose `EPOLL_CTL_ADD` failed keeps its descriptor for ever
  (`"stuck"` in `Server`, `connectFailed` with `fd = "open"` in `Connect`).
* After `ShutdownWrite` a reply fails with `EPIPE` and closes the connection with
  input unread. `EofLosesNothing` therefore requires that all output was sent.
* The fixed-length codec returns what there is when a frame is not complete, so
  frames may be short: where they end depends on the reads. `FramesMatch` asks of them
  only that together they are the stream, and `CompleteHandled` only that not enough
  bytes for a frame are left; a codec that waits for the rest would satisfy both.
* The length-field codec sends empty messages and never finds them, nor what comes
  after: `CompleteHandled` and `FramesMatch` count the messages up to the first empty
  one.
* On kqueue, `EV_EOF` with data pending is taken as an error, so the connection
  closes with that data unread; epoll reads it first. `EofLosesNothing` is a property
  of the epoll build only, and `DataRead` allows that the connection closes.

### Bounds

* `event_loop`: two callers besides the loop (both can be in `RunInLoop`, in `Stop`,
  or one in each), one ordinary descriptor, four closures (one being run, one in
  the batch, one in the queue, one being appended).
* `connect`: two goroutines, two calls, four frames, two frames per read, replies
  of two bytes and a send buffer of two. Short writes, a full buffer, a wrapped
  ring, a second reply behind a waiting one, and a second read after reading was
  paused all occur; `OutBufferBounded` needs the four frames. Of two calls one can
  be stale when the other takes effect.
* `connect_live`: one goroutine besides the loop, two calls and two frames; the
  `ShutdownWrite` of that goroutine meets every step of the loop, and of the two calls
  one can close the connection for the second time (a `Close` queued twice), so that
  `released` reaches 2 and `CloseOnce` is tight.
* `server`: the main loop, two sub loops, two connections from one or two addresses,
  so that the index wraps, a connection replaces its namesake on another loop, and
  the range of `Stop` meets both. The addresses are symmetric: nothing in the model
  tells one from another. `server_live` has the main loop and one sub loop, two
  connections and one address: the liveness properties are about single loops that
  `Stop` waits for in turn. The proofs cover every other number.
* `idle_timer`: four clock units to the second, an idle time of a second and a half,
  a tick of half a second; the clock runs for four idle times, so that a chain of
  timers is seen. With an `IdleTime` below `Second` `NotTooEarly` would say nothing.
* `kqueue`: three owners of the number, so that changes of two earlier ones can be
  on the list, and output of up to two writes. `MaxWrites`: goroutines call
  `WriteInSelfLoop` twice in all, their look at the state and their append being two
  steps, so that writes of one or of both earlier owners meet the third.
* `frame_stream`: every stream of at most 6 bytes over two values for the
  delimiter, built-in and fixed-length codecs; up to 3 messages of 0 to 3 bytes
  for length fields of every width (1, 2, 3, 4 and 8 bytes), both byte orders, with and
  without the field counted, stripped in whole, in part or not, and with an offset.
  With `Base = 4` a one-byte field overflows inside these bounds.
* The runs that end in a violation use the smallest instance that shows it
  (`frame_alias` two connections and three buffers, `server_stop` one connection and
  one sub loop, with `Stop` called only when every loop is running).

### Fairness

* `EventLoop`: the Go scheduler runs every goroutine that can run, and `EpollWait` is
  called with a timeout, so the loop's steps and the steps of a call that has begun
  are weakly fair. The loop's lock of the mutex is strongly fair: `sync.Mutex` hands
  the lock to a waiter that has waited for more than 1 ms. No caller is obliged to
  begin a call.
* `Connect` and `Kqueue`: the loop runs, a goroutine past its check of `state`
  appends its closure, and the peer reads what it is sent; a peer that does not is
  meant to stop the connection, and `OutBufferBounded` says what it can cost.
* `Server`: the loops and the goroutine of `Stop` run, unless the process has ended.
  Peers (what they read included), the acceptance of connections and `Close` are free.

## 4. What is proved

All theorems hold for every value of the constants that satisfies the named
assumption of the module, and every invariant used was first checked with TLC.

**`EventLoop_proofs`**, for every number of goroutines, descriptors and closures
(`LoopAssumption`: the loop and "no one" are not callers, and the wake descriptor is
none of the others): `TypeCorrect`, `WakeupNeverLost`, `WakeReadReturns`,
`PostingOrder`, `PollerOutlivesLoop`, and `ImplementsMailbox`. The inductive
invariant is `TypeOK`, `PollerOpenWhileLoopRuns`, `WakeReadNeverBlocks`,
`RunsInPostingOrder` and `WakeupCovered`. The last is needed because `NoLostWakeup`
only speaks of a loop about to wait: a queued closure is always covered by the
counter of the eventfd, by a caller that holds the mutex and has yet to write it, or
by a loop that still has to look at the queue. The order is the invariant
`ran \o functionsTemp \o functions = 1, 2, ..., posted`: appending extends its right
end, the swap and the runs move the boundaries. The refinement follows from it.

**`Connect_proofs`**, for every buffer size, reply length and number of goroutines
(`ConnectAssumption`): `TypeCorrect`, `InterestFollowsBuffer` (`Backpressure`),
`OutputInOrder` (`RepliesInOrder`) and `ReleasedOnce` (`CloseOnce`), for calls of
`ShutdownWrite` on the loop and off it. The inductive invariant adds `Unborn \/ Born` and
`Once`. Until its first closure has run, and for ever when that fails, nothing happens
to a connection, whose state is `Disconnected` although its descriptor is open; after
that `Disconnected` means closed. Without the distinction a failing `write` could call
`closeEvent`, which would do nothing, and the bytes would be missing from the output.
`Once` ties the number of releases to the descriptor, the state and `reopened`: each
release sets `Disconnected`, and only a late assignment of `ShutdownWrite` makes another
one possible.

**`ConnectFlow_proofs`** continues it, off-loop `ShutdownWrite` included:
`EndOfStream` (`EofLosesNothing`) and `OutputBounded` (`OutBufferBounded`). The first
rests on `Counted` (every frame sent is handled, in `temporaryBuf` or in the kernel),
`Reason` (a connection is closed after a reset or a `Close`, with output unsent, or
with nothing left to read), `Waiting` (a hang-up without a reset is only reported while
output waits, for else reading is on and data goes first) and `Asked` (a close in the
queue was asked for). The second is not inductive because the replies to the frames of
the last read and the writes posted but not yet made will still lengthen the output;
`FlowInv` counts them: what waits, with a reply for each of those, is at most what one
read and the calls so far can ask for.

**`Server_proofs`**, for every number of loops, addresses and connections
(`ServerAssumption`: there is a sub loop, and 0 is no address): `TypeCorrect`,
`PoolUsable` (`PoolHoldsOpen`), `PoolMisses` (`MissingOnlyForNamesake`),
`StopReachesAll` (`StopAsksAll`) and `ImplementsSession`. The inductive invariant
adds four parts. `ConnectedOnce`: a connection's first closure is queued at most
once, on its own loop, and only while it is new, so `ConnectedHandle` never reopens
a connection or announces it twice. `CloseAfterOpen`: a close in a queue belongs to
a connection that was opened, so it cannot overtake the first closure. `Told`: the
callbacks made are a function of the status, from which the refinement follows step
by step. `SawReached`: while the range goes on, what it has not asked yet is still
ahead of it; `StopAsksAll` only speaks of the end.

**`IdleTimer_proofs`**, for every idle time, length of a second, tick and lateness
(`IdleAssumption`): `TypeCorrect`, `ClosesOnlyIdle` (`NotTooEarly`) and
`ClosesEveryIdle` (`NotTooLate`). `activeTime` is at most a second behind the last
activity and never ahead of it; a pending timer is never due later than the idle
time after the last activity.

**`Kqueue_proofs`**, for any number of owners and any amount of output:
`TypeCorrect`, `ListIsInterest` (`InterestApplied`) and `KernelAsked`
(`KernelFollowsBuffer`). Its centre is a lemma about lists: appending the changes
from an old interest set to a new one to a list that leads to the old one gives a
list that leads to the new one. The invariant adds that the last changes a closed
connection left on the list turn its filters off (`NothingLeft`), so that the next
owner starts from nothing, or from a question about writing that a late write of an
earlier owner asked; that a new connection has no interest and no output of its own
(`Fresh`); that the interest set itself follows the output (`EventsFollowBuffer`); and
that only one connection waits for its first closure (`OneConnected`).

**`Codec_proofs` and `FrameStream_proofs`**, for every stream, every codec, every
number of values of a byte and every cut of the stream by the reads
(`InputsAssumption`: the two ends of the length-field codec agree on the field, a
fixed frame has a length, no more is stripped from a frame than the part up to the
end of its length field, and the reference is the one described in section 2):
`DecodeTakesPrefix`, `UintOfPutUint`, `TypeCorrect`, `InputComplete` (`NoByteLost`),
`FramesCorrect` (`FramesMatch`) and `NothingWaits` (`CompleteHandled`). Three layers:

* Numbers. `Power`, `Uint` and `FlattenSeq` are recursive functions, and nothing
  recursive comes with a proof that it exists. `LeastElement` gives an induction over
  a set of numbers (`UpTo`), and from it `IterationExists`: stepping from a value `n`
  times is a function. `Uint` is then the Horner scheme of the digits (`UintIsHorner`),
  dividing again undoes it digit by digit (`HornerDigits`), and so a length field holds
  the number that was put there, in either byte order (`UintOfPutUint`). This is where
  `Fits` is needed: `Encode` checks a field of 1, 2 or 3 bytes, does not check one of 4
  or 8, and the latter is read back as a signed 64-bit number, so a length must be an
  `int` and must fit a 4-byte field.
* The input view. `ReadN` and `ShiftN` are followed through the cases of where
  `inBuffer` ends: `ShiftN` drops the first bytes of the input wherever they lie, and
  `Decode` returns nothing without taking anything, or takes the bytes it looked at and
  no others. `DelimiterFinds` and `LengthFinds` say what it finds in terms of those
  bytes alone.
* The stream. `DelimiterNext` and `LengthNext`: when the unread input begins where
  frame `k` of the reference ended, `Decode` finds frame `k + 1` exactly if all its
  bytes have been read, and takes its piece and no more; after an empty message it
  finds nothing for ever. The inductive invariant is the types, `NoByteLost`,
  `FramesMatch` and `CompleteHandled` together (in the stronger form `Delivered`, which
  holds of the code as it is: the fixed-length codec leaves nothing): where the frames
  end is what places the unread input in the stream.

**`Connect` implements `Channel`** (`ImplementsChannel` in `ConnectFlow_proofs`), for
every value of the constants, off-loop `ShutdownWrite` included. Each step treats the
output in one of two ways (`Output`): it sends while the connection stays open, or the
connection is or becomes closed and nothing is sent. `RepliesInOrder` of the state
after the step makes the first a step of `Channel`, and `Counted` shows that a frame
handled is one that arrived.

Model-checked and not proved are the liveness properties: `PostedRuns`, `StopReturns`
of the loop and of the server, `FramesHandled`, `BytesFlushed`, `CloseTakesEffect`,
`GoneIsClosed` and `DataRead`. Fairness is outside the prover's reach. Every invariant
and every refinement of a passing run is a theorem.

## 5. What is not modelled

* The growth of the slice of reported events and errors while creating descriptors:
  no property depends on them. A batch that is too small shows only as an event
  reported one wait later, which the models allow.
* kqueue's `Wake`: `EventLoop` models a wake-up, with the eventfd.
* `New`'s cleanup when creating a loop fails, the options, logging, `RunAfter` and
  `RunEvery` (they hand a function to the external timing wheel), the example and
  the benchmarks.
* A length-field codec configured to strip more than a short frame has: `Decode` then
  slices past the end of the frame and panics. `IsCodec` excludes it.
* What a write to a descriptor number that belongs to a stranger does to the stranger,
  beyond what `Kqueue` follows: on epoll, and where the number or the buffers have gone
  to a connection of another loop.
* The bytes of the ring buffer and of the pooled buffers of a closed connection:
  both are an external library.

## 6. Plan

1. `Connect` on several goroutines of the timing wheel: `IdleTimer` composed with
   `Connect`, so that the `Close` of the timer meets every step of the handlers.
2. Streams that were not made by `Encode`: length fields of 4 and 8 bytes whose values
   become negative lengths.
