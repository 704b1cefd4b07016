-------------------------- MODULE ConnectFlow_proofs --------------------------
(***************************************************************************)
(* Proofs about Connect, continued: the end of the stream does not         *)
(* overtake data, a peer that sends and does not read cannot make the      *)
(* output grow, and the connection implements Channel, for every buffer    *)
(* size, reply length and number of goroutines, off-loop ShutdownWrite     *)
(* included.                                                               *)
(***************************************************************************)
EXTENDS Connect_proofs, FiniteSetTheorems

\* Every frame sent is handled, in temporaryBuf, or in the kernel.
Counted == handled + temp + recvQ = sent

\* A close is queued only when one was asked for.
Asked == \A i \in 1 .. Len(functions) : functions[i] = "close" => closeAsked

\* A hang-up is reported without a reset only when reading is off, that is, when
\* output waits; and the second write(2) of writeEvent has something to write.
Waiting ==
    /\ pc = "handle" /\ revents \cap {"Close", "Err"} # {} => rst \/ outBuffer # <<>>
    /\ pc = "writeEnd" => outBuffer # <<>>

\* Why a connection was closed.
Reason ==
    fd = "closed" => \/ rst \/ closeAsked
                     \/ Len(wire) < produced
                     \/ (temp = 0 /\ recvQ = 0)

EofInv == Counted /\ Asked /\ Waiting /\ Reason
------------------------------------------------------------------------------
(* The end of the stream.                                                  *)

\* While the descriptor is open, what was produced is sent or waits.
LEMMA OpenOutput ==
    ASSUME IInv
    PROVE  /\ Len(wire) \in Nat /\ Len(outBuffer) \in Nat /\ produced \in Nat
           /\ fd = "open" => Len(wire) + Len(outBuffer) = produced
           /\ fd = "open" /\ outBuffer # <<>> => Len(wire) < produced
<1>1. wire \in Seq(Nat) /\ outBuffer \in Seq(Nat) /\ produced \in Nat
  BY DEF IInv, ConnInv, ConnType
<1>2. Len(wire) \in Nat /\ Len(outBuffer) \in Nat
  BY <1>1, LenProperties
<1>3. ASSUME fd = "open" PROVE Len(wire) + Len(outBuffer) = produced
  <2>1. wire \o outBuffer = Numbers(produced)
    BY <1>3 DEF IInv, ConnInv, RepliesInOrder, Numbers
  <2>2. Len(Numbers(produced)) = produced
    BY <1>1, CountOn DEF Numbers
  <2>3. Len(wire \o outBuffer) = Len(wire) + Len(outBuffer)
    BY <1>1, ConcatProperties
  <2> QED BY <2>1, <2>2, <2>3
<1>4. outBuffer # <<>> => Len(outBuffer) # 0
  BY <1>1, EmptyLen
<1> QED BY <1>1, <1>2, <1>3, <1>4

\* write closes only when the bytes it was given are not sent.
LEMMA WriteReason ==
    ASSUME IInv, Reason, write, UNCHANGED <<rst, closeAsked, recvQ>>,
           temp = 0 => temp' = 0
    PROVE  Reason'
<1>1. produced' = produced + ReplyLen /\ ReplyLen \in Nat \ {0}
  BY ConnectAssumption DEF write
<1>2. CASE fd = "open" /\ fd' = "closed"
  <2>1. wire' = wire
    BY <1>2 DEF write, connVars
  <2>2. Len(wire') < produced'
    BY <1>1, <1>2, <2>1, OpenOutput
  <2> QED BY <2>2 DEF Reason
<1>3. CASE fd = "closed"
  <2>1. wire' = wire
    BY <1>3 DEF write, SendFails
  <2>2. Len(wire) < produced => Len(wire') < produced'
    BY <1>1, <2>1, OpenOutput
  <2> QED BY <1>3, <2>2 DEF Reason
<1>4. CASE fd' = "open"
  BY <1>4 DEF Reason
<1>5. fd \in {"open", "closed"} /\ (fd = "open" => fd' \in {"open", "closed"})
  BY DEF write, closeEvent, connVars, IInv, ConnInv, ConnType
<1> QED BY <1>2, <1>3, <1>4, <1>5

\* A close of a connection with output waiting, or for a reason that stays.
LEMMA CloseReason ==
    ASSUME IInv, Reason, closeEvent,
           UNCHANGED <<wire, produced, rst, closeAsked, temp, recvQ>>,
           rst \/ closeAsked \/ outBuffer # <<>> \/ (temp = 0 /\ recvQ = 0)
    PROVE  Reason'
<1>1. CASE fd = "open"
  BY <1>1, OpenOutput DEF Reason
<1>2. CASE fd = "closed"
  BY <1>2 DEF Reason
<1> QED BY <1>1, <1>2 DEF IInv, ConnInv, ConnType

\* A step that leaves the descriptor and the output alone, and the input unless
\* the descriptor is open.
LEMMA SameReason ==
    ASSUME Reason, UNCHANGED <<fd, wire, produced>>, rst => rst', closeAsked => closeAsked',
           fd = "open" \/ UNCHANGED <<temp, recvQ>>
    PROVE  Reason'
BY DEF Reason

\* A closure added to the queue, or the first one taken off.
LEMMA AskedKeeps ==
    ASSUME IInv, Asked, closeAsked => closeAsked',
           \/ functions' = functions
           \/ \E c \in Closures : /\ functions' = Append(functions, c)
                                  /\ c = "close" => closeAsked'
           \/ functions # <<>> /\ functions' = Tail(functions)
    PROVE  Asked'
<1>1. functions \in Seq(Closures) /\ Len(functions) \in Nat
  BY LenProperties DEF IInv, LoopType
<1>2. CASE functions' = functions
  BY <1>2 DEF Asked
<1>3. ASSUME NEW c \in Closures, functions' = Append(functions, c), c = "close" => closeAsked'
      PROVE  Asked'
  <2>1. /\ Len(functions') = Len(functions) + 1
        /\ \A i \in 1 .. Len(functions) : functions'[i] = functions[i]
        /\ functions'[Len(functions) + 1] = c
    BY <1>1, <1>3, AppendProperties
  <2> QED BY <1>1, <1>3, <2>1 DEF Asked
<1>4. CASE functions # <<>> /\ functions' = Tail(functions)
  <2>1. /\ Len(functions') = Len(functions) - 1
        /\ \A i \in 1 .. Len(functions') : functions'[i] = functions[i + 1]
    BY <1>1, <1>4, HeadTailProperties
  <2> QED BY <1>1, <2>1 DEF Asked
<1> QED BY <1>2, <1>3, <1>4

\* A new connection.
LEMMA InitEof == Init => EofInv
<1> SUFFICES ASSUME Init PROVE EofInv
  OBVIOUS
<1>1. Asked
  <2>1. functions = <<"connected">> /\ Len(<<"connected">>) = 1
    BY DEF Init
  <2> QED BY <2>1 DEF Asked
<1> QED BY <1>1 DEF Init, EofInv, Counted, Waiting, Reason

\* The peer sends, and its frames are counted; a reset stays.
LEMMA PeerEof == ASSUME IInv, EofInv, PeerStep PROVE EofInv'
<1> USE DEF EofInv, peerVars
<1>1. UNCHANGED <<connVars, outBuffer, produced, wire, temp, pc, revents, functions,
                  handled, flagVars>>
  BY DEF PeerStep, PeerSend, PeerFin, PeerReset, PeerDrain, dataVars
<1>2. rst => rst'
  BY DEF PeerStep, PeerSend, PeerFin, PeerReset, PeerDrain
<1>3. Counted'
  BY <1>1 DEF PeerStep, PeerSend, PeerFin, PeerReset, PeerDrain, Counted, IInv, CallType,
              LoopType
<1>4. fd = "open" \/ UNCHANGED <<temp, recvQ>>
  BY DEF PeerStep, PeerSend, PeerFin, PeerReset, PeerDrain
<1>5. Reason'
  BY <1>1, <1>2, <1>4, SameReason DEF connVars, flagVars
<1>6. Asked' /\ Waiting'
  BY <1>1, <1>2 DEF Asked, Waiting, flagVars
<1> QED BY <1>3, <1>5, <1>6

\* The goroutines, and calls from messageCallback, append and half-close.
LEMMA CallEof == ASSUME IInv, EofInv, CallStep PROVE EofInv'
<1> USE DEF EofInv
<1>1. /\ UNCHANGED <<events, registered, fd, released, dataVars, temp, pc, revents, recvQ,
                     peerVars, handled>>
      /\ closeAsked => closeAsked'
      /\ \/ functions' = functions
         \/ \E c \in Closures : functions' = Append(functions, c) /\ (c = "close" => closeAsked')
  <2>1. CASE \E closure \in {"write", "close"} : CallbackPost(closure)
    BY <2>1 DEF CallbackPost, InCallback, connVars, Closures
  <2>2. CASE CallbackShutdownWrite
    BY <2>2 DEF CallbackShutdownWrite, InCallback, flagVars
  <2>3. ASSUME NEW g \in Users, WriteInSelfLoop(g) \/ Close(g) \/ ShutdownWrite(g)
        PROVE  UNCHANGED <<connVars, dataVars, temp, pc, revents, functions, recvQ,
                           peerVars, handled, flagVars>>
    BY <2>3 DEF WriteInSelfLoop, Close, ShutdownWrite, Begin
  <2>4. ASSUME NEW g \in Users, RunInLoop(g)
        PROVE  /\ UNCHANGED <<connVars, dataVars, temp, pc, revents, recvQ, peerVars, handled>>
               /\ closeAsked => closeAsked'
               /\ \E c \in Closures : /\ functions' = Append(functions, c)
                                      /\ c = "close" => closeAsked'
    BY <2>4 DEF RunInLoop, Closures
  <2>5. ASSUME NEW g \in Users, ShutdownWriteSet(g) \/ ShutdownWriteCall(g)
        PROVE  /\ UNCHANGED <<events, registered, fd, released, dataVars, temp, pc, revents,
                              recvQ, peerVars, handled>>
               /\ UNCHANGED <<functions, flagVars>>
    BY <2>5 DEF ShutdownWriteSet, ShutdownWriteCall, connVars
  <2> QED BY <2>1, <2>2, <2>3, <2>4, <2>5 DEF CallStep, connVars, flagVars
<1>2. Asked'
  BY <1>1, AskedKeeps
<1>3. Reason'
  BY <1>1, SameReason DEF dataVars, peerVars
<1>4. Counted' /\ Waiting'
  BY <1>1 DEF Counted, Waiting, dataVars, peerVars
<1> QED BY <1>2, <1>3, <1>4

\* The multiplexer reports a hang-up only when nothing is left to read, unless
\* reading is off.
LEMMA WaitEventEof == ASSUME IInv, EofInv, WaitEvent PROVE EofInv'
<1> USE DEF EofInv
<1>1. /\ UNCHANGED <<connVars, dataVars, temp, functions, recvQ, peerVars, handled, flagVars>>
      /\ pc' = "handle" /\ revents' = IF registered THEN rEvents ELSE {}
  BY DEF WaitEvent
<1>2. Waiting'
  <2> SUFFICES ASSUME revents' \cap {"Close", "Err"} # {}, ~rst PROVE outBuffer # <<>>
    BY <1>1 DEF Waiting, dataVars, peerVars
  <2>1. registered /\ "Close" \in rEvents
    BY <1>1 DEF rEvents
  <2>2. fin /\ ~In
    BY <2>1 DEF rEvents, Hup
  <2>3. "Read" \notin events
    BY <2>2 DEF In
  <2> QED BY <2>1, <2>3 DEF IInv, ConnInv, Backpressure
<1>3. Reason'
  BY <1>1, SameReason DEF connVars, dataVars, peerVars, flagVars
<1>4. Counted' /\ Asked'
  BY <1>1 DEF Counted, Asked, peerVars, flagVars
<1> QED BY <1>2, <1>3, <1>4

\* No handler, and the start of a batch.
LEMMA NoHandlerEof ==
    ASSUME IInv, EofInv, NoHandler \/ runAllFunctionInLoop
    PROVE  EofInv'
<1> USE DEF EofInv
<1>1. /\ UNCHANGED <<connVars, dataVars, temp, functions, recvQ, peerVars, handled, flagVars>>
      /\ pc' \in {"take", "run"}
  BY DEF NoHandler, runAllFunctionInLoop
<1>2. Reason'
  BY <1>1, SameReason DEF connVars, dataVars, peerVars, flagVars
<1>3. Counted' /\ Asked' /\ Waiting'
  BY <1>1 DEF Counted, Asked, Waiting, peerVars, flagVars
<1> QED BY <1>2, <1>3

\* An error or a hang-up closes.
LEMMA errEventEof == ASSUME IInv, EofInv, errEvent PROVE EofInv'
<1> USE DEF EofInv
<1>1. /\ UNCHANGED <<dataVars, temp, functions, recvQ, peerVars, handled, flagVars>>
      /\ pc = "handle" /\ pc' = "take" /\ closeEvent /\ Handler = "closeEvent"
  BY DEF errEvent
<1>2. rst \/ outBuffer # <<>>
  <2>1. revents \cap {"Close", "Err"} # {}
    BY <1>1 DEF Handler
  <2> QED BY <1>1, <2>1 DEF Waiting
<1>3. Reason'
  BY <1>1, <1>2, CloseReason DEF dataVars, peerVars, flagVars
<1>4. Counted' /\ Asked' /\ Waiting'
  BY <1>1 DEF Counted, Asked, Waiting, peerVars, flagVars
<1> QED BY <1>3, <1>4

\* The read handler closes only when nothing is left to read.
LEMMA readEventEof == ASSUME IInv, EofInv, readEvent PROVE EofInv'
<1> USE DEF EofInv
<1>1. /\ UNCHANGED <<dataVars, functions, peerVars, handled, flagVars>>
      /\ pc = "handle" /\ pc' \in {"take", "frames"} /\ temp = 0
  BY DEF readEvent, IInv, LoopType
<1>2. Asked' /\ Waiting'
  BY <1>1 DEF Asked, Waiting, flagVars
<1>3. CASE UNCHANGED <<fd, temp, recvQ>>
  <2>1. Reason'
    BY <1>1, <1>3, SameReason DEF dataVars, peerVars, flagVars
  <2> QED BY <1>1, <1>2, <1>3, <2>1 DEF Counted, peerVars
<1>4. CASE AtEnd /\ closeEvent /\ UNCHANGED <<temp, recvQ>>
  <2>1. Reason'
    BY <1>1, <1>4, CloseReason DEF AtEnd, dataVars, peerVars, flagVars
  <2> QED BY <1>1, <1>2, <1>4, <2>1 DEF Counted, peerVars
<1>5. ASSUME NEW n \in 1 .. recvQ, temp' = n, recvQ' = recvQ - n, UNCHANGED connVars
      PROVE  EofInv'
  <2>1. recvQ \in Nat /\ recvQ # 0
    BY <1>5 DEF IInv, CallType
  <2>2. Counted'
    BY <1>1, <1>5, <2>1 DEF Counted, peerVars, IInv, CallType
  <2>3. Reason'
    BY <1>1, <1>5, <2>1 DEF Reason, connVars, dataVars, peerVars, flagVars
  <2> QED BY <1>2, <2>2, <2>3
<1> QED BY <1>3, <1>4, <1>5 DEF readEvent

\* A frame is handled.
LEMMA messageCallbackEof == ASSUME IInv, EofInv, messageCallback PROVE EofInv'
<1> USE DEF EofInv
<1>1. /\ UNCHANGED <<functions, recvQ, peerVars, flagVars>>
      /\ pc' \in {"take", "frames"}
      /\ temp > 0 /\ temp' = temp - 1 /\ handled' = handled + 1
  BY DEF messageCallback
<1>2. Counted' /\ Asked' /\ Waiting'
  BY <1>1 DEF Counted, Asked, Waiting, peerVars, flagVars, IInv, LoopType, CallType
<1>3. CASE write
  BY <1>1, <1>2, <1>3, WriteReason DEF peerVars, flagVars
<1>4. CASE UNCHANGED <<connVars, dataVars>>
  <2>1. temp # 0
    BY <1>1
  <2> QED BY <1>1, <1>2, <1>4, <2>1 DEF Reason, connVars, dataVars, peerVars, flagVars
<1> QED BY <1>2, <1>3, <1>4 DEF messageCallback

\* A write(2) of writeEvent closes only with output waiting.
LEMMA writeEventEof == ASSUME IInv, EofInv, writeEvent \/ writeEventEnd PROVE EofInv'
<1> USE DEF EofInv
<1>1. outBuffer \in Seq(Nat) /\ Len(outBuffer) \in Nat
  BY LenProperties DEF IInv, ConnInv, ConnType
<1>2. PICK len \in 0 .. Len(outBuffer), more \in BOOLEAN :
          /\ WriteSome(len, more)
          /\ outBuffer # <<>>
          /\ more => len < Len(outBuffer)
  <2>1. ASSUME NEW first \in 1 .. Len(outBuffer), WriteSome(first, first < Len(outBuffer))
        PROVE  /\ first \in 0 .. Len(outBuffer)
               /\ outBuffer # <<>>
    <3>1. Len(outBuffer) # 0 /\ first \in 0 .. Len(outBuffer)
      BY <1>1
    <3> QED BY <1>1, <3>1, EmptyLen
  <2>2. CASE writeEvent
    <3>1. PICK first \in 1 .. Len(outBuffer) : WriteSome(first, first < Len(outBuffer))
      BY <2>2 DEF writeEvent
    <3>2. (first < Len(outBuffer)) \in BOOLEAN
      OBVIOUS
    <3> QED BY <2>1, <3>1, <3>2
  <2>3. CASE writeEventEnd
    <3>1. Len(outBuffer) \in 0 .. Len(outBuffer) /\ FALSE \in BOOLEAN
      BY <1>1
    <3>2. outBuffer # <<>> /\ WriteSome(Len(outBuffer), FALSE)
      BY <2>3 DEF writeEventEnd, Waiting
    <3> QED BY <3>1, <3>2
  <2> QED BY <2>2, <2>3
<1>3. UNCHANGED <<produced, temp, functions, recvQ, peerVars, handled, flagVars>>
  BY <1>2 DEF WriteSome
<1>4. Counted' /\ Asked'
  BY <1>3 DEF Counted, Asked, peerVars, flagVars
<1>5. CASE closeEvent /\ pc' = "take" /\ UNCHANGED <<outBuffer, wire, sndQ>>
  <2>1. Reason'
    BY <1>2, <1>3, <1>5, CloseReason DEF peerVars, flagVars
  <2> QED BY <1>4, <1>5, <2>1 DEF Waiting
<1>6. ASSUME ~SendFails,
             NEW n \in Accepts(len),
             outBuffer' = SubSeq(outBuffer, n + 1, Len(outBuffer)),
             pc' = IF n = len /\ more THEN "writeEnd" ELSE "take",
             UNCHANGED <<state, registered, fd, released>>
      PROVE  EofInv'
  <2>1. Reason'
    BY <1>6 DEF Reason, SendFails, IInv, ConnInv, ConnType
  <2>2. pc' = "writeEnd" => outBuffer' # <<>>
    <3> SUFFICES ASSUME pc' = "writeEnd" PROVE outBuffer' # <<>>
      OBVIOUS
    <3>1. n = len /\ n < Len(outBuffer) /\ n \in 0 .. Len(outBuffer)
      BY <1>2, <1>6
    <3>2. outBuffer' \in Seq(Nat) /\ Len(outBuffer') = Len(outBuffer) - n
      BY <1>1, <1>6, <3>1, Split
    <3>3. Len(outBuffer') # 0
      BY <1>1, <3>1, <3>2
    <3> QED BY <3>2, <3>3, EmptyLen
  <2> QED BY <1>4, <1>6, <2>1, <2>2 DEF Waiting
<1> QED BY <1>2, <1>5, <1>6 DEF WriteSome

\* A closure: a queued close was asked for.
LEMMA RunFunctionEof == ASSUME IInv, EofInv, RunFunction PROVE EofInv'
<1> USE DEF EofInv
<1>1. /\ UNCHANGED <<temp, pc, revents, recvQ, peerVars, handled>>
      /\ pc = "run" /\ functions # <<>> /\ functions \in Seq(Closures) /\ Len(functions) > 0
  <2>1. pc = "run" /\ left > 0 /\ left <= Len(functions) /\ left \in Nat
    BY LenProperties DEF RunFunction, IInv, LoopType
  <2>2. Len(functions) \in Nat /\ functions # <<>> /\ functions \in Seq(Closures)
    BY <2>1, LenProperties, EmptySeq DEF IInv, LoopType
  <2> QED BY <2>1, <2>2 DEF RunFunction
<1>2. Counted' /\ Waiting'
  BY <1>1 DEF Counted, Waiting, peerVars
<1>3. CASE ConnectedHandle /\ UNCHANGED dataVars
  <2>1. fd' = fd /\ (closeAsked => closeAsked')
    <3>1. CASE UNCHANGED <<fd, closeAsked>>
      BY <3>1
    <3>2. CASE fd' = fd /\ closeAsked' = TRUE
      BY <3>2
    <3> QED BY <1>3, <3>1, <3>2 DEF ConnectedHandle, connVars, flagVars
  <2>2. Reason'
    BY <1>1, <1>3, <2>1, SameReason DEF dataVars, peerVars
  <2>3. Asked'
    <3>1. CASE functions' = Tail(functions)
      BY <1>1, <2>1, <3>1, AskedKeeps
    <3>2. CASE closeAsked' = TRUE
      BY <3>2 DEF Asked
    <3> QED BY <1>3, <3>1, <3>2 DEF ConnectedHandle
  <2> QED BY <1>2, <2>2, <2>3
<1>4. CASE /\ Head(functions) = "close" /\ closeEvent /\ functions' = Tail(functions)
           /\ UNCHANGED <<dataVars, flagVars>>
  <2>1. functions[1] = "close" /\ 1 \in 1 .. Len(functions)
    BY <1>1, <1>4, HeadTailProperties
  <2>2. closeAsked
    BY <2>1 DEF Asked
  <2>3. Reason' /\ Asked'
    BY <1>1, <1>4, <2>2, CloseReason, AskedKeeps DEF dataVars, peerVars, flagVars
  <2> QED BY <1>2, <2>3
<1>5. CASE write /\ functions' = Tail(functions) /\ UNCHANGED flagVars
  <2>1. Reason' /\ Asked'
    BY <1>1, <1>5, WriteReason, AskedKeeps DEF peerVars, flagVars
  <2> QED BY <1>2, <2>1
<1> QED BY <1>3, <1>4, <1>5 DEF RunFunction

\* Every step keeps the reasons.
LEMMA NextEof == IInv /\ EofInv /\ [Next]_vars => EofInv'
<1> SUFFICES ASSUME IInv, EofInv, [Next]_vars PROVE EofInv'
  OBVIOUS
<1>1. CASE LoopStep
  BY <1>1, WaitEventEof, NoHandlerEof, errEventEof, readEventEof, messageCallbackEof,
     writeEventEof, RunFunctionEof DEF LoopStep
<1>2. CASE UNCHANGED vars
  BY <1>2 DEF EofInv, Counted, Asked, Waiting, Reason, vars, connVars, dataVars, peerVars,
              flagVars
<1> QED BY <1>1, <1>2, CallEof, PeerEof DEF Next

\* A connection that ends without a reset, a Close or a failed write has given
\* every frame of its peer to messageCallback.
THEOREM EndOfStream == Spec => []EofLosesNothing
<1>1. Spec => []EofInv
  BY Invariance, InitEof, NextEof, PTL DEF Spec
<1>2. IInv /\ EofInv => EofLosesNothing
  <2> SUFFICES ASSUME IInv, EofInv, fd = "closed", ~rst, ~closeAsked, Len(wire) = produced
               PROVE  handled = sent
    BY DEF EofLosesNothing
  <2>1. temp = 0 /\ recvQ = 0
    BY OpenOutput DEF EofInv, Reason
  <2> QED BY <2>1 DEF EofInv, Counted, IInv, CallType
<1> QED BY Invariance, <1>1, <1>2, PTL
------------------------------------------------------------------------------
(* The growth of the output.                                               *)

\* The writes in a queue of closures, and the goroutines about to append one.
WritesIn(q) == {i \in 1 .. Len(q) : q[i] = "write"}
Writers == {g \in Users : user[g] = "write"}

\* The writes asked for by WriteInSelfLoop that are still to be made.
Due == Cardinality(WritesIn(functions)) + Cardinality(Writers)

\* The bytes of n replies.
Bytes(n) == n * ReplyLen

\* OutBufferBounded, with the writes and the replies still to come.
FlowInv ==
    /\ IsFiniteSet(Writers)
    /\ Due <= calls
    /\ Len(outBuffer) + Bytes(temp + Due) <= Bytes(ReadMax + calls)

\* The writes in a queue can be counted.
LEMMA WritesFinite ==
    ASSUME NEW q \in Seq(Closures)
    PROVE  IsFiniteSet(WritesIn(q)) /\ Cardinality(WritesIn(q)) \in Nat
<1>1. Len(q) \in Nat
  BY LenProperties
<1>2. IsFiniteSet(1 .. Len(q)) /\ WritesIn(q) \in SUBSET (1 .. Len(q))
  BY <1>1, FS_Interval DEF WritesIn
<1>3. IsFiniteSet(WritesIn(q))
  BY <1>2, FS_Subset
<1> QED BY <1>3, FS_CardinalityType

\* One closure more.
LEMMA WritesAppend ==
    ASSUME NEW q \in Seq(Closures), NEW c \in Closures
    PROVE  Cardinality(WritesIn(Append(q, c))) =
              Cardinality(WritesIn(q)) + IF c = "write" THEN 1 ELSE 0
<1> DEFINE r == Append(q, c)
           n == Len(q) + 1
<1>1. /\ Len(q) \in Nat /\ Len(r) = n
      /\ \A i \in 1 .. Len(q) : r[i] = q[i]
      /\ r[n] = c
  BY LenProperties, AppendProperties
<1> HIDE DEF r
<1>2. CASE c = "write"
  <2>1. WritesIn(r) = WritesIn(q) \cup {n} /\ n \notin WritesIn(q)
    BY <1>1, <1>2 DEF WritesIn
  <2>2. Cardinality(WritesIn(q) \cup {n}) = Cardinality(WritesIn(q)) + 1
    BY <2>1, WritesFinite, FS_AddElement
  <2> QED BY <1>2, <2>1, <2>2 DEF r
<1>3. CASE c # "write"
  <2>1. WritesIn(r) = WritesIn(q)
    BY <1>1, <1>3 DEF WritesIn
  <2> QED BY <1>3, <2>1, WritesFinite DEF r
<1> QED BY <1>2, <1>3

\* The first closure less.
LEMMA WritesTail ==
    ASSUME NEW q \in Seq(Closures), q # <<>>
    PROVE  Cardinality(WritesIn(q)) =
              Cardinality(WritesIn(Tail(q))) + IF Head(q) = "write" THEN 1 ELSE 0
<1> DEFINE r == Tail(q)
           f == [i \in WritesIn(r) |-> i + 1]
<1>1. /\ Len(q) \in Nat /\ Len(q) > 0
      /\ r \in Seq(Closures) /\ Len(r) = Len(q) - 1
      /\ \A i \in 1 .. Len(r) : r[i] = q[i + 1]
      /\ Head(q) = q[1]
  BY LenProperties, HeadTailProperties, EmptySeq
<1> HIDE DEF r
<1>2. ExistsBijection(WritesIn(r), WritesIn(q) \ {1})
  <2>1. f \in [WritesIn(r) -> WritesIn(q) \ {1}]
    BY <1>1 DEF WritesIn
  <2>2. \A i, j \in WritesIn(r) : f[i] = f[j] => i = j
    BY <1>1 DEF WritesIn
  <2>3. \A k \in WritesIn(q) \ {1} : \E i \in WritesIn(r) : f[i] = k
    <3> SUFFICES ASSUME NEW k \in WritesIn(q) \ {1} PROVE \E i \in WritesIn(r) : f[i] = k
      OBVIOUS
    <3>1. k \in 1 .. Len(q) /\ k # 1 /\ q[k] = "write"
      BY DEF WritesIn
    <3>2. k - 1 \in 1 .. Len(r) /\ (k - 1) + 1 = k
      BY <1>1, <3>1
    <3>3. k - 1 \in WritesIn(r)
      BY <1>1, <3>1, <3>2 DEF WritesIn
    <3> QED BY <3>2, <3>3
  <2> HIDE DEF f
  <2>4. f \in Bijection(WritesIn(r), WritesIn(q) \ {1})
    BY <2>1, <2>2, <2>3 DEF Bijection, Injection, IsInjective, Surjection
  <2> QED BY <2>4 DEF ExistsBijection
<1>3. Cardinality(WritesIn(q) \ {1}) = Cardinality(WritesIn(r))
  BY <1>1, <1>2, WritesFinite, FS_Bijection
<1>4. /\ Cardinality(WritesIn(q) \ {1}) =
            IF 1 \in WritesIn(q) THEN Cardinality(WritesIn(q)) - 1
                                 ELSE Cardinality(WritesIn(q))
      /\ Cardinality(WritesIn(q)) \in Nat
  <2>1. IsFiniteSet(WritesIn(q)) /\ Cardinality(WritesIn(q)) \in Nat
    BY WritesFinite
  <2>2. ASSUME NEW S, IsFiniteSet(S)
        PROVE  Cardinality(S \ {1}) =
                  IF 1 \in S THEN Cardinality(S) - 1 ELSE Cardinality(S)
    BY <2>2, FS_RemoveElement
  <2> QED BY <2>1, <2>2
<1>5. 1 \in WritesIn(q) <=> Head(q) = "write"
  BY <1>1 DEF WritesIn
<1> QED BY <1>3, <1>4, <1>5 DEF r

\* A goroutine begins or ends its call.
LEMMA WritersStep ==
    ASSUME IInv, IsFiniteSet(Writers), NEW g \in Users,
           NEW what, user' = [user EXCEPT ![g] = what]
    PROVE  /\ IsFiniteSet(Writers)' /\ Cardinality(Writers) \in Nat
           /\ Cardinality(Writers)' =
                 Cardinality(Writers) + (IF what = "write" THEN 1 ELSE 0)
                                      - (IF user[g] = "write" THEN 1 ELSE 0)
<1>1. user \in [Users -> {"idle", "write", "close", "set", "shutdown"}]
  BY DEF IInv, CallType
<1>2. Cardinality(Writers) \in Nat
  BY FS_CardinalityType
<1>3. CASE what = "write"
  <2>1. Writers' = Writers \cup {g}
    BY <1>1, <1>3 DEF Writers
  <2>2. /\ IsFiniteSet(Writers \cup {g})
        /\ Cardinality(Writers \cup {g}) =
              IF g \in Writers THEN Cardinality(Writers) ELSE Cardinality(Writers) + 1
    BY FS_AddElement
  <2>3. g \in Writers <=> user[g] = "write"
    BY DEF Writers
  <2> QED BY <1>2, <1>3, <2>1, <2>2, <2>3
<1>4. CASE what # "write"
  <2>1. Writers' = Writers \ {g}
    BY <1>1, <1>4 DEF Writers
  <2>2. /\ IsFiniteSet(Writers \ {g})
        /\ Cardinality(Writers \ {g}) =
              IF g \in Writers THEN Cardinality(Writers) - 1 ELSE Cardinality(Writers)
    BY FS_RemoveElement
  <2>3. g \in Writers <=> user[g] = "write"
    BY DEF Writers
  <2> QED BY <1>2, <1>4, <2>1, <2>2, <2>3
<1> QED BY <1>3, <1>4

\* Types of what is counted.
LEMMA FlowTypes ==
    ASSUME IInv, IsFiniteSet(Writers)
    PROVE  /\ Cardinality(WritesIn(functions)) \in Nat
           /\ Cardinality(Writers) \in Nat /\ Due \in Nat
           /\ temp \in Nat /\ calls \in Nat /\ Len(outBuffer) \in Nat
           /\ ReplyLen \in Nat /\ ReadMax \in Nat
<1>1. Cardinality(WritesIn(functions)) \in Nat /\ Cardinality(Writers) \in Nat
  BY WritesFinite, FS_CardinalityType DEF IInv, LoopType
<1>2. outBuffer \in Seq(Nat)
  BY DEF IInv, ConnInv, ConnType
<1> QED BY <1>1, <1>2, LenProperties, ConnectAssumption DEF Due, IInv, LoopType, CallType

\* A sum has the type of its terms.
LEMMA SumType == \A m, n \in Nat : m + n \in Nat
OBVIOUS

\* Bytes adds up.
LEMMA BytesSum ==
    ASSUME NEW m \in Nat, NEW n \in Nat
    PROVE  /\ Bytes(m) \in Nat /\ Bytes(0) = 0 /\ Bytes(1) = ReplyLen
           /\ Bytes(m + n) = Bytes(m) + Bytes(n)
<1>1. ReplyLen \in Nat
  BY ConnectAssumption
<1> QED BY <1>1, SMTT(20) DEF Bytes

\* More replies are more bytes.
LEMMA BytesGrow ==
    ASSUME NEW m \in Nat, NEW n \in Nat, m <= n
    PROVE  Bytes(m) <= Bytes(n)
<1>1. n - m \in Nat /\ n = m + (n - m)
  OBVIOUS
<1>2. Bytes(n) = Bytes(m) + Bytes(n - m) /\ Bytes(m) \in Nat /\ Bytes(n - m) \in Nat
  BY <1>1, BytesSum
<1> QED BY <1>2

\* The arithmetic of FlowStep.
LEMMA FlowSum ==
    ASSUME NEW x \in Nat, NEW y \in Nat, NEW a \in Nat, NEW b \in Nat, NEW c \in Nat,
           NEW k \in Nat, NEW d \in Nat,
           y + k <= x + d, c <= b + Bytes(k), b + Bytes(x) <= Bytes(a)
    PROVE  c + Bytes(y) <= Bytes(a + d)
<1>1. y + k \in Nat /\ x + d \in Nat
  OBVIOUS
<1>2. Bytes(y + k) <= Bytes(x + d)
  BY <1>1, BytesGrow
<1>3. /\ Bytes(y + k) = Bytes(y) + Bytes(k) /\ Bytes(y) \in Nat /\ Bytes(k) \in Nat
      /\ Bytes(x + d) = Bytes(x) + Bytes(d) /\ Bytes(x) \in Nat /\ Bytes(d) \in Nat
      /\ Bytes(a + d) = Bytes(a) + Bytes(d) /\ Bytes(a) \in Nat
  BY BytesSum
<1> QED BY <1>2, <1>3

\* A step that adds to the output no more than the replies and writes it takes off
\* those still to come, and that asks for writes only with a call.
LEMMA FlowStep ==
    ASSUME IInv, IInv', FlowInv, IsFiniteSet(Writers'),
           NEW k \in {0, 1}, NEW d \in {0, 1},
           calls' = calls + d,
           Len(outBuffer') <= Len(outBuffer) + Bytes(k),
           temp' + Due' + k <= temp + Due + d,
           Due' <= Due + d
    PROVE  FlowInv'
<1>1. /\ Due \in Nat /\ temp \in Nat /\ calls \in Nat /\ Len(outBuffer) \in Nat
      /\ ReadMax \in Nat
      /\ Due <= calls
      /\ Len(outBuffer) + Bytes(temp + Due) <= Bytes(ReadMax + calls)
  BY FlowTypes DEF FlowInv
<1>2. Due' \in Nat /\ temp' \in Nat /\ Len(outBuffer') \in Nat
  <2>1. /\ functions' \in Seq(Closures) /\ outBuffer' \in Seq(Nat) /\ temp' \in Nat
        /\ IsFiniteSet(Writers')
    BY DEF IInv, LoopType, ConnInv, ConnType
  <2>2. Cardinality(WritesIn(functions')) \in Nat /\ Cardinality(Writers') \in Nat
    BY <2>1, WritesFinite, FS_CardinalityType
  <2>3. Len(outBuffer') \in Nat
    BY <2>1, LenProperties
  <2>4. Due' = Cardinality(WritesIn(functions')) + Cardinality(Writers')
    BY DEF Due
  <2>5. Due' \in Nat
    BY <2>2, <2>4, SumType, Zenon
  <2> QED BY <2>1, <2>3, <2>5
<1>3. k \in Nat /\ d \in Nat
  OBVIOUS
<1>4. /\ temp + Due \in Nat /\ temp' + Due' \in Nat /\ ReadMax + calls \in Nat
      /\ (temp' + Due') + k <= (temp + Due) + d
      /\ ReadMax + calls' = (ReadMax + calls) + d
      /\ Due' <= calls'
  <2> DEFINE u == Due
             v == Due'
  <2>1. /\ temp \in Nat /\ temp' \in Nat /\ u \in Nat /\ v \in Nat
        /\ calls \in Nat /\ ReadMax \in Nat /\ calls' = calls + d
        /\ temp' + v + k <= temp + u + d /\ u <= calls /\ v <= u + d
    BY <1>1, <1>2
  <2> HIDE DEF u, v
  <2>2. temp + u \in Nat /\ temp' + v \in Nat /\ ReadMax + calls \in Nat
    BY <2>1, SumType, Zenon
  <2>3. (temp' + v) + k <= (temp + u) + d
    BY <2>1
  <2>4. ReadMax + calls' = (ReadMax + calls) + d
    BY <1>3, <2>1
  <2>5. v <= calls'
    BY <1>3, <2>1
  <2> QED BY <2>2, <2>3, <2>4, <2>5 DEF u, v
<1>5. Len(outBuffer') + Bytes(temp' + Due') <= Bytes((ReadMax + calls) + d)
  <2> DEFINE x == temp + Due
             y == temp' + Due'
             a == ReadMax + calls
             b == Len(outBuffer)
             c == Len(outBuffer')
  <2>1. /\ x \in Nat /\ y \in Nat /\ a \in Nat /\ b \in Nat /\ c \in Nat
        /\ y + k <= x + d /\ c <= b + Bytes(k) /\ b + Bytes(x) <= Bytes(a)
    BY <1>1, <1>2, <1>4
  <2> HIDE DEF x, y, a, b, c
  <2>2. c + Bytes(y) <= Bytes(a + d)
    BY <1>3, <2>1, FlowSum
  <2> QED BY <2>2 DEF x, y, a, b, c
<1>6. Bytes(ReadMax + calls') = Bytes((ReadMax + calls) + d)
  BY <1>4
<1> QED BY <1>4, <1>5, <1>6, ConnectAssumption DEF FlowInv

\* A step that leaves alone what is still to come, and does not grow the output.
LEMMA QuietFlow ==
    ASSUME IInv, IInv', FlowInv, UNCHANGED <<functions, user, calls, temp>>,
           Len(outBuffer') <= Len(outBuffer)
    PROVE  FlowInv'
<1>1. IsFiniteSet(Writers) /\ IsFiniteSet(Writers') /\ Due' = Due
  BY DEF FlowInv, Writers, Due
<1>2. Due \in Nat /\ temp \in Nat /\ calls \in Nat /\ Len(outBuffer) \in Nat
  BY <1>1, FlowTypes
<1>3. Bytes(0) = 0
  BY BytesSum
<1>4. /\ calls' = calls + 0 /\ 0 \in {0, 1}
      /\ temp' + Due' + 0 <= temp + Due + 0 /\ Due' <= Due + 0
      /\ Len(outBuffer) + Bytes(0) = Len(outBuffer)
  BY <1>1, <1>2, <1>3
<1> QED BY <1>1, <1>4, FlowStep

\* A new connection.
LEMMA InitFlow == ASSUME Init PROVE FlowInv
<1>1. IsFiniteSet(Writers) /\ Cardinality(Writers) = 0
  <2>1. Writers = {}
    BY DEF Init, Writers
  <2> QED BY <2>1, FS_EmptySet
<1>2. Cardinality(WritesIn(functions)) = 0
  <2>1. functions = <<"connected">> /\ Len(<<"connected">>) = 1
    BY DEF Init
  <2>2. WritesIn(functions) = {}
    BY <2>1 DEF WritesIn
  <2> QED BY <2>2, FS_EmptySet
<1>3. Due = 0 /\ calls = 0 /\ temp = 0 /\ Len(outBuffer) = 0
  BY <1>1, <1>2 DEF Due, Init
<1>4. Bytes(0) = 0 /\ ReadMax + 0 \in Nat /\ Bytes(ReadMax + 0) \in Nat
  BY BytesSum, ConnectAssumption
<1> QED BY <1>1, <1>3, <1>4 DEF FlowInv

\* write makes the output longer by one reply at most.
LEMMA WriteGrows ==
    ASSUME IInv, write
    PROVE  Len(outBuffer') <= Len(outBuffer) + Bytes(1)
<1>1. /\ outBuffer \in Seq(Nat) /\ Len(outBuffer) \in Nat
      /\ NextBytes \in Seq(Nat) /\ Len(NextBytes) = ReplyLen /\ ReplyLen \in Nat
      /\ Bytes(1) = ReplyLen
  BY LenProperties, NextBytesFollow, BytesSum, ConnectAssumption DEF IInv, ConnInv, ConnType
<1>2. CASE outBuffer' = outBuffer \o NextBytes
  BY <1>1, <1>2, ConcatProperties
<1>3. ASSUME NEW n \in Accepts(ReplyLen), outBuffer' = SubSeq(NextBytes, n + 1, ReplyLen)
      PROVE  Len(outBuffer') <= Len(outBuffer) + Bytes(1)
  <2>1. n \in 0 .. ReplyLen
    BY <1>1, <1>3, AcceptsBounds DEF IInv, ConnInv
  <2>2. Len(outBuffer') = ReplyLen - n
    BY <1>1, <1>3, <2>1, Split
  <2> QED BY <1>1, <2>1, <2>2
<1>4. CASE outBuffer' = outBuffer
  BY <1>1, <1>4
<1> QED BY <1>2, <1>3, <1>4 DEF write

\* The peer, and the loop outside its writes, leave the output alone.
LEMMA StillFlow ==
    ASSUME IInv, IInv', FlowInv,
           PeerStep \/ WaitEvent \/ NoHandler \/ errEvent \/ runAllFunctionInLoop
    PROVE  FlowInv'
<1>1. UNCHANGED <<functions, user, calls, temp, outBuffer>>
  <2>1. CASE PeerStep
    BY <2>1 DEF PeerStep, PeerSend, PeerFin, PeerReset, PeerDrain, dataVars, userVars
  <2>2. CASE WaitEvent \/ NoHandler \/ errEvent \/ runAllFunctionInLoop
    BY <2>2 DEF WaitEvent, NoHandler, errEvent, runAllFunctionInLoop, dataVars, userVars
  <2> QED BY <2>1, <2>2
<1>2. Len(outBuffer) \in Nat
  BY FlowTypes DEF FlowInv
<1>3. Len(outBuffer') <= Len(outBuffer)
  BY <1>1, <1>2
<1> QED BY <1>1, <1>3, QuietFlow

\* A read happens only with no output waiting, and returns at most ReadMax frames.
LEMMA readEventFlow ==
    ASSUME IInv, IInv', FlowInv, readEvent
    PROVE  FlowInv'
<1>1. UNCHANGED <<functions, user, calls, outBuffer>>
  BY DEF readEvent, dataVars, userVars
<1>2. /\ IsFiniteSet(Writers) /\ IsFiniteSet(Writers') /\ Due' = Due
      /\ Due \in Nat /\ calls \in Nat /\ Len(outBuffer) \in Nat /\ ReadMax \in Nat
      /\ Due <= calls
  BY <1>1, FlowTypes DEF FlowInv, Writers, Due
<1>3. CASE temp' = temp
  BY <1>1, <1>2, <1>3, QuietFlow
<1>4. ASSUME ~MustPause, NEW n \in 1 .. recvQ, n <= ReadMax, temp' = n
      PROVE  FlowInv'
  <2>1. outBuffer' = <<>> /\ n \in Nat
    BY <1>1, <1>4 DEF MustPause, IInv, CallType
  <2>2. Len(outBuffer') = 0
    BY <2>1, EmptyLen
  <2>3. n + Due <= ReadMax + calls
    BY <1>2, <1>4, <2>1
  <2>4. n + Due \in Nat /\ ReadMax + calls \in Nat
    BY <1>2, <2>1
  <2>5. Bytes(n + Due) <= Bytes(ReadMax + calls) /\ Bytes(n + Due) \in Nat
    BY <2>3, <2>4, BytesGrow, BytesSum
  <2>6. Len(outBuffer') + Bytes(temp' + Due') <= Bytes(ReadMax + calls')
    <3>1. 0 + Bytes(n + Due) = Bytes(n + Due)
      BY <2>5
    <3> QED BY <1>1, <1>2, <1>4, <2>2, <2>5, <3>1
  <2> QED BY <1>1, <1>2, <2>6 DEF FlowInv
<1> QED BY <1>3, <1>4 DEF readEvent

\* A frame handled takes its reply off those still to come.
LEMMA messageCallbackFlow ==
    ASSUME IInv, IInv', FlowInv, messageCallback
    PROVE  FlowInv'
<1>1. /\ UNCHANGED <<functions, user, calls>>
      /\ temp > 0 /\ temp' = temp - 1
  BY DEF messageCallback, userVars
<1>2. /\ IsFiniteSet(Writers') /\ Due' = Due
      /\ Due \in Nat /\ calls \in Nat /\ Len(outBuffer) \in Nat /\ temp \in Nat
  BY <1>1, FlowTypes DEF FlowInv, Writers, Due
<1>3. Len(outBuffer') <= Len(outBuffer) + Bytes(1)
  <2>1. CASE write
    BY <2>1, WriteGrows
  <2>2. CASE outBuffer' = outBuffer
    <3>1. Bytes(1) \in Nat
      BY BytesSum
    <3> QED BY <1>2, <2>2, <3>1
  <2> QED BY <2>1, <2>2 DEF messageCallback, dataVars
<1>4. calls' = calls + 0 /\ Due' <= Due + 0 /\ temp' + Due' + 1 <= temp + Due + 0
  BY <1>1, <1>2
<1> QED BY <1>2, <1>3, <1>4, FlowStep

\* writeEvent only takes bytes out.
LEMMA writeEventFlow ==
    ASSUME IInv, IInv', FlowInv, writeEvent \/ writeEventEnd
    PROVE  FlowInv'
<1>1. outBuffer \in Seq(Nat) /\ Len(outBuffer) \in Nat
  BY LenProperties DEF IInv, ConnInv, ConnType
<1>2. PICK len \in 0 .. Len(outBuffer), more \in BOOLEAN : WriteSome(len, more)
  <2>1. CASE writeEvent
    <3>1. PICK first \in 1 .. Len(outBuffer) : WriteSome(first, first < Len(outBuffer))
      BY <2>1 DEF writeEvent
    <3>2. first \in 0 .. Len(outBuffer) /\ (first < Len(outBuffer)) \in BOOLEAN
      BY <1>1
    <3> QED BY <3>1, <3>2
  <2>2. CASE writeEventEnd
    <3>1. Len(outBuffer) \in 0 .. Len(outBuffer) /\ FALSE \in BOOLEAN
      BY <1>1
    <3> QED BY <2>2, <3>1 DEF writeEventEnd
  <2> QED BY <2>1, <2>2
<1>3. UNCHANGED <<functions, user, calls, temp>>
  BY <1>2 DEF WriteSome, userVars
<1>4. CASE outBuffer' = outBuffer
  BY <1>1, <1>3, <1>4, QuietFlow
<1>5. ASSUME NEW n \in Accepts(len), outBuffer' = SubSeq(outBuffer, n + 1, Len(outBuffer))
      PROVE  FlowInv'
  <2>1. n \in 0 .. len /\ n \in 0 .. Len(outBuffer)
    BY <1>1, <1>2, <1>5, AcceptsBounds DEF IInv, ConnInv
  <2>2. Len(outBuffer') = Len(outBuffer) - n
    BY <1>1, <1>5, <2>1, Split
  <2>3. Len(outBuffer') <= Len(outBuffer)
    BY <1>1, <2>1, <2>2
  <2> QED BY <1>3, <2>3, QuietFlow
<1> QED BY <1>2, <1>4, <1>5 DEF WriteSome

\* A step that leaves the output alone, and asks for a write only with a call.
LEMMA AskFlow ==
    ASSUME IInv, IInv', FlowInv, IsFiniteSet(Writers'), UNCHANGED <<outBuffer, temp>>,
           NEW d \in {0, 1}, calls' = calls + d, Due' \in Nat, Due' <= Due + d
    PROVE  FlowInv'
<1>1. /\ Due \in Nat /\ temp \in Nat /\ Len(outBuffer) \in Nat /\ Bytes(0) = 0
      /\ Len(outBuffer') = Len(outBuffer)
  BY FlowTypes, BytesSum DEF FlowInv
<1>2. Len(outBuffer') <= Len(outBuffer) + Bytes(0)
  BY <1>1
<1>3. temp' + Due' + 0 <= temp + Due + d /\ 0 \in {0, 1}
  <2>1. \A t, u, v, n \in Nat : v <= u + n => t + v + 0 <= t + u + n
    OBVIOUS
  <2>2. d \in Nat /\ 0 \in {0, 1} /\ temp' = temp
    OBVIOUS
  <2> QED BY <1>1, <2>1, <2>2, Zenon
<1> QED BY <1>2, <1>3, FlowStep

\* A closure leaves the queue: a write it makes is no longer to come.
LEMMA RunFunctionFlow ==
    ASSUME IInv, IInv', FlowInv, RunFunction
    PROVE  FlowInv'
<1> DEFINE n == Cardinality(WritesIn(Tail(functions)))
<1>1. UNCHANGED <<temp, user, calls>>
  BY DEF RunFunction, userVars
<1>2. functions # <<>> /\ functions \in Seq(Closures) /\ Tail(functions) \in Seq(Closures)
  <2>1. left > 0 /\ left \in 0 .. Len(functions) /\ functions \in Seq(Closures)
    BY DEF RunFunction, IInv, LoopType
  <2>2. functions # <<>>
    BY <2>1, LenProperties, EmptySeq
  <2> QED BY <2>1, <2>2, HeadTailProperties
<1>3. /\ n \in Nat
      /\ Cardinality(WritesIn(functions)) =
            n + IF Head(functions) = "write" THEN 1 ELSE 0
  BY <1>2, WritesFinite, WritesTail
<1>4. IsFiniteSet(Writers) /\ Writers' = Writers /\ Cardinality(Writers) \in Nat
  BY <1>1, FS_CardinalityType DEF FlowInv, Writers
<1>5. /\ Due = Cardinality(WritesIn(functions)) + Cardinality(Writers)
      /\ Due' = Cardinality(WritesIn(functions')) + Cardinality(Writers)
  BY <1>4 DEF Due
<1>6. /\ calls \in Nat /\ calls' = calls + 0 /\ temp \in Nat
  BY <1>1, <1>4, FlowTypes
<1>7. CASE Head(functions) = "write" /\ write /\ functions' = Tail(functions)
  <2>1. Due' = n + Cardinality(Writers) /\ Due = (n + 1) + Cardinality(Writers)
    BY <1>3, <1>5, <1>7
  <2>2. Due' <= Due + 0 /\ Due' + 1 = Due /\ Due' \in Nat
    BY <1>3, <1>4, <2>1
  <2>3. temp' + Due' + 1 <= temp + Due + 0
    BY <1>1, <1>6, <2>2
  <2> QED BY <1>4, <1>6, <1>7, <2>2, <2>3, WriteGrows, FlowStep
<1>8. CASE /\ Head(functions) # "write" /\ UNCHANGED outBuffer
           /\ \/ functions' = Tail(functions)
              \/ functions' = Append(Tail(functions), "close")
  <2>1. Cardinality(WritesIn(functions')) = n
    <3>1. "close" \in Closures
      BY DEF Closures
    <3>2. CASE functions' = Append(Tail(functions), "close")
      <4>1. Cardinality(WritesIn(functions')) = n + 0
        BY <1>2, <3>1, <3>2, WritesAppend
      <4> QED BY <1>3, <4>1
    <3> QED BY <1>8, <3>2
  <2>2. Due' = n + Cardinality(Writers) /\ Due = (n + 0) + Cardinality(Writers)
    BY <1>3, <1>5, <1>8, <2>1
  <2>3. Due' \in Nat /\ Due' <= Due + 0
    BY <1>3, <1>4, <2>2
  <2> QED BY <1>1, <1>4, <1>6, <1>8, <2>3, AskFlow
<1>9. ConnectedHandle => \/ functions' = Tail(functions)
                         \/ functions' = Append(Tail(functions), "close")
  BY DEF ConnectedHandle
<1> QED BY <1>7, <1>8, <1>9 DEF RunFunction, dataVars

\* The calls of the methods, by messageCallback and by other goroutines.
LEMMA CallFlow ==
    ASSUME IInv, IInv', FlowInv, CallStep
    PROVE  FlowInv'
<1> DEFINE w == Cardinality(WritesIn(functions))
           v == Cardinality(Writers)
<1>1. /\ functions \in Seq(Closures) /\ calls \in Nat /\ Due = w + v
      /\ w \in Nat /\ v \in Nat /\ IsFiniteSet(Writers)
      /\ Due' = Cardinality(WritesIn(functions')) + Cardinality(Writers')
  BY FlowTypes DEF FlowInv, Due, IInv, LoopType
<1>2. ASSUME NEW c \in {"write", "close"}, CallbackPost(c) PROVE FlowInv'
  <2>1. /\ UNCHANGED <<outBuffer, temp, user>> /\ calls' = calls + 1
        /\ functions' = Append(functions, c) /\ c \in Closures
    BY <1>2 DEF CallbackPost, InCallback, dataVars, Closures
  <2>2. Writers' = Writers
    BY <2>1 DEF Writers
  <2>3. Cardinality(WritesIn(functions')) = w + IF c = "write" THEN 1 ELSE 0
    BY <1>1, <2>1, WritesAppend
  <2>4. Due' \in Nat /\ Due' <= Due + 1
    BY <1>1, <2>2, <2>3
  <2> QED BY <1>1, <2>1, <2>2, <2>4, AskFlow
<1>3. CASE CallbackShutdownWrite
  <2>1. UNCHANGED <<outBuffer, temp, user, functions>> /\ calls' = calls + 1
    BY <1>3 DEF CallbackShutdownWrite, InCallback, dataVars
  <2>2. Writers' = Writers
    BY <2>1 DEF Writers
  <2>3. Due' \in Nat /\ Due' <= Due + 1
    BY <1>1, <2>1, <2>2
  <2> QED BY <1>1, <2>1, <2>2, <2>3, AskFlow
<1>4. ASSUME NEW g \in Users, WriteInSelfLoop(g) \/ Close(g) \/ ShutdownWrite(g)
      PROVE  FlowInv'
  <2>1. PICK next : Begin(g, next)
    BY <1>4 DEF WriteInSelfLoop, Close, ShutdownWrite
  <2>2. /\ UNCHANGED <<outBuffer, temp, functions>> /\ calls' = calls + 1
        /\ user' = [user EXCEPT ![g] = next] /\ user[g] = "idle"
    BY <2>1 DEF Begin, dataVars
  <2>3. /\ IsFiniteSet(Writers)'
        /\ Cardinality(Writers)' = v + (IF next = "write" THEN 1 ELSE 0)
                                     - (IF user[g] = "write" THEN 1 ELSE 0)
    BY <1>1, <2>2, WritersStep
  <2>4. Cardinality(Writers') = v + IF next = "write" THEN 1 ELSE 0
    BY <1>1, <2>2, <2>3
  <2>5. Due' \in Nat /\ Due' <= Due + 1
    BY <1>1, <2>2, <2>4
  <2> QED BY <1>1, <2>2, <2>3, <2>5, AskFlow
<1>5. ASSUME NEW g \in Users, RunInLoop(g) PROVE FlowInv'
  <2>1. /\ UNCHANGED <<outBuffer, temp, calls>> /\ user' = [user EXCEPT ![g] = "idle"]
        /\ functions' = Append(functions, user[g]) /\ user[g] \in Closures
    BY <1>5 DEF RunInLoop, dataVars, Closures
  <2>2. /\ IsFiniteSet(Writers)'
        /\ Cardinality(Writers)' = v + (IF "idle" = "write" THEN 1 ELSE 0)
                                     - (IF user[g] = "write" THEN 1 ELSE 0)
    BY <1>1, <2>1, WritersStep
  <2>3. Cardinality(WritesIn(functions')) = w + IF user[g] = "write" THEN 1 ELSE 0
    BY <1>1, <2>1, WritesAppend
  <2>4. IsFiniteSet(Writers') /\ Cardinality(Writers') \in Nat
    BY <2>2, FS_CardinalityType
  <2>5. Due' = w + v
    BY <1>1, <2>2, <2>3
  <2>6. Due' \in Nat /\ Due' <= Due + 0 /\ calls' = calls + 0
    BY <1>1, <2>1, <2>5
  <2> QED BY <2>1, <2>4, <2>6, AskFlow
<1>6. ASSUME NEW g \in Users, ShutdownWriteSet(g) \/ ShutdownWriteCall(g)
      PROVE  FlowInv'
  <2>1. PICK next \in {"idle", "shutdown"} : user' = [user EXCEPT ![g] = next]
    BY <1>6 DEF ShutdownWriteSet, ShutdownWriteCall
  <2>2. UNCHANGED <<outBuffer, temp, functions, calls>> /\ user[g] # "write"
    BY <1>6 DEF ShutdownWriteSet, ShutdownWriteCall, dataVars
  <2>3. /\ IsFiniteSet(Writers)'
        /\ Cardinality(Writers)' = v + (IF next = "write" THEN 1 ELSE 0)
                                     - (IF user[g] = "write" THEN 1 ELSE 0)
    BY <1>1, <2>1, WritersStep
  <2>4. Due' = w + v
    BY <1>1, <2>1, <2>2, <2>3
  <2>5. Due' \in Nat /\ Due' <= Due + 0 /\ calls' = calls + 0
    BY <1>1, <2>2, <2>4
  <2> QED BY <1>1, <2>2, <2>3, <2>5, AskFlow
<1> QED BY <1>2, <1>3, <1>4, <1>5, <1>6 DEF CallStep

\* Every step keeps the bound.
LEMMA NextFlow == IInv /\ FlowInv /\ [Next]_vars => FlowInv'
<1> SUFFICES ASSUME IInv, FlowInv, [Next]_vars PROVE FlowInv'
  OBVIOUS
<1>1. IInv'
  BY NextInv
<1>2. CASE LoopStep
  BY <1>1, <1>2, StillFlow, readEventFlow, messageCallbackFlow, writeEventFlow,
     RunFunctionFlow DEF LoopStep
<1>3. CASE UNCHANGED vars
  <2>1. UNCHANGED <<functions, user, calls, temp, outBuffer>>
    BY <1>3 DEF vars, dataVars, userVars
  <2>2. Len(outBuffer') <= Len(outBuffer)
    BY <2>1, FlowTypes DEF FlowInv
  <2> QED BY <1>1, <2>1, <2>2, QuietFlow
<1> QED BY <1>1, <1>2, <1>3, CallFlow, StillFlow DEF Next

\* The output never exceeds the replies to one read and the calls of WriteInSelfLoop.
THEOREM OutputBounded == Spec => []OutBufferBounded
<1>1. Spec => []FlowInv
  BY Invariance, InitFlow, NextFlow, PTL DEF Spec
<1>2. IInv /\ FlowInv => OutBufferBounded
  <2> SUFFICES ASSUME IInv, FlowInv PROVE OutBufferBounded
    OBVIOUS
  <2>1. /\ Len(outBuffer) \in Nat /\ temp + Due \in Nat /\ ReadMax + calls \in Nat
        /\ Len(outBuffer) + Bytes(temp + Due) <= Bytes(ReadMax + calls)
    BY FlowTypes DEF FlowInv
  <2>2. Bytes(temp + Due) \in Nat /\ Bytes(ReadMax + calls) \in Nat
    BY <2>1, BytesSum
  <2>3. Len(outBuffer) <= Bytes(ReadMax + calls)
    BY <2>1, <2>2
  <2> QED BY <2>3 DEF OutBufferBounded, Bytes
<1> QED BY Invariance, <1>1, <1>2, PTL
------------------------------------------------------------------------------
(* The connection implements Channel.                                      *)

\* What was sent is no longer than what was given.
LEMMA SentLength ==
    ASSUME NEW w \in Seq(Nat), NEW b \in Seq(Nat), NEW p \in Nat, w \o b = Numbers(p)
    PROVE  Len(w) \in 0 .. p
<1>1. Len(w) \in Nat /\ Len(b) \in Nat
  BY LenProperties
<1>2. Len(w \o b) = Len(w) + Len(b)
  BY ConcatProperties
<1>3. Len(Numbers(p)) = p
  BY CountOn DEF Numbers
<1> QED BY <1>1, <1>2, <1>3

\* How a step treats the output: it sends while the connection stays open, or
\* the connection is or becomes closed and nothing is sent.
Output ==
    \/ fd = "open" /\ fd' = "open" /\ Ends!Send
    \/ fd' = "closed" /\ Ends!Lose

\* While the connection stays open, output that grows is output in order.
LEMMA OpenSends ==
    ASSUME IInv, IInv', fd' = "open", produced <= produced', Len(wire) <= Len(wire')
    PROVE  Ends!Send
<1>1. /\ wire \in Seq(Nat) /\ wire' \in Seq(Nat) /\ outBuffer' \in Seq(Nat)
      /\ produced' \in Nat
  BY DEF IInv, ConnInv, ConnType
<1>2. wire' \o outBuffer' = Numbers(produced') /\ wire' = Numbers(Len(wire'))
  BY DEF IInv, ConnInv, RepliesInOrder, Numbers
<1>3. Len(wire') \in 0 .. produced'
  BY <1>1, <1>2, SentLength
<1>4. Len(wire) \in Nat
  BY <1>1, LenProperties
<1>5. Len(wire') \in Len(wire) .. produced'
  BY <1>1, <1>3, <1>4
<1>6. wire' = Ends!Bytes(Len(wire'))
  BY <1>2 DEF Ends!Bytes, Numbers
<1> QED BY <1>5, <1>6 DEF Ends!Send

\* A step that sends nothing, and closes the connection or leaves it as it is.
LEMMA SendsNothing ==
    ASSUME IInv, IInv', wire' = wire, produced <= produced', fd' \in {fd, "closed"}
    PROVE  Output
<1>1. fd \in {"open", "closed"} /\ wire \in Seq(Nat)
  BY DEF IInv, ConnInv, ConnType
<1>2. CASE fd' = "closed"
  BY <1>2 DEF Output, Ends!Lose
<1>3. CASE fd' = "open" /\ fd = "open"
  <2>1. Len(wire) \in Nat /\ Len(wire') = Len(wire)
    BY <1>1, LenProperties
  <2>2. Len(wire) <= Len(wire')
    BY <2>1
  <2> QED BY <1>3, <2>2, OpenSends DEF Output
<1> QED BY <1>1, <1>2, <1>3

\* closeEvent sends nothing.
LEMMA CloseOutput ==
    ASSUME IInv, IInv', closeEvent, UNCHANGED <<wire, produced>>
    PROVE  Output
<1>1. fd' \in {fd, "closed"}
  BY DEF closeEvent, connVars
<1>2. produced <= produced'
  BY DEF IInv, ConnInv, ConnType
<1> QED BY <1>1, <1>2, SendsNothing

\* The kernel takes a part of the bytes offered.
LEMMA TransmitOutput ==
    ASSUME IInv, IInv', NEW data \in Seq(Nat), NEW n \in 0 .. Len(data),
           ~SendFails, Transmit(data, n), fd' = fd, produced <= produced'
    PROVE  Output
<1>1. fd = "open"
  BY DEF SendFails, IInv, ConnInv, ConnType
<1>2. /\ SubSeq(data, 1, n) \in Seq(Nat) /\ Len(SubSeq(data, 1, n)) = n
      /\ wire \in Seq(Nat) /\ Len(wire) \in Nat
  BY Split, LenProperties DEF IInv, ConnInv, ConnType
<1>3. Len(wire') = Len(wire) + n
  BY <1>2, ConcatProperties DEF Transmit
<1>4. Len(wire) <= Len(wire')
  BY <1>2, <1>3
<1> QED BY <1>1, <1>4, OpenSends DEF Output

\* write sends in order, or closes, or is too late.
LEMMA WriteOutput == ASSUME IInv, IInv', write PROVE Output
<1>1. /\ produced' = produced + ReplyLen /\ produced \in Nat /\ ReplyLen \in Nat
      /\ NextBytes \in Seq(Nat) /\ Len(NextBytes) = ReplyLen
  BY NextBytesFollow, ConnectAssumption DEF write, IInv, ConnInv, ConnType
<1>2. produced <= produced'
  BY <1>1
<1>3. CASE UNCHANGED <<connVars, wire>>
  BY <1>2, <1>3, SendsNothing DEF connVars
<1>4. ASSUME ~SendFails, NEW n \in Accepts(ReplyLen), Transmit(NextBytes, n), fd' = fd
      PROVE  Output
  <2>1. n \in 0 .. Len(NextBytes)
    BY <1>1, <1>4, AcceptsBounds DEF IInv, ConnInv
  <2> QED BY <1>1, <1>2, <1>4, <2>1, TransmitOutput
<1>5. CASE closeEvent /\ UNCHANGED wire
  <2>1. fd' \in {fd, "closed"}
    BY <1>5 DEF closeEvent, connVars
  <2> QED BY <1>2, <1>5, <2>1, SendsNothing
<1> QED BY <1>3, <1>4, <1>5 DEF write

\* A step of the output that handles the next frame or none is a step of Channel.
LEMMA OutputIsChannel ==
    ASSUME IInv, Counted, Output, sent' = sent,
           handled' = handled \/ (temp > 0 /\ handled' = handled + 1)
    PROVE  Ends!Next
<1>1. Ends!Handle
  <2>1. temp \in Nat /\ recvQ \in Nat /\ handled \in Nat /\ sent = handled + temp + recvQ
    BY DEF Counted, IInv, LoopType, CallType
  <2>2. handled' \in {handled, handled + 1} /\ handled' <= sent
    BY <2>1
  <2> QED BY <2>2 DEF Ends!Handle
<1>2. CASE fd = "open" /\ fd' = "open" /\ Ends!Send
  BY <1>1, <1>2 DEF Ends!Next, Ends!Exchange
<1>3. CASE fd = "open" /\ fd' = "closed" /\ Ends!Lose
  BY <1>1, <1>3 DEF Ends!Next, Ends!Close
<1>4. CASE fd = "closed" /\ fd' = "closed" /\ Ends!Lose
  BY <1>1, <1>4 DEF Ends!Next, Ends!Afterwards
<1>5. fd \in {"open", "closed"}
  BY DEF IInv, ConnInv, ConnType
<1> QED BY <1>2, <1>3, <1>4, <1>5 DEF Output

\* A write(2) of writeEvent.
LEMMA writeEventOutput ==
    ASSUME IInv, IInv', writeEvent \/ writeEventEnd
    PROVE  Output
<1>1. outBuffer \in Seq(Nat) /\ Len(outBuffer) \in Nat /\ produced \in Nat
  BY LenProperties DEF IInv, ConnInv, ConnType
<1>2. PICK len \in 0 .. Len(outBuffer), more \in BOOLEAN : WriteSome(len, more)
  <2>1. CASE writeEvent
    <3>1. PICK first \in 1 .. Len(outBuffer) : WriteSome(first, first < Len(outBuffer))
      BY <2>1 DEF writeEvent
    <3>2. first \in 0 .. Len(outBuffer) /\ (first < Len(outBuffer)) \in BOOLEAN
      BY <1>1
    <3> QED BY <3>1, <3>2
  <2>2. CASE writeEventEnd
    <3>1. Len(outBuffer) \in 0 .. Len(outBuffer) /\ FALSE \in BOOLEAN
      BY <1>1
    <3> QED BY <2>2, <3>1 DEF writeEventEnd
  <2> QED BY <2>1, <2>2
<1>3. produced' = produced /\ produced <= produced'
  BY <1>1, <1>2 DEF WriteSome
<1>4. CASE closeEvent /\ UNCHANGED wire
  BY <1>3, <1>4, CloseOutput
<1>5. ASSUME ~SendFails, NEW n \in Accepts(len), Transmit(outBuffer, n), fd' = fd
      PROVE  Output
  <2>1. n \in 0 .. Len(outBuffer)
    BY <1>1, <1>2, <1>5, AcceptsBounds DEF IInv, ConnInv
  <2> QED BY <1>1, <1>3, <1>5, <2>1, TransmitOutput
<1> QED BY <1>2, <1>4, <1>5 DEF WriteSome

\* A step of the loop is a step of Channel, or none.
LEMMA LoopIsChannel ==
    ASSUME IInv, IInv', Counted, LoopStep
    PROVE  Ends!Next \/ UNCHANGED <<produced, wire, sent, handled, fd>>
<1>1. CASE WaitEvent \/ NoHandler \/ runAllFunctionInLoop
  BY <1>1 DEF WaitEvent, NoHandler, runAllFunctionInLoop, connVars, dataVars, peerVars
<1>2. CASE errEvent
  BY <1>2, CloseOutput, OutputIsChannel DEF errEvent, dataVars, peerVars
<1>3. CASE readEvent
  <2>1. UNCHANGED <<produced, wire, sent, handled>>
    BY <1>3 DEF readEvent, dataVars, peerVars
  <2>2. closeEvent \/ UNCHANGED fd
    BY <1>3 DEF readEvent, connVars
  <2> QED BY <2>1, <2>2, CloseOutput, OutputIsChannel
<1>4. CASE messageCallback
  <2>1. temp > 0 /\ handled' = handled + 1 /\ sent' = sent
    BY <1>4 DEF messageCallback, peerVars
  <2>2. CASE write
    BY <2>1, <2>2, WriteOutput, OutputIsChannel
  <2>3. CASE UNCHANGED <<connVars, dataVars>>
    <3>1. wire' = wire /\ produced <= produced' /\ fd' \in {fd, "closed"}
      BY <2>3 DEF connVars, dataVars, IInv, ConnInv, ConnType
    <3> QED BY <2>1, <3>1, SendsNothing, OutputIsChannel
  <2> QED BY <1>4, <2>2, <2>3 DEF messageCallback
<1>5. CASE writeEvent \/ writeEventEnd
  <2>1. UNCHANGED <<handled, sent>>
    BY <1>5 DEF writeEvent, writeEventEnd, WriteSome, peerVars
  <2> QED BY <1>5, <2>1, writeEventOutput, OutputIsChannel
<1>6. CASE RunFunction
  <2>1. UNCHANGED <<handled, sent>>
    BY <1>6 DEF RunFunction, peerVars
  <2>2. CASE ConnectedHandle /\ UNCHANGED dataVars
    BY <2>1, <2>2 DEF ConnectedHandle, connVars, dataVars
  <2>3. CASE closeEvent /\ UNCHANGED dataVars
    BY <2>1, <2>3, CloseOutput, OutputIsChannel DEF dataVars
  <2>4. CASE write
    BY <2>1, <2>4, WriteOutput, OutputIsChannel
  <2> QED BY <1>6, <2>2, <2>3, <2>4 DEF RunFunction
<1> QED BY <1>1, <1>2, <1>3, <1>4, <1>5, <1>6 DEF LoopStep

\* So is a step of the peer, and of a call.
LEMMA OthersAreChannel ==
    ASSUME IInv, PeerStep \/ CallStep
    PROVE  Ends!Next \/ UNCHANGED <<produced, wire, sent, handled, fd>>
<1>1. CASE PeerSend
  BY <1>1 DEF PeerSend, connVars, dataVars, Ends!Next, Ends!Arrive
<1>2. CASE PeerFin \/ PeerReset \/ PeerDrain
  BY <1>2 DEF PeerFin, PeerReset, PeerDrain, connVars, dataVars, peerVars
<1>3. CASE CallStep
  BY <1>3 DEF CallStep, CallbackPost, CallbackShutdownWrite, WriteInSelfLoop, Close,
              ShutdownWrite, Begin, RunInLoop, ShutdownWriteSet, ShutdownWriteCall,
              connVars, dataVars, peerVars
<1> QED BY <1>1, <1>2, <1>3 DEF PeerStep

\* The connection implements Channel: its output is a growing prefix of what was
\* given to write, frames are handled one by one as they arrived, and no handler,
\* closure or call revives a connection that has ended.
THEOREM ImplementsChannel == Spec => ChannelSpec
<1>1. Init => Ends!Init
  BY DEF Init, Ends!Init
<1>2. IInv /\ IInv' /\ EofInv /\ [Next]_vars => [Ends!Next]_(Ends!vars)
  <2>1. ASSUME IInv, IInv', EofInv, Next
        PROVE  Ends!Next \/ UNCHANGED <<produced, wire, sent, handled, fd>>
    BY <2>1, LoopIsChannel, OthersAreChannel DEF Next, EofInv
  <2>2. UNCHANGED vars => UNCHANGED <<produced, wire, sent, handled, fd>>
    BY DEF vars, connVars, dataVars, peerVars
  <2> QED BY <2>1, <2>2 DEF Ends!vars
<1>3. Spec => []EofInv
  BY Invariance, InitEof, NextEof, PTL DEF Spec
<1> QED BY <1>1, <1>2, <1>3, Invariance, PTL DEF Spec, ChannelSpec, Ends!Spec
==============================================================================
