---------------------------- MODULE Connect_proofs ----------------------------
(***************************************************************************)
(* Proofs about Connect, for every buffer size, reply length, number of    *)
(* goroutines and number of frames: types, the interest set, the order of  *)
(* the output, and how often a connection is released.                     *)
(***************************************************************************)
EXTENDS Connect, SequenceTheorems, TLAPS

\* The connection and its output, and the loop, the goroutines and the peer:
\* the two halves of the type invariant.
ConnType ==
    /\ state \in {"Disconnected", "Connected", "Disconnecting"}
    /\ events \in SUBSET {"Read", "Write", "Err"}
    /\ registered \in BOOLEAN
    /\ fd \in {"open", "closed"}
    /\ released \in Nat /\ reopened \in Nat
    /\ outBuffer \in Seq(Nat)
    /\ sndQ \in 0 .. SndCap
    /\ produced \in Nat
    /\ wire \in Seq(Nat)
    /\ touched \in BOOLEAN
    /\ registered => fd = "open"

LoopType ==
    /\ temp \in Nat
    /\ pc \in {"run", "handle", "frames", "writeEnd", "take"}
    /\ revents \in SUBSET {"Close", "Err", "Write", "Read"}
    /\ functions \in Seq(Closures)
    /\ left \in 0 .. Len(functions)
    /\ pc # "run" => left = 0
    /\ pc # "frames" => temp = 0

CallType ==
    /\ recvQ \in Nat
    /\ fin \in BOOLEAN /\ rst \in BOOLEAN /\ wrShut \in BOOLEAN
    /\ user \in [Users -> {"idle", "write", "close", "set", "shutdown"}]
    /\ calls \in Nat
    /\ sent \in Nat /\ handled \in Nat
    /\ closeAsked \in BOOLEAN /\ connectFailed \in BOOLEAN

\* Only closeEvent releases, and it leaves Disconnected: one more release is to come
\* of a closed connection only when a ShutdownWrite has overwritten that.
Once ==
    /\ fd = "open" => released = 0
    /\ fd = "closed" /\ state = "Disconnected" => released <= 1 + reopened
    /\ fd = "closed" /\ state # "Disconnected" => released <= reopened

\* Before the ConnectedHandle closure has run, and for ever when its EPOLL_CTL_ADD
\* fails, nothing else happens to the connection; from then on a Disconnected
\* connection is a closed one.  Without this a write could fail and not close.
Unborn ==
    /\ functions = <<"connected">> \/ functions = <<>>
    /\ state = "Disconnected" /\ events = {} /\ ~registered
    /\ fd = "open" /\ outBuffer = <<>>
    /\ pc \in {"run", "handle", "take"} /\ revents = {}
    /\ \A g \in Users : user[g] = "idle"

Started == state = "Disconnected" => fd = "closed"

Born == functions \in Seq({"close", "write"}) /\ Started

\* What the handlers keep true of the connection.
ConnInv == ConnType /\ Backpressure /\ RepliesInOrder /\ Once

\* The inductive invariant.
IInv ==
    /\ ConnInv
    /\ LoopType
    /\ CallType
    /\ Unborn \/ Born
------------------------------------------------------------------------------
(* Sequences.                                                              *)

\* A sequence is its first n elements and the others.
LEMMA Split ==
    ASSUME NEW S, NEW s \in Seq(S), NEW n \in 0 .. Len(s)
    PROVE  /\ SubSeq(s, 1, n) \in Seq(S)
           /\ SubSeq(s, n + 1, Len(s)) \in Seq(S)
           /\ Len(SubSeq(s, 1, n)) = n
           /\ Len(SubSeq(s, n + 1, Len(s))) = Len(s) - n
           /\ SubSeq(s, 1, n) \o SubSeq(s, n + 1, Len(s)) = s
  <1>1. Len(s) \in Nat /\ n \in Nat /\ n <= Len(s)
    BY LenProperties
  <1>2. \A i \in 1 .. Len(s) : s[i] \in S
    BY ElementOfSeq
  <1>3. SubSeq(s, 1, n) \in Seq(S) /\ Len(SubSeq(s, 1, n)) = n
    <2>1. \A i \in 1 .. n : s[i] \in S
      BY <1>1, <1>2
    <2> QED BY <1>1, <2>1, SubSeqProperties
  <1>4. /\ SubSeq(s, n + 1, Len(s)) \in Seq(S)
        /\ Len(SubSeq(s, n + 1, Len(s))) = Len(s) - n
    <2>1. \A i \in n + 1 .. Len(s) : s[i] \in S
      BY <1>1, <1>2
    <2> QED BY <1>1, <2>1, SubSeqProperties
  <1>5. SubSeq(s, 1, n) \o SubSeq(s, n + 1, Len(s)) = SubSeq(s, 1, Len(s))
    <2>1. /\ 1 \in 1 .. Len(s) + 1
          /\ n \in 1 - 1 .. Len(s)
          /\ Len(s) \in n .. Len(s)
      BY <1>1
    <2> HIDE <1>1
    <2> QED BY <2>1, ConcatAdjacentSubSeq
  <1>6. SubSeq(s, 1, Len(s)) = s
    BY SubSeqFull
  <1> QED BY <1>3, <1>4, <1>5, <1>6

\* Concatenation of sequences of bytes is associative.
LEMMA Associative ==
    \A s, t, u \in Seq(Nat) : (s \o t) \o u = s \o (t \o u)
  <1> TAKE s, t, u \in Seq(Nat)
  <1> QED BY ConcatAssociative, SMTT(30)

\* The sequence that RepliesInOrder compares the output with.
Numbers(n) == [i \in 1 .. n |-> i]

\* The numbers up to n, followed by the next k, are the numbers up to n + k.
LEMMA CountOn ==
    ASSUME NEW n \in Nat, NEW k \in Nat
    PROVE  /\ [i \in 1 .. n |-> i] \in Seq(Nat)
           /\ [i \in 1 .. k |-> n + i] \in Seq(Nat)
           /\ Len([i \in 1 .. n |-> i]) = n
           /\ Len([i \in 1 .. k |-> n + i]) = k
           /\ Numbers(n) \o [i \in 1 .. k |-> n + i] = Numbers(n + k)
  <1> DEFINE s == [i \in 1 .. n |-> i]
             t == [i \in 1 .. k |-> n + i]
             u == [i \in 1 .. n + k |-> i]
  <1>1. s \in Seq(Nat) /\ Len(s) = n /\ \A i \in 1 .. n : s[i] = i
    OBVIOUS
  <1>2. t \in Seq(Nat) /\ Len(t) = k /\ \A i \in 1 .. k : t[i] = n + i
    OBVIOUS
  <1>3. u \in Seq(Nat) /\ Len(u) = n + k /\ \A i \in 1 .. n + k : u[i] = i
    OBVIOUS
  <1> HIDE DEF s, t, u
  <1>4. /\ s \o t \in Seq(Nat) /\ Len(s \o t) = n + k
        /\ \A i \in 1 .. n + k : (s \o t)[i] = IF i <= n THEN s[i] ELSE t[i - n]
    BY <1>1, <1>2, ConcatProperties
  <1>5. ASSUME NEW i \in 1 .. n + k
        PROVE  (s \o t)[i] = u[i]
    <2>1. CASE i <= n
      BY <1>1, <1>3, <1>4, <2>1
    <2>2. CASE i > n
      <3>1. i - n \in 1 .. k /\ n + (i - n) = i
        BY <2>2
      <3>2. t[i - n] = i
        BY <1>2, <3>1
      <3>3. (s \o t)[i] = t[i - n]
        <4>1. ~(i <= n)
          BY <2>2
        <4> QED BY <1>4, <4>1
      <3> QED BY <1>3, <3>2, <3>3
    <2>3. i <= n \/ i > n
      OBVIOUS
    <2> QED BY <2>1, <2>2, <2>3
  <1>6. s \o t = u
    BY <1>3, <1>4, <1>5, SeqEqual
  <1> QED BY <1>1, <1>2, <1>6 DEF s, t, u, Numbers

\* A prefix of the numbers from 1 on is the numbers up to its length.
LEMMA PrefixCounts ==
    ASSUME NEW s \in Seq(Nat), NEW t \in Seq(Nat), NEW n \in Nat,
           s \o t = Numbers(n)
    PROVE  s = Numbers(Len(s))
  <1> DEFINE u == [i \in 1 .. n |-> i]
             v == [i \in 1 .. Len(s) |-> i]
  <1>1. Len(s) \in Nat /\ Len(t) \in Nat
    BY LenProperties
  <1>2. u \in Seq(Nat) /\ Len(u) = n /\ \A i \in 1 .. n : u[i] = i
    OBVIOUS
  <1>3. v \in Seq(Nat) /\ Len(v) = Len(s) /\ \A i \in 1 .. Len(s) : v[i] = i
    BY <1>1
  <1>4. s \o t = u
    BY DEF Numbers
  <1> HIDE DEF u, v
  <1>5. Len(s) + Len(t) = n
    BY <1>2, <1>4, ConcatProperties
  <1>6. \A i \in 1 .. Len(s) : s[i] = i
    <2> SUFFICES ASSUME NEW i \in 1 .. Len(s) PROVE s[i] = i
      OBVIOUS
    <2>1. i \in 1 .. Len(s) + Len(t) /\ i <= Len(s) /\ i \in 1 .. n
      BY <1>1, <1>5
    <2>2. (s \o t)[i] = s[i]
      BY <2>1, ConcatProperties
    <2> QED BY <1>2, <1>4, <2>1, <2>2
  <1> QED BY <1>3, <1>6, SeqEqual DEF v, Numbers

\* What the kernel takes of the bytes offered is at most their number, and fits.
LEMMA AcceptsBounds ==
    ASSUME ConnType, NEW len \in Nat, NEW n \in Accepts(len)
    PROVE  n \in 0 .. len /\ sndQ + n \in 0 .. SndCap
  BY ConnectAssumption DEF ConnType, Accepts, Space
------------------------------------------------------------------------------
(* closeEvent, write and WriteSome keep what holds of the connection.      *)

\* closeEvent, whatever its caller counted before.
LEMMA CloseEventKeeps ==
    ASSUME ConnInv, Started, closeEvent, UNCHANGED <<outBuffer, wire, sndQ>>,
           produced' \in Nat, touched' \in BOOLEAN
    PROVE  ConnInv' /\ Started'
  <1> USE DEF ConnInv, ConnType, Started, connVars
  <1>1. CASE state = "Disconnected"
    <2>1. UNCHANGED <<state, events, registered, fd, released, reopened>>
      BY <1>1 DEF closeEvent, IsClosed
    <2>2. fd = "closed" /\ ~registered
      BY <1>1
    <2>3. ConnType' /\ Started'
      BY <2>1
    <2>4. Backpressure' /\ RepliesInOrder' /\ Once'
      BY <2>1, <2>2 DEF Backpressure, RepliesInOrder, Once
    <2> QED BY <2>3, <2>4
  <1>2. CASE state # "Disconnected"
    <2>1. /\ state' = "Disconnected" /\ events' = {} /\ registered' = FALSE
          /\ fd' = "closed" /\ released' = released + 1 /\ reopened' = reopened
      BY <1>2 DEF closeEvent, DisableAll, UnRegister, IsClosed
    <2>2. ConnType' /\ Started'
      <3>1. released + 1 \in Nat
        OBVIOUS
      <3>2. {} \in SUBSET {"Read", "Write", "Err"}
        OBVIOUS
      <3> QED BY <2>1, <3>1, <3>2
    <2>3. Backpressure' /\ RepliesInOrder'
      BY <2>1 DEF Backpressure, RepliesInOrder
    <2>4. Once'
      BY <1>2, <2>1 DEF Once
    <2> QED BY <2>2, <2>3, <2>4
  <1> QED BY <1>1, <1>2

\* The bytes of the next call of write carry on where the output ends.
LEMMA NextBytesFollow ==
    ASSUME ConnInv
    PROVE  /\ NextBytes \in Seq(Nat) /\ Len(NextBytes) = ReplyLen
           /\ produced + ReplyLen \in Nat
           /\ fd = "open" => wire \o (outBuffer \o NextBytes) = Numbers(produced + ReplyLen)
  <1> USE DEF ConnInv, ConnType
  <1>1. ReplyLen \in Nat /\ produced \in Nat /\ produced + ReplyLen \in Nat
    BY ConnectAssumption
  <1>2. NextBytes \in Seq(Nat) /\ Len(NextBytes) = ReplyLen
    BY <1>1, CountOn DEF NextBytes
  <1>3. ASSUME fd = "open"
        PROVE  (wire \o outBuffer) \o NextBytes = Numbers(produced + ReplyLen)
    <2>1. wire \o outBuffer = Numbers(produced)
      BY <1>3 DEF RepliesInOrder, Numbers
    <2> QED BY <1>1, <2>1, CountOn DEF NextBytes
  <1>4. (wire \o outBuffer) \o NextBytes = wire \o (outBuffer \o NextBytes)
    <2>1. wire \in Seq(Nat) /\ outBuffer \in Seq(Nat) /\ NextBytes \in Seq(Nat)
      BY <1>2
    <2> HIDE DEF ConnInv, ConnType
    <2> QED BY <2>1, Associative
  <1> QED BY <1>1, <1>2, <1>3, <1>4

\* The kernel takes the first n of the bytes that follow those already sent.
LEMMA TransmitKeeps ==
    ASSUME NEW w \in Seq(Nat), NEW data \in Seq(Nat), NEW n \in 0 .. Len(data)
    PROVE  /\ w \o SubSeq(data, 1, n) \in Seq(Nat)
           /\ (w \o SubSeq(data, 1, n)) \o SubSeq(data, n + 1, Len(data)) = w \o data
  <1> DEFINE taken == SubSeq(data, 1, n)
             rest == SubSeq(data, n + 1, Len(data))
  <1>1. taken \in Seq(Nat) /\ rest \in Seq(Nat)
    BY Split
  <1>2. taken \o rest = data
    BY Split
  <1> HIDE DEF taken, rest
  <1>3. w \o taken \in Seq(Nat)
    BY <1>1, ConcatProperties
  <1>4. (w \o taken) \o rest = w \o (taken \o rest)
    <2>1. w \in Seq(Nat) /\ taken \in Seq(Nat) /\ rest \in Seq(Nat)
      BY <1>1
    <2> QED BY <2>1, Associative
  <1> QED BY <1>2, <1>3, <1>4 DEF taken, rest

\* A sequence is empty just when its length is 0.
LEMMA EmptyLen ==
    ASSUME NEW s \in Seq(Nat)
    PROVE  Len(s) \in Nat /\ (s = <<>> <=> Len(s) = 0)
  BY EmptySeq, LenProperties

\* The bytes the kernel takes, and those kept, are still the bytes produced.
LEMMA SendKeeps ==
    ASSUME ConnInv, NEW data \in Seq(Nat), NEW n \in 0 .. Len(data),
           produced' \in Nat,
           wire \o data = Numbers(produced'),
           wire' = wire \o SubSeq(data, 1, n),
           outBuffer' = SubSeq(data, n + 1, Len(data))
    PROVE  /\ wire' \in Seq(Nat)
           /\ outBuffer' \in Seq(Nat)
           /\ outBuffer' = <<>> <=> n = Len(data)
           /\ RepliesInOrder'
  <1>1. wire \in Seq(Nat)
    BY DEF ConnInv, ConnType
  <1>2. wire' \in Seq(Nat) /\ wire' \o outBuffer' = wire \o data
    BY <1>1, TransmitKeeps
  <1>3. outBuffer' \in Seq(Nat) /\ Len(outBuffer') = Len(data) - n
    BY Split
  <1>4. outBuffer' = <<>> <=> n = Len(data)
    <2>1. Len(data) \in Nat
      BY LenProperties
    <2>2. outBuffer' = <<>> <=> Len(outBuffer') = 0
      BY <1>3, EmptyLen
    <2>3. n \in Nat /\ (Len(data) - n = 0 <=> n = Len(data))
      BY <2>1
    <2> QED BY <1>3, <2>2, <2>3
  <1>5. wire' \o outBuffer' = Numbers(produced')
    BY <1>2
  <1>6. wire' = Numbers(Len(wire'))
    BY <1>2, <1>3, <1>5, PrefixCounts
  <1>7. RepliesInOrder'
    BY <1>5, <1>6 DEF RepliesInOrder, Numbers
  <1> QED BY <1>2, <1>3, <1>4, <1>7

\* write, called by a closure or for a reply: the four ways it can end.
LEMMA WriteKeeps ==
    ASSUME ConnInv, Started, write
    PROVE  ConnInv' /\ Started'
  <1>1. /\ NextBytes \in Seq(Nat) /\ Len(NextBytes) = ReplyLen
        /\ ReplyLen \in Nat \ {0}
    BY NextBytesFollow, ConnectAssumption
  <1>2. produced' = produced + ReplyLen /\ produced' \in Nat
    BY NextBytesFollow DEF write, MustQueue, MustEnable
  <1>3. touched' \in BOOLEAN
    BY DEF write, MustQueue, MustEnable
  <1>4. CASE /\ outBuffer # <<>>
             /\ outBuffer' = outBuffer \o NextBytes
             /\ UNCHANGED <<connVars, wire, sndQ>>
    <2>1. outBuffer \in Seq(Nat) /\ wire \in Seq(Nat)
      BY DEF ConnInv, ConnType
    <2>2. outBuffer' \in Seq(Nat) /\ Len(outBuffer') = Len(outBuffer) + ReplyLen
      BY <1>1, <1>4, <2>1, ConcatProperties
    <2>3. outBuffer' # <<>>
      <3>1. Len(outBuffer) \in Nat /\ Len(outBuffer') # 0
        BY <1>1, <2>1, <2>2, LenProperties
      <3> QED BY <2>2, <3>1, EmptyLen
    <2>4. RepliesInOrder'
      <3>1. wire' = wire /\ fd' = fd
        BY <1>4 DEF connVars
      <3>2. wire = Numbers(Len(wire))
        BY DEF ConnInv, RepliesInOrder, Numbers
      <3>3. fd = "open" => wire \o outBuffer' = Numbers(produced')
        BY <1>2, <1>4, NextBytesFollow
      <3> QED BY <3>1, <3>2, <3>3 DEF RepliesInOrder, Numbers
    <2>5. ConnType' /\ Started' /\ Once'
      BY <1>2, <1>3, <1>4, <2>2 DEF ConnInv, ConnType, Started, Once, connVars
    <2>6. Backpressure'
      BY <1>4, <2>3 DEF ConnInv, Backpressure, connVars
    <2> QED BY <2>4, <2>5, <2>6 DEF ConnInv
  <1>5. ASSUME outBuffer = <<>>, ~SendFails,
               NEW n \in Accepts(ReplyLen),
               Transmit(NextBytes, n),
               outBuffer' = SubSeq(NextBytes, n + 1, ReplyLen),
               events' = IF n < ReplyLen THEN EnableWriting(events, TRUE) ELSE events,
               UNCHANGED <<state, registered, fd, released, reopened>>
        PROVE  ConnInv' /\ Started'
    <2>1. n \in 0 .. ReplyLen /\ sndQ + n \in 0 .. SndCap
      BY <1>1, AcceptsBounds DEF ConnInv
    <2>2. wire \o NextBytes = Numbers(produced')
      <3>1. fd = "open"
        BY <1>5 DEF SendFails, ConnInv, ConnType
      <3>2. outBuffer \o NextBytes = NextBytes
        BY <1>1, <1>5, ConcatEmptySeq
      <3> QED BY <1>2, <3>1, <3>2, NextBytesFollow
    <2>3. n \in 0 .. Len(NextBytes)
      BY <1>1, <2>1
    <2>4. /\ wire' = wire \o SubSeq(NextBytes, 1, n)
          /\ outBuffer' = SubSeq(NextBytes, n + 1, Len(NextBytes))
      BY <1>1, <1>5 DEF Transmit
    <2>5. /\ wire' \in Seq(Nat) /\ outBuffer' \in Seq(Nat)
          /\ outBuffer' = <<>> <=> n = ReplyLen
          /\ RepliesInOrder'
      <3> HIDE <1>5
      <3> QED BY <1>1, <1>2, <2>2, <2>3, <2>4, SendKeeps
    <2>6. events' \in SUBSET {"Read", "Write", "Err"} /\ sndQ' \in 0 .. SndCap
      BY <1>5, <2>1 DEF ConnInv, ConnType, EnableWriting, Transmit
    <2>7. ConnType' /\ Started' /\ Once'
      BY <1>2, <1>3, <1>5, <2>5, <2>6 DEF ConnInv, ConnType, Started, Once
    <2>8. Backpressure'
      <3>1. registered => "Write" \notin events /\ "Read" \in events
        BY <1>5 DEF ConnInv, Backpressure
      <3>2. "Write" \in events' <=> n < ReplyLen \/ "Write" \in events
        BY <1>5 DEF EnableWriting
      <3>3. "Read" \in events => "Read" \in events'
        BY <1>5 DEF EnableWriting
      <3>4. n < ReplyLen <=> n # ReplyLen
        BY <1>1, <2>1
      <3> QED BY <1>5, <2>5, <3>1, <3>2, <3>3, <3>4 DEF Backpressure
    <2> QED BY <2>5, <2>7, <2>8 DEF ConnInv
  <1>6. CASE closeEvent /\ UNCHANGED <<outBuffer, wire, sndQ>>
    BY <1>2, <1>3, <1>6, CloseEventKeeps
  <1>7. CASE fd = "closed" /\ UNCHANGED <<connVars, outBuffer, wire, sndQ>>
    BY <1>2, <1>3, <1>7
    DEF ConnInv, ConnType, Backpressure, RepliesInOrder, Once, Started, connVars
  <1> QED BY <1>4, <1>5, <1>6, <1>7 DEF write, MustQueue, MustEnable

\* One write(2) of writeEvent, of any part of the output buffer.
LEMMA WriteSomeKeeps ==
    ASSUME ConnInv, Started, NEW len \in 0 .. Len(outBuffer), NEW more,
           WriteSome(len, more)
    PROVE  ConnInv' /\ Started'
  <1>1. outBuffer \in Seq(Nat) /\ Len(outBuffer) \in Nat /\ len \in Nat
    BY LenProperties DEF ConnInv, ConnType
  <1>2. produced' = produced /\ produced' \in Nat /\ touched' = touched
    BY DEF WriteSome, ConnInv, ConnType
  <1>3. CASE closeEvent /\ UNCHANGED <<outBuffer, wire, sndQ>>
    BY <1>2, <1>3, CloseEventKeeps DEF ConnInv, ConnType
  <1>4. ASSUME ~SendFails,
               NEW n \in Accepts(len),
               Transmit(outBuffer, n),
               outBuffer' = SubSeq(outBuffer, n + 1, Len(outBuffer)),
               events' = IF n = Len(outBuffer) THEN Flushed(events) ELSE events,
               UNCHANGED <<state, registered, fd, released, reopened>>
        PROVE  ConnInv' /\ Started'
    <2>1. n \in 0 .. Len(outBuffer) /\ sndQ + n \in 0 .. SndCap
      BY <1>1, AcceptsBounds DEF ConnInv
    <2>2. wire \o outBuffer = Numbers(produced')
      <3>1. fd = "open"
        BY <1>4 DEF SendFails, ConnInv, ConnType
      <3> QED BY <1>2, <3>1 DEF ConnInv, RepliesInOrder, Numbers
    <2>3. wire' = wire \o SubSeq(outBuffer, 1, n)
      BY <1>4 DEF Transmit
    <2>4. /\ wire' \in Seq(Nat) /\ outBuffer' \in Seq(Nat)
          /\ outBuffer' = <<>> <=> n = Len(outBuffer)
          /\ RepliesInOrder'
      BY <1>1, <1>2, <1>4, <2>1, <2>2, <2>3, SendKeeps
    <2>5. events' \in SUBSET {"Read", "Write", "Err"} /\ sndQ' \in 0 .. SndCap
      BY <1>4, <2>1
      DEF ConnInv, ConnType, Flushed, EnableWriting, EnableReading, Transmit
    <2>6. ConnType' /\ Started' /\ Once'
      BY <1>2, <1>4, <2>4, <2>5 DEF ConnInv, ConnType, Started, Once
    <2>7. Backpressure'
      <3>1. CASE n = Len(outBuffer)
        <4>1. "Write" \notin events' /\ "Read" \in events'
          BY <1>4, <3>1 DEF Flushed, EnableWriting, EnableReading
        <4> QED BY <2>4, <3>1, <4>1 DEF Backpressure
      <3>2. CASE n # Len(outBuffer)
        <4>1. outBuffer # <<>>
          <5>1. Len(outBuffer) # 0
            BY <1>1, <2>1, <3>2
          <5> QED BY <1>1, <5>1, EmptyLen
        <4>2. events' = events /\ outBuffer' # <<>>
          BY <1>4, <2>4, <3>2
        <4> QED BY <1>4, <4>1, <4>2 DEF ConnInv, Backpressure
      <3> QED BY <3>1, <3>2
    <2> QED BY <2>4, <2>6, <2>7 DEF ConnInv
  <1> QED BY <1>3, <1>4 DEF WriteSome

\* A step that leaves the connection and its output alone.
LEMMA StaysSame ==
    ASSUME ConnInv, UNCHANGED <<connVars, outBuffer, produced, wire>>,
           sndQ' \in 0 .. SndCap, touched' \in BOOLEAN
    PROVE  ConnInv' /\ (Started => Started')
  BY DEF ConnInv, ConnType, Backpressure, RepliesInOrder, Once, Started, connVars
------------------------------------------------------------------------------
(* Every action preserves the inductive invariant.                         *)

\* The types of the closures waiting, and of how many of them are left to run.
LEMMA PostKeeps ==
    ASSUME LoopType, Born, NEW c \in {"close", "write"},
           functions' = Append(functions, c)
    PROVE  /\ functions' \in Seq({"close", "write"})
           /\ functions' \in Seq(Closures)
           /\ left \in 0 .. Len(functions')
  <1>1. functions \in Seq({"close", "write"}) /\ functions \in Seq(Closures)
    BY DEF LoopType, Born
  <1>2. functions' \in Seq({"close", "write"}) /\ Len(functions') = Len(functions) + 1
    BY <1>1, AppendProperties
  <1>3. functions' \in Seq(Closures)
    BY <1>1, AppendProperties DEF Closures
  <1>4. Len(functions) \in Nat /\ left \in 0 .. Len(functions)
    BY <1>1, LenProperties DEF LoopType
  <1> QED BY <1>2, <1>3, <1>4

\* Only an event that was reported has a handler.
LEMMA NothingReported == revents = {} => Handler = "none"
  BY DEF Handler

\* Waiting only records what the multiplexer reports.
LEMMA WaitEventKeeps ==
    ASSUME IInv, WaitEvent
    PROVE  IInv'
  <1> USE DEF IInv
  <1>1. UNCHANGED <<connVars, dataVars, temp, functions, left, recvQ, wrShut,
                    peerVars, userVars, handled, flagVars, touched>>
    BY DEF WaitEvent
  <1>2. ConnInv' /\ (Started => Started')
    BY <1>1, StaysSame DEF ConnInv, ConnType, dataVars
  <1>3. rEvents \in SUBSET {"Close", "Err", "Write", "Read"}
    BY DEF rEvents
  <1>4. /\ revents' = IF registered THEN rEvents ELSE {}
        /\ pc' = "handle" /\ left = 0 /\ pc = "run"
    BY DEF WaitEvent
  <1>5. LoopType'
    BY <1>1, <1>3, <1>4 DEF LoopType
  <1>6. CallType'
    BY <1>1 DEF CallType, peerVars, userVars, flagVars
  <1>7. Unborn => Unborn'
    BY <1>1, <1>4 DEF Unborn, connVars, dataVars, userVars
  <1>8. Born => Born'
    BY <1>1, <1>2 DEF Born
  <1> QED BY <1>2, <1>5, <1>6, <1>7, <1>8

\* No handler to run, and the start of a batch of closures.
LEMMA NoHandlerKeeps ==
    ASSUME IInv, NoHandler \/ runAllFunctionInLoop
    PROVE  IInv'
  <1> USE DEF IInv
  <1>1. UNCHANGED <<connVars, dataVars, temp, revents, functions, recvQ, wrShut,
                    peerVars, userVars, handled, flagVars, touched>>
    BY DEF NoHandler, runAllFunctionInLoop
  <1>2. ConnInv' /\ (Started => Started')
    BY <1>1, StaysSame DEF ConnInv, ConnType, dataVars
  <1>3. LoopType' /\ pc' \in {"take", "run"}
    <2>1. Len(functions) \in Nat
      BY LenProperties DEF LoopType
    <2>2. CASE NoHandler
      BY <1>1, <2>1, <2>2 DEF LoopType, NoHandler
    <2>3. CASE runAllFunctionInLoop
      BY <1>1, <2>1, <2>3 DEF LoopType, runAllFunctionInLoop
    <2> QED BY <2>2, <2>3
  <1>4. CallType'
    BY <1>1 DEF CallType, peerVars, userVars, flagVars
  <1>5. Unborn => Unborn'
    BY <1>1, <1>3 DEF Unborn, connVars, dataVars, userVars
  <1>6. Born => Born'
    BY <1>1, <1>2 DEF Born
  <1> QED BY <1>2, <1>3, <1>4, <1>5, <1>6

\* The handlers run only for a connection that has been registered.
LEMMA HandlersAreBorn ==
    ASSUME IInv,
           \/ pc = "handle" /\ Handler # "none"
           \/ pc \in {"frames", "writeEnd"}
    PROVE  Born
  BY NothingReported DEF IInv, Unborn

\* The handler of an error or a hang-up.
LEMMA errEventKeeps ==
    ASSUME IInv, errEvent
    PROVE  IInv'
  <1> USE DEF IInv
  <1>1. /\ UNCHANGED <<dataVars, temp, functions, left, recvQ, wrShut, peerVars,
                       userVars, handled, flagVars, touched>>
        /\ pc = "handle" /\ pc' = "take" /\ revents' = {} /\ closeEvent
    BY DEF errEvent
  <1>2. Born
    BY HandlersAreBorn DEF errEvent
  <1>3. ConnInv' /\ Started'
    BY <1>1, <1>2, CloseEventKeeps DEF ConnInv, ConnType, dataVars, Born
  <1>4. LoopType' /\ CallType'
    BY <1>1 DEF LoopType, CallType, peerVars, userVars, flagVars
  <1>5. Born'
    BY <1>1, <1>2, <1>3 DEF Born
  <1> QED BY <1>3, <1>4, <1>5

\* The read handler: reading paused, the stream ended, or frames to decode.
LEMMA readEventKeeps ==
    ASSUME IInv, readEvent
    PROVE  IInv'
  <1> USE DEF IInv
  <1>1. /\ UNCHANGED <<dataVars, functions, left, wrShut, peerVars, userVars,
                       handled, flagVars, touched>>
        /\ pc = "handle" /\ revents' = {}
    BY DEF readEvent, MustPause, AtEnd
  <1>2. Born
    BY HandlersAreBorn DEF readEvent, MustPause, AtEnd
  <1>3. ConnInv' /\ Started'
    <2>1. CASE /\ outBuffer # <<>>
               /\ events' = EnableReading(events, FALSE)
               /\ UNCHANGED <<state, registered, fd, released, reopened>>
      <3>1. /\ events' \in SUBSET {"Read", "Write", "Err"}
            /\ "Write" \in events' <=> "Write" \in events
        BY <2>1 DEF EnableReading, ConnInv, ConnType
      <3>2. ConnType' /\ RepliesInOrder' /\ Once' /\ Started'
        BY <1>1, <1>2, <2>1, <3>1
        DEF ConnInv, ConnType, RepliesInOrder, Once, Started, Born, dataVars
      <3>3. Backpressure'
        BY <1>1, <2>1, <3>1 DEF ConnInv, Backpressure, dataVars
      <3> QED BY <3>2, <3>3 DEF ConnInv
    <2>2. CASE closeEvent
      BY <1>1, <1>2, <2>2, CloseEventKeeps DEF ConnInv, ConnType, dataVars, Born
    <2>3. CASE UNCHANGED connVars
      BY <1>1, <1>2, <2>3, StaysSame DEF ConnInv, ConnType, dataVars, Born
    <2> QED BY <2>1, <2>2, <2>3 DEF readEvent, MustPause, AtEnd
  <1>4. /\ pc' \in {"take", "frames"} /\ temp' \in Nat /\ recvQ' \in Nat
        /\ pc' # "frames" => temp' = 0
    <2>1. CASE pc' = "take" /\ UNCHANGED <<temp, recvQ>>
      BY <1>1, <2>1 DEF LoopType, CallType
    <2>2. CASE /\ \E n \in 1 .. recvQ : n <= ReadMax /\ temp' = n /\ recvQ' = recvQ - n
               /\ pc' = "frames"
      BY <2>2 DEF CallType
    <2> QED BY <2>1, <2>2 DEF readEvent, MustPause, AtEnd
  <1>5. LoopType'
    BY <1>1, <1>4 DEF LoopType
  <1>6. CallType'
    BY <1>1, <1>4 DEF CallType, peerVars, userVars, flagVars
  <1>7. Born'
    BY <1>1, <1>2, <1>3 DEF Born
  <1> QED BY <1>3, <1>5, <1>6, <1>7

\* One turn of the decoding loop, with or without a reply.
LEMMA messageCallbackKeeps ==
    ASSUME IInv, messageCallback
    PROVE  IInv'
  <1> USE DEF IInv
  <1>1. /\ UNCHANGED <<revents, functions, left, recvQ, wrShut, peerVars, userVars,
                       flagVars>>
        /\ pc = "frames" /\ temp > 0 /\ temp' = temp - 1 /\ handled' = handled + 1
        /\ pc' = IF temp = 1 THEN "take" ELSE "frames"
    BY DEF messageCallback
  <1>2. Born
    BY <1>1, HandlersAreBorn
  <1>3. ConnInv' /\ Started'
    <2>1. CASE write
      BY <1>2, <2>1, WriteKeeps DEF Born
    <2>2. CASE touched' = (touched \/ fd = "closed") /\ UNCHANGED <<connVars, dataVars>>
      BY <1>2, <2>2, StaysSame DEF ConnInv, ConnType, dataVars, Born
    <2> QED BY <2>1, <2>2 DEF messageCallback
  <1>4. LoopType'
    BY <1>1 DEF LoopType
  <1>5. CallType'
    BY <1>1 DEF CallType, peerVars, userVars, flagVars
  <1>6. Born'
    BY <1>1, <1>2, <1>3 DEF Born
  <1> QED BY <1>3, <1>4, <1>5, <1>6

\* The write handler, its first write(2) and its second.
LEMMA writeEventKeeps ==
    ASSUME IInv, writeEvent \/ writeEventEnd
    PROVE  IInv'
  <1> USE DEF IInv
  <1>1. Born /\ pc \in {"handle", "writeEnd"}
    BY HandlersAreBorn DEF writeEvent, writeEventEnd
  <1>2. Len(outBuffer) \in Nat
    BY LenProperties DEF ConnInv, ConnType
  <1>3. PICK len \in 0 .. Len(outBuffer), more \in BOOLEAN : WriteSome(len, more)
    <2>1. CASE writeEvent
      <3>1. PICK first \in 1 .. Len(outBuffer) :
                WriteSome(first, first < Len(outBuffer))
        BY <2>1 DEF writeEvent
      <3>2. first \in 0 .. Len(outBuffer) /\ (first < Len(outBuffer)) \in BOOLEAN
        BY <1>2
      <3> QED BY <3>1, <3>2
    <2>2. CASE writeEventEnd
      <3>1. Len(outBuffer) \in 0 .. Len(outBuffer)
        BY <1>2
      <3> QED BY <2>2, <3>1 DEF writeEventEnd
    <2> QED BY <2>1, <2>2
  <1>4. ConnInv' /\ Started'
    BY <1>1, <1>3, WriteSomeKeeps DEF Born
  <1>5. /\ UNCHANGED <<produced, temp, functions, left, recvQ, wrShut, peerVars,
                       userVars, handled, flagVars, touched>>
        /\ revents' = {} /\ pc' \in {"take", "writeEnd"}
    BY <1>3 DEF WriteSome
  <1>6. LoopType'
    BY <1>1, <1>5 DEF LoopType
  <1>7. CallType'
    BY <1>5 DEF CallType, peerVars, userVars, flagVars
  <1>8. Born'
    BY <1>1, <1>4, <1>5 DEF Born
  <1> QED BY <1>4, <1>6, <1>7, <1>8

\* The closure of newConnected, run on a connection nothing has happened to.
LEMMA ConnectedHandleKeeps ==
    ASSUME IInv, Unborn, pc = "run", left > 0, left' = left - 1,
           ConnectedHandle,
           UNCHANGED <<dataVars, touched, temp, pc, revents, recvQ, wrShut, peerVars,
                       userVars, handled>>
    PROVE  IInv'
  <1> USE DEF IInv
  <1>1. functions = <<"connected">> /\ left' = 0
    <2>1. functions # <<>>
      BY EmptySeq DEF LoopType
    <2>2. functions = <<"connected">>
      BY <2>1 DEF Unborn
    <2>3. Len(functions) = 1
      BY <2>2
    <2> QED BY <2>2, <2>3 DEF LoopType
  <1>2. Tail(functions) = <<>> /\ Append(Tail(functions), "close") = <<"close">>
    BY <1>1
  <1>3. /\ <<>> \in Seq({"close", "write"}) /\ <<>> \in Seq(Closures) /\ Len(<<>>) = 0
        /\ <<"close">> \in Seq({"close", "write"}) /\ <<"close">> \in Seq(Closures)
        /\ Len(<<"close">>) = 1
    BY DEF Closures
  <1>4. /\ functions' \in Seq({"close", "write"}) /\ functions' \in Seq(Closures)
        /\ left' \in 0 .. Len(functions')
    <2>1. functions' = <<>> \/ functions' = <<"close">>
      BY <1>2 DEF ConnectedHandle
    <2>2. CASE functions' = <<>>
      BY <1>1, <1>3, <2>2
    <2>3. CASE functions' = <<"close">>
      <3>1. 0 \in 0 .. 1
        OBVIOUS
      <3> QED BY <1>1, <1>3, <2>3, <3>1
    <2> QED BY <2>1, <2>2, <2>3
  <1>5. LoopType'
    BY <1>4 DEF LoopType
  <1>6. CallType'
    BY DEF CallType, peerVars, userVars, flagVars, ConnectedHandle
  <1>7. CASE /\ state' = "Connected"
             /\ events' = EnableErrorEvent(EnableReading(events, TRUE))
             /\ Register
             /\ UNCHANGED <<fd, released, reopened>>
    <2>1. events' = {"Read", "Err"} /\ registered' = TRUE
      BY <1>7 DEF EnableErrorEvent, EnableReading, Register, Unborn
    <2>2. ConnType'
      BY <1>7, <2>1 DEF ConnInv, ConnType, Unborn, dataVars
    <2>3. Backpressure' /\ RepliesInOrder' /\ Once'
      BY <1>7, <2>1
      DEF ConnInv, ConnType, Backpressure, RepliesInOrder, Once, Unborn, dataVars
    <2>4. Born'
      BY <1>4, <1>7 DEF Born, Started
    <2> QED BY <1>5, <1>6, <2>2, <2>3, <2>4 DEF ConnInv
  <1>8. CASE UNCHANGED connVars /\ functions' = Tail(functions)
    <2>1. ConnInv'
      BY <1>8, StaysSame DEF ConnInv, ConnType, dataVars
    <2>2. Unborn'
      BY <1>2, <1>8 DEF Unborn, connVars, dataVars, userVars
    <2> QED BY <1>5, <1>6, <2>1, <2>2
  <1> QED BY <1>7, <1>8 DEF ConnectedHandle

\* One closure of the batch: ConnectedHandle, closeEvent or write.
LEMMA RunFunctionKeeps ==
    ASSUME IInv, RunFunction
    PROVE  IInv'
  <1> USE DEF IInv
  <1>1. /\ UNCHANGED <<temp, pc, revents, recvQ, wrShut, peerVars, userVars, handled>>
        /\ pc = "run" /\ left > 0 /\ left' = left - 1
    BY DEF RunFunction
  <1>2. CASE Unborn
    <2>1. functions = <<"connected">>
      <3>1. functions # <<>>
        BY <1>1 DEF LoopType
      <3> QED BY <1>2, <3>1 DEF Unborn
    <2>2. Head(functions) = "connected"
      BY <2>1
    <2>3. ConnectedHandle /\ UNCHANGED <<dataVars, touched>>
      BY <2>2 DEF RunFunction
    <2> QED BY <1>1, <1>2, <2>3, ConnectedHandleKeeps
  <1>3. CASE Born
    <2>1. /\ functions \in Seq({"close", "write"}) /\ functions \in Seq(Closures)
          /\ left \in 0 .. Len(functions) /\ functions # <<>>
      BY <1>1, <1>3 DEF Born, LoopType
    <2>2. Head(functions) \in {"close", "write"}
      BY <2>1, HeadTailProperties
    <2>3. /\ Tail(functions) \in Seq({"close", "write"})
          /\ Len(Tail(functions)) = Len(functions) - 1
      BY <2>1, HeadTailProperties
    <2>4. Tail(functions) \in Seq(Closures)
      BY <2>1, HeadTailProperties
    <2>5. functions' = Tail(functions) /\ UNCHANGED flagVars
      BY <2>2 DEF RunFunction
    <2>6. ConnInv' /\ Started'
      <3>1. CASE closeEvent /\ UNCHANGED <<dataVars, touched>>
        BY <1>3, <3>1, CloseEventKeeps DEF ConnInv, ConnType, dataVars, Born
      <3>2. CASE write
        BY <1>3, <3>2, WriteKeeps DEF Born
      <3> QED BY <2>2, <3>1, <3>2 DEF RunFunction
    <2>7. left' \in 0 .. Len(functions')
      <3>1. Len(functions) \in Nat
        BY <2>1, LenProperties
      <3> QED BY <1>1, <2>1, <2>3, <2>5, <3>1
    <2>8. LoopType'
      BY <1>1, <2>4, <2>5, <2>7 DEF LoopType
    <2>9. CallType'
      BY <1>1, <2>5 DEF CallType, peerVars, userVars, flagVars
    <2>10. Born'
      BY <2>3, <2>5, <2>6 DEF Born
    <2> QED BY <2>6, <2>8, <2>9, <2>10
  <1> QED BY <1>2, <1>3

\* Another goroutine's method, and its call from messageCallback, find a
\* connection whose ConnectedHandle has run.
LEMMA CallersAreBorn ==
    ASSUME IInv, state # "Disconnected" \/ \E g \in Users : user[g] # "idle"
    PROVE  Born
  BY DEF IInv, Unborn

\* Methods called by messageCallback on the loop.
LEMMA CallbackKeeps ==
    ASSUME IInv,
           \/ \E closure \in {"write", "close"} : CallbackPost(closure)
           \/ CallbackShutdownWrite
    PROVE  IInv'
  <1> USE DEF IInv
  <1>1. Born /\ pc = "frames" /\ calls' = calls + 1 /\ user' = user
    BY CallersAreBorn DEF CallbackPost, CallbackShutdownWrite, InCallback
  <1>2. ASSUME NEW closure \in {"write", "close"}, CallbackPost(closure)
        PROVE  IInv'
    <2>1. /\ UNCHANGED <<connVars, dataVars, temp, pc, revents, left, recvQ, wrShut,
                         peerVars, user, handled, connectFailed, touched>>
          /\ functions' = Append(functions, closure) /\ closeAsked' \in BOOLEAN
      BY <1>2 DEF CallbackPost
    <2>2. ConnInv' /\ (Started => Started')
      BY <2>1, StaysSame DEF ConnInv, ConnType, dataVars
    <2>3. LoopType' /\ Born'
      BY <1>1, <2>1, <2>2, PostKeeps DEF LoopType, Born
    <2>4. CallType'
      BY <1>1, <2>1 DEF CallType, peerVars
    <2> QED BY <2>2, <2>3, <2>4
  <1>3. CASE CallbackShutdownWrite
    <2>1. /\ UNCHANGED <<events, registered, fd, released, reopened, dataVars, temp, pc,
                         revents, functions, left, recvQ, peerVars, user, handled,
                         flagVars, touched>>
          /\ state = "Connected" /\ state' = "Disconnecting" /\ wrShut' = TRUE
      BY <1>3 DEF CallbackShutdownWrite
    <2>2. ConnInv' /\ Started'
      BY <2>1
      DEF ConnInv, ConnType, Backpressure, RepliesInOrder, Once, Started, dataVars
    <2>3. LoopType' /\ Born'
      BY <1>1, <2>1, <2>2 DEF LoopType, Born
    <2>4. CallType'
      BY <1>1, <2>1 DEF CallType, peerVars, flagVars
    <2> QED BY <2>2, <2>3, <2>4
  <1> QED BY <1>2, <1>3

\* Another goroutine looks at the state, at the start of a method.
LEMMA BeginKeeps ==
    ASSUME IInv, NEW g \in Users, WriteInSelfLoop(g) \/ Close(g) \/ ShutdownWrite(g)
    PROVE  IInv'
  <1> USE DEF IInv
  <1>1. PICK next \in {"write", "close", "set"} : Begin(g, next)
    BY DEF WriteInSelfLoop, Close, ShutdownWrite
  <1>2. /\ UNCHANGED <<connVars, dataVars, temp, pc, revents, functions, left, recvQ,
                       wrShut, peerVars, handled, flagVars, touched>>
        /\ calls' = calls + 1 /\ user' = [user EXCEPT ![g] = next]
    BY <1>1 DEF Begin
  <1>3. Born
    BY CallersAreBorn DEF WriteInSelfLoop, Close, ShutdownWrite
  <1>4. ConnInv' /\ (Started => Started')
    BY <1>2, StaysSame DEF ConnInv, ConnType, dataVars
  <1>5. LoopType' /\ Born'
    BY <1>2, <1>3, <1>4 DEF LoopType, Born
  <1>6. CallType'
    BY <1>2 DEF CallType, peerVars, flagVars
  <1> QED BY <1>4, <1>5, <1>6

\* It appends its closure, however late.
LEMMA RunInLoopKeeps ==
    ASSUME IInv, NEW g \in Users, RunInLoop(g)
    PROVE  IInv'
  <1> USE DEF IInv
  <1>1. /\ UNCHANGED <<connVars, dataVars, temp, pc, revents, left, recvQ, wrShut,
                       peerVars, calls, handled, connectFailed, touched>>
        /\ user[g] \in {"close", "write"} /\ functions' = Append(functions, user[g])
        /\ closeAsked' \in BOOLEAN /\ user' = [user EXCEPT ![g] = "idle"]
    BY DEF RunInLoop
  <1>2. Born
    BY <1>1, CallersAreBorn
  <1>3. ConnInv' /\ (Started => Started')
    BY <1>1, StaysSame DEF ConnInv, ConnType, dataVars
  <1>4. /\ functions' \in Seq({"close", "write"}) /\ functions' \in Seq(Closures)
        /\ left \in 0 .. Len(functions')
    BY <1>1, <1>2, PostKeeps
  <1>5. LoopType' /\ Born'
    BY <1>1, <1>2, <1>3, <1>4 DEF LoopType, Born
  <1>6. CallType'
    BY <1>1 DEF CallType, peerVars
  <1> QED BY <1>3, <1>5, <1>6

\* It half-closes, perhaps a connection that has closed since the state was looked at.
LEMMA ShutdownWriteKeeps ==
    ASSUME IInv, NEW g \in Users, ShutdownWriteSet(g) \/ ShutdownWriteCall(g)
    PROVE  IInv'
  <1> USE DEF IInv
  <1>1. user[g] \in {"set", "shutdown"}
    BY DEF ShutdownWriteSet, ShutdownWriteCall
  <1>2. Born
    BY <1>1, CallersAreBorn
  <1>3. CASE ShutdownWriteSet(g)
    <2>1. /\ UNCHANGED <<events, registered, fd, released, dataVars, temp, pc, revents,
                         functions, left, recvQ, wrShut, peerVars, calls, handled,
                         flagVars, touched>>
          /\ state' = "Disconnecting" /\ user' = [user EXCEPT ![g] = "shutdown"]
          /\ reopened' = IF state = "Disconnected" THEN reopened + 1 ELSE reopened
      BY <1>3 DEF ShutdownWriteSet
    <2>2. ConnInv' /\ Started'
      BY <1>2, <2>1
      DEF ConnInv, ConnType, Backpressure, RepliesInOrder, Once, Born, Started, dataVars
    <2>3. LoopType' /\ Born'
      BY <1>2, <2>1, <2>2 DEF LoopType, Born
    <2>4. CallType'
      BY <1>2, <2>1 DEF CallType, peerVars, flagVars
    <2> QED BY <2>2, <2>3, <2>4
  <1>4. CASE ShutdownWriteCall(g)
    <2>1. /\ UNCHANGED <<connVars, dataVars, temp, pc, revents, functions, left, recvQ,
                         peerVars, calls, handled, flagVars>>
          /\ wrShut' \in BOOLEAN /\ touched' \in BOOLEAN
          /\ user' = [user EXCEPT ![g] = "idle"]
      BY <1>4 DEF ShutdownWriteCall
    <2>2. ConnInv' /\ (Started => Started')
      BY <2>1, StaysSame DEF ConnInv, ConnType, dataVars
    <2>3. LoopType' /\ Born'
      BY <1>2, <2>1, <2>2 DEF LoopType, Born
    <2>4. CallType'
      BY <1>2, <2>1 DEF CallType, peerVars, flagVars
    <2> QED BY <2>2, <2>3, <2>4
  <1> QED BY <1>3, <1>4

\* The peer.
LEMMA PeerKeeps ==
    ASSUME IInv, PeerStep
    PROVE  IInv'
  <1> USE DEF IInv
  <1>1. UNCHANGED <<connVars, outBuffer, produced, wire, temp, pc, revents,
                    functions, left, wrShut, userVars, handled, flagVars, touched>>
    BY DEF PeerStep, PeerSend, PeerFin, PeerReset, PeerDrain, dataVars
  <1>2. sndQ' \in 0 .. SndCap
    <2>1. sndQ \in 0 .. SndCap /\ SndCap \in Nat
      BY ConnectAssumption DEF ConnInv, ConnType
    <2>2. CASE PeerDrain
      BY <2>1, <2>2 DEF PeerDrain
    <2>3. CASE sndQ' = sndQ
      BY <2>1, <2>3
    <2> QED BY <2>2, <2>3 DEF PeerStep, PeerSend, PeerFin, PeerReset, dataVars
  <1>3. sent' \in Nat /\ recvQ' \in Nat /\ fin' \in BOOLEAN /\ rst' \in BOOLEAN
    <2> USE DEF CallType, peerVars
    <2>1. CASE PeerSend
      BY <2>1 DEF PeerSend
    <2>2. CASE PeerFin
      BY <2>2 DEF PeerFin
    <2>3. CASE PeerReset
      BY <2>3 DEF PeerReset
    <2>4. CASE PeerDrain
      BY <2>4 DEF PeerDrain
    <2> QED BY <2>1, <2>2, <2>3, <2>4 DEF PeerStep
  <1>4. ConnInv' /\ (Started => Started')
    BY <1>1, <1>2, StaysSame DEF ConnInv, ConnType
  <1>5. LoopType' /\ CallType'
    BY <1>1, <1>3 DEF LoopType, CallType, userVars, flagVars
  <1>6. (Unborn => Unborn') /\ (Born => Born')
    BY <1>1, <1>4 DEF Unborn, Born, connVars, userVars
  <1> QED BY <1>4, <1>5, <1>6

\* A new connection satisfies the inductive invariant.
LEMMA InitInv == Init => IInv
  <1> SUFFICES ASSUME Init PROVE IInv
    OBVIOUS
  <1>1. ConnType
    <2>1. <<>> \in Seq(Nat) /\ 0 \in 0 .. SndCap /\ {} \in SUBSET {"Read", "Write", "Err"}
      BY ConnectAssumption
    <2> QED BY <2>1 DEF Init, ConnType
  <1>2. RepliesInOrder
    <2>1. wire = <<>> /\ outBuffer = <<>> /\ produced = 0
      BY DEF Init
    <2>2. Numbers(0) = <<>>
      BY DEF Numbers
    <2>3. <<>> \o <<>> = <<>> /\ Len(<<>>) = 0
      BY ConcatEmptySeq, EmptySeq
    <2> QED BY <2>1, <2>2, <2>3 DEF RepliesInOrder, Numbers
  <1>3. Backpressure /\ Once /\ Unborn /\ CallType
    BY DEF Init, Backpressure, Once, Unborn, CallType
  <1>4. LoopType
    <2>1. <<"connected">> \in Seq(Closures) /\ Len(<<"connected">>) = 1
      BY DEF Closures
    <2>2. 0 \in 0 .. Len(<<"connected">>)
      BY <2>1
    <2> QED BY <2>1, <2>2 DEF Init, LoopType
  <1> QED BY <1>1, <1>2, <1>3, <1>4 DEF IInv, ConnInv

\* Every step preserves the inductive invariant.
LEMMA NextInv == IInv /\ [Next]_vars => IInv'
  <1> SUFFICES ASSUME IInv, [Next]_vars PROVE IInv'
    OBVIOUS
  <1>1. CASE LoopStep
    BY <1>1, WaitEventKeeps, NoHandlerKeeps, errEventKeeps, readEventKeeps,
       messageCallbackKeeps, writeEventKeeps, RunFunctionKeeps DEF LoopStep
  <1>2. CASE CallStep
    BY <1>2, CallbackKeeps, BeginKeeps, RunInLoopKeeps, ShutdownWriteKeeps DEF CallStep
  <1>3. CASE PeerStep
    BY <1>3, PeerKeeps
  <1>4. CASE UNCHANGED vars
    <2>1. ConnInv' /\ (Started => Started')
      BY <1>4, StaysSame DEF IInv, ConnInv, ConnType, vars, dataVars
    <2>2. LoopType' /\ CallType'
      BY <1>4 DEF IInv, LoopType, CallType, vars, peerVars, userVars, flagVars
    <2>3. (Unborn => Unborn') /\ (Born => Born')
      BY <1>4, <2>1 DEF Unborn, Born, vars, connVars, dataVars, userVars
    <2> QED BY <2>1, <2>2, <2>3 DEF IInv
  <1> QED BY <1>1, <1>2, <1>3, <1>4 DEF Next
------------------------------------------------------------------------------
(* The theorems.                                                           *)

\* The inductive invariant holds in every state of the specification.
THEOREM Invariance == Spec => []IInv
  BY InitInv, NextInv, PTL DEF Spec

\* Every variable keeps its type; a registered connection has an open
\* descriptor, and a batch is only being run between two waits.
THEOREM TypeCorrect == Spec => []TypeOK
  <1>1. IInv => TypeOK
    BY DEF IInv, ConnInv, ConnType, LoopType, CallType, TypeOK
  <1> QED BY Invariance, <1>1, PTL

\* write, writeEvent and readEvent together keep the interest set in step
\* with the output buffer, for every buffer size and length of a reply, and even
\* when other goroutines call ShutdownWrite.
THEOREM InterestFollowsBuffer == Spec => []Backpressure
  <1>1. IInv => Backpressure
    BY DEF IInv, ConnInv
  <1> QED BY Invariance, <1>1, PTL

\* write and writeEvent send the bytes of the replies in the order of the calls,
\* each once, whatever write(2) takes and wherever the ring buffer wraps.
THEOREM OutputInOrder == Spec => []RepliesInOrder
  <1>1. IInv => RepliesInOrder
    BY DEF IInv, ConnInv
  <1> QED BY Invariance, <1>1, PTL

\* However many handlers and closures close the connection, closeEvent releases it
\* once, and once more at most for each ShutdownWrite of another goroutine that
\* overwrites the state closeEvent has left.
THEOREM ReleasedOnce == Spec => []CloseOnce
  <1>1. IInv => CloseOnce
    BY DEF IInv, ConnInv, ConnType, Once, CloseOnce
  <1> QED BY Invariance, <1>1, PTL
==============================================================================
