---------------------------- MODULE Server_proofs ----------------------------
(***************************************************************************)
(* Proofs about Server, for any number of loops, addresses and             *)
(* connections: the type invariant, what the pool holds and misses, whom   *)
(* Stop reaches, and the refinement of Session.                            *)
(***************************************************************************)
EXTENDS Server, SequenceTheorems, TLAPS

\* x is in the queue s, and at most once.
In(s, x) == \E i \in 1 .. Len(s) : s[i] = x
Once(s, x) == \A i, j \in 1 .. Len(s) : s[i] = x /\ s[j] = x => i = j

\* A connection has an address from its arrival on.
Arrived == \A c \in Conns : status[c] = "none" <=> addr[c] = None

\* The closure of newConnected is queued at most once, on the connection's loop,
\* and only before it has run: ConnectedHandle never finds a connection that is
\* open or closed.
ConnectedOnce ==
    \A l \in Loops, c \in Conns :
        /\ Once(functions[l], Closure("connected", c))
        /\ In(functions[l], Closure("connected", c)) =>
              status[c] = "new" /\ home[c] = l

\* A close is queued only for a connection that has been opened.
CloseAfterOpen ==
    \A l \in Loops, c \in Conns :
        In(functions[l], Closure("close", c)) => status[c] \in {"open", "closed"}

\* What the application was told follows the life of the connection.
Story(st) ==
    CASE st \in {"open", "stuck"} -> <<"connect">>
      [] st = "closed" -> <<"connect", "close">>
      [] OTHER -> <<>>
Told == \A c \in Conns : told[c] = Story(status[c])

\* StopAsksAll says nothing before the range is over.  Until then a connection
\* that was in the pool is closed or asked to close, or still ahead of the range.
Ahead(c) == stop = "range" /\ addr[c] \in due
SawReached ==
    \A c \in saw :
        /\ status[c] \in {"open", "closed"}
        /\ status[c] = "closed" \/ CloseQueued(c) \/ HasNamesake(c) \/ Ahead(c)

\* The inductive invariant.
IInv ==
    /\ TypeOK
    /\ Arrived
    /\ ConnectedOnce
    /\ CloseAfterOpen
    /\ Told
    /\ PoolHoldsOpen
    /\ MissingOnlyForNamesake
    /\ SawReached
------------------------------------------------------------------------------
(* Queues of closures.                                                     *)

\* An append adds one member (Post).
LEMMA AppendIn ==
    ASSUME NEW S, NEW s \in Seq(S), NEW y \in S, NEW x
    PROVE  /\ Append(s, y) \in Seq(S)
           /\ Len(Append(s, y)) = Len(s) + 1
           /\ In(Append(s, y), x) <=> In(s, x) \/ x = y
           /\ Once(s, x) /\ (x # y \/ ~In(s, x)) => Once(Append(s, y), x)
<1>1. /\ Append(s, y) \in Seq(S)
      /\ Len(Append(s, y)) = Len(s) + 1
      /\ Len(s) \in Nat
      /\ \A i \in 1 .. Len(s) : Append(s, y)[i] = s[i]
      /\ Append(s, y)[Len(s) + 1] = y
  BY AppendProperties, LenProperties
<1>2. In(Append(s, y), x) <=> In(s, x) \/ x = y
  BY <1>1 DEF In
<1>3. ASSUME Once(s, x), x # y \/ ~In(s, x) PROVE Once(Append(s, y), x)
  BY <1>1, <1>3 DEF Once, In
<1> QED
  BY <1>1, <1>2, <1>3

\* Running the head takes one member away (RunFunction).
LEMMA TailIn ==
    ASSUME NEW S, NEW s \in Seq(S), Len(s) > 0, NEW x
    PROVE  /\ Tail(s) \in Seq(S)
           /\ Len(Tail(s)) = Len(s) - 1
           /\ Head(s) \in S
           /\ In(s, Head(s))
           /\ In(s, x) <=> x = Head(s) \/ In(Tail(s), x)
           /\ Once(s, x) => Once(Tail(s), x)
           /\ Once(s, x) /\ x = Head(s) => ~In(Tail(s), x)
<1>1. /\ s # <<>>
      /\ Len(s) \in Nat
      /\ Head(s) = s[1]
      /\ Head(s) \in S
      /\ Tail(s) \in Seq(S)
      /\ Len(Tail(s)) = Len(s) - 1
      /\ \A i \in 1 .. Len(Tail(s)) : Tail(s)[i] = s[i + 1]
  <2>1. s # <<>> /\ Len(s) \in Nat
    BY EmptySeq, LenProperties
  <2> QED BY <2>1, HeadTailProperties
<1>2. In(s, Head(s))
  BY <1>1 DEF In
<1>3. In(Tail(s), x) => In(s, x)
  BY <1>1 DEF In
<1>4. ASSUME In(s, x), x # Head(s) PROVE In(Tail(s), x)
  <2>1. PICK i \in 1 .. Len(s) : s[i] = x
    BY <1>4 DEF In
  <2>2. i - 1 \in 1 .. Len(Tail(s)) /\ Tail(s)[i - 1] = x
    BY <1>1, <1>4, <2>1
  <2> QED BY <2>2 DEF In
<1>5. ASSUME Once(s, x) PROVE Once(Tail(s), x)
  <2> SUFFICES ASSUME NEW i \in 1 .. Len(Tail(s)), NEW j \in 1 .. Len(Tail(s)),
                      Tail(s)[i] = x, Tail(s)[j] = x
               PROVE  i = j
    BY DEF Once
  <2>1. i + 1 \in 1 .. Len(s) /\ j + 1 \in 1 .. Len(s) /\ s[i + 1] = x /\ s[j + 1] = x
    BY <1>1
  <2> QED BY <1>5, <2>1 DEF Once
<1>6. ASSUME Once(s, x), x = Head(s), In(Tail(s), x) PROVE FALSE
  <2>1. PICK i \in 1 .. Len(Tail(s)) : Tail(s)[i] = x
    BY <1>6 DEF In
  <2>2. i + 1 \in 1 .. Len(s) /\ s[i + 1] = x /\ 1 \in 1 .. Len(s) /\ s[1] = x
    BY <1>1, <1>6, <2>1
  <2>3. i + 1 = 1
    BY <1>6, <2>2 DEF Once
  <2> QED BY <2>1, <2>3
<1> QED
  BY <1>1, <1>2, <1>3, <1>4, <1>5, <1>6

\* A closure of one kind is not one of another, nor of another connection.
LEMMA Kindred ==
    /\ Closure("closeAccept", None) \in Closures
    /\ \A c \in Conns : Closure("connected", c) \in Closures
    /\ \A c \in Conns : Closure("close", c) \in Closures
    /\ \A c, d : Closure("close", c) # Closure("connected", d)
    /\ \A c, d : Closure("closeAccept", d) # Closure("connected", c)
    /\ \A c, d : Closure("closeAccept", d) # Closure("close", c)
    /\ \A c, d : Closure("connected", c) = Closure("connected", d) => c = d
    /\ \A c, d : Closure("close", c) = Closure("close", d) => c = d
<1>1. \A k, c : Closure(k, c).kind = k /\ Closure(k, c).conn = c
  BY DEF Closure
<1>2. ASSUME NEW k, NEW m, NEW c, NEW d, Closure(k, c) = Closure(m, d)
      PROVE  k = m /\ c = d
  <2>1. Closure(k, c).kind = k /\ Closure(m, d).kind = m
    BY <1>1
  <2>2. Closure(k, c).conn = c /\ Closure(m, d).conn = d
    BY <1>1
  <2> QED BY <1>2, <2>1, <2>2
<1>3. /\ Closure("closeAccept", None) \in Closures
      /\ \A c \in Conns : Closure("connected", c) \in Closures
      /\ \A c \in Conns : Closure("close", c) \in Closures
  BY DEF Closures
<1>4. "close" # "connected" /\ "closeAccept" # "connected" /\ "closeAccept" # "close"
  OBVIOUS
<1> QED BY <1>2, <1>3, <1>4

\* Every closure is one of the three.
LEMMA Kinds ==
    ASSUME NEW x \in Closures
    PROVE  \/ x = Closure("closeAccept", None) /\ x.kind = "closeAccept"
           \/ /\ x.kind = "connected" /\ x.conn \in Conns
              /\ x = Closure("connected", x.conn)
           \/ /\ x.kind = "close" /\ x.conn \in Conns
              /\ x = Closure("close", x.conn)
  BY DEF Closure, Closures
------------------------------------------------------------------------------
(* Types.                                                                  *)

\* The loops, and the numbers that stand for nobody.
LEMMA Numbers ==
    /\ Main \in Loops
    /\ None \notin Conns
    /\ None \notin Addrs
    /\ \A i \in SubLoops : i \in Loops /\ (i % NumLoops) + 1 \in SubLoops
  BY ServerAssumption DEF Main, Loops, SubLoops, Conns, None

\* Appending to a queue leaves its batch within it.
LEMMA PostTypes ==
    ASSUME TypeOK, NEW l \in Loops, NEW x \in Closures, Post(l, x), UNCHANGED left
    PROVE  /\ functions' \in [Loops -> Seq(Closures)]
           /\ left' \in [Loops -> Nat]
           /\ \A m \in Loops : left'[m] <= Len(functions'[m])
<1>1. functions[l] \in Seq(Closures)
  BY DEF TypeOK
<1>2. /\ Append(functions[l], x) \in Seq(Closures)
      /\ Len(Append(functions[l], x)) = Len(functions[l]) + 1
  BY <1>1, AppendProperties
<1>3. Len(functions[l]) \in Nat
  BY <1>1, LenProperties
<1>4. left' = left /\ functions' = [functions EXCEPT ![l] = Append(functions[l], x)]
  BY DEF Post
<1>5. functions' \in [Loops -> Seq(Closures)]
  BY <1>2, <1>4 DEF TypeOK
<1>6. ASSUME NEW m \in Loops PROVE left'[m] <= Len(functions'[m])
  <2>1. left[m] \in Nat /\ left[m] <= Len(functions[m])
    BY DEF TypeOK
  <2>2. CASE m = l
    BY <1>2, <1>3, <1>4, <2>1, <2>2 DEF TypeOK
  <2>3. CASE m # l
    BY <1>4, <2>1, <2>3 DEF TypeOK
  <2> QED BY <2>2, <2>3
<1> QED BY <1>4, <1>5, <1>6 DEF TypeOK

\* So does running its head, which may append one closure.
LEMMA RunTypes ==
    ASSUME TypeOK, NEW l \in Loops, left[l] > 0, NEW x \in Closures,
           left' = [left EXCEPT ![l] = left[l] - 1],
           \/ functions' = [functions EXCEPT ![l] = Tail(functions[l])]
           \/ functions' = [functions EXCEPT ![l] = Append(Tail(functions[l]), x)]
    PROVE  /\ functions' \in [Loops -> Seq(Closures)]
           /\ left' \in [Loops -> Nat]
           /\ \A m \in Loops : left'[m] <= Len(functions'[m])
<1>1. /\ functions[l] \in Seq(Closures) /\ left[l] \in Nat
      /\ left[l] <= Len(functions[l]) /\ Len(functions[l]) \in Nat
  BY LenProperties DEF TypeOK
<1>2. /\ Tail(functions[l]) \in Seq(Closures)
      /\ Len(Tail(functions[l])) = Len(functions[l]) - 1
  BY <1>1, TailIn
<1>3. /\ Append(Tail(functions[l]), x) \in Seq(Closures)
      /\ Len(Append(Tail(functions[l]), x)) = Len(functions[l])
  BY <1>1, <1>2, AppendProperties
<1>4. functions' \in [Loops -> Seq(Closures)]
  BY <1>2, <1>3 DEF TypeOK
<1>5. left' \in [Loops -> Nat]
  BY <1>1 DEF TypeOK
<1>6. ASSUME NEW m \in Loops PROVE left'[m] <= Len(functions'[m])
  <2>1. left[m] \in Nat /\ left[m] <= Len(functions[m])
    BY DEF TypeOK
  <2>2. CASE m = l
    BY <1>1, <1>2, <1>3, <2>2 DEF TypeOK
  <2>3. CASE m # l
    BY <2>1, <2>3 DEF TypeOK
  <2> QED BY <2>2, <2>3
<1> QED BY <1>4, <1>5, <1>6

\* The head of a batch is a closure about a connection, if it is not the acceptor's.
LEMMA HeadTypes ==
    ASSUME TypeOK, NEW l \in Loops, left[l] > 0
    PROVE  /\ Len(functions[l]) > 0
           /\ functions[l] \in Seq(Closures)
           /\ Head(functions[l]) \in Closures
           /\ Head(functions[l]).kind # "closeAccept"
                 => Head(functions[l]).conn \in Conns
<1>1. /\ functions[l] \in Seq(Closures) /\ left[l] \in Nat
      /\ left[l] <= Len(functions[l]) /\ Len(functions[l]) \in Nat
  BY LenProperties DEF TypeOK
<1>2. Head(functions[l]) \in Closures
  BY <1>1, TailIn
<1> QED BY <1>1, <1>2, Kinds

\* A callback is added to what was told.
LEMMA CallbackTypes ==
    ASSUME TypeOK, NEW c \in Conns, NEW which \in {"connect", "close"},
           Callback(c, which)
    PROVE  told' \in [Conns -> Seq({"connect", "close"})]
<1>1. told[c] \in Seq({"connect", "close"})
  BY DEF TypeOK
<1>2. Append(told[c], which) \in Seq({"connect", "close"})
  BY <1>1, AppendProperties
<1> QED BY <1>2 DEF TypeOK, Callback

\* Closing keeps the types of what it changes.
LEMMA closeEventTypes ==
    ASSUME TypeOK, NEW c \in Conns, closeEvent(c)
    PROVE  /\ status' \in [Conns -> {"none", "backlog", "new", "open", "closed",
                                     "refused", "stuck"}]
           /\ gone' \in [Conns -> {"no", "fin", "unread", "drains", "rst"}]
           /\ connectPool' \in [Addrs -> Conns \cup {None}]
           /\ due' \subseteq Addrs
           /\ told' \in [Conns -> Seq({"connect", "close"})]
<1>1. CASE Disconnected(c)
  BY <1>1 DEF closeEvent, TypeOK
<1>2. CASE ~Disconnected(c)
  <2>1. told' \in [Conns -> Seq({"connect", "close"})]
    BY <1>2, CallbackTypes DEF closeEvent
  <2> QED BY <1>2, <2>1 DEF closeEvent, Forgotten, removeConnect, TypeOK
<1> QED BY <1>1, <1>2

\* Accepting a connection keeps the types, the index of the next loop among them.
LEMMA AcceptHandleTypes == TypeOK /\ AcceptHandle => TypeOK'
<1> SUFFICES ASSUME TypeOK, AcceptHandle PROVE TypeOK'
  OBVIOUS
<1>1. /\ ready' = [ready EXCEPT ![Main] = {}]
      /\ UNCHANGED <<listening, running, pc, left, stopVars, told, crashed>>
  BY DEF AcceptHandle
<1>2. CASE UNCHANGED <<connVars, nextLoopIndex, connectPool, functions>>
  BY <1>1, <1>2 DEF TypeOK, connVars, stopVars
<1>3. ASSUME NEW c \in Conns,
             nextLoopIndex' = getOneLoopFromPool,
             home' = [home EXCEPT ![c] = nextLoopIndex],
             UNCHANGED <<addr, asked>>,
             \/ /\ status' = [status EXCEPT ![c] = "refused"]
                /\ Forgotten(c)
                /\ UNCHANGED <<connectPool, functions>>
             \/ /\ status' = [status EXCEPT ![c] = "new"]
                /\ addConnect(addr[c], c)
                /\ Post(nextLoopIndex, Closure("connected", c))
                /\ UNCHANGED gone
      PROVE  TypeOK'
  <2>1. nextLoopIndex \in Loops /\ nextLoopIndex' \in SubLoops
    BY <1>3, Numbers DEF TypeOK, getOneLoopFromPool
  <2>2. home' \in [Conns -> Loops]
    BY <1>3, <2>1 DEF TypeOK
  <2>3. /\ functions' \in [Loops -> Seq(Closures)]
        /\ left' \in [Loops -> Nat]
        /\ \A m \in Loops : left'[m] <= Len(functions'[m])
    <3>1. CASE UNCHANGED functions
      BY <1>1, <3>1 DEF TypeOK
    <3>2. CASE Post(nextLoopIndex, Closure("connected", c))
      BY <1>1, <2>1, <3>2, Kindred, PostTypes
    <3> QED BY <1>3, <3>1, <3>2
  <2>4. connectPool' \in [Addrs -> Conns \cup {None}]
    <3>1. connectPool \in [Addrs -> Conns \cup {None}]
      BY DEF TypeOK
    <3>2. CASE addConnect(addr[c], c)
      BY <3>1, <3>2 DEF addConnect
    <3> QED BY <1>3, <3>1, <3>2
  <2>5. status' \in [Conns -> {"none", "backlog", "new", "open", "closed", "refused",
                               "stuck"}]
    BY <1>3 DEF TypeOK
  <2>6. gone' \in [Conns -> {"no", "fin", "unread", "drains", "rst"}]
    BY <1>3 DEF TypeOK, Forgotten
  <2>7. ready' \in [Loops -> SUBSET (Conns \cup {None})]
    BY <1>1 DEF TypeOK
  <2>8. /\ addr' \in [Conns -> Addrs \cup {None}]
        /\ asked' \subseteq Conns
        /\ listening' \in BOOLEAN
        /\ running' \in [Loops -> BOOLEAN]
        /\ pc' \in [Loops -> {"new", "handle", "run", "done"}]
    BY <1>1, <1>3 DEF TypeOK
  <2>9. /\ stop' \in {"idle", "range", "loops", "done"}
        /\ stopping' \in Nat /\ waiting' \in BOOLEAN
        /\ unseen' \subseteq Addrs /\ due' \subseteq Addrs
        /\ told' \in [Conns -> Seq({"connect", "close"})]
        /\ saw' \subseteq Conns
        /\ crashed' \in BOOLEAN
    BY <1>1 DEF TypeOK, stopVars
  <2> QED
    BY <2>1, <2>2, <2>3, <2>4, <2>5, <2>6, <2>7, <2>8, <2>9 DEF TypeOK
<1> QED BY <1>2, <1>3 DEF AcceptHandle

\* A sub loop's handler keeps the types.
LEMMA HandleEventTypes ==
    ASSUME TypeOK, NEW l \in Loops, NEW c \in Conns, HandleEvent(l, c)
    PROVE  TypeOK'
<1>1. ready' \in [Loops -> SUBSET (Conns \cup {None})]
  BY DEF HandleEvent, TypeOK
<1> QED BY <1>1, closeEventTypes DEF HandleEvent, TypeOK

\* Running a closure keeps the types, whichever it is.
LEMMA RunFunctionTypes ==
    ASSUME TypeOK, NEW l \in Loops, RunFunction(l)
    PROVE  TypeOK'
<1> DEFINE closure == Head(functions[l])
           c == closure.conn
<1>1. /\ left[l] > 0 /\ left' = [left EXCEPT ![l] = left[l] - 1]
      /\ UNCHANGED <<addr, home, asked, nextLoopIndex, running, pc, ready, stop,
                     stopping, waiting, unseen, saw, crashed>>
  BY DEF RunFunction
<1>2. closure.kind # "closeAccept" => c \in Conns
  BY <1>1, HeadTypes
<1>3. /\ status' \in [Conns -> {"none", "backlog", "new", "open", "closed", "refused",
                                "stuck"}]
      /\ gone' \in [Conns -> {"no", "fin", "unread", "drains", "rst"}]
      /\ connectPool' \in [Addrs -> Conns \cup {None}]
      /\ due' \subseteq Addrs
      /\ told' \in [Conns -> Seq({"connect", "close"})]
      /\ listening' \in BOOLEAN
  <2>1. CASE /\ closure.kind = "connected" /\ ConnectedHandle(l, c)
             /\ UNCHANGED <<gone, listening>>
    <3>1. told' \in [Conns -> Seq({"connect", "close"})]
      BY <1>2, <2>1, CallbackTypes DEF ConnectedHandle
    <3> QED BY <1>2, <2>1, <3>1 DEF ConnectedHandle, removeConnect, TypeOK
  <2>2. CASE closure.kind = "close" /\ closeEvent(c) /\ UNCHANGED listening
    BY <1>2, <2>2, closeEventTypes DEF TypeOK
  <2>3. CASE UNCHANGED <<status, gone, connectPool, due, told>> /\ listening' = FALSE
    BY <2>3 DEF TypeOK
  <2> QED BY <2>1, <2>2, <2>3 DEF RunFunction
<1>4. /\ functions' \in [Loops -> Seq(Closures)]
      /\ left' \in [Loops -> Nat]
      /\ \A m \in Loops : left'[m] <= Len(functions'[m])
  <2>1. CASE functions' = [functions EXCEPT ![l] = Tail(functions[l])]
    BY <1>1, <2>1, Kindred, RunTypes
  <2>2. CASE /\ closure.kind = "connected"
             /\ functions' = [functions EXCEPT
                                ![l] = Append(Tail(functions[l]), Closure("close", c))]
    <3>1. Closure("close", c) \in Closures
      BY <1>2, <2>2, Kindred
    <3> QED BY <1>1, <2>2, <3>1, RunTypes
  <2> QED BY <2>1, <2>2 DEF RunFunction, ConnectedHandle
<1> QED BY <1>1, <1>3, <1>4 DEF TypeOK

\* Stop goes on to the next loop, or is done.
LEMMA NextLoopTypes ==
    ASSUME TypeOK, NextLoop
    PROVE  /\ stop' \in {"loops", "done"} /\ stopping' \in Nat /\ waiting' \in BOOLEAN
<1>1. stop' = IF stopping = NumLoops THEN "done" ELSE "loops"
  BY DEF NextLoop
<1>2. stopping' \in Nat
  BY DEF NextLoop, TypeOK
<1>3. waiting' = FALSE
  BY DEF NextLoop
<1> QED BY <1>1, <1>2, <1>3

\* Every step keeps the types.
LEMMA TypesKept == TypeOK /\ [Next]_vars => TypeOK'
<1> SUFFICES ASSUME TypeOK, [Next]_vars PROVE TypeOK'
  OBVIOUS
<1> USE DEF connVars, loopVars, stopVars
<1>1. ASSUME NEW c \in Conns, NEW a \in Addrs, PeerConnect(c, a) PROVE TypeOK'
  BY <1>1 DEF PeerConnect, TypeOK
<1>2. ASSUME NEW c \in Conns, PeerEnds(c) \/ PeerReads(c) PROVE TypeOK'
  BY <1>2 DEF PeerEnds, PeerReads, TypeOK
<1>3. ASSUME NEW c \in Conns, Close(c) PROVE TypeOK'
  <2>1. home[c] \in Loops
    BY DEF TypeOK
  <2>2. /\ functions' \in [Loops -> Seq(Closures)]
        /\ left' \in [Loops -> Nat]
        /\ \A m \in Loops : left'[m] <= Len(functions'[m])
    BY <1>3, <2>1, Kindred, PostTypes DEF Close
  <2> QED BY <1>3, <2>2 DEF Close, TypeOK
<1>4. ASSUME NEW l \in Loops, LoopStep(l) PROVE TypeOK'
  <2>1. CASE Run(l)
    BY <2>1 DEF Run, TypeOK
  <2>2. CASE WaitEvent(l)
    <3>1. Reported(l) \subseteq Conns \cup {None}
      BY DEF Reported
    <3>2. ready' \in [Loops -> SUBSET (Conns \cup {None})]
      BY <2>2, <3>1 DEF WaitEvent, TypeOK
    <3> QED BY <2>2, <3>2 DEF WaitEvent, TypeOK
  <2>3. CASE runAllFunctionInLoop(l)
    <3>1. Len(functions[l]) \in Nat
      BY LenProperties DEF TypeOK
    <3>2. /\ left' \in [Loops -> Nat]
          /\ \A m \in Loops : left'[m] <= Len(functions'[m])
      <4>1. left' = [left EXCEPT ![l] = Len(functions[l])] /\ functions' = functions
        BY <2>3 DEF runAllFunctionInLoop
      <4> QED BY <3>1, <4>1 DEF TypeOK
    <3> QED BY <2>3, <3>2 DEF runAllFunctionInLoop, TypeOK
  <2>4. CASE RunEnds(l)
    BY <2>4 DEF RunEnds, TypeOK
  <2> QED
    BY <1>4, <2>1, <2>2, <2>3, <2>4, AcceptHandleTypes, HandleEventTypes,
       RunFunctionTypes DEF LoopStep
<1>5. CASE Stop
  <2>1. /\ functions' \in [Loops -> Seq(Closures)]
        /\ left' \in [Loops -> Nat]
        /\ \A m \in Loops : left'[m] <= Len(functions'[m])
    BY <1>5, Numbers, Kindred, PostTypes DEF Stop
  <2> QED BY <1>5, <2>1 DEF Stop, Pooled, TypeOK
<1>6. ASSUME NEW a \in Addrs, StopVisit(a) PROVE TypeOK'
  <2>1. connectPool[a] \in Conns
    BY <1>6 DEF StopVisit, Pooled, TypeOK
  <2>2. home[connectPool[a]] \in Loops
    BY <2>1 DEF TypeOK
  <2>3. /\ functions' \in [Loops -> Seq(Closures)]
        /\ left' \in [Loops -> Nat]
        /\ \A m \in Loops : left'[m] <= Len(functions'[m])
    <3>1. CASE UNCHANGED functions
      BY <1>6, <3>1 DEF StopVisit, TypeOK
    <3>2. CASE Post(home[connectPool[a]], Closure("close", connectPool[a]))
      BY <1>6, <2>1, <2>2, <3>2, Kindred, PostTypes DEF StopVisit
    <3> QED BY <1>6, <3>1, <3>2 DEF StopVisit
  <2> QED BY <1>6, <2>3 DEF StopVisit, TypeOK
<1>7. CASE StopRangeEnd
  BY <1>7 DEF StopRangeEnd, TypeOK
<1>8. CASE StopLoop
  <2>1. running' \in [Loops -> BOOLEAN]
    BY <1>8 DEF StopLoop, TypeOK
  <2>2. /\ stop' \in {"idle", "range", "loops", "done"} /\ stopping' \in Nat
        /\ waiting' \in BOOLEAN
    BY <1>8, NextLoopTypes DEF StopLoop, TypeOK
  <2> QED BY <1>8, <2>1, <2>2 DEF StopLoop, TypeOK
<1>9. CASE StopLoopDone
  BY <1>9, NextLoopTypes DEF StopLoopDone, TypeOK
<1>10. CASE MapRace
  BY <1>10 DEF MapRace, TypeOK
<1>11. CASE UNCHANGED vars
  BY <1>11 DEF vars, TypeOK
<1> QED
  BY <1>1, <1>2, <1>3, <1>4, <1>5, <1>6, <1>7, <1>8, <1>9, <1>10, <1>11
     DEF Next, StopStep
------------------------------------------------------------------------------
(* The life of the connections, the pool and the queues.                   *)

\* All of IInv but the types.
Life ==
    /\ Arrived
    /\ ConnectedOnce
    /\ CloseAfterOpen
    /\ Told
    /\ PoolHoldsOpen
    /\ MissingOnlyForNamesake
    /\ SawReached

\* What Post does to the members of the queues.
LEMMA PostIn ==
    ASSUME TypeOK, NEW l \in Loops, NEW x \in Closures, Post(l, x),
           NEW m \in Loops, NEW y
    PROVE  /\ In(functions'[m], y) <=> In(functions[m], y) \/ (m = l /\ y = x)
           /\ /\ Once(functions[m], y)
              /\ m = l /\ y = x => ~In(functions[m], y)
              => Once(functions'[m], y)
<1>1. functions[l] \in Seq(Closures)
  BY DEF TypeOK
<1>2. functions' = [functions EXCEPT ![l] = Append(functions[l], x)]
  BY DEF Post
<1>3. CASE m = l
  <2>1. functions'[m] = Append(functions[l], x)
    BY <1>2, <1>3 DEF TypeOK
  <2> QED BY <1>1, <1>3, <2>1, AppendIn
<1>4. CASE m # l
  BY <1>2, <1>4 DEF TypeOK
<1> QED BY <1>3, <1>4

\* What taking the head of a queue does to the members of the queues.
LEMMA RunIn ==
    ASSUME TypeOK, NEW l \in Loops, left[l] > 0,
           functions' = [functions EXCEPT ![l] = Tail(functions[l])],
           NEW m \in Loops, NEW y
    PROVE  /\ In(functions[m], y) <=>
                 In(functions'[m], y) \/ (m = l /\ y = Head(functions[l]))
           /\ Once(functions[m], y) => Once(functions'[m], y)
           /\ Once(functions[l], y) /\ y = Head(functions[l]) => ~In(functions'[l], y)
<1>1. functions[l] \in Seq(Closures) /\ Len(functions[l]) > 0
  BY HeadTypes
<1>2. functions'[l] = Tail(functions[l])
  BY DEF TypeOK
<1>3. CASE m = l
  BY <1>1, <1>2, <1>3, TailIn
<1>4. CASE m # l
  <2>1. functions'[m] = functions[m]
    BY <1>4 DEF TypeOK
  <2> QED BY <1>1, <1>2, <1>4, <2>1, TailIn
<1> QED BY <1>3, <1>4

\* Taking the head and appending a closure, when ConnectedHandle closes what it opened.
LEMMA RunPostIn ==
    ASSUME TypeOK, NEW l \in Loops, left[l] > 0, NEW x \in Closures,
           functions' = [functions EXCEPT ![l] = Append(Tail(functions[l]), x)],
           NEW m \in Loops, NEW y
    PROVE  /\ In(functions[m], y) =>
                 In(functions'[m], y) \/ (m = l /\ y = Head(functions[l]))
           /\ In(functions'[m], y) => In(functions[m], y) \/ (m = l /\ y = x)
           /\ Once(functions[m], y) /\ y # x => Once(functions'[m], y)
           /\ Once(functions[l], y) /\ y = Head(functions[l]) /\ y # x
                 => ~In(functions'[l], y)
           /\ In(functions'[l], x)
<1>1. functions[l] \in Seq(Closures) /\ Len(functions[l]) > 0
  BY HeadTypes
<1>2. functions'[l] = Append(Tail(functions[l]), x)
  BY DEF TypeOK
<1>3. Tail(functions[l]) \in Seq(Closures)
  BY <1>1, HeadTailProperties, EmptySeq
<1>4. In(functions'[l], x)
  <2>1. In(Append(Tail(functions[l]), x), x) <=> In(Tail(functions[l]), x) \/ x = x
    BY <1>3, AppendIn, Zenon
  <2> QED BY <1>2, <2>1
<1>5. /\ In(functions'[l], y) <=> In(Tail(functions[l]), y) \/ y = x
      /\ Once(Tail(functions[l]), y) /\ y # x => Once(functions'[l], y)
  <2> DEFINE s == Tail(functions[l])
  <2>1. /\ In(Append(s, x), y) <=> In(s, y) \/ y = x
        /\ Once(s, y) /\ (y # x \/ ~In(s, y)) => Once(Append(s, x), y)
    BY <1>3, AppendIn, Zenon
  <2> QED BY <1>2, <2>1
<1>6. /\ In(functions[l], y) <=> y = Head(functions[l]) \/ In(Tail(functions[l]), y)
      /\ Once(functions[l], y) => Once(Tail(functions[l]), y)
      /\ Once(functions[l], y) /\ y = Head(functions[l]) => ~In(Tail(functions[l]), y)
  BY <1>1, TailIn
<1>7. CASE m = l
  BY <1>4, <1>5, <1>6, <1>7
<1>8. CASE m # l
  <2>1. functions'[m] = functions[m]
    BY <1>8 DEF TypeOK
  <2> QED BY <1>4, <1>5, <1>6, <1>8, <2>1
<1> QED BY <1>7, <1>8

\* A step that leaves the connections, the pool and the queues alone.
LEMMA QuietKeeps ==
    ASSUME IInv,
           UNCHANGED <<status, addr, home, connectPool, functions, told, saw>>,
           \A c \in Conns : Ahead(c) => Ahead(c)'
    PROVE  Life'
<1>1. /\ Arrived' /\ ConnectedOnce' /\ CloseAfterOpen' /\ Told' /\ PoolHoldsOpen'
      /\ MissingOnlyForNamesake'
  BY DEF IInv, Arrived, ConnectedOnce, CloseAfterOpen, Told, Story, PoolHoldsOpen,
         Pooled, MissingOnlyForNamesake, CloseQueued, HasNamesake
<1>2. SawReached'
  BY DEF IInv, SawReached, CloseQueued, HasNamesake, TypeOK
<1> QED BY <1>1, <1>2 DEF Life

\* A step that asks an open connection to close.
LEMMA AskKeeps ==
    ASSUME IInv, NEW c \in Conns, status[c] = "open",
           Post(home[c], Closure("close", c)),
           UNCHANGED <<status, addr, home, connectPool, told, saw>>,
           \A d \in saw : Ahead(d) => \/ Ahead(d)' \/ d = c \/ status[d] = "closed"
                                      \/ HasNamesake(d) \/ CloseQueued(d)
    PROVE  Life'
<1> USE DEF IInv
<1>1. home[c] \in Loops /\ Closure("close", c) \in Closures
  BY Kindred DEF TypeOK
<1>2. /\ Arrived' /\ Told' /\ PoolHoldsOpen'
  BY DEF Arrived, Told, Story, PoolHoldsOpen, Pooled
<1>3. ConnectedOnce'
  <2> SUFFICES ASSUME NEW l \in Loops, NEW d \in Conns
               PROVE  /\ Once(functions'[l], Closure("connected", d))
                      /\ In(functions'[l], Closure("connected", d)) =>
                            status[d] = "new" /\ home[d] = l
    BY DEF ConnectedOnce
  <2>1. Closure("connected", d) # Closure("close", c)
    BY Kindred
  <2> QED BY <1>1, <2>1, PostIn DEF ConnectedOnce
<1>8. CloseAfterOpen'
  <2> SUFFICES ASSUME NEW l \in Loops, NEW d \in Conns,
                      In(functions'[l], Closure("close", d))
               PROVE  status[d] \in {"open", "closed"}
    BY DEF CloseAfterOpen
  <2>1. \/ In(functions[l], Closure("close", d))
        \/ Closure("close", d) = Closure("close", c)
    BY <1>1, PostIn
  <2> QED BY <2>1, Kindred DEF CloseAfterOpen
<1>4. \A d \in Conns : CloseQueued(d) \/ d = c => CloseQueued(d)'
  <2> SUFFICES ASSUME NEW d \in Conns, CloseQueued(d) \/ d = c PROVE CloseQueued(d)'
    OBVIOUS
  <2>1. home[d] \in Loops
    BY DEF TypeOK
  <2>2. In(functions[home[d]], Closure("close", d)) \/ d = c
    BY DEF CloseQueued, In
  <2>3. In(functions'[home[d]], Closure("close", d))
    BY <1>1, <2>1, <2>2, PostIn
  <2> QED BY <2>3 DEF CloseQueued, In
<1>5. \A d \in Conns : HasNamesake(d) => HasNamesake(d)'
  BY DEF HasNamesake
<1>6. MissingOnlyForNamesake'
  BY <1>4, <1>5 DEF MissingOnlyForNamesake
<1>7. SawReached'
  BY <1>4, <1>5 DEF SawReached, TypeOK
<1> QED BY <1>2, <1>3, <1>6, <1>7, <1>8 DEF Life

\* Close, by any goroutine, and the visit of the range over the pool.
LEMMA CloseKeeps == ASSUME IInv, NEW c \in Conns, Close(c) PROVE Life'
  BY AskKeeps DEF Close, stopVars, Ahead

\* The visit of the range over the pool; it may find a connection not yet open.
LEMMA StopVisitKeeps == ASSUME IInv, NEW a \in Addrs, StopVisit(a) PROVE Life'
<1> DEFINE c == connectPool[a]
<1>1. /\ c \in Conns /\ a \in Pooled
      /\ UNCHANGED <<status, addr, home, connectPool, told, saw, stop>>
      /\ due' = due \ {a}
  BY DEF IInv, StopVisit, Pooled, TypeOK, connVars
<1>2. status[c] \in {"new", "open"} /\ addr[c] = a
  BY <1>1 DEF IInv, PoolHoldsOpen
<1>3. ASSUME NEW d \in saw, Ahead(d), ~Ahead(d)', d # c
      PROVE  status[d] = "closed" \/ HasNamesake(d) \/ CloseQueued(d)
  <2>1. d \in Conns /\ addr[d] = a
    BY <1>1, <1>3 DEF IInv, TypeOK, Ahead
  <2> QED BY <1>1, <1>2, <1>3, <2>1 DEF HasNamesake
<1>4. CASE status[c] = "open"
  <2>1. Post(home[c], Closure("close", c))
    BY <1>4 DEF StopVisit
  <2> HIDE DEF c
  <2> QED BY <1>1, <1>3, <1>4, <2>1, AskKeeps
<1>5. CASE status[c] # "open"
  <2>1. UNCHANGED functions
    BY <1>5 DEF StopVisit
  <2>2. SawReached'
    <3> SUFFICES ASSUME NEW d \in saw
                 PROVE  /\ status[d] \in {"open", "closed"}
                        /\ \/ status[d] = "closed" \/ CloseQueued(d)
                           \/ HasNamesake(d) \/ Ahead(d)'
      BY <1>1, <2>1 DEF SawReached, CloseQueued, HasNamesake
    <3>1. status[d] \in {"open", "closed"}
      BY DEF IInv, SawReached
    <3>2. d # c
      BY <1>2, <1>5, <3>1
    <3> QED BY <1>3, <3>1, <3>2 DEF IInv, SawReached
  <2>3. /\ Arrived' /\ ConnectedOnce' /\ CloseAfterOpen' /\ Told' /\ PoolHoldsOpen'
        /\ MissingOnlyForNamesake'
    BY <1>1, <2>1 DEF IInv, Arrived, ConnectedOnce, CloseAfterOpen, Told, Story,
           PoolHoldsOpen, Pooled, MissingOnlyForNamesake, CloseQueued, HasNamesake
  <2> QED BY <2>2, <2>3 DEF Life
<1> QED BY <1>4, <1>5
\* A step of the loops on the connection c that leaves the queues' other contents
\* alone, and what it must show of c itself.
LEMMA OneConnection ==
    ASSUME IInv, TypeOK', NEW c \in Conns,
           UNCHANGED <<addr, home, stop, saw>>,
           status[c] # "none", status'[c] # "none",
           \A d \in Conns \ {c} : status'[d] = status[d] /\ told'[d] = told[d],
           told'[c] = Story(status'[c]),
           \/ UNCHANGED <<connectPool, due>>
           \/ removeConnect(addr[c]),
           \A a \in Addrs : connectPool'[a] = c => status'[c] \in {"new", "open"},
           \A l \in Loops, d \in Conns :
              /\ Once(functions'[l], Closure("connected", d))
              /\ In(functions'[l], Closure("connected", d))
                    => d # c /\ In(functions[l], Closure("connected", d))
              /\ d # c /\ In(functions'[l], Closure("close", d))
                    => In(functions[l], Closure("close", d))
              /\ d # c /\ In(functions[l], Closure("close", d))
                    => In(functions'[l], Closure("close", d)),
           \A l \in Loops :
              In(functions'[l], Closure("close", c))
                 => status'[c] \in {"open", "closed"},
           \/ status'[c] \notin {"new", "open"}
           \/ CloseQueued(c)'
           \/ /\ status[c] = "new" /\ status'[c] = "open"
              /\ UNCHANGED connectPool,
           c \in saw => status'[c] = "closed" \/ CloseQueued(c)'
    PROVE  Life'
<1> USE DEF IInv
<1>1. Arrived'
  BY DEF Arrived
<1>2. ConnectedOnce'
  BY DEF ConnectedOnce
<1>3. CloseAfterOpen'
  BY DEF CloseAfterOpen
<1>4. Told'
  BY DEF Told
<1>5. \A a \in Addrs : connectPool'[a] # None => connectPool'[a] = connectPool[a]
  BY DEF removeConnect, TypeOK
<1>6. PoolHoldsOpen'
  <2> SUFFICES ASSUME NEW a \in Addrs, connectPool'[a] # None
               PROVE  /\ status'[connectPool'[a]] \in {"new", "open"}
                      /\ addr'[connectPool'[a]] = a
    BY DEF PoolHoldsOpen, Pooled
  <2>1. connectPool'[a] = connectPool[a] /\ connectPool[a] \in Conns
    BY <1>5 DEF TypeOK
  <2>2. status[connectPool[a]] \in {"new", "open"} /\ addr[connectPool[a]] = a
    BY <2>1 DEF PoolHoldsOpen, Pooled
  <2> QED BY <2>1, <2>2
<1>7. \A d \in Conns \ {c} : CloseQueued(d) => CloseQueued(d)'
  <2> SUFFICES ASSUME NEW d \in Conns \ {c}, CloseQueued(d) PROVE CloseQueued(d)'
    OBVIOUS
  <2>1. home[d] \in Loops /\ In(functions[home[d]], Closure("close", d))
    BY DEF CloseQueued, In, TypeOK
  <2>2. In(functions'[home[d]], Closure("close", d))
    BY <2>1
  <2> QED BY <2>2 DEF CloseQueued, In
<1>8. \A d \in Conns : HasNamesake(d) => HasNamesake(d)'
  BY DEF HasNamesake
<1>9. \A d \in Conns \ {c} : addr[d] # addr[c] \/ HasNamesake(d)'
  BY DEF HasNamesake
<1>10. MissingOnlyForNamesake'
  <2> SUFFICES ASSUME NEW d \in Conns, status'[d] \in {"new", "open"},
                      connectPool'[addr[d]] # d
               PROVE  CloseQueued(d)' \/ HasNamesake(d)'
    BY DEF MissingOnlyForNamesake
  <2>1. CASE d = c
    <3>1. CASE CloseQueued(c)'
      BY <2>1, <3>1
    <3>2. CASE status[c] = "new" /\ UNCHANGED connectPool
      <4>1. home[c] \in Loops
        BY DEF TypeOK
      <4>2. ~CloseQueued(c)
        BY <3>2, <4>1 DEF CloseAfterOpen, CloseQueued, In
      <4> QED BY <1>8, <2>1, <3>2, <4>2 DEF MissingOnlyForNamesake
    <3> QED BY <2>1, <3>1, <3>2
  <2>2. CASE d # c /\ addr[d] # addr[c]
    <3>1. connectPool'[addr[d]] = connectPool[addr[d]]
      <4>1. addr[d] \in Addrs
        BY <2>2 DEF Arrived, TypeOK
      <4> QED BY <2>2, <4>1 DEF removeConnect, TypeOK
    <3> QED BY <1>7, <1>8, <2>2, <3>1 DEF MissingOnlyForNamesake
  <2>3. CASE d # c /\ addr[d] = addr[c]
    BY <1>9, <2>3
  <2> QED BY <2>1, <2>2, <2>3
<1>11. SawReached'
  <2> SUFFICES ASSUME NEW d \in saw
               PROVE  /\ status'[d] \in {"open", "closed"}
                      /\ \/ status'[d] = "closed" \/ CloseQueued(d)'
                         \/ HasNamesake(d)' \/ Ahead(d)'
    BY DEF SawReached
  <2>0. d \in Conns
    BY DEF TypeOK
  <2>1. CASE d = c
    <3>1. CASE status'[c] = "closed"
      BY <2>1, <3>1
    <3>2. CASE CloseQueued(c)'
      <4>1. home[c] \in Loops /\ In(functions'[home[c]], Closure("close", c))
        BY <3>2 DEF CloseQueued, In, TypeOK
      <4> QED BY <2>1, <3>2, <4>1
    <3> QED BY <2>1, <3>1, <3>2
  <2>2. CASE d # c
    <3>1. status'[d] = status[d] /\ status[d] \in {"open", "closed"}
      BY <2>0, <2>2 DEF SawReached
    <3>2. Ahead(d) => Ahead(d)' \/ HasNamesake(d)'
      BY <1>9, <2>0, <2>2 DEF Ahead, removeConnect
    <3> QED BY <1>7, <1>8, <2>0, <2>2, <3>1, <3>2 DEF SawReached
  <2> QED BY <2>1, <2>2
<1> QED BY <1>1, <1>2, <1>3, <1>4, <1>6, <1>10, <1>11 DEF Life
\* The two callbacks of a connection, one after the other.
LEMMA BothCalls == /\ Append(<<>>, "connect") = <<"connect">>
                   /\ Append(<<"connect">>, "close") = <<"connect", "close">>
<1> DEFINE S == {"connect", "close"}
           one == <<"connect">>
           two == <<"connect", "close">>
<1>1. /\ <<>> \in Seq(S) /\ one \in Seq(S) /\ two \in Seq(S)
      /\ Len(<<>>) = 0 /\ Len(one) = 1 /\ Len(two) = 2
      /\ one[1] = "connect" /\ two[1] = "connect" /\ two[2] = "close"
  OBVIOUS
<1>2. /\ Append(<<>>, "connect") \in Seq(S)
      /\ Len(Append(<<>>, "connect")) = 1
      /\ Append(<<>>, "connect")[1] = "connect"
  BY <1>1, AppendProperties
<1>3. /\ Append(one, "close") \in Seq(S)
      /\ Len(Append(one, "close")) = 2
      /\ Append(one, "close")[1] = "connect"
      /\ Append(one, "close")[2] = "close"
  BY <1>1, AppendProperties
<1> HIDE DEF one, two, S
<1>4. Append(<<>>, "connect") = one
  <2>1. \A i \in 1 .. Len(one) : Append(<<>>, "connect")[i] = one[i]
    BY <1>1, <1>2
  <2> QED BY <1>1, <1>2, <2>1, SeqEqual
<1>5. Append(one, "close") = two
  <2>1. \A i \in 1 .. Len(two) : Append(one, "close")[i] = two[i]
    BY <1>1, <1>3
  <2> QED BY <1>1, <1>3, <2>1, SeqEqual
<1> QED BY <1>4, <1>5 DEF one, two

\* What closing an open connection tells, and changes in the pool.
LEMMA ClosingTells ==
    ASSUME IInv, NEW c \in Conns, closeEvent(c), ~Disconnected(c)
    PROVE  /\ status[c] = "open" /\ status'[c] = "closed"
           /\ \A d \in Conns \ {c} : status'[d] = status[d] /\ told'[d] = told[d]
           /\ told'[c] = Story(status'[c])
           /\ removeConnect(addr[c])
           /\ \A a \in Addrs : connectPool'[a] # c
<1> USE DEF IInv
<1>1. /\ status' = [status EXCEPT ![c] = "closed"]
      /\ Callback(c, "close")
      /\ removeConnect(addr[c])
      /\ status[c] = "open"
  BY DEF closeEvent, Disconnected
<1>2. told[c] = <<"connect">>
  BY <1>1 DEF Told, Story
<1>3. Append(<<"connect">>, "close") = <<"connect", "close">>
  BY BothCalls
<1>4. told' = [told EXCEPT ![c] = Append(told[c], "close")]
  BY <1>1 DEF Callback
<1>5. told'[c] = Append(told[c], "close")
  BY <1>4 DEF TypeOK
<1>6. status'[c] = "closed"
  BY <1>1 DEF TypeOK
<1>7. told'[c] = Story(status'[c])
  BY <1>2, <1>3, <1>5, <1>6 DEF Story
<1>8. ASSUME NEW a \in Addrs PROVE connectPool'[a] # c
  <2>1. CASE connectPool[a] = c
    <3>1. addr[c] = a
      BY <2>1, Numbers DEF PoolHoldsOpen, Pooled
    <3>2. connectPool'[a] = None
      BY <1>1, <3>1 DEF removeConnect, TypeOK
    <3> QED BY <3>2, Numbers
  <2>2. CASE connectPool[a] # c
    BY <1>1, <2>2, Numbers DEF removeConnect, TypeOK
  <2> QED BY <2>1, <2>2
<1> QED BY <1>1, <1>4, <1>6, <1>7, <1>8 DEF TypeOK

\* A sub loop's handler closes the connection, or changes nothing but its reading.
LEMMA HandleEventKeeps ==
    ASSUME IInv, TypeOK', NEW l \in Loops, NEW c \in Conns, HandleEvent(l, c)
    PROVE  Life'
<1>1. /\ closeEvent(c) \/ UNCHANGED <<status, connectPool, due, told>>
      /\ UNCHANGED <<addr, home, functions, stop, saw>>
  BY DEF HandleEvent
<1>2. CASE Disconnected(c) \/ UNCHANGED <<status, connectPool, due, told>>
  BY <1>1, <1>2, QuietKeeps DEF closeEvent, Ahead
<1>3. CASE closeEvent(c) /\ ~Disconnected(c)
  <2>1. /\ status[c] = "open" /\ status'[c] = "closed"
        /\ \A d \in Conns \ {c} : status'[d] = status[d] /\ told'[d] = told[d]
        /\ told'[c] = Story(status'[c])
        /\ removeConnect(addr[c])
        /\ \A a \in Addrs : connectPool'[a] # c
    BY <1>1, <1>3, ClosingTells
  <2>2. \A m \in Loops, d \in Conns :
           /\ Once(functions'[m], Closure("connected", d))
           /\ In(functions'[m], Closure("connected", d))
                 => d # c /\ In(functions[m], Closure("connected", d))
    BY <1>1, <2>1 DEF IInv, ConnectedOnce
  <2> QED BY <1>1, <2>1, <2>2, OneConnection
<1> QED BY <1>1, <1>2, <1>3
\* What running the closure of newConnected tells.
LEMMA ConnectingTells ==
    ASSUME IInv, TypeOK', NEW l \in Loops, NEW c \in Conns, ConnectedHandle(l, c),
           status[c] = "new"
    PROVE  /\ \A d \in Conns \ {c} : status'[d] = status[d] /\ told'[d] = told[d]
           /\ status'[c] \in {"open", "stuck"}
           /\ told'[c] = Story(status'[c])
<1> USE DEF IInv
<1>1. /\ \/ status' = [status EXCEPT ![c] = "open"]
         \/ status' = [status EXCEPT ![c] = "stuck"]
      /\ Callback(c, "connect")
  BY DEF ConnectedHandle
<1>2. told[c] = <<>>
  BY DEF Told, Story
<1>3. told' = [told EXCEPT ![c] = Append(told[c], "connect")]
  BY <1>1 DEF Callback
<1>4. told'[c] = Append(told[c], "connect")
  BY <1>3 DEF TypeOK
<1>5. status'[c] \in {"open", "stuck"}
  BY <1>1 DEF TypeOK
<1>6. told'[c] = Story(status'[c])
  BY <1>2, <1>4, <1>5, BothCalls DEF Story
<1> QED BY <1>1, <1>3, <1>5, <1>6 DEF TypeOK

\* The three outcomes of the closure of newConnected.
LEMMA ConnectedHandleKeeps ==
    ASSUME IInv, TypeOK', NEW l \in Loops, left[l] > 0, NEW c \in Conns,
           Head(functions[l]) = Closure("connected", c), ConnectedHandle(l, c),
           UNCHANGED <<addr, home, stop, saw>>
    PROVE  Life'
<1> USE DEF IInv
<1>1. functions[l] \in Seq(Closures) /\ In(functions[l], Closure("connected", c))
  BY HeadTypes, TailIn
<1>2. /\ status[c] = "new" /\ home[c] = l
      /\ \A m \in Loops : In(functions[m], Closure("connected", c)) => m = l
      /\ \A m \in Loops, d \in Conns : Once(functions[m], Closure("connected", d))
  BY <1>1 DEF ConnectedOnce
<1>3. /\ \A d \in Conns \ {c} : status'[d] = status[d] /\ told'[d] = told[d]
      /\ status'[c] \in {"open", "stuck"}
      /\ told'[c] = Story(status'[c])
  BY <1>2, ConnectingTells
<1>4. c \notin saw
  BY <1>2 DEF SawReached
<1>5. \A m \in Loops : ~In(functions[m], Closure("close", c))
  BY <1>2 DEF CloseAfterOpen
<1>6. removeConnect(addr[c]) => \A a \in Addrs : connectPool'[a] # c
  <2> SUFFICES ASSUME removeConnect(addr[c]), NEW a \in Addrs PROVE connectPool'[a] # c
    OBVIOUS
  <2>1. CASE connectPool[a] = c
    <3>1. addr[c] = a
      BY <2>1, Numbers DEF PoolHoldsOpen, Pooled
    <3> QED BY <3>1, Numbers DEF removeConnect, TypeOK
  <2>2. CASE connectPool[a] # c
    BY <2>2, Numbers DEF removeConnect, TypeOK
  <2> QED BY <2>1, <2>2
<1>7. \/ UNCHANGED <<connectPool, due>>
      \/ removeConnect(addr[c])
  BY DEF ConnectedHandle
<1>8. \A a \in Addrs : connectPool'[a] = c => status'[c] \in {"new", "open"}
  <2>1. CASE removeConnect(addr[c])
    BY <1>6, <2>1
  <2>2. CASE status' = [status EXCEPT ![c] = "open"]
    BY <2>2 DEF TypeOK
  <2> QED BY <2>1, <2>2 DEF ConnectedHandle
<1>9. CASE functions' = [functions EXCEPT ![l] = Tail(functions[l])]
  <2>1. ASSUME NEW m \in Loops, NEW d \in Conns
        PROVE  /\ Once(functions'[m], Closure("connected", d))
               /\ In(functions'[m], Closure("connected", d))
                     => d # c /\ In(functions[m], Closure("connected", d))
    <3>1. /\ Once(functions[m], Closure("connected", d))
          /\ Once(functions[l], Closure("connected", d))
      BY <1>2
    <3>2. /\ In(functions'[m], Closure("connected", d))
                => In(functions[m], Closure("connected", d))
          /\ Once(functions'[m], Closure("connected", d))
          /\ d = c => ~In(functions'[l], Closure("connected", d))
      BY <1>9, <3>1, RunIn
    <3> QED BY <1>2, <3>2
  <2>2. ASSUME NEW m \in Loops, NEW d \in Conns
        PROVE  In(functions'[m], Closure("close", d))
                  <=> In(functions[m], Closure("close", d))
    <3>1. Closure("close", d) # Closure("connected", c)
      BY Kindred
    <3> QED BY <1>9, <3>1, RunIn
  <2>3. \/ status'[c] \notin {"new", "open"}
        \/ CloseQueued(c)'
        \/ status'[c] = "open" /\ UNCHANGED connectPool
    <3>1. CASE status' = [status EXCEPT ![c] = "stuck"]
      BY <3>1 DEF TypeOK
    <3>2. CASE UNCHANGED <<connectPool, due>>
      BY <1>3, <3>2
    <3>3. CASE functions' = [functions EXCEPT
                               ![l] = Append(Tail(functions[l]), Closure("close", c))]
      <4>1. In(functions'[l], Closure("close", c))
        <5>1. Closure("close", c) \in Closures
          BY Kindred
        <5> HIDE DEF IInv
        <5> QED BY <3>3, <5>1, RunPostIn DEF IInv
      <4> QED BY <1>5, <2>2, <4>1
    <3> QED BY <3>1, <3>2, <3>3 DEF ConnectedHandle
  <2> QED
    BY <1>2, <1>3, <1>4, <1>5, <1>7, <1>8, <2>1, <2>2, <2>3, OneConnection
<1>10. CASE /\ status' = [status EXCEPT ![c] = "open"]
            /\ functions' = [functions EXCEPT
                               ![l] = Append(Tail(functions[l]), Closure("close", c))]
  <2>0. ASSUME NEW m \in Loops, NEW y, y # Closure("close", c)
        PROVE  /\ In(functions[m], y) =>
                     In(functions'[m], y) \/ (m = l /\ y = Head(functions[l]))
               /\ In(functions'[m], y) => In(functions[m], y)
               /\ Once(functions[m], y) => Once(functions'[m], y)
               /\ Once(functions[l], y) /\ y = Head(functions[l])
                     => ~In(functions'[l], y)
               /\ In(functions'[l], Closure("close", c))
    <3> DEFINE x == Closure("close", c)
    <3>1. /\ x \in Closures
          /\ functions' = [functions EXCEPT ![l] = Append(Tail(functions[l]), x)]
      BY <1>10, Kindred
    <3>2. y # x
      BY <2>0
    <3> HIDE DEF x
    <3>3. /\ In(functions[m], y) =>
                In(functions'[m], y) \/ (m = l /\ y = Head(functions[l]))
          /\ In(functions'[m], y) => In(functions[m], y) \/ (m = l /\ y = x)
          /\ Once(functions[m], y) /\ y # x => Once(functions'[m], y)
          /\ Once(functions[l], y) /\ y = Head(functions[l]) /\ y # x
                => ~In(functions'[l], y)
          /\ In(functions'[l], x)
      BY <3>1, RunPostIn, Zenon
    <3> QED BY <3>2, <3>3 DEF x
  <2>1. ASSUME NEW m \in Loops, NEW d \in Conns
        PROVE  /\ Once(functions'[m], Closure("connected", d))
               /\ In(functions'[m], Closure("connected", d))
                     => d # c /\ In(functions[m], Closure("connected", d))
    <3>1. /\ Once(functions[m], Closure("connected", d))
          /\ Once(functions[l], Closure("connected", d))
          /\ Closure("connected", d) # Closure("close", c)
      BY <1>2, Kindred
    <3>2. /\ In(functions'[m], Closure("connected", d))
                => In(functions[m], Closure("connected", d))
          /\ Once(functions'[m], Closure("connected", d))
          /\ d = c => ~In(functions'[l], Closure("connected", d))
      BY <2>0, <3>1
    <3> QED BY <1>2, <3>2
  <2>2. ASSUME NEW m \in Loops, NEW d \in Conns \ {c}
        PROVE  In(functions'[m], Closure("close", d))
                  <=> In(functions[m], Closure("close", d))
    <3>1. /\ Closure("close", d) # Closure("connected", c)
          /\ Closure("close", d) # Closure("close", c)
      BY Kindred
    <3> QED BY <2>0, <3>1
  <2>3. status'[c] = "open" /\ CloseQueued(c)'
    <3>1. In(functions'[l], Closure("close", c))
      <4>1. Closure("connected", c) # Closure("close", c)
        BY Kindred
      <4> QED BY <2>0, <4>1
    <3>2. home'[c] = l
      BY <1>2
    <3> QED BY <1>10, <3>1, <3>2 DEF CloseQueued, In, TypeOK
  <2> QED
    BY <1>2, <1>3, <1>4, <1>7, <1>8, <2>1, <2>2, <2>3, OneConnection
<1> QED BY <1>9, <1>10 DEF ConnectedHandle
\* Running a queued close, or the acceptor's closure.
LEMMA RunCloseKeeps ==
    ASSUME IInv, TypeOK', NEW l \in Loops, left[l] > 0,
           functions' = [functions EXCEPT ![l] = Tail(functions[l])],
           UNCHANGED <<addr, home, stop, saw>>,
           \/ /\ Head(functions[l]) = Closure("closeAccept", None)
              /\ UNCHANGED <<status, connectPool, due, told>>
           \/ \E c \in Conns : /\ Head(functions[l]) = Closure("close", c)
                               /\ closeEvent(c)
    PROVE  Life'
<1> USE DEF IInv
<1>1. ASSUME NEW m \in Loops, NEW d \in Conns
      PROVE  /\ Once(functions'[m], Closure("connected", d))
             /\ In(functions'[m], Closure("connected", d))
                   => status[d] = "new" /\ home[d] = m
  <2>1. /\ Once(functions[m], Closure("connected", d))
        /\ In(functions[m], Closure("connected", d)) => status[d] = "new" /\ home[d] = m
    BY DEF ConnectedOnce
  <2>2. /\ In(functions'[m], Closure("connected", d))
              => In(functions[m], Closure("connected", d))
        /\ Once(functions[m], Closure("connected", d))
              => Once(functions'[m], Closure("connected", d))
    BY RunIn
  <2> QED BY <2>1, <2>2
<1>2. ASSUME NEW m \in Loops, NEW d \in Conns
      PROVE  /\ In(functions'[m], Closure("close", d))
                   => In(functions[m], Closure("close", d))
             /\ In(functions[m], Closure("close", d))
                   => \/ In(functions'[m], Closure("close", d))
                      \/ Head(functions[l]) = Closure("close", d)
  BY RunIn
<1>3. CASE UNCHANGED <<status, connectPool, due, told>>
           /\ \A c \in Conns : Head(functions[l]) = Closure("close", c)
                                  => status[c] = "closed"
  <2>1. ASSUME NEW d \in Conns, CloseQueued(d), status[d] # "closed"
        PROVE  CloseQueued(d)'
    <3>1. home[d] \in Loops /\ In(functions[home[d]], Closure("close", d))
      BY <2>1 DEF CloseQueued, In, TypeOK
    <3>2. In(functions'[home[d]], Closure("close", d))
      BY <1>2, <1>3, <2>1, <3>1
    <3> QED BY <3>2 DEF CloseQueued, In
  <2>2. \A d \in Conns : HasNamesake(d) => HasNamesake(d)'
    BY DEF HasNamesake
  <2>3. /\ Arrived' /\ Told' /\ PoolHoldsOpen'
    BY <1>3 DEF Arrived, Told, Story, PoolHoldsOpen, Pooled
  <2>4. ConnectedOnce'
    BY <1>1, <1>3 DEF ConnectedOnce
  <2>5. CloseAfterOpen'
    BY <1>2, <1>3 DEF CloseAfterOpen
  <2>6. MissingOnlyForNamesake'
    <3> SUFFICES ASSUME NEW d \in Conns, status[d] \in {"new", "open"},
                        connectPool[addr[d]] # d
                 PROVE  CloseQueued(d)' \/ HasNamesake(d)'
      BY <1>3 DEF MissingOnlyForNamesake
    <3> QED BY <2>1, <2>2 DEF MissingOnlyForNamesake
  <2>7. SawReached'
    <3> SUFFICES ASSUME NEW d \in saw
                 PROVE  /\ status[d] \in {"open", "closed"}
                        /\ \/ status[d] = "closed" \/ CloseQueued(d)'
                           \/ HasNamesake(d)' \/ Ahead(d)'
      BY <1>3 DEF SawReached
    <3>1. d \in Conns /\ (Ahead(d) => Ahead(d)')
      BY <1>3 DEF Ahead, TypeOK
    <3> QED BY <2>1, <2>2, <3>1 DEF SawReached
  <2> QED BY <2>3, <2>4, <2>5, <2>6, <2>7 DEF Life
<1>4. CASE Head(functions[l]) = Closure("closeAccept", None)
           /\ UNCHANGED <<status, connectPool, due, told>>
  BY <1>3, <1>4, Kindred
<1>5. ASSUME NEW c \in Conns, Head(functions[l]) = Closure("close", c), closeEvent(c)
      PROVE  Life'
  <2>1. In(functions[l], Closure("close", c))
    <3>1. functions[l] \in Seq(Closures) /\ Len(functions[l]) > 0
      BY HeadTypes
    <3> QED BY <1>5, <3>1, TailIn
  <2>2. status[c] \in {"open", "closed"}
    BY <2>1 DEF CloseAfterOpen
  <2>3. \A d \in Conns : Head(functions[l]) = Closure("close", d) => d = c
    BY <1>5, Kindred
  <2>4. CASE Disconnected(c)
    <3>1. status[c] = "closed" /\ UNCHANGED <<status, connectPool, due, told>>
      BY <1>5, <2>2, <2>4 DEF closeEvent, Disconnected
    <3> QED BY <1>3, <2>3, <3>1
  <2>5. CASE ~Disconnected(c)
    <3>1. /\ status[c] = "open" /\ status'[c] = "closed"
          /\ \A d \in Conns \ {c} : status'[d] = status[d] /\ told'[d] = told[d]
          /\ told'[c] = Story(status'[c])
          /\ removeConnect(addr[c])
          /\ \A a \in Addrs : connectPool'[a] # c
      BY <1>5, <2>5, ClosingTells
    <3>2. \A m \in Loops, d \in Conns :
             /\ Once(functions'[m], Closure("connected", d))
             /\ In(functions'[m], Closure("connected", d))
                   => d # c /\ In(functions[m], Closure("connected", d))
             /\ d # c /\ In(functions'[m], Closure("close", d))
                   => In(functions[m], Closure("close", d))
             /\ d # c /\ In(functions[m], Closure("close", d))
                   => In(functions'[m], Closure("close", d))
      <4> SUFFICES ASSUME NEW m \in Loops, NEW d \in Conns
                   PROVE  /\ Once(functions'[m], Closure("connected", d))
                          /\ In(functions'[m], Closure("connected", d))
                                => d # c /\ In(functions[m], Closure("connected", d))
                          /\ d # c /\ In(functions'[m], Closure("close", d))
                                => In(functions[m], Closure("close", d))
                          /\ d # c /\ In(functions[m], Closure("close", d))
                                => In(functions'[m], Closure("close", d))
        OBVIOUS
      <4>1. In(functions'[m], Closure("connected", d))
               => In(functions[m], Closure("connected", d))
        BY RunIn
      <4> QED BY <1>1, <1>2, <2>3, <3>1, <4>1
    <3> QED BY <3>1, <3>2, OneConnection
  <2> QED BY <2>4, <2>5
<1> QED BY <1>4, <1>5

\* Every closure.
LEMMA RunFunctionKeeps ==
    ASSUME IInv, TypeOK', NEW l \in Loops, RunFunction(l)
    PROVE  Life'
<1> DEFINE closure == Head(functions[l])
<1>1. left[l] > 0 /\ UNCHANGED <<addr, home, stop, saw>>
  BY DEF RunFunction
<1>2. closure \in Closures
  BY <1>1, HeadTypes DEF IInv
<1>3. CASE closure.kind = "connected" /\ ConnectedHandle(l, closure.conn)
  <2>1. closure.conn \in Conns /\ closure = Closure("connected", closure.conn)
    BY <1>2, <1>3, Kinds
  <2> QED BY <1>1, <1>3, <2>1, ConnectedHandleKeeps
<1>4. CASE /\ closure.kind = "close" /\ closeEvent(closure.conn)
           /\ functions' = [functions EXCEPT ![l] = Tail(functions[l])]
  <2>1. closure.conn \in Conns /\ closure = Closure("close", closure.conn)
    BY <1>2, <1>4, Kinds
  <2> QED BY <1>1, <1>4, <2>1, RunCloseKeeps
<1>5. CASE /\ closure.kind = "closeAccept"
           /\ UNCHANGED <<status, connectPool, due, told>>
           /\ functions' = [functions EXCEPT ![l] = Tail(functions[l])]
  <2>1. closure = Closure("closeAccept", None)
    BY <1>2, <1>5, Kinds
  <2> QED BY <1>1, <1>5, <2>1, RunCloseKeeps
<1> QED BY <1>3, <1>4, <1>5 DEF RunFunction
\* A connection arrives, is refused or is accepted: it was nobody's before.
LEMMA BornKeeps ==
    ASSUME IInv, TypeOK', NEW c \in Conns, status[c] \in {"none", "backlog"},
           status'[c] \in {"backlog", "new", "refused"}, addr'[c] \in Addrs,
           status[c] = "none" \/ addr'[c] = addr[c],
           \A d \in Conns \ {c} :
              status'[d] = status[d] /\ addr'[d] = addr[d] /\ home'[d] = home[d],
           UNCHANGED <<told, saw, stop, due>>,
           \/ status'[c] # "new" /\ UNCHANGED <<connectPool, functions>>
           \/ /\ status'[c] = "new" /\ status[c] = "backlog"
              /\ addConnect(addr[c], c)
              /\ home'[c] \in Loops /\ Post(home'[c], Closure("connected", c))
    PROVE  Life'
<1> USE DEF IInv
<1>1. Arrived'
  BY Numbers DEF Arrived
<1>2. \A l \in Loops : /\ ~In(functions[l], Closure("connected", c))
                       /\ ~In(functions[l], Closure("close", c))
  BY DEF ConnectedOnce, CloseAfterOpen
<1>3. ASSUME NEW l \in Loops, NEW d \in Conns
      PROVE  /\ Once(functions'[l], Closure("connected", d))
             /\ In(functions'[l], Closure("connected", d)) =>
                   \/ d # c /\ In(functions[l], Closure("connected", d))
                   \/ d = c /\ status'[c] = "new" /\ home'[c] = l
             /\ In(functions'[l], Closure("close", d))
                   <=> In(functions[l], Closure("close", d))
  <2>1. Once(functions[l], Closure("connected", d))
    BY DEF ConnectedOnce
  <2>2. CASE UNCHANGED functions
    BY <1>2, <2>1, <2>2
  <2>3. CASE /\ status'[c] = "new"
             /\ home'[c] \in Loops /\ Post(home'[c], Closure("connected", c))
    <3> DEFINE x == Closure("connected", c)
    <3>1. x \in Closures /\ x # Closure("close", d)
          /\ (x = Closure("connected", d) => d = c)
      BY Kindred
    <3>2. ~In(functions[l], x)
      BY <1>2
    <3> HIDE DEF x
    <3>3. Post(home'[c], x) /\ home'[c] \in Loops
      BY <2>3 DEF x
    <3>4. \A y : /\ In(functions'[l], y)
                       <=> In(functions[l], y) \/ (l = home'[c] /\ y = x)
                 /\ /\ Once(functions[l], y)
                    /\ l = home'[c] /\ y = x => ~In(functions[l], y)
                    => Once(functions'[l], y)
      BY <3>1, <3>3, PostIn
    <3>5. Once(functions'[l], Closure("connected", d))
      BY <2>1, <3>1, <3>2, <3>4
    <3> QED BY <1>2, <2>3, <3>1, <3>4, <3>5 DEF x
  <2> QED BY <2>2, <2>3
<1>4. ConnectedOnce'
  BY <1>3 DEF ConnectedOnce
<1>5. CloseAfterOpen'
  BY <1>2, <1>3 DEF CloseAfterOpen
<1>6. Told'
  <2>1. told[c] = <<>> /\ Story(status'[c]) = <<>>
    BY DEF Told, Story
  <2> QED BY <2>1 DEF Told, Story
<1>7. \A a \in Addrs : connectPool[a] # c
  BY Numbers DEF PoolHoldsOpen, Pooled
<1>8. PoolHoldsOpen'
  <2> SUFFICES ASSUME NEW a \in Addrs, connectPool'[a] # None
               PROVE  /\ status'[connectPool'[a]] \in {"new", "open"}
                      /\ addr'[connectPool'[a]] = a
    BY DEF PoolHoldsOpen, Pooled
  <2>1. CASE connectPool'[a] = connectPool[a]
    <3>1. connectPool[a] \in Conns \ {c}
      BY <1>7, <2>1 DEF TypeOK
    <3>2. status[connectPool[a]] \in {"new", "open"} /\ addr[connectPool[a]] = a
      BY <2>1 DEF PoolHoldsOpen, Pooled
    <3> QED BY <2>1, <3>1, <3>2
  <2>2. CASE connectPool'[a] # connectPool[a]
    BY <2>2 DEF addConnect, TypeOK
  <2> QED BY <2>1, <2>2
<1>9. ASSUME NEW d \in Conns \ {c}, CloseQueued(d) PROVE CloseQueued(d)'
  <2>1. home[d] \in Loops /\ In(functions[home[d]], Closure("close", d))
    BY <1>9 DEF CloseQueued, In, TypeOK
  <2>2. home'[d] = home[d] /\ In(functions'[home[d]], Closure("close", d))
    BY <1>3, <2>1
  <2> QED BY <2>2 DEF CloseQueued, In
<1>10. ASSUME NEW d \in Conns \ {c}, status[d] # "none", HasNamesake(d)
       PROVE  HasNamesake(d)'
  <2>1. PICK e \in Conns \ {d} : addr[e] = addr[d]
    BY <1>10 DEF HasNamesake
  <2>2. addr[e] # None
    BY <1>10, <2>1 DEF Arrived
  <2>3. addr'[e] = addr[e]
    BY <2>1, <2>2 DEF Arrived
  <2> QED BY <2>1, <2>3 DEF HasNamesake
<1>11. MissingOnlyForNamesake'
  <2> SUFFICES ASSUME NEW d \in Conns, status'[d] \in {"new", "open"},
                      connectPool'[addr'[d]] # d
               PROVE  CloseQueued(d)' \/ HasNamesake(d)'
    BY DEF MissingOnlyForNamesake
  <2>1. CASE d = c
    BY <2>1 DEF addConnect, TypeOK
  <2>2. CASE d # c /\ connectPool'[addr[d]] = connectPool[addr[d]]
    BY <1>9, <1>10, <2>2 DEF MissingOnlyForNamesake
  <2>3. CASE d # c /\ connectPool'[addr[d]] # connectPool[addr[d]]
    <3>1. addr[d] \in Addrs
      BY <2>3, SMTT(30) DEF Arrived, TypeOK
    <3>2. addr[d] = addr[c] /\ addr'[c] = addr[c]
      BY <2>3, <3>1 DEF addConnect, TypeOK
    <3> QED BY <2>3, <3>2 DEF HasNamesake
  <2> QED BY <2>1, <2>2, <2>3
<1>12. SawReached'
  <2> SUFFICES ASSUME NEW d \in saw
               PROVE  /\ status'[d] \in {"open", "closed"}
                      /\ \/ status'[d] = "closed" \/ CloseQueued(d)'
                         \/ HasNamesake(d)' \/ Ahead(d)'
    BY DEF SawReached
  <2>1. /\ d \in Conns /\ d # c /\ status'[d] = status[d]
        /\ status[d] \in {"open", "closed"}
    BY DEF SawReached, TypeOK
  <2>2. Ahead(d) => Ahead(d)'
    BY <2>1 DEF Ahead
  <2> QED BY <1>9, <1>10, <2>1, <2>2 DEF SawReached
<1> QED BY <1>1, <1>4, <1>5, <1>6, <1>8, <1>11, <1>12 DEF Life

\* A connection arrives in the backlog.
LEMMA PeerConnectKeeps ==
    ASSUME IInv, TypeOK', NEW c \in Conns, NEW a \in Addrs, PeerConnect(c, a)
    PROVE  Life'
<1>1. status[c] = "none" /\ status'[c] = "backlog" /\ addr'[c] = a
  BY DEF PeerConnect, IInv, TypeOK
<1>2. \A d \in Conns \ {c} :
         status'[d] = status[d] /\ addr'[d] = addr[d] /\ home'[d] = home[d]
  BY DEF PeerConnect, IInv, TypeOK
<1>3. UNCHANGED <<told, saw, stop, due, connectPool, functions>>
  BY DEF PeerConnect, stopVars, loopVars
<1> QED BY <1>1, <1>2, <1>3, BornKeeps

\* The acceptor refuses or pools it, and appends the closure of newConnected.
LEMMA AcceptHandleKeeps == ASSUME IInv, TypeOK', AcceptHandle PROVE Life'
<1> USE DEF IInv
<1>1. UNCHANGED <<told, saw, stop, due>>
  BY DEF AcceptHandle, stopVars
<1>2. CASE UNCHANGED <<connVars, nextLoopIndex, connectPool, functions>>
  BY <1>1, <1>2, QuietKeeps DEF connVars, Ahead
<1>3. ASSUME NEW c \in Conns, status[c] = "backlog",
             home' = [home EXCEPT ![c] = nextLoopIndex],
             UNCHANGED addr,
             \/ /\ status' = [status EXCEPT ![c] = "refused"]
                /\ UNCHANGED <<connectPool, functions>>
             \/ /\ status' = [status EXCEPT ![c] = "new"]
                /\ addConnect(addr[c], c)
                /\ Post(nextLoopIndex, Closure("connected", c))
      PROVE  Life'
  <2>1. \A d \in Conns \ {c} :
           status'[d] = status[d] /\ addr'[d] = addr[d] /\ home'[d] = home[d]
    BY <1>3, SMTT(30) DEF TypeOK
  <2>2. addr'[c] \in Addrs /\ addr'[c] = addr[c]
    BY <1>3 DEF Arrived, TypeOK
  <2>3. home'[c] = nextLoopIndex /\ home'[c] \in Loops
    BY <1>3 DEF TypeOK
  <2>4. CASE /\ status' = [status EXCEPT ![c] = "refused"]
             /\ UNCHANGED <<connectPool, functions>>
    <3>1. status'[c] = "refused"
      BY <2>4 DEF TypeOK
    <3> QED BY <1>1, <1>3, <2>1, <2>2, <2>4, <3>1, BornKeeps
  <2>5. CASE /\ status' = [status EXCEPT ![c] = "new"]
             /\ addConnect(addr[c], c)
             /\ Post(nextLoopIndex, Closure("connected", c))
    <3>1. status'[c] = "new"
      BY <2>5 DEF TypeOK
    <3> QED BY <1>1, <1>3, <2>1, <2>2, <2>3, <2>5, <3>1, BornKeeps
  <2> QED BY <1>3, <2>4, <2>5
<1> QED BY <1>2, <1>3 DEF AcceptHandle

\* Stop begins: whoever is in the pool is ahead of the range.
LEMMA StopKeeps == ASSUME IInv, TypeOK', Stop PROVE Life'
<1> USE DEF IInv
<1> DEFINE x == Closure("closeAccept", None)
<1>1. /\ UNCHANGED <<status, addr, home, connectPool, told>>
      /\ stop' = "range" /\ due' = Pooled
      /\ saw' = {c \in Conns : status[c] = "open" /\ connectPool[addr[c]] = c}
      /\ Post(Main, x) /\ Main \in Loops /\ x \in Closures
  BY Numbers, Kindred DEF Stop, connVars
<1>2. \A c \in Conns : Closure("connected", c) # x /\ Closure("close", c) # x
  BY Kindred
<1> HIDE DEF x
<1>3. ASSUME NEW l \in Loops, NEW y, y # x
      PROVE  /\ In(functions'[l], y) <=> In(functions[l], y)
             /\ Once(functions[l], y) => Once(functions'[l], y)
  BY <1>1, <1>3, PostIn
<1>4. /\ Arrived' /\ Told' /\ PoolHoldsOpen'
  BY <1>1 DEF Arrived, Told, Story, PoolHoldsOpen, Pooled
<1>5. ConnectedOnce'
  BY <1>1, <1>2, <1>3 DEF ConnectedOnce
<1>6. CloseAfterOpen'
  BY <1>1, <1>2, <1>3 DEF CloseAfterOpen
<1>7. ASSUME NEW d \in Conns, CloseQueued(d) PROVE CloseQueued(d)'
  <2>1. home[d] \in Loops /\ In(functions[home[d]], Closure("close", d))
    BY <1>7 DEF CloseQueued, In, TypeOK
  <2>2. home'[d] = home[d] /\ In(functions'[home[d]], Closure("close", d))
    BY <1>1, <1>2, <1>3, <2>1
  <2> QED BY <2>2 DEF CloseQueued, In
<1>8. MissingOnlyForNamesake'
  BY <1>1, <1>7 DEF MissingOnlyForNamesake, HasNamesake
<1>9. SawReached'
  <2> SUFFICES ASSUME NEW d \in saw' PROVE status'[d] = "open" /\ Ahead(d)'
    BY DEF SawReached
  <2>1. d \in Conns /\ status[d] = "open" /\ connectPool[addr[d]] = d
    BY <1>1
  <2>2. addr[d] \in Addrs
    BY <2>1 DEF Arrived, TypeOK
  <2>3. addr[d] \in Pooled
    BY <2>1, <2>2, Numbers DEF Pooled
  <2> QED BY <1>1, <2>1, <2>3 DEF Ahead
<1> QED BY <1>4, <1>5, <1>6, <1>8, <1>9 DEF Life
------------------------------------------------------------------------------
(* The inductive invariant.                                                *)

\* The server is created in a state of the invariant.
LEMMA InitInv == Init => IInv
<1> SUFFICES ASSUME Init PROVE IInv
  OBVIOUS
<1> USE Numbers DEF Init
<1>1. \A l \in Loops : functions[l] = <<>> /\ Len(<<>>) = 0 /\ <<>> \in Seq(Closures)
  OBVIOUS
<1>2. TypeOK
  <2>1. <<>> \in Seq({"connect", "close"})
    OBVIOUS
  <2>2. 1 \in SubLoops /\ 0 \in Nat /\ Main \in Nat
    BY ServerAssumption DEF SubLoops, Main
  <2>3. /\ functions \in [Loops -> Seq(Closures)] /\ left \in [Loops -> Nat]
        /\ \A l \in Loops : left[l] <= Len(functions[l])
    <3>1. \A l \in Loops : left[l] = 0
      OBVIOUS
    <3> QED BY <1>1, <3>1
  <2>4. /\ status \in [Conns -> {"none", "backlog", "new", "open", "closed", "refused",
                                "stuck"}]
        /\ addr \in [Conns -> Addrs \cup {None}] /\ home \in [Conns -> Loops]
        /\ connectPool \in [Addrs -> Conns \cup {None}]
        /\ told \in [Conns -> Seq({"connect", "close"})]
    BY <2>1
  <2>5. /\ running \in [Loops -> BOOLEAN]
        /\ pc \in [Loops -> {"new", "handle", "run", "done"}]
        /\ ready \in [Loops -> SUBSET (Conns \cup {None})]
    OBVIOUS
  <2>6. listening \in BOOLEAN /\ waiting \in BOOLEAN /\ crashed \in BOOLEAN
    BY Zenon
  <2> QED BY <2>2, <2>3, <2>4, <2>5, <2>6 DEF TypeOK
<1>3. /\ Arrived /\ Told /\ PoolHoldsOpen /\ MissingOnlyForNamesake /\ SawReached
  BY DEF Arrived, Told, Story, PoolHoldsOpen, Pooled, MissingOnlyForNamesake, SawReached
<1>4. ConnectedOnce /\ CloseAfterOpen
  BY <1>1 DEF ConnectedOnce, CloseAfterOpen, Once, In
<1> QED BY <1>2, <1>3, <1>4 DEF IInv

\* Every step keeps the invariant.
LEMMA NextInv == IInv /\ [Next]_vars => IInv'
<1> SUFFICES ASSUME IInv, [Next]_vars PROVE Life'
  BY TypesKept DEF IInv, Life
<1>1. TypeOK'
  BY TypesKept DEF IInv
<1> USE DEF connVars, loopVars, stopVars
<1>2. ASSUME NEW c \in Conns, PeerEnds(c) \/ PeerReads(c) PROVE Life'
  BY <1>2, QuietKeeps DEF PeerEnds, PeerReads, Ahead
<1>3. ASSUME NEW l \in Loops, LoopStep(l) PROVE Life'
  <2>1. CASE Run(l) \/ WaitEvent(l) \/ runAllFunctionInLoop(l) \/ RunEnds(l)
    BY <2>1, QuietKeeps DEF Run, WaitEvent, runAllFunctionInLoop, RunEnds, Ahead
  <2> QED
    BY <1>1, <1>3, <2>1, AcceptHandleKeeps, HandleEventKeeps, RunFunctionKeeps
       DEF LoopStep
<1>4. CASE StopRangeEnd \/ StopLoop \/ StopLoopDone
  <2>1. UNCHANGED <<status, addr, home, connectPool, functions, told, saw, due>>
    BY <1>4 DEF StopRangeEnd, StopLoop, StopLoopDone
  <2>2. stop # "range" \/ due = {}
    BY <1>4 DEF StopRangeEnd, RangeOver, StopLoop, StopLoopDone
  <2> QED BY <2>1, <2>2, QuietKeeps DEF Ahead
<1>5. CASE MapRace \/ UNCHANGED vars
  BY <1>5, QuietKeeps DEF MapRace, vars, Ahead
<1> QED
  BY <1>1, <1>2, <1>3, <1>4, <1>5, PeerConnectKeeps, CloseKeeps, StopKeeps,
     StopVisitKeeps DEF Next, StopStep

\* The inductive invariant holds of every behaviour of Server.
THEOREM Invariance == Spec => []IInv
<1>1. Init => IInv
  BY InitInv
<1>2. IInv /\ [Next]_vars => IInv'
  BY NextInv
<1> QED BY <1>1, <1>2, PTL DEF Spec

\* Every variable keeps its type; the index of the next loop is that of a sub loop.
THEOREM TypeCorrect == Spec => []TypeOK
<1>1. IInv => TypeOK
  BY DEF IInv
<1> QED BY <1>1, Invariance, PTL

\* The pool never holds a connection that is closed or was never accepted, whatever
\* resets, reused addresses, failed registrations and closes do.
THEOREM PoolUsable == Spec => []PoolHoldsOpen
<1>1. IInv => PoolHoldsOpen
  BY DEF IInv
<1> QED BY <1>1, Invariance, PTL

\* A live connection is missing in the pool only because of a namesake or because
\* its close is queued already.
THEOREM PoolMisses == Spec => []MissingOnlyForNamesake
<1>1. IInv => MissingOnlyForNamesake
  BY DEF IInv
<1> QED BY <1>1, Invariance, PTL

\* When Stop comes to the loops, each connection it saw in the pool is closed or
\* asked to close, unless a namesake replaced it.
THEOREM StopReachesAll == Spec => []StopAsksAll
<1>1. IInv => StopAsksAll
  BY DEF IInv, SawReached, Ahead, StopAsksAll
<1> QED BY <1>1, Invariance, PTL
------------------------------------------------------------------------------
(* Server implements Session.                                              *)

\* The three stories differ.
LEMMA Stories ==
    /\ <<>> # <<"connect">>
    /\ <<>> # <<"connect", "close">>
    /\ <<"connect">> # <<"connect", "close">>
<1>1. Len(<<>>) = 0 /\ Len(<<"connect">>) = 1 /\ Len(<<"connect", "close">>) = 2
  OBVIOUS
<1> QED BY <1>1

\* A step in which the status of one connection goes on.
LEMMA PhaseStep ==
    ASSUME Told, Told', NEW c \in Conns,
           \A d \in Conns \ {c} : status'[d] = status[d],
           \/ status[c] = "new" /\ status'[c] \in {"open", "stuck"}
           \/ status[c] = "open" /\ status'[c] = "closed"
    PROVE  App!Next
<1> DEFINE phase == [d \in Conns |-> Phase(d)]
<1>1. \A d \in Conns \ {c} : Phase(d)' = Phase(d)
  BY DEF Phase, Told
<1>2. CASE status[c] = "new" /\ status'[c] \in {"open", "stuck"}
  <2>1. Phase(c) = "unknown" /\ Phase(c)' = "announced"
    BY <1>2, Stories DEF Phase, Told, Story
  <2>2. phase[c] = "unknown" /\ phase' = [phase EXCEPT ![c] = "announced"]
    BY <1>1, <2>1
  <2> QED BY <2>2 DEF App!Next, App!Announce
<1>3. CASE status[c] = "open" /\ status'[c] = "closed"
  <2>1. Phase(c) = "announced" /\ Phase(c)' = "ended"
    BY <1>3, Stories DEF Phase, Told, Story
  <2>2. phase[c] = "announced" /\ phase' = [phase EXCEPT ![c] = "ended"]
    BY <1>1, <2>1
  <2> QED BY <2>2 DEF App!Next, App!End
<1> QED BY <1>2, <1>3
\* A step that tells nothing maps to a stutter, one that tells maps to a step.
LEMMA StepIsSession ==
    IInv /\ IInv' /\ [Next]_vars => [App!Next]_([c \in Conns |-> Phase(c)])
<1> SUFFICES ASSUME IInv, IInv', [Next]_vars
             PROVE  App!Next \/ [c \in Conns |-> Phase(c)]' = [c \in Conns |-> Phase(c)]
  OBVIOUS
<1> USE DEF connVars, loopVars, stopVars
<1>1. ASSUME UNCHANGED told
      PROVE  [c \in Conns |-> Phase(c)]' = [c \in Conns |-> Phase(c)]
  BY <1>1 DEF Phase
<1>2. ASSUME NEW c \in Conns, closeEvent(c) PROVE App!Next \/ UNCHANGED told
  <2>1. CASE Disconnected(c)
    BY <1>2, <2>1 DEF closeEvent
  <2>2. CASE ~Disconnected(c)
    <3>1. /\ status[c] = "open" /\ status'[c] = "closed"
          /\ \A d \in Conns \ {c} : status'[d] = status[d]
      BY <1>2, <2>2, ClosingTells
    <3>2. Told /\ Told'
      BY DEF IInv
    <3> QED BY <3>1, <3>2, PhaseStep
  <2> QED BY <2>1, <2>2
<1>3. ASSUME NEW l \in Loops, RunFunction(l) PROVE App!Next \/ UNCHANGED told
  <2> DEFINE closure == Head(functions[l])
  <2>1. /\ left[l] > 0 /\ functions[l] \in Seq(Closures) /\ Len(functions[l]) > 0
        /\ closure \in Closures
    BY <1>3, HeadTypes DEF RunFunction, IInv
  <2>2. CASE closure.kind = "connected" /\ ConnectedHandle(l, closure.conn)
    <3> DEFINE c == closure.conn
    <3>1. c \in Conns /\ closure = Closure("connected", c)
      BY <2>1, <2>2, Kinds
    <3>2. In(functions[l], Closure("connected", c))
      BY <2>1, <3>1, TailIn
    <3>3. status[c] = "new"
      BY <3>1, <3>2 DEF IInv, ConnectedOnce
    <3>4. TypeOK' /\ Told /\ Told' /\ ConnectedHandle(l, c)
      BY <2>2 DEF IInv
    <3> HIDE DEF c
    <3>5. /\ \A d \in Conns \ {c} : status'[d] = status[d]
          /\ status'[c] \in {"open", "stuck"}
      BY <3>1, <3>3, <3>4, ConnectingTells
    <3> QED BY <3>1, <3>3, <3>4, <3>5, PhaseStep
  <2>3. CASE closure.kind = "close" /\ closeEvent(closure.conn)
    BY <1>2, <2>1, <2>3, Kinds
  <2>4. CASE UNCHANGED <<status, connectPool, due, told>>
    BY <2>4
  <2> QED BY <1>3, <2>2, <2>3, <2>4 DEF RunFunction
<1>4. ASSUME NEW l \in Loops, LoopStep(l) PROVE App!Next \/ UNCHANGED told
  <2>1. CASE Run(l) \/ WaitEvent(l) \/ runAllFunctionInLoop(l) \/ RunEnds(l)
    BY <2>1 DEF Run, WaitEvent, runAllFunctionInLoop, RunEnds
  <2>2. CASE AcceptHandle
    BY <2>2 DEF AcceptHandle
  <2>3. ASSUME NEW c \in Conns, HandleEvent(l, c) PROVE App!Next \/ UNCHANGED told
    BY <1>2, <2>3 DEF HandleEvent
  <2> QED BY <1>3, <1>4, <2>1, <2>2, <2>3 DEF LoopStep
<1>5. CASE \/ \E c \in Conns : \/ \E a \in Addrs : PeerConnect(c, a)
                               \/ PeerEnds(c)
                               \/ PeerReads(c)
                               \/ Close(c)
           \/ Stop
           \/ StopStep
           \/ MapRace
           \/ UNCHANGED vars
  <2>1. UNCHANGED told
    BY <1>5 DEF PeerConnect, PeerEnds, PeerReads, Close, Stop, StopStep, StopVisit, StopRangeEnd,
                StopLoop, StopLoopDone, MapRace, vars
  <2> QED BY <1>1, <2>1
<1> QED BY <1>1, <1>4, <1>5 DEF Next

\* Every behaviour of the server is one of Session.
THEOREM ImplementsSession == Spec => SessionSpec
<1>1. Init => App!Init
  BY Stories DEF Init, App!Init, Phase
<1>2. IInv /\ IInv' /\ [Next]_vars => [App!Next]_([c \in Conns |-> Phase(c)])
  BY StepIsSession
<1> QED BY <1>1, <1>2, Invariance, PTL DEF Spec, SessionSpec, App!Spec
==============================================================================
