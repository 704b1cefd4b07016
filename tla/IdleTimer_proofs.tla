-------------------------- MODULE IdleTimer_proofs --------------------------
(***************************************************************************)
(* Proofs about IdleTimer, for every idle time, length of a second, tick   *)
(* and lateness of the timing wheel.                                       *)
(***************************************************************************)
EXTENDS IdleTimer, TLAPS

\* activeTime is the beginning of the second of the last activity: the bound of
\* a second in NotTooEarly.
Rounded == activeTime <= lastActive /\ lastActive < activeTime + Second

\* While the chain of timers goes on, the pending one is not past the time at
\* which the connection has been idle for too long, and not overdue.
Chain ==
    (state # "closed" /\ ~posted /\ ~missed /\ wheel) =>
        armed /\ at <= lastActive + IdleTime /\ now <= at + Late

\* What a fired timer decided still holds of it.
IdleInv == TypeOK /\ Rounded /\ Chain /\ NotTooEarly

\* The connection begins in a state of the invariant.
LEMMA InitIdleInv == Init => IdleInv
<1> SUFFICES ASSUME Init PROVE IdleInv
  OBVIOUS
<1> USE IdleAssumption DEF Init
<1>1. TypeOK
  <2>1. /\ wheel \in BOOLEAN /\ armed \in BOOLEAN
        /\ posted \in BOOLEAN /\ missed \in BOOLEAN
    BY Zenon
  <2>2. at \in Nat
    OBVIOUS
  <2>3. /\ now \in Nat /\ second \in Nat /\ idle \in Nat
        /\ second <= now /\ now < second + Second
        /\ activeTime \in 0 .. second
        /\ lastActive \in 0 .. now
    OBVIOUS
  <2> QED
    BY <2>1, <2>2, <2>3 DEF TypeOK
<1>2. Rounded
  BY DEF Rounded
<1>3. Chain
  <2>1. at <= lastActive + IdleTime /\ now <= at + Late
    OBVIOUS
  <2>2. armed
    OBVIOUS
  <2> QED
    BY <2>1, <2>2, Zenon DEF Chain
<1>4. NotTooEarly
  BY DEF NotTooEarly
<1> QED
  BY <1>1, <1>2, <1>3, <1>4 DEF IdleInv

\* Every step keeps it.
LEMMA NextIdleInv == IdleInv /\ [Next]_vars => IdleInv'
<1> SUFFICES ASSUME IdleInv, [Next]_vars
             PROVE  IdleInv'
  OBVIOUS
<1> USE IdleAssumption DEF IdleInv, TypeOK, Rounded, Chain, NotTooEarly
<1>1. CASE Tick
  BY <1>1 DEF Tick, timerVars
<1>2. CASE ConnectedHandle
  BY <1>2 DEF ConnectedHandle, clockVars, timerVars
<1>3. CASE Active
  BY <1>3 DEF Active, updateActivityTime, clockVars, timerVars
<1>4. CASE CloseOther
  BY <1>4 DEF CloseOther, clockVars, timerVars
<1>5. CASE closeEvent
  BY <1>5 DEF closeEvent, clockVars, timerVars
<1>6. CASE closeTimeoutConn
  <2> USE <1>6 DEF closeTimeoutConn, intervals, clockVars
  <2>1. TypeOK'
    <3>1. CASE state = "Connected"
      <4>1. idle' \in Nat /\ missed' = missed
        BY <3>1
      <4>2. posted' = TRUE /\ armed' = FALSE
        BY <3>1, Zenon
      <4>3. UNCHANGED <<now, second, state, activeTime, wheel, at, lastActive>>
        OBVIOUS
      <4> QED
        BY <4>1, <4>2, <4>3 DEF TypeOK
    <3>2. CASE state # "Connected"
      BY <3>2
    <3> QED
      BY <3>1, <3>2
  <2>2. Rounded'
    OBVIOUS
  <2>3. Chain'
    BY Zenon
  <2>4. NotTooEarly'
    <3>1. CASE state = "Connected"
      BY <3>1
    <3>2. CASE state # "Connected"
      BY <3>2
    <3> QED
      BY <3>1, <3>2
  <2> QED
    BY <2>1, <2>2, <2>3, <2>4
<1>7. CASE closeTimeoutConnAgain
  <2>1. at' = activeTime + IdleTime /\ now < at'
    BY <1>7 DEF closeTimeoutConnAgain, intervals, AfterFunc
  <2> QED
    BY <1>7, <2>1 DEF closeTimeoutConnAgain, clockVars
<1>8. CASE WheelStop
  BY <1>8 DEF WheelStop, clockVars
<1>9. CASE UNCHANGED vars
  BY <1>9 DEF vars, clockVars, timerVars
<1> QED
  BY <1>1, <1>2, <1>3, <1>4, <1>5, <1>6, <1>7, <1>8, <1>9 DEF Next

\* It holds of every behaviour.
LEMMA AlwaysIdleInv == Spec => []IdleInv
  BY InitIdleInv, NextIdleInv, PTL DEF Spec

\* The variables keep their types, and activeTime is never ahead of the clock.
THEOREM TypeCorrect == Spec => []TypeOK
<1>1. IdleInv => TypeOK
  BY DEF IdleInv
<1> QED
  BY <1>1, AlwaysIdleInv, PTL

\* closeTimeoutConn closes no connection that was active less than IdleTime minus
\* a second ago.
THEOREM ClosesOnlyIdle == Spec => []NotTooEarly
<1>1. IdleInv => NotTooEarly
  BY DEF IdleInv
<1> QED
  BY <1>1, AlwaysIdleInv, PTL

\* closeTimeoutConn closes every registered connection that has been idle for
\* IdleTime: starting the timer again for the rest of the time never drifts.
THEOREM ClosesEveryIdle == Spec => []NotTooLate
<1>1. IdleInv => NotTooLate
  BY IdleAssumption DEF IdleInv, NotTooLate, Chain, TypeOK
<1> QED
  BY <1>1, AlwaysIdleInv, PTL
==============================================================================
