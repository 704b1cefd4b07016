------------------------------ MODULE IdleTimer ------------------------------
(***************************************************************************)
(* The idle timer of a connection: closeTimeoutConn on the timing wheel's  *)
(* goroutines, activeTime (a time in whole seconds) on the loop's.         *)
(*                                                                         *)
(* The clock counts in units of which a second has Second; second is the   *)
(* moment the current second began, which is what Unix() returns.  The     *)
(* timing wheel is external: a timer fires up to one tick of the wheel     *)
(* before its time and up to Late after it.                                *)
(***************************************************************************)
EXTENDS Integers

CONSTANTS IdleTime,    \* options.IdleTime
          Second,      \* clock units of a second
          WheelTick,   \* options.tick: how much too early the wheel may fire
          Late,        \* how much too late it may fire
          MaxNow       \* bound: the clock stops

ASSUME IdleAssumption ==
    /\ IdleTime \in Nat \ {0}
    /\ Second \in Nat \ {0}
    /\ WheelTick \in Nat
    /\ Late \in Nat
    /\ MaxNow \in Nat

VARIABLES
    now, second,  \* the time, and its whole seconds
    state,        \* "Disconnected" (not registered yet), "Connected", "closed"
    activeTime,   \* this.activeTime
    wheel,        \* the timing wheel runs
    armed, at,    \* a timer is pending, and its time
    posted,       \* Close has appended its closure
    lastActive,   \* history: when the connection was last active
    idle,         \* history: for how long it had not been when the timer closed it
    missed        \* history: the timer fired while Close had no effect

clockVars == <<now, second>>
timerVars == <<wheel, armed, at>>
vars == <<clockVars, state, activeTime, timerVars, posted, lastActive, idle, missed>>

TypeOK ==
    /\ now \in Nat /\ second \in Nat
    /\ second <= now /\ now < second + Second
    /\ state \in {"Disconnected", "Connected", "closed"}
    /\ activeTime \in 0 .. second
    /\ wheel \in BOOLEAN /\ armed \in BOOLEAN
    /\ at \in Nat
    /\ posted \in BOOLEAN
    /\ lastActive \in 0 .. now
    /\ idle \in Nat
    /\ missed \in BOOLEAN

\* New, at any moment of a second: activeTime is set and a timer started.
Init ==
    /\ now \in 0 .. Second - 1 /\ second = 0
    /\ state = "Disconnected"
    /\ activeTime = second
    /\ wheel = TRUE /\ armed = TRUE
    /\ at = now + IdleTime
    /\ posted = FALSE
    /\ lastActive = now
    /\ idle = 0
    /\ missed = FALSE
------------------------------------------------------------------------------
\* Time passes, though a pending timer fires no more than Late late.
Tick ==
    /\ now < MaxNow
    /\ wheel /\ armed => now < at + Late
    /\ now' = now + 1
    /\ second' = IF now + 1 = second + Second THEN now + 1 ELSE second
    /\ UNCHANGED <<state, activeTime, timerVars, posted, lastActive, idle, missed>>

ConnectedHandle ==
    /\ state = "Disconnected"
    /\ state' = "Connected"
    /\ UNCHANGED <<clockVars, activeTime, timerVars, posted, lastActive, idle, missed>>

\* Mutant: the time is not taken.
updateActivityTimeNever == UNCHANGED activeTime

\* Mutant: the time is rounded up.
updateActivityTimeUp == activeTime' = second + Second

updateActivityTime == activeTime' = second

\* readEvent or writeEvent begins.
Active ==
    /\ state = "Connected"
    /\ updateActivityTime
    /\ lastActive' = now
    /\ UNCHANGED <<clockVars, state, timerVars, posted, idle, missed>>

\* Close by whatever else closes the connection.
CloseOther ==
    /\ state = "Connected"
    /\ state' = "closed"
    /\ UNCHANGED <<clockVars, activeTime, timerVars, posted, lastActive, idle, missed>>

\* The closure of Close runs on the loop, perhaps after some activity.
closeEvent ==
    /\ posted
    /\ state = "Connected"
    /\ state' = "closed"
    /\ UNCHANGED <<clockVars, activeTime, timerVars, posted, lastActive, idle, missed>>

intervals == now - activeTime

\* Mutant: the timer starts again from the beginning.
AfterFuncWhole == at' = now + IdleTime

\* this.timingWheel.AfterFunc(this.idleTime-intervals, ...)
AfterFunc == at' = now + (IdleTime - intervals)

\* The timer fires and the connection has been idle for too long: Close, which
\* does nothing on one that is not registered (yet), and no timer is left.
closeTimeoutConn ==
    /\ wheel /\ armed /\ now + WheelTick >= at
    /\ intervals >= IdleTime
    /\ armed' = FALSE
    /\ \/ /\ state = "Connected"
          /\ posted' = TRUE
          /\ idle' = now - lastActive
          /\ UNCHANGED missed
       \/ /\ state # "Connected"
          /\ missed' = TRUE
          /\ UNCHANGED <<posted, idle>>
    /\ UNCHANGED <<clockVars, state, activeTime, wheel, at, lastActive>>

\* It has not: another timer is started for the rest of the time.
closeTimeoutConnAgain ==
    /\ wheel /\ armed /\ now + WheelTick >= at
    /\ intervals < IdleTime
    /\ AfterFunc
    /\ UNCHANGED <<clockVars, state, activeTime, wheel, armed, posted, lastActive, idle,
                   missed>>

\* Server.Stop: no timer fires any more.
WheelStop ==
    /\ wheel
    /\ wheel' = FALSE
    /\ UNCHANGED <<clockVars, state, activeTime, armed, at, posted, lastActive, idle,
                   missed>>

Next ==
    \/ Tick
    \/ ConnectedHandle
    \/ Active
    \/ CloseOther
    \/ closeEvent
    \/ closeTimeoutConn
    \/ closeTimeoutConnAgain
    \/ WheelStop

Spec == Init /\ [][Next]_vars
------------------------------------------------------------------------------
(* What must hold.                                                         *)

\* The timer closes only a connection that was idle for IdleTime, short of less
\* than a second, whatever the moments of its activity within their seconds, and
\* however early the wheel fires.
NotTooEarly == posted => idle > IdleTime - Second

\* A connection does not stay idle for longer than IdleTime (and the lateness of
\* the wheel) without a Close: the chain of timers does not break or drift, unless
\* the first timer came before the connection was registered.
NotTooLate ==
    (state = "Connected" /\ ~posted /\ ~missed /\ wheel) =>
        now <= lastActive + IdleTime + Late
==============================================================================
