--------------------------- MODULE EventLoop_proofs ---------------------------
(***************************************************************************)
(* Proofs about EventLoop, for any number of callers, descriptors and      *)
(* closures: the type invariant, the safety invariants of MCEventLoop and  *)
(* the refinement of Mailbox.                                              *)
(***************************************************************************)
EXTENDS EventLoop, SequenceTheorems, TLAPS

\* NoLostWakeup is not inductive: it says nothing of the time between the append
\* and the wait.  A queued closure is always covered: by the counter of the
\* eventfd, by a RunInLoop that holds the mutex and has yet to write it, or by a
\* loop that will still look at the queue before it waits (or never again).
WakeupCovered ==
    functions # <<>> => \/ wakeCount > 0
                        \/ mutex # NoOne
                        \/ pc \in {"dispatch", "done"}

\* The inductive invariant.
IInv ==
    /\ TypeOK
    /\ PollerOpenWhileLoopRuns
    /\ WakeReadNeverBlocks
    /\ WakeupCovered
    /\ RunsInPostingOrder
------------------------------------------------------------------------------
(* Sequences.                                                              *)

\* Appending to the right operand of a concatenation appends to the whole
\* (RunInLoop appends to the last of the three parts of the history).
LEMMA AppendRight ==
    ASSUME NEW S, NEW s \in Seq(S), NEW t \in Seq(S), NEW e \in S
    PROVE  s \o Append(t, e) = Append(s \o t, e)
  <1>1. <<e>> \in Seq(S)
    OBVIOUS
  <1>2. s \o (t \o <<e>>) = (s \o t) \o <<e>>
    BY <1>1, ConcatAssociative
  <1>3. Append(t, e) = t \o <<e>> /\ Append(s \o t, e) = (s \o t) \o <<e>>
    BY AppendIsConcat, ConcatProperties
  <1> QED BY <1>2, <1>3

\* Moving the head of the right operand to the end of the left one leaves the
\* concatenation as it was (RunFunction moves a closure into the history).
LEMMA MoveHead ==
    ASSUME NEW S, NEW s \in Seq(S), NEW t \in Seq(S), t # <<>>
    PROVE  Append(s, Head(t)) \o Tail(t) = s \o t
  <1>1. /\ Head(t) \in S /\ Tail(t) \in Seq(S)
        /\ Len(t) \in Nat \ {0} /\ Len(Tail(t)) = Len(t) - 1
    BY HeadTailProperties, EmptySeq
  <1>2. Append(s, Head(t)) \o Tail(t) \in Seq(S) /\ s \o t \in Seq(S)
    BY <1>1, ConcatProperties, AppendProperties
  <1>3. Len(Append(s, Head(t)) \o Tail(t)) = Len(s \o t)
    BY <1>1, ConcatProperties, AppendProperties, LenProperties
  <1>4. ASSUME NEW i \in 1 .. Len(s \o t)
        PROVE  (Append(s, Head(t)) \o Tail(t))[i] = (s \o t)[i]
    <2>1. Len(s) \in Nat /\ i \in 1 .. (Len(s) + Len(t))
      BY ConcatProperties, LenProperties
    <2>2. Head(t) = t[1]
      BY <1>1
    <2>3. /\ Append(s, Head(t)) \in Seq(S)
          /\ Len(Append(s, Head(t))) = Len(s) + 1
          /\ Append(s, Head(t))[Len(s) + 1] = Head(t)
          /\ \A j \in 1 .. Len(s) : Append(s, Head(t))[j] = s[j]
      BY <1>1, AppendProperties
    <2>4. i \in 1 .. (Len(Append(s, Head(t))) + Len(Tail(t)))
      BY <1>1, <2>1, <2>3
    <2>5. (Append(s, Head(t)) \o Tail(t))[i] =
             IF i <= Len(s) + 1 THEN Append(s, Head(t))[i] ELSE Tail(t)[i - (Len(s) + 1)]
      BY <1>1, <2>3, <2>4, ConcatProperties
    <2>6. (s \o t)[i] = IF i <= Len(s) THEN s[i] ELSE t[i - Len(s)]
      BY <2>1, ConcatProperties
    <2>7. CASE i <= Len(s)
      BY <2>1, <2>3, <2>5, <2>6, <2>7
    <2>8. CASE i = Len(s) + 1
      BY <2>1, <2>2, <2>3, <2>5, <2>6, <2>8
    <2>9. CASE i > Len(s) + 1
      <3>1. i - (Len(s) + 1) \in 1 .. Len(Tail(t))
        BY <1>1, <2>1, <2>9
      <3>2. Tail(t)[i - (Len(s) + 1)] = t[i - (Len(s) + 1) + 1]
        BY <3>1, HeadTailProperties
      <3> QED BY <2>1, <2>5, <2>6, <2>9, <3>2
    <2> QED BY <2>1, <2>7, <2>8, <2>9
  <1> QED BY <1>2, <1>3, <1>4, SeqEqual

\* The head and the tail of a concatenation are those of its left operand.
LEMMA HeadTailConcat ==
    ASSUME NEW S, NEW s \in Seq(S), NEW t \in Seq(S), s # <<>>
    PROVE  Head(s \o t) = Head(s) /\ Tail(s \o t) = Tail(s) \o t
  <1>1. /\ Tail(s) \in Seq(S) /\ Len(s) \in Nat \ {0} /\ Len(Tail(s)) = Len(s) - 1
        /\ \A i \in 1 .. Len(Tail(s)) : Tail(s)[i] = s[i + 1]
    BY HeadTailProperties, EmptySeq
  <1>2. /\ s \o t \in Seq(S) /\ Len(s \o t) = Len(s) + Len(t) /\ Len(t) \in Nat
        /\ \A i \in 1 .. Len(s) + Len(t) :
              (s \o t)[i] = IF i <= Len(s) THEN s[i] ELSE t[i - Len(s)]
    BY ConcatProperties, LenProperties
  <1>3. s \o t # <<>>
    BY ConcatEqualIffEmpty
  <1>4. /\ Tail(s \o t) \in Seq(S) /\ Len(Tail(s \o t)) = Len(s) + Len(t) - 1
        /\ \A i \in 1 .. Len(Tail(s \o t)) : Tail(s \o t)[i] = (s \o t)[i + 1]
    BY <1>2, <1>3, HeadTailProperties
  <1>5. /\ Tail(s) \o t \in Seq(S) /\ Len(Tail(s) \o t) = Len(Tail(s)) + Len(t)
        /\ \A i \in 1 .. Len(Tail(s)) + Len(t) :
              (Tail(s) \o t)[i]
                = IF i <= Len(Tail(s)) THEN Tail(s)[i] ELSE t[i - Len(Tail(s))]
    BY <1>1, ConcatProperties
  <1>6. Head(s \o t) = Head(s)
    BY <1>1, <1>2, <1>3
  <1>7. ASSUME NEW i \in 1 .. Len(Tail(s \o t))
        PROVE  Tail(s \o t)[i] = (Tail(s) \o t)[i]
    <2>1. i + 1 \in 1 .. Len(s) + Len(t) /\ i \in 1 .. Len(Tail(s)) + Len(t)
      BY <1>1, <1>2, <1>4
    <2>2. Tail(s \o t)[i] = IF i + 1 <= Len(s) THEN s[i + 1] ELSE t[i + 1 - Len(s)]
      BY <1>2, <1>4, <2>1
    <2>3. CASE i <= Len(Tail(s))
      BY <1>1, <1>5, <2>1, <2>2, <2>3
    <2>4. CASE i > Len(Tail(s))
      <3>1. i - Len(Tail(s)) = i + 1 - Len(s)
        BY <1>1, <2>1
      <3>2. ~(i + 1 <= Len(s)) /\ ~(i <= Len(Tail(s)))
        BY <1>1, <2>1, <2>4
      <3> QED BY <1>5, <2>1, <2>2, <3>1, <3>2
    <2> QED BY <1>1, <2>1, <2>3, <2>4
  <1> QED BY <1>1, <1>4, <1>5, <1>6, <1>7, SeqEqual
------------------------------------------------------------------------------
(* The inductive invariant.                                                *)

\* The loop is created in a state of the invariant.
LEMMA InitInv == Init => IInv
  <1> SUFFICES ASSUME Init PROVE IInv
    OBVIOUS
  <1>1. TypeOK
    BY EmptySeq, LoopAssumption DEF Init, TypeOK
  <1>2. RunsInPostingOrder
    <2>1. ran \o functionsTemp \o functions = <<>>
      BY EmptySeq, ConcatEmptySeq DEF Init
    <2>2. [k \in 1 .. posted |-> k] = <<>>
      BY DEF Init
    <2> QED BY <2>1, <2>2 DEF RunsInPostingOrder
  <1> QED
    BY <1>1, <1>2 DEF Init, IInv, PollerOpenWhileLoopRuns, WakeReadNeverBlocks,
                      WakeupCovered

\* The history after an append: RunInLoop numbers its closure posted + 1.
LEMMA CountingAppend ==
    ASSUME NEW n \in Nat
    PROVE  Append([k \in 1 .. n |-> k], n + 1) = [k \in 1 .. n + 1 |-> k]
  <1> DEFINE s == [k \in 1 .. n |-> k]
             t == [k \in 1 .. n + 1 |-> k]
  <1>1. s \in Seq(Nat) /\ Len(s) = n
    OBVIOUS
  <1>2. t \in Seq(Nat) /\ Len(t) = n + 1
    OBVIOUS
  <1>3. /\ Append(s, n + 1) \in Seq(Nat) /\ Len(Append(s, n + 1)) = n + 1
        /\ \A i \in 1 .. n : Append(s, n + 1)[i] = s[i]
        /\ Append(s, n + 1)[n + 1] = n + 1
    BY <1>1, AppendProperties
  <1>4. \A i \in 1 .. n + 1 : Append(s, n + 1)[i] = t[i]
    BY <1>3
  <1> HIDE DEF s, t
  <1> QED BY <1>2, <1>3, <1>4, SeqEqual DEF s, t

\* RunInLoop's append keeps the invariant: the mutex it holds covers the wakeup.
LEMMA RunInLoopInv ==
    ASSUME IInv, NEW g \in Callers \cup {Loop}, RunInLoop(g)
    PROVE  IInv'
  <1> USE DEF IInv, TypeOK, RunInLoop, loopVars, Pushed
  <1>1. TypeOK'
    BY AppendProperties
  <1>2. RunsInPostingOrder'
    <2>1. ran \o functionsTemp \in Seq(Nat)
      BY ConcatProperties
    <2>2. functions \in Seq(Nat) /\ posted + 1 \in Nat
      OBVIOUS
    <2>3. (ran \o functionsTemp) \o Append(functions, posted + 1)
            = Append((ran \o functionsTemp) \o functions, posted + 1)
      <3> HIDE DEF IInv, TypeOK, RunInLoop, Pushed
      <3> QED BY <2>1, <2>2, AppendRight, SMTT(30)
    <2> QED BY <2>3, CountingAppend DEF RunsInPostingOrder
  <1>3. PollerOpenWhileLoopRuns' /\ WakeReadNeverBlocks' /\ WakeupCovered'
    BY LoopAssumption DEF PollerOpenWhileLoopRuns, WakeReadNeverBlocks, WakeupCovered
  <1> QED BY <1>1, <1>2, <1>3

\* RunInLoop's wake keeps the invariant: the counter takes over from the mutex,
\* because the eventfd is open as long as the loop may wait on it.
LEMMA wakeInv ==
    ASSUME IInv, NEW g \in Callers \cup {Loop}, wake(g)
    PROVE  IInv'
  BY LoopAssumption
     DEF IInv, TypeOK, wake, loopVars, queueVars, PollerOpenWhileLoopRuns,
         WakeReadNeverBlocks, WakeupCovered, RunsInPostingOrder, Written

\* Each step of the loop's goroutine keeps the invariant.
LEMMA LoopStepInv ==
    ASSUME IInv, LoopStep
    PROVE  IInv'
  <1> USE DEF IInv, TypeOK, loopVars, queueVars
  <1>1. CASE Run
    BY <1>1 DEF Run, PollerOpenWhileLoopRuns, WakeReadNeverBlocks, WakeupCovered,
                RunsInPostingOrder
  <1>2. CASE WaitEvent
    BY <1>2 DEF WaitEvent, PollerOpenWhileLoopRuns, WakeReadNeverBlocks,
                WakeupCovered, RunsInPostingOrder, Reported
  <1>3. CASE wakeHandlerRead
    BY <1>3 DEF wakeHandlerRead, PollerOpenWhileLoopRuns, WakeReadNeverBlocks,
                WakeupCovered, RunsInPostingOrder
  <1>4. ASSUME NEW fd \in Fds, HandleEvent(fd)
        PROVE  IInv'
    BY <1>4, LoopAssumption
       DEF HandleEvent, PollerOpenWhileLoopRuns, WakeReadNeverBlocks,
           WakeupCovered, RunsInPostingOrder
  <1>5. CASE runAllFunctionInLoop
    <2>1. TypeOK'
      BY <1>5, EmptySeq DEF runAllFunctionInLoop, Reset
    <2>2. RunsInPostingOrder'
      <3>1. functionsTemp = <<>> /\ functionsTemp' = functions /\ functions' = <<>>
        BY <1>5 DEF runAllFunctionInLoop, Reset
      <3>2. ran \o functionsTemp = ran
        BY <3>1, ConcatEmptySeq
      <3>3. (ran \o functions) \o <<>> = ran \o functions
        BY ConcatProperties, ConcatEmptySeq
      <3> QED BY <1>5, <3>1, <3>2, <3>3 DEF runAllFunctionInLoop, RunsInPostingOrder, Reset
    <2>3. PollerOpenWhileLoopRuns' /\ WakeReadNeverBlocks' /\ WakeupCovered'
      BY <1>5 DEF runAllFunctionInLoop, PollerOpenWhileLoopRuns,
                  WakeReadNeverBlocks, WakeupCovered, Reset
    <2> QED BY <2>1, <2>2, <2>3
  <1>6. CASE RunFunction
    <2>1. TypeOK'
      BY <1>6, HeadTailProperties, AppendProperties DEF RunFunction
    <2>2. RunsInPostingOrder'
      <3>1. Append(ran, Head(functionsTemp)) \o Tail(functionsTemp)
              = ran \o functionsTemp
        BY <1>6, MoveHead DEF RunFunction
      <3> QED BY <1>6, <3>1 DEF RunFunction, RunsInPostingOrder
    <2>3. PollerOpenWhileLoopRuns' /\ WakeReadNeverBlocks' /\ WakeupCovered'
      BY <1>6 DEF RunFunction, PollerOpenWhileLoopRuns, WakeReadNeverBlocks,
                  WakeupCovered
    <2> QED BY <2>1, <2>2, <2>3
  <1>7. CASE CheckRunning
    BY <1>7 DEF CheckRunning, PollerOpenWhileLoopRuns, WakeReadNeverBlocks,
                WakeupCovered, RunsInPostingOrder, GoesOn, BatchOver
  <1> QED BY <1>1, <1>2, <1>3, <1>4, <1>5, <1>6, <1>7 DEF LoopStep

\* Each step of a call of Stop keeps the invariant: the multiplexer is closed
\* only when waitDone says that the loop has left.
LEMMA CallerStepInv ==
    ASSUME IInv, NEW g \in Callers, CallerStep(g)
    PROVE  IInv'
  <1> USE DEF IInv, TypeOK, loopVars, queueVars, PollerOpenWhileLoopRuns,
              WakeReadNeverBlocks, WakeupCovered, RunsInPostingOrder
  <1>1. CASE StopErrClosed(g)
    BY <1>1 DEF StopErrClosed
  <1>2. CASE StopGet(g)
    BY <1>2 DEF StopGet
  <1>3. CASE StopSet(g)
    BY <1>3 DEF StopSet
  <1>4. CASE StopClose(g)
    BY <1>4 DEF StopClose, LoopHasEnded
  <1> QED BY <1>1, <1>2, <1>3, <1>4 DEF CallerStep

\* Every step, and every stuttering step, keeps the invariant.
LEMMA NextInv == IInv /\ [Next]_vars => IInv'
  <1> SUFFICES ASSUME IInv, [Next]_vars PROVE IInv'
    OBVIOUS
  <1>1. CASE LoopStep
    BY <1>1, LoopStepInv
  <1>2. ASSUME NEW g \in Callers \cup {Loop}, RunInLoop(g) \/ wake(g)
        PROVE  IInv'
    BY <1>2, RunInLoopInv, wakeInv
  <1>3. ASSUME NEW g \in Callers, CallerStep(g)
        PROVE  IInv'
    BY <1>3, CallerStepInv
  <1>4. CASE UNCHANGED vars
    BY <1>4 DEF vars, IInv, TypeOK, PollerOpenWhileLoopRuns, WakeReadNeverBlocks,
                WakeupCovered, RunsInPostingOrder
  <1> QED BY <1>1, <1>2, <1>3, <1>4 DEF Next

\* The invariant holds throughout.
THEOREM Invariance == Spec => []IInv
  BY InitInv, NextInv, PTL DEF Spec
------------------------------------------------------------------------------
(* The properties.                                                         *)

\* The state of an event loop keeps its types, and the control state agrees with
\* the batch, the closures taken and waitDone.
THEOREM TypeCorrect == Spec => []TypeOK
  <1>1. IInv => TypeOK
    BY DEF IInv
  <1> QED BY <1>1, Invariance, PTL

\* For any number of goroutines that call RunInLoop while the loop handles
\* events, takes closures and waits, no wakeup is lost.
THEOREM WakeupNeverLost == Spec => []NoLostWakeup
  <1>1. IInv => NoLostWakeup
    BY DEF IInv, WakeupCovered, NoLostWakeup
  <1> QED BY <1>1, Invariance, PTL

\* The blocking read of the eventfd never blocks the loop.
THEOREM WakeReadReturns == Spec => []WakeReadNeverBlocks
  <1>1. IInv => WakeReadNeverBlocks
    BY DEF IInv
  <1> QED BY <1>1, Invariance, PTL

\* The closures run, being run and queued are those appended, in that order,
\* however many goroutines append.
THEOREM PostingOrder == Spec => []RunsInPostingOrder
  <1>1. IInv => RunsInPostingOrder
    BY DEF IInv
  <1> QED BY <1>1, Invariance, PTL

\* No call of Stop closes the multiplexer under a living loop, however many
\* goroutines call Stop.
THEOREM PollerOutlivesLoop == Spec => []PollerOpenWhileLoopRuns
  <1>1. IInv => PollerOpenWhileLoopRuns
    BY DEF IInv
  <1> QED BY <1>1, Invariance, PTL
------------------------------------------------------------------------------
(* The loop implements the mailbox.                                        *)

\* A loop that has just been created is an empty mailbox.
LEMMA MailboxInit == Init => MB!Init
  <1> SUFFICES ASSUME Init PROVE MB!Init
    OBVIOUS
  <1>1. functionsTemp \o functions = <<>>
    BY EmptySeq, ConcatEmptySeq DEF Init
  <1> QED BY <1>1 DEF Init, MB!Init

\* Every step of the loop, of RunInLoop and of Stop is a step of the mailbox or
\* leaves it alone.
LEMMA MailboxNext == IInv /\ [Next]_vars => [MB!Next]_(MB!mailboxVars)
  <1> SUFFICES ASSUME IInv, [Next]_vars PROVE [MB!Next]_(MB!mailboxVars)
    OBVIOUS
  <1>types. /\ functions \in Seq(Nat) /\ functionsTemp \in Seq(Nat)
            /\ ran \in Seq(Nat) /\ posted \in Nat /\ posted + 1 \in Nat
    BY DEF IInv, TypeOK
  <1>1. ASSUME NEW g \in Callers \cup {Loop}, RunInLoop(g)
        PROVE  MB!Post
    <2>1. functionsTemp \o Append(functions, posted + 1)
             = Append(functionsTemp \o functions, posted + 1)
      BY <1>types, AppendRight, SMTT(30)
    <2>2. posted = Len(ran) + Len(functionsTemp \o functions)
      <3>1. ran \o (functionsTemp \o functions) = [k \in 1 .. posted |-> k]
        <4>1. (ran \o functionsTemp) \o functions = [k \in 1 .. posted |-> k]
          BY DEF IInv, RunsInPostingOrder
        <4>2. (ran \o functionsTemp) \o functions = ran \o (functionsTemp \o functions)
          BY <1>types, ConcatAssociative
        <4> QED BY <4>1, <4>2
      <3>2. Len([k \in 1 .. posted |-> k]) = posted
        BY <1>types
      <3> QED BY <1>types, <3>1, <3>2, ConcatProperties
    <2> QED BY <1>1, <2>1, <2>2 DEF RunInLoop, loopVars, MB!Post, Pushed
  <1>2. CASE RunFunction
    <2>1. functionsTemp \o functions # <<>>
      BY <1>2, <1>types, ConcatEqualIffEmpty DEF RunFunction
    <2>2. /\ Head(functionsTemp \o functions) = Head(functionsTemp)
          /\ Tail(functionsTemp \o functions) = Tail(functionsTemp) \o functions
      BY <1>2, <1>types, HeadTailConcat DEF RunFunction
    <2>3. ~waitDone
      BY <1>2 DEF IInv, TypeOK, RunFunction
    <2>4. /\ ran' = Append(ran, Head(functionsTemp))
          /\ functionsTemp' = Tail(functionsTemp)
          /\ UNCHANGED <<functions, waitDone>>
      BY <1>2 DEF RunFunction, loopVars
    <2>5. MB!Execute
      BY <2>1, <2>2, <2>3, <2>4 DEF MB!Execute
    <2> QED BY <2>5 DEF MB!Next
  <1>3. CASE CheckRunning
    BY <1>3 DEF IInv, TypeOK, CheckRunning, queueVars, MB!Next, MB!Halt,
         MB!mailboxVars, GoesOn, BatchOver
  <1>4. CASE runAllFunctionInLoop
    <2>1. functionsTemp = <<>> /\ functionsTemp' = functions /\ functions' = <<>>
      BY <1>4 DEF IInv, TypeOK, runAllFunctionInLoop, Reset
    <2>2. functionsTemp \o functions = functions /\ functions \o <<>> = functions
      BY <1>types, <2>1, ConcatEmptySeq
    <2> QED BY <1>4, <2>1, <2>2 DEF runAllFunctionInLoop, MB!mailboxVars, Reset
  <1>5. CASE Run \/ WaitEvent \/ wakeHandlerRead \/ \E fd \in Fds : HandleEvent(fd)
    BY <1>5 DEF Run, WaitEvent, wakeHandlerRead, HandleEvent, queueVars,
         MB!mailboxVars, Reported
  <1>6. ASSUME NEW g \in Callers \cup {Loop}, wake(g)
        PROVE  UNCHANGED MB!mailboxVars
    BY <1>6 DEF wake, loopVars, queueVars, MB!mailboxVars, Written
  <1>7. ASSUME NEW g \in Callers, CallerStep(g)
        PROVE  UNCHANGED MB!mailboxVars
    BY <1>7 DEF CallerStep, StopErrClosed, StopGet, StopSet, StopClose, loopVars,
                queueVars, MB!mailboxVars, LoopHasEnded
  <1>8. CASE UNCHANGED vars
    BY <1>8 DEF vars, MB!mailboxVars
  <1> QED
    BY <1>1, <1>2, <1>3, <1>4, <1>5, <1>6, <1>7, <1>8 DEF Next, LoopStep, MB!Next

\* The event loop implements the mailbox: closures are executed at most once, in
\* the order of RunInLoop, and never after the loop has left.
THEOREM ImplementsMailbox == Spec => MailboxSpec
  BY MailboxInit, MailboxNext, Invariance, PTL DEF Spec, MailboxSpec, MB!Spec
==============================================================================
