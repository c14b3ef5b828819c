-------------------------- MODULE EventLoopProofs --------------------------
(***************************************************************************)
(* Theorems about one event loop, for any number of callers, tasks and     *)
(* channels: its types, that no wakeup is lost, that every task handed to  *)
(* it runs once and in order, and that each of its steps is a step of the  *)
(* task queue of TaskQueue.tla, or none.                                   *)
(***************************************************************************)
EXTENDS EventLoop, SequenceTheorems, TLAPS

\* Taking the first task moves it from one end of the account to the other and leaves
\* the account as it is.
LEMMA MoveHead ==
  ASSUME NEW S, NEW d \in Seq(S), NEW s \in Seq(S), s # <<>>
  PROVE  Append(d, Head(s)) \o Tail(s) = d \o s
<1>1. Head(s) \in S /\ Tail(s) \in Seq(S) /\ Len(s) \in Nat \ {0}
  BY HeadTailProperties, EmptySeq
<1>2. s = <<Head(s)>> \o Tail(s)
  <2>1. SubSeq(s, 1, Len(s)) = <<s[1]>> \o SubSeq(s, 1 + 1, Len(s))
    BY <1>1, SubSeqRecursiveFirst
  <2>2. Head(s) = s[1] /\ Tail(s) = SubSeq(s, 1 + 1, Len(s))
    BY <1>1, TailIsSubSeq
  <2> QED
    BY <2>1, <2>2, SubSeqFull
<1>3. <<Head(s)>> \in Seq(S)
  BY <1>1
<1>4. Append(d, Head(s)) = d \o <<Head(s)>>
  BY <1>1, AppendIsConcat
<1>5. (d \o <<Head(s)>>) \o Tail(s) = d \o (<<Head(s)>> \o Tail(s))
  BY <1>1, <1>3, ConcatAssociative
<1> QED
  BY <1>2, <1>4, <1>5

\* Queueing at the back of the last part queues at the back of the whole.
LEMMA AppendToConcat ==
  ASSUME NEW S, NEW d \in Seq(S), NEW s \in Seq(S), NEW e \in S
  PROVE  d \o Append(s, e) = Append(d \o s, e)
<1>1. <<e>> \in Seq(S)
  OBVIOUS
<1>2. d \o Append(s, e) = d \o (s \o <<e>>)
  BY AppendIsConcat
<1>3. Append(d \o s, e) = (d \o s) \o <<e>>
  BY ConcatProperties, AppendIsConcat
<1> QED
  BY <1>1, <1>2, <1>3, ConcatAssociative

\* A sequence is its first element and the rest.
LEMMA FirstAndRest ==
  ASSUME NEW S, NEW s \in Seq(S), s # <<>>
  PROVE  s = <<Head(s)>> \o Tail(s)
<1>1. Len(s) \in Nat \ {0}
  BY EmptySeq
<1>2. SubSeq(s, 1, Len(s)) = <<s[1]>> \o SubSeq(s, 1 + 1, Len(s))
  BY <1>1, SubSeqRecursiveFirst
<1>3. Head(s) = s[1] /\ Tail(s) = SubSeq(s, 1 + 1, Len(s))
  BY <1>1, TailIsSubSeq
<1> QED
  BY <1>2, <1>3, SubSeqFull

\* The first task of the batch is the first task of the whole.
LEMMA HeadOfConcat ==
  ASSUME NEW S, NEW s \in Seq(S), NEW u \in Seq(S), s # <<>>
  PROVE  /\ s \o u # <<>>
         /\ Head(s \o u) = Head(s)
         /\ Tail(s \o u) = Tail(s) \o u
<1>1. /\ Head(s) \in S /\ Tail(s) \in Seq(S) /\ <<Head(s)>> \in Seq(S)
      /\ Len(s) \in Nat \ {0} /\ Len(u) \in Nat
  BY HeadTailProperties, EmptySeq, LenProperties
<1>2. PICK w \in Seq(S) : w = s \o u
  BY ConcatProperties
<1>3. Len(w) = Len(s) + Len(u) /\ w[1] = s[1]
  BY <1>1, <1>2, ConcatProperties
<1>4. w # <<>>
  BY <1>1, <1>3, EmptySeq
<1>5. Head(w) = Head(s) /\ Tail(w) \in Seq(S)
  BY <1>1, <1>3, <1>4, HeadTailProperties
<1>6. w = <<Head(w)>> \o Tail(w)
  BY <1>4, FirstAndRest
<1>7. s = <<Head(s)>> \o Tail(s)
  BY FirstAndRest
<1>8. s \o u = <<Head(s)>> \o (Tail(s) \o u)
  BY <1>1, <1>7, ConcatAssociative
<1>9. Tail(s) \o u \in Seq(S)
  BY <1>1, ConcatProperties
<1>10. Tail(w) = Tail(s) \o u
  BY <1>1, <1>2, <1>5, <1>6, <1>8, <1>9, ConcatSimplifications
<1> QED
  BY <1>2, <1>4, <1>5, <1>10

\* What is in a concatenation is in one of its parts.
LEMMA ElementsOfConcat ==
  ASSUME NEW S, NEW s \in Seq(S), NEW u \in Seq(S)
  PROVE  Elements(s \o u) = Elements(s) \union Elements(u)
<1>1. \A q : Elements(q) = Range(q)
  BY DEF Elements, Range
<1>2. Range(s \o u) = Range(s) \union Range(u)
  BY RangeConcatenation
<1> QED
  BY <1>1, <1>2

\* An element more.
LEMMA ElementsOfAppend ==
  ASSUME NEW S, NEW s \in Seq(S), NEW e \in S
  PROVE  Elements(Append(s, e)) = Elements(s) \union {e}
<1>1. /\ Len(s) \in Nat /\ DOMAIN s = 1 .. Len(s)
      /\ DOMAIN Append(s, e) = 1 .. (Len(s) + 1)
      /\ \A i \in 1 .. Len(s) : Append(s, e)[i] = s[i]
      /\ Append(s, e)[Len(s) + 1] = e
  BY LenProperties, AppendProperties
<1>2. 1 .. (Len(s) + 1) = (1 .. Len(s)) \union {Len(s) + 1}
  BY <1>1
<1> QED
  BY <1>1, <1>2 DEF Elements
-----------------------------------------------------------------------------

\* Every variable keeps its type: the loop never leaves its program points, and
\* only tasks of the program travel through the three sequences of EventLoop.
THEOREM TypeCorrect == SafeSpec => []TypeOK
<1>1. Init => TypeOK
  <2> SUFFICES ASSUME Init
               PROVE  TypeOK
    OBVIOUS
  <2>1. <<>> \in Seq(Tasks) /\ Elements(<<>>) = {}
    BY EmptySeq DEF Elements
  <2> QED
    BY <2>1 DEF Init, TypeOK
<1>2. TypeOK /\ [Next]_vars => TypeOK'
  <2> SUFFICES ASSUME TypeOK, [Next]_vars
               PROVE  TypeOK'
    OBVIOUS
  <2> USE DEF TypeOK, shared, loopVars, history
  <2>1. CASE LoopThread
    <3>1. CASE Check
      BY <3>1 DEF Check
    <3>2. ASSUME NEW ready \in SUBSET Sources, PollReturns(ready)
          PROVE  TypeOK'
      BY <3>2 DEF PollReturns
    <3>3. ASSUME NEW ch \in Channels, DispatchChannel(ch)
          PROVE  TypeOK'
      BY <3>3 DEF DispatchChannel
    <3>4. CASE CallbackReturns
      BY <3>4 DEF CallbackReturns
    <3>5. CASE HandleReadEventFd
      BY <3>5 DEF HandleReadEventFd
    <3>6. CASE SwapFunctors
      BY <3>6 DEF SwapFunctors
    <3>7. CASE RunFunctor
      BY <3>7 DEF RunFunctor
    <3>8. CASE FunctorReturns
      BY <3>8 DEF FunctorReturns
    <3>9. CASE FunctorsDone
      BY <3>9 DEF FunctorsDone
    <3>10. CASE DispatchDone
      BY <3>10 DEF DispatchDone
    <3> QED
      BY <2>1, <3>1, <3>2, <3>3, <3>4, <3>5, <3>6, <3>7, <3>8, <3>9, <3>10
      DEF LoopThread, Awake
  <2>2. CASE PollInterrupted
    BY <2>2 DEF PollInterrupted
  <2>3. ASSUME NEW t \in Tasks, RunInLoopHere(t)
        PROVE  TypeOK'
    BY <2>3 DEF RunInLoopHere, Ungiven
  <2>4. ASSUME NEW c \in Callers, Quit(c)
        PROVE  TypeOK'
    BY <2>4 DEF Quit
  <2>5. ASSUME NEW c \in Callers, Wakeup(c)
        PROVE  TypeOK'
    BY <2>5 DEF Wakeup
  <2>6. ASSUME NEW c \in Callers, NEW t \in Tasks, QueueInLoop(c, t)
        PROVE  TypeOK'
    <3>1. Elements(queued') = Elements(queued) \union {t} /\ t \notin direct
      BY <2>6, ElementsOfAppend DEF QueueInLoop, Ungiven
    <3> QED
      BY <2>6, <3>1 DEF QueueInLoop
  <2>7. CASE UNCHANGED vars
    BY <2>7 DEF vars
  <2> QED
    BY <2>1, <2>2, <2>3, <2>4, <2>5, <2>6, <2>7 DEF Next
<1> QED
  BY <1>1, <1>2, PTL DEF SafeSpec
-----------------------------------------------------------------------------
(* No lost wakeup.  The invariant is inductive given the types: a step that  *)
(* makes work appear (QueueInLoop, Quit) leaves its caller with a wakeup to  *)
(* write, and the step that consumes wakeups goes on to take the queue.      *)

\* Work that waits in pendingFunctors_, and a quit() a sleeping loop has not yet
\* seen, always have a wakeup behind them.
THEOREM WakeupsAreKept == SafeSpec => []NoLostWakeup
<1>1. Init => NoLostWakeup
  BY DEF Init, NoLostWakeup
<1>2. TypeOK /\ NoLostWakeup /\ [Next]_vars => NoLostWakeup'
  <2> SUFFICES ASSUME TypeOK, NoLostWakeup, [Next]_vars
               PROVE  NoLostWakeup'
    OBVIOUS
  <2> USE DEF TypeOK, NoLostWakeup, WakeupComing, shared, loopVars, history
  <2>1. CASE LoopThread
    <3>1. CASE Check
      BY <3>1 DEF Check
    <3>2. ASSUME NEW ready \in SUBSET Sources, PollReturns(ready)
          PROVE  NoLostWakeup'
      BY <3>2 DEF PollReturns
    <3>3. ASSUME NEW ch \in Channels, DispatchChannel(ch)
          PROVE  NoLostWakeup'
      BY <3>3 DEF DispatchChannel
    <3>4. CASE CallbackReturns
      BY <3>4 DEF CallbackReturns
    <3>5. CASE HandleReadEventFd
      BY <3>5 DEF HandleReadEventFd
    <3>6. CASE SwapFunctors
      BY <3>6 DEF SwapFunctors
    <3>7. CASE RunFunctor
      BY <3>7 DEF RunFunctor
    <3>8. CASE FunctorReturns
      BY <3>8 DEF FunctorReturns
    <3>9. CASE FunctorsDone
      BY <3>9 DEF FunctorsDone
    <3>10. CASE DispatchDone
      BY <3>10 DEF DispatchDone
    <3> QED
      BY <2>1, <3>1, <3>2, <3>3, <3>4, <3>5, <3>6, <3>7, <3>8, <3>9, <3>10
      DEF LoopThread, Awake
  <2>2. CASE PollInterrupted
    BY <2>2 DEF PollInterrupted
  <2>3. ASSUME NEW t \in Tasks, RunInLoopHere(t)
        PROVE  NoLostWakeup'
    BY <2>3 DEF RunInLoopHere
  <2>4. ASSUME NEW c \in Callers, Quit(c)
        PROVE  NoLostWakeup'
    BY <2>4 DEF Quit
  <2>5. ASSUME NEW c \in Callers, Wakeup(c)
        PROVE  NoLostWakeup'
    BY <2>5 DEF Wakeup
  <2>6. ASSUME NEW c \in Callers, NEW t \in Tasks, QueueInLoop(c, t)
        PROVE  NoLostWakeup'
    BY <2>6 DEF QueueInLoop
  <2>7. CASE UNCHANGED vars
    BY <2>7 DEF vars
  <2> QED
    BY <2>1, <2>2, <2>3, <2>4, <2>5, <2>6, <2>7 DEF Next
<1> QED
  BY <1>1, <1>2, TypeCorrect, PTL DEF SafeSpec
-----------------------------------------------------------------------------
(* The account of tasks.  It balances at the swap only because the batch of  *)
(* the last doPendingFunctors is used up by then, which has to be said.      *)

BatchOnlyWhileRunning == functors # <<>> => pc \in {"run", "functor"}

Account == BatchOnlyWhileRunning /\ ExactlyOnceInOrder

\* The account balances in every state, with a batch only where one is run.
LEMMA AccountBalances == SafeSpec => []Account
<1>1. Init => Account
  <2> SUFFICES ASSUME Init
               PROVE  Account
    OBVIOUS
  <2>1. <<>> \o <<>> \o <<>> = <<>>
    BY EmptySeq, ConcatEmptySeq
  <2> QED
    BY <2>1 DEF Init, Account, BatchOnlyWhileRunning, ExactlyOnceInOrder
<1>2. TypeOK /\ Account /\ [Next]_vars => Account'
  <2> SUFFICES ASSUME TypeOK, Account, [Next]_vars
               PROVE  Account'
    OBVIOUS
  <2> USE DEF Account, BatchOnlyWhileRunning, ExactlyOnceInOrder, shared, loopVars, history
  <2>0. /\ pending \in Seq(Tasks) /\ functors \in Seq(Tasks) /\ done \in Seq(Tasks)
        /\ done \o functors \in Seq(Tasks)
    BY ConcatProperties DEF TypeOK
  <2>1. CASE LoopThread
    <3>1. CASE Check
      BY <3>1 DEF Check
    <3>2. ASSUME NEW ready \in SUBSET Sources, PollReturns(ready)
          PROVE  Account'
      BY <3>2 DEF PollReturns
    <3>3. ASSUME NEW ch \in Channels, DispatchChannel(ch)
          PROVE  Account'
      BY <3>3 DEF DispatchChannel
    <3>4. CASE CallbackReturns
      BY <3>4 DEF CallbackReturns
    <3>5. CASE HandleReadEventFd
      BY <3>5 DEF HandleReadEventFd
    <3>6. CASE SwapFunctors
      <4>1. functors = <<>>
        BY <3>6 DEF SwapFunctors
      <4>2. done \o pending \o <<>> = done \o <<>> \o pending
        BY <2>0, ConcatEmptySeq, ConcatProperties
      <4> QED
        BY <3>6, <4>1, <4>2 DEF SwapFunctors
    <3>7. CASE RunFunctor
      <4>1. Append(done, Head(functors)) \o Tail(functors) = done \o functors
        BY <2>0, <3>7, MoveHead DEF RunFunctor
      <4> QED
        BY <3>7, <4>1 DEF RunFunctor
    <3>8. CASE FunctorReturns
      BY <3>8 DEF FunctorReturns
    <3>9. CASE FunctorsDone
      BY <3>9 DEF FunctorsDone
    <3>10. CASE DispatchDone
      BY <3>10 DEF DispatchDone
    <3> QED
      BY <2>1, <3>1, <3>2, <3>3, <3>4, <3>5, <3>6, <3>7, <3>8, <3>9, <3>10
      DEF LoopThread, Awake
  <2>2. CASE PollInterrupted
    BY <2>2 DEF PollInterrupted
  <2>3. ASSUME NEW t \in Tasks, RunInLoopHere(t)
        PROVE  Account'
    BY <2>3 DEF RunInLoopHere
  <2>4. ASSUME NEW c \in Callers, Quit(c)
        PROVE  Account'
    BY <2>4 DEF Quit
  <2>5. ASSUME NEW c \in Callers, Wakeup(c)
        PROVE  Account'
    BY <2>5 DEF Wakeup
  <2>6. ASSUME NEW c \in Callers, NEW t \in Tasks, QueueInLoop(c, t)
        PROVE  Account'
    <3>1. done \o functors \o Append(pending, t) = Append(done \o functors \o pending, t)
      BY <2>0, AppendToConcat
    <3> QED
      BY <2>6, <3>1 DEF QueueInLoop
  <2>7. CASE UNCHANGED vars
    BY <2>7 DEF vars
  <2> QED
    BY <2>1, <2>2, <2>3, <2>4, <2>5, <2>6, <2>7 DEF Next
<1> QED
  BY <1>1, <1>2, TypeCorrect, PTL DEF SafeSpec

\* A task another thread has handed over is run, in the batch being run, or
\* waiting: never lost, never run twice, never overtaken.
THEOREM TasksRunOnceInOrder == SafeSpec => []ExactlyOnceInOrder
<1>1. Account => ExactlyOnceInOrder
  BY DEF Account
<1> QED
  BY <1>1, AccountBalances, PTL
-----------------------------------------------------------------------------
(* Refinement.  QueueInLoop is Submit, RunFunctor Execute, RunInLoopHere     *)
(* ExecuteDirectly, the Check that finds quit_ set Stop; the rest, the swap  *)
(* of the queue included, does not show.                                     *)

\* A task nobody has given to the loop is fresh to the task queue.
LEMMA UngivenIsFresh ==
  ASSUME TypeOK, ExactlyOnceInOrder, NEW t \in Tasks, Ungiven(t)
  PROVE  TQ!Fresh(t)
<1>1. /\ pending \in Seq(Tasks) /\ functors \in Seq(Tasks) /\ done \in Seq(Tasks)
      /\ done \o functors \in Seq(Tasks) /\ functors \o pending \in Seq(Tasks)
  BY ConcatProperties DEF TypeOK
<1>2. Elements(queued) = Elements(done) \union Elements(functors) \union Elements(pending)
  <2>1. Elements((done \o functors) \o pending)
          = Elements(done \o functors) \union Elements(pending)
    BY <1>1, ElementsOfConcat, ZenonT(30)
  <2>2. Elements(done \o functors) = Elements(done) \union Elements(functors)
    BY <1>1, ElementsOfConcat, ZenonT(30)
  <2>3. queued = (done \o functors) \o pending
    BY DEF ExactlyOnceInOrder
  <2> QED
    BY <2>1, <2>2, <2>3
<1>3. Elements(functors \o pending) = Elements(functors) \union Elements(pending)
  BY <1>1, ElementsOfConcat
<1>4. t \notin Elements(functors \o pending) \union Elements(done) \union direct
  BY <1>2, <1>3 DEF Ungiven
<1> QED
  BY <1>4 DEF TQ!Fresh, TQ!Elements, Elements

\* Every behaviour of the loop is one of the task queue its callers rely on.
THEOREM LoopRefinesTaskQueue == SafeSpec => TQ!SafeSpec
<1>1. Init => TQ!Init
  <2> SUFFICES ASSUME Init
               PROVE  TQ!Init
    OBVIOUS
  <2>1. <<>> \o <<>> = <<>>
    BY EmptySeq, ConcatEmptySeq
  <2> QED
    BY <2>1 DEF Init, TQ!Init
<1>2. TypeOK /\ Account /\ [Next]_vars => [TQ!Next]_(TQ!vars)
  <2> SUFFICES ASSUME TypeOK, Account, [Next]_vars
               PROVE  [TQ!Next]_(TQ!vars)
    OBVIOUS
  <2> USE DEF shared, loopVars, history
  <2>0. /\ pending \in Seq(Tasks) /\ functors \in Seq(Tasks)
        /\ ExactlyOnceInOrder /\ BatchOnlyWhileRunning
    BY DEF TypeOK, Account
  <2>1. CASE LoopThread
    <3>1. CASE Check
      <4>1. CASE quit
        <5>1. TQ!Stop
          BY <3>1, <4>1 DEF Check, TQ!Stop
        <5> QED
          BY <5>1 DEF TQ!Next
      <4>2. CASE ~quit
        BY <3>1, <4>2 DEF Check, TQ!vars
      <4> QED
        BY <4>1, <4>2
    <3>2. ASSUME NEW ready \in SUBSET Sources, PollReturns(ready)
          PROVE  UNCHANGED TQ!vars
      BY <3>2 DEF PollReturns, TQ!vars
    <3>3. ASSUME NEW ch \in Channels, DispatchChannel(ch)
          PROVE  UNCHANGED TQ!vars
      BY <3>3 DEF DispatchChannel, TQ!vars
    <3>4. CASE CallbackReturns
      BY <3>4 DEF CallbackReturns, TQ!vars
    <3>5. CASE HandleReadEventFd
      BY <3>5 DEF HandleReadEventFd, TQ!vars
    <3>6. CASE SwapFunctors
      <4>1. functors = <<>>
        BY <2>0, <3>6 DEF SwapFunctors, BatchOnlyWhileRunning
      <4>2. pending \o <<>> = functors \o pending
        BY <2>0, <4>1, ConcatEmptySeq
      <4> QED
        BY <3>6, <4>2 DEF SwapFunctors, TQ!vars
    <3>7. CASE RunFunctor
      <4>1. /\ functors \o pending # <<>>
            /\ Head(functors \o pending) = Head(functors)
            /\ Tail(functors \o pending) = Tail(functors) \o pending
        BY <2>0, <3>7, HeadOfConcat DEF RunFunctor
      <4>2. TQ!Execute
        BY <3>7, <4>1 DEF RunFunctor, TQ!Execute
      <4> QED
        BY <4>2 DEF TQ!Next
    <3>8. CASE FunctorReturns
      BY <3>8 DEF FunctorReturns, TQ!vars
    <3>9. CASE FunctorsDone
      BY <3>9 DEF FunctorsDone, TQ!vars
    <3>10. CASE DispatchDone
      BY <3>10 DEF DispatchDone, TQ!vars
    <3> QED
      BY <2>1, <3>1, <3>2, <3>3, <3>4, <3>5, <3>6, <3>7, <3>8, <3>9, <3>10
      DEF LoopThread, Awake
  <2>2. CASE PollInterrupted
    BY <2>2 DEF PollInterrupted, TQ!vars
  <2>3. ASSUME NEW t \in Tasks, RunInLoopHere(t)
        PROVE  TQ!Next
    <3>1. TQ!Fresh(t)
      BY <2>0, <2>3, UngivenIsFresh DEF RunInLoopHere
    <3>2. TQ!ExecuteDirectly(t)
      BY <2>3, <3>1 DEF RunInLoopHere, TQ!ExecuteDirectly
    <3> QED
      BY <3>2 DEF TQ!Next
  <2>4. ASSUME NEW c \in Callers, Quit(c)
        PROVE  UNCHANGED TQ!vars
    BY <2>4 DEF Quit, TQ!vars
  <2>5. ASSUME NEW c \in Callers, Wakeup(c)
        PROVE  UNCHANGED TQ!vars
    BY <2>5 DEF Wakeup, TQ!vars
  <2>6. ASSUME NEW c \in Callers, NEW t \in Tasks, QueueInLoop(c, t)
        PROVE  TQ!Next
    <3>1. TQ!Fresh(t)
      BY <2>0, <2>6, UngivenIsFresh DEF QueueInLoop
    <3>2. functors \o Append(pending, t) = Append(functors \o pending, t)
      BY <2>0, AppendToConcat
    <3>3. TQ!Submit(t)
      BY <2>6, <3>1, <3>2 DEF QueueInLoop, TQ!Submit
    <3> QED
      BY <3>3 DEF TQ!Next
  <2>7. CASE UNCHANGED vars
    BY <2>7 DEF vars, TQ!vars
  <2> QED
    BY <2>1, <2>2, <2>3, <2>4, <2>5, <2>6, <2>7 DEF Next
<1> QED
  BY <1>1, <1>2, TypeCorrect, AccountBalances, PTL DEF SafeSpec, TQ!SafeSpec
=============================================================================
