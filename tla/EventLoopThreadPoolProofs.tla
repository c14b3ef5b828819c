--------------------- MODULE EventLoopThreadPoolProofs ---------------------
(***************************************************************************)
(* Theorems about the thread pool, for any number of threads: its types,   *)
(* that the loops it hands out exist, and that it hands them out in turn.  *)
(***************************************************************************)
EXTENDS EventLoopThreadPool, TLAPS

Starting == {"create", "lock", "test", "wait", "return"}

\* One thread after the other is started, and nothing is handed out meanwhile.
StartInv ==
  /\ at \in Starting => started = t - 1 /\ next = 0 /\ given = [i \in Threads |-> 0]
  /\ at \in Starting \ {"create"} => t \in Threads
  /\ at \in {"quit", "wakeup", "join"} => t \in Threads

\* What a thread and the main thread know of each other.
HandshakeInv ==
  /\ \A i \in Threads : loop_[i] <=> child[i] \in {"check", "poll", "leave"}
  /\ at \in Starting \union {"serve"} =>
       \A i \in Threads : ~quit[i] /\ child[i] \notin {"leave", "destroy", "ended"}
  /\ at \in Starting \union {"serve"} => \A i \in 1..started : loop_[i]
  /\ at = "return" => loop_[t]
  /\ at \in Starting =>
       \A i \in Threads : i > t \/ (i = t /\ at = "create") => child[i] = "none"

\* Below next_ the loops have been handed out once more than from there on.
InRound(q) == \A i \in 1..started : given[i] = IF i <= next THEN q + 1 ELSE q

TurnInv == \E q \in Nat : InRound(q)

Inv == TypeOK /\ StartInv /\ HandshakeInv /\ TurnInv

\* The wrap-around of next_.
LEMMA TurnWraps ==
  ASSUME NEW n \in Nat, started \in Nat, n < started
  PROVE  Turn(n) = IF n + 1 = started THEN 0 ELSE n + 1
<1>1. CASE n + 1 = started
  BY <1>1 DEF Turn
<1>2. CASE n + 1 < started
  BY <1>2 DEF Turn
<1> QED
  BY <1>1, <1>2

\* Only getNextLoop, and start() while all counts are 0, touch the turns.
LEMMA TurnKept ==
  ASSUME TurnInv, UNCHANGED <<started, next, given>>
  PROVE  TurnInv'
<1>1. PICK q \in Nat : InRound(q)
  BY DEF TurnInv
<1>2. InRound(q)'
  BY <1>1 DEF InRound
<1> QED
  BY <1>2 DEF TurnInv

\* The invariant the theorems below follow from.
LEMMA InvHolds == SafeSpec => []Inv
<1> USE ThreadNumAssumption DEF Threads
<1>1. Init => Inv
  <2> SUFFICES ASSUME Init
               PROVE  Inv
    OBVIOUS
  <2>1. TypeOK /\ StartInv /\ HandshakeInv
    BY DEF Init, TypeOK, StartInv, HandshakeInv, Starting
  <2>2. TurnInv
    <3>1. InRound(0)
      BY DEF Init, InRound
    <3> QED
      BY <3>1 DEF TurnInv
  <2> QED
    BY <2>1, <2>2 DEF Inv
<1>2. Inv /\ [Next]_vars => Inv'
  <2> SUFFICES ASSUME Inv, [Next]_vars
               PROVE  Inv'
    OBVIOUS
  <2> USE DEF Inv, TypeOK, StartInv, HandshakeInv, Starting, main, children
  <2>1. CASE MainThread
    <3>0. UNCHANGED <<started, next, given>> => TurnInv'
      BY TurnKept
    <3>1. CASE CreateThread
      BY <3>0, <3>1 DEF CreateThread
    <3>2. CASE LockToWait
      BY <3>0, <3>2 DEF LockToWait
    <3>3. CASE TestLoop
      BY <3>0, <3>3 DEF TestLoop
    <3>4. CASE StartLoopReturns
      <4>1. TurnInv'
        <5>1. InRound(0)'
          BY <3>4 DEF StartLoopReturns, InRound
        <5> QED
          BY <5>1 DEF TurnInv
      <4>2. (TypeOK /\ StartInv)'
        BY <3>4 DEF StartLoopReturns
      <4>3. HandshakeInv'
        BY <3>4 DEF StartLoopReturns
      <4> QED
        BY <4>1, <4>2, <4>3
    <3>5. CASE StartReturns
      BY <3>0, <3>5 DEF StartReturns
    <3>6. CASE TestRunning
      BY <3>0, <3>6 DEF TestRunning
    <3>7. CASE StoreQuit
      BY <3>0, <3>7 DEF StoreQuit
    <3>8. CASE WakeupLoop
      BY <3>0, <3>8 DEF WakeupLoop
    <3>9. CASE Join
      BY <3>0, <3>9 DEF Join
    <3>10. CASE DestroyReturns
      BY <3>0, <3>10 DEF DestroyReturns
    <3> QED
      BY <2>1, <3>1, <3>2, <3>3, <3>4, <3>5, <3>6, <3>7, <3>8, <3>9, <3>10 DEF MainThread
  <2>2. CASE GetNextLoop
    <3>1. next' = IF next + 1 = started THEN 0 ELSE next + 1
      BY <2>2, TurnWraps DEF GetNextLoop
    <3>2. next + 1 \in Threads /\ next' < started /\ next' \in Nat
      BY <2>2, <3>1 DEF GetNextLoop
    <3>3. (TypeOK /\ StartInv /\ HandshakeInv)'
      BY <2>2, <3>2 DEF GetNextLoop
    <3>4. TurnInv'
      <4>1. PICK q \in Nat : InRound(q)
        BY DEF TurnInv
      <4>2. \A i \in 1..started : given'[i] = IF i <= next + 1 THEN q + 1 ELSE q
        BY <2>2, <3>2, <4>1 DEF GetNextLoop, InRound
      <4>3. CASE next + 1 = started
        <5>1. \A i \in 1..started : given'[i] = IF i <= 0 THEN (q + 1) + 1 ELSE q + 1
          BY <4>2, <4>3
        <5>2. InRound(q + 1)'
          BY <2>2, <3>1, <4>3, <5>1 DEF GetNextLoop, InRound
        <5> QED
          BY <5>2 DEF TurnInv
      <4>4. CASE next + 1 # started
        <5>1. InRound(q)'
          BY <2>2, <3>1, <4>2, <4>4 DEF GetNextLoop, InRound
        <5> QED
          BY <5>1 DEF TurnInv
      <4> QED
        BY <4>3, <4>4
    <3> QED
      BY <3>3, <3>4
  <2>3. CASE Destroy
    BY <2>3, TurnKept DEF Destroy
  <2>4. CASE SpuriousWakeup
    BY <2>4, TurnKept DEF SpuriousWakeup
  <2>5. ASSUME NEW i \in Threads, ChildThread(i) \/ PollOther(i)
        PROVE  Inv'
    <3>0. UNCHANGED <<started, next, given>> => TurnInv'
      BY TurnKept
    <3>1. CASE Construct(i)
      BY <3>0, <3>1 DEF Construct
    <3>2. CASE Publish(i)
      BY <3>0, <3>2 DEF Publish
    <3>3. CASE CheckQuit(i)
      BY <3>0, <3>3 DEF CheckQuit
    <3>4. CASE PollWoken(i)
      BY <3>0, <3>4 DEF PollWoken
    <3>5. CASE Withdraw(i)
      BY <3>0, <3>5 DEF Withdraw
    <3>6. CASE EndThread(i)
      BY <3>0, <3>6 DEF EndThread
    <3>7. CASE PollOther(i)
      BY <3>0, <3>7 DEF PollOther
    <3> QED
      BY <2>5, <3>1, <3>2, <3>3, <3>4, <3>5, <3>6, <3>7 DEF ChildThread
  <2>6. CASE UNCHANGED vars
    BY <2>6, TurnKept DEF vars
  <2> QED
    BY <2>1, <2>2, <2>3, <2>4, <2>5, <2>6 DEF Next
<1> QED
  BY <1>1, <1>2, PTL DEF SafeSpec

\* Every variable of the pool and its threads keeps its type; next_ stays an index
\* of loops_.
THEOREM TypeCorrect == SafeSpec => []TypeOK
<1>1. Inv => TypeOK
  BY DEF Inv
<1> QED
  BY <1>1, InvHolds, PTL

\* A loop that startLoop has returned exists and runs until the pool goes.
THEOREM HandedOutLoopsRun == SafeSpec => []StartedLoopsRun
<1>1. Inv => StartedLoopsRun
  <2> SUFFICES ASSUME Inv, at \in Starting \union {"serve"}, NEW i \in 1..started
               PROVE  Exists(i) /\ loop_[i] /\ ~quit[i]
    BY DEF StartedLoopsRun, Starting
  <2>1. i \in Threads
    BY ThreadNumAssumption DEF Inv, TypeOK, Threads
  <2> QED
    BY <2>1 DEF Inv, HandshakeInv, Exists
<1> QED
  BY <1>1, InvHolds, PTL

\* getNextLoop is fair to the loops at every moment.
THEOREM RoundRobin == SafeSpec => []LoopsTakeTurns
<1>1. Inv => LoopsTakeTurns
  <2> SUFFICES ASSUME Inv, NEW i \in 1..started, NEW j \in 1..started, i < j
               PROVE  given[i] = given[j] \/ given[i] = given[j] + 1
    BY DEF LoopsTakeTurns
  <2>1. PICK q \in Nat : \A k \in 1..started : given[k] = IF k <= next THEN q + 1 ELSE q
    BY DEF Inv, TurnInv, InRound
  <2>2. started \in Nat /\ next \in Nat
    BY ThreadNumAssumption DEF Inv, TypeOK
  <2> QED
    BY <2>1, <2>2
<1> QED
  BY <1>1, InvHolds, PTL
-----------------------------------------------------------------------------
(* What startLoop and the destructor wait for. *)

Ending == {"end", "quit", "wakeup", "join"}

\* The mutex is held over the test of loop_ only; the threads are joined one after the
\* other, and those whose turn has not come serve on.
EndInv ==
  /\ \A i \in Threads : mutex[i] = "main" <=> at = "test" /\ i = t
  /\ at \in Starting \ {"create"} => child[t] # "none"
  /\ at \in Ending =>
       \A i \in Threads :
         /\ i < t => child[i] = "ended"
         /\ i > t \/ (i = t /\ at \in {"end", "quit"}) => child[i] \in {"check", "poll"} /\ ~quit[i]
  /\ at \in {"wakeup", "join"} => quit[t] /\ child[t] \notin {"none", "construct", "publish"}
  /\ at = "gone" => \A i \in Threads : child[i] = "ended"
  /\ at = "serve" => started = ThreadNum

\* The thread has ended, is past its loop, or will see quit_ without another wakeup.
OnItsWayOut(i) ==
  \/ child[i] \in {"leave", "destroy", "ended"}
  \/ quit[i] /\ (child[i] = "check" \/ (child[i] = "poll" /\ eventfd[i]))

\* startLoop sleeps on the condition variable only while threadFunc has yet to set loop_
\* and to notify; a thread is joined only when it will end; and none is left running.
WaitsAreAnswered ==
  /\ at = "wait" => child[t] \in {"construct", "publish"}
  /\ at = "join" => OnItsWayOut(t)
  /\ \A i \in Threads : mutex[i] # "free" => at = "test"
  /\ at = "gone" => \A i \in Threads : child[i] = "ended"

AnswerInv == Inv /\ EndInv /\ WaitsAreAnswered

LEMMA AnswerStep ==
  ASSUME AnswerInv, Inv', [Next]_vars
  PROVE  EndInv' /\ WaitsAreAnswered'
<1> USE ThreadNumAssumption
    DEF Threads, AnswerInv, Inv, TypeOK, StartInv, HandshakeInv, Starting, Ending, EndInv,
        WaitsAreAnswered, OnItsWayOut, main, children
<1>1. CASE MainThread
  <2>1. CASE CreateThread
    BY <2>1 DEF CreateThread
  <2>2. CASE LockToWait
    BY <2>2 DEF LockToWait
  <2>3. CASE TestLoop
    BY <2>3 DEF TestLoop
  <2>4. CASE StartLoopReturns
    BY <2>4 DEF StartLoopReturns
  <2>5. CASE StartReturns
    BY <2>5 DEF StartReturns
  <2>6. CASE TestRunning
    BY <2>6 DEF TestRunning
  <2>7. CASE StoreQuit
    BY <2>7 DEF StoreQuit
  <2>8. CASE WakeupLoop
    BY <2>8 DEF WakeupLoop
  <2>9. CASE Join
    BY <2>9 DEF Join
  <2>10. CASE DestroyReturns
    BY <2>10 DEF DestroyReturns
  <2> QED
    BY <1>1, <2>1, <2>2, <2>3, <2>4, <2>5, <2>6, <2>7, <2>8, <2>9, <2>10 DEF MainThread
<1>2. CASE GetNextLoop \/ Destroy \/ SpuriousWakeup
  BY <1>2, SMTT(30) DEF GetNextLoop, Destroy, SpuriousWakeup
<1>3. ASSUME NEW i \in Threads, ChildThread(i) \/ PollOther(i)
      PROVE  EndInv' /\ WaitsAreAnswered'
  <2>1. CASE Construct(i)
    BY <2>1 DEF Construct
  <2>2. CASE Publish(i)
    BY <2>2 DEF Publish
  <2>3. CASE CheckQuit(i)
    BY <2>3 DEF CheckQuit
  <2>4. CASE PollWoken(i)
    BY <2>4 DEF PollWoken
  <2>5. CASE Withdraw(i)
    BY <2>5 DEF Withdraw
  <2>6. CASE EndThread(i)
    BY <2>6 DEF EndThread
  <2>7. CASE PollOther(i)
    BY <2>7 DEF PollOther
  <2> QED
    BY <1>3, <2>1, <2>2, <2>3, <2>4, <2>5, <2>6, <2>7 DEF ChildThread
<1>4. CASE UNCHANGED vars
  BY <1>4 DEF vars
<1> QED
  BY <1>1, <1>2, <1>3, <1>4 DEF Next

\* The safety that CallsReturn rests on: neither startLoop nor the destructor ever waits
\* for a thread that does not have the answer on its way, whenever the condition variable
\* wakes, the loop polls and quit() comes; and the destructor leaves no thread behind.
THEOREM NobodyWaitsInVain == SafeSpec => []WaitsAreAnswered
<1>1. Init => EndInv /\ WaitsAreAnswered
  BY ThreadNumAssumption DEF Init, EndInv, WaitsAreAnswered, Ending, Threads
<1>2. EndInv /\ WaitsAreAnswered /\ Inv /\ Inv' /\ [Next]_vars => EndInv' /\ WaitsAreAnswered'
  BY AnswerStep DEF AnswerInv
<1> QED
  BY <1>1, <1>2, InvHolds, PTL DEF SafeSpec
=============================================================================
