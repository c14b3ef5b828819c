------------------------ MODULE EventLoopThreadPool ------------------------
(***************************************************************************)
(* The threads that run the sub loops (EventLoopThread.cpp) and the pool   *)
(* that starts them, hands out their loops in turn and destroys them       *)
(* (EventLoopThreadPool.cpp).  The main thread runs start(), getNextLoop() *)
(* and the destructors; thread t runs threadFunc, whose EventLoop lives on *)
(* its stack.  Of loop() only its sleep and its test of quit_ matter here. *)
(***************************************************************************)
EXTENDS Naturals

CONSTANTS
  ThreadNum,    \* threadNum_: its constructor makes a negative one 0
  GiveMax       \* bound: calls of getNextLoop that are counted

ASSUME ThreadNumAssumption == ThreadNum \in Nat

Threads == 1..ThreadNum

VARIABLES
  at,           \* where the main thread is
  t,            \* the thread its loop is at: the i of start(), the element of threads_
  next,         \* next_
  child,        \* per thread: where it is in threadFunc
  loop_,        \* per thread: EventLoopThread::loop_ is set
  mutex,        \* per thread: who holds EventLoopThread::mutex_
  quit,         \* per thread: quit_ of its loop
  eventfd,      \* per thread: the eventfd of its loop is readable
  started,      \* how many loops loops_ holds
  given         \* history, per thread: how often getNextLoop returned its loop

main     == <<at, t, next, started, given>>
children == <<child, loop_, mutex, quit, eventfd>>
vars     == <<main, children>>

\* The EventLoop exists on the stack of its thread.
Exists(i) == child[i] \notin {"none", "construct", "ended"}

Init ==
  /\ at = "create"
  /\ t = 1
  /\ next = 0
  /\ child = [i \in Threads |-> "none"]
  /\ loop_ = [i \in Threads |-> FALSE]
  /\ mutex = [i \in Threads |-> "free"]
  /\ quit = [i \in Threads |-> FALSE]
  /\ eventfd = [i \in Threads |-> FALSE]
  /\ started = 0
  /\ given = [i \in Threads |-> 0]
-----------------------------------------------------------------------------
(* The main thread: start() and startLoop(). *)

\* thread_ = std::thread(threadFunc)
CreateThread ==
  /\ at = "create"
  /\ t \in Threads
  /\ child' = [child EXCEPT ![t] = "construct"]
  /\ at' = "lock"
  /\ UNCHANGED <<t, next, started, given, loop_, mutex, quit, eventfd>>

\* std::unique_lock, first and after each wakeup of the condition variable.
LockToWait ==
  /\ at = "lock"
  /\ mutex[t] = "free"
  /\ mutex' = [mutex EXCEPT ![t] = "main"]
  /\ at' = "test"
  /\ UNCHANGED <<t, next, started, given, child, loop_, quit, eventfd>>

\* Slip: cond_.wait without its predicate: any wakeup will do.
SlipTestLoop ==
  /\ at = "test"
  /\ mutex' = [mutex EXCEPT ![t] = "free"]
  /\ at' \in {"wait", "return"}
  /\ UNCHANGED <<t, next, started, given, child, loop_, quit, eventfd>>

\* cond_.wait: the predicate holds, or the thread sleeps and gives up the mutex.
TestLoop ==
  /\ at = "test"
  /\ mutex' = [mutex EXCEPT ![t] = "free"]
  /\ at' = IF loop_[t] THEN "return" ELSE "wait"
  /\ UNCHANGED <<t, next, started, given, child, loop_, quit, eventfd>>

\* A condition variable may wake its waiter for no reason.
SpuriousWakeup ==
  /\ at = "wait"
  /\ at' = "lock"
  /\ UNCHANGED <<t, next, started, given, children>>

\* startLoop returns loop_; the pool keeps thread and loop.
StartLoopReturns ==
  /\ at = "return"
  /\ started' = started + 1
  /\ t' = t + 1
  /\ at' = "create"
  /\ UNCHANGED <<next, given, children>>

StartReturns ==
  /\ at = "create"
  /\ t \notin Threads
  /\ at' = "serve"
  /\ UNCHANGED <<t, next, started, given, children>>

\* Slip: next_ = next_++ % size.
SlipTurn(n) == n % started

\* Slip: next_ does not wrap.
SlipNoWrap(n) == n + 1

\* next_ = (next_ + 1) % loops_.size()
Turn(n) == (n + 1) % started

\* getNextLoop.  With no threads it returns baseloop_ and changes nothing.
GetNextLoop ==
  /\ at = "serve"
  /\ started > 0
  /\ given[next + 1] < GiveMax
  /\ given' = [given EXCEPT ![next + 1] = @ + 1]
  /\ next' = Turn(next)
  /\ UNCHANGED <<at, t, started, children>>
-----------------------------------------------------------------------------
(* The main thread: ~EventLoopThreadPool, ~EventLoopThread for each thread. *)

Destroy ==
  /\ at = "serve"
  /\ at' = "end"
  /\ t' = 1
  /\ UNCHANGED <<next, started, given, children>>

\* if(loop_ != nullptr)
TestRunning ==
  /\ at = "end"
  /\ t \in Threads
  /\ at' = IF loop_[t] THEN "quit" ELSE "join"
  /\ UNCHANGED <<t, next, started, given, children>>

\* quit(): quit_.store(true)
StoreQuit ==
  /\ at = "quit"
  /\ quit' = [quit EXCEPT ![t] = TRUE]
  /\ at' = "wakeup"
  /\ UNCHANGED <<t, next, started, given, child, loop_, mutex, eventfd>>

\* quit(): wakeup().  On a loop that is gone the program is undefined: the model
\* goes no further.
WakeupLoop ==
  /\ at = "wakeup"
  /\ Exists(t)
  /\ eventfd' = [eventfd EXCEPT ![t] = TRUE]
  /\ at' = "join"
  /\ UNCHANGED <<t, next, started, given, child, loop_, mutex, quit>>

\* thread_.join()
Join ==
  /\ at = "join"
  /\ child[t] = "ended"
  /\ t' = t + 1
  /\ at' = "end"
  /\ UNCHANGED <<next, started, given, children>>

DestroyReturns ==
  /\ at = "end"
  /\ t \notin Threads
  /\ at' = "gone"
  /\ UNCHANGED <<t, next, started, given, children>>
-----------------------------------------------------------------------------
(* threadFunc *)

\* EventLoop loop;
Construct(i) ==
  /\ child[i] = "construct"
  /\ child' = [child EXCEPT ![i] = "publish"]
  /\ UNCHANGED <<main, loop_, mutex, quit, eventfd>>

\* Slip: loop_ is set and nobody is notified.
SlipPublish(i) ==
  /\ child[i] = "publish"
  /\ mutex[i] = "free"
  /\ loop_' = [loop_ EXCEPT ![i] = TRUE]
  /\ child' = [child EXCEPT ![i] = "check"]
  /\ UNCHANGED <<main, mutex, quit, eventfd>>

\* Under the mutex: loop_ = &loop, and the waiter is woken if it waits.
Publish(i) ==
  /\ child[i] = "publish"
  /\ mutex[i] = "free"
  /\ loop_' = [loop_ EXCEPT ![i] = TRUE]
  /\ child' = [child EXCEPT ![i] = "check"]
  /\ at' = IF at = "wait" /\ t = i THEN "lock" ELSE at
  /\ UNCHANGED <<t, next, started, given, mutex, quit, eventfd>>

\* loop(): while(!quit_.load())
CheckQuit(i) ==
  /\ child[i] = "check"
  /\ child' = [child EXCEPT ![i] = IF quit[i] THEN "leave" ELSE "poll"]
  /\ UNCHANGED <<main, loop_, mutex, quit, eventfd>>

\* epoll_wait returns for the eventfd, whose handler reads it.
PollWoken(i) ==
  /\ child[i] = "poll"
  /\ eventfd[i]
  /\ eventfd' = [eventfd EXCEPT ![i] = FALSE]
  /\ child' = [child EXCEPT ![i] = "check"]
  /\ UNCHANGED <<main, loop_, mutex, quit>>

\* epoll_wait returns for something else, whenever it pleases.
PollOther(i) ==
  /\ child[i] = "poll"
  /\ child' = [child EXCEPT ![i] = "check"]
  /\ UNCHANGED <<main, loop_, mutex, quit, eventfd>>

\* Under the mutex: loop_ = nullptr.
Withdraw(i) ==
  /\ child[i] = "leave"
  /\ mutex[i] = "free"
  /\ loop_' = [loop_ EXCEPT ![i] = FALSE]
  /\ child' = [child EXCEPT ![i] = "destroy"]
  /\ UNCHANGED <<main, mutex, quit, eventfd>>

\* The end of threadFunc: the EventLoop is destroyed.
EndThread(i) ==
  /\ child[i] = "destroy"
  /\ child' = [child EXCEPT ![i] = "ended"]
  /\ UNCHANGED <<main, loop_, mutex, quit, eventfd>>
-----------------------------------------------------------------------------
MainThread ==
  \/ CreateThread \/ LockToWait \/ TestLoop \/ StartLoopReturns \/ StartReturns
  \/ TestRunning \/ StoreQuit \/ WakeupLoop \/ Join \/ DestroyReturns

ChildThread(i) ==
  Construct(i) \/ Publish(i) \/ CheckQuit(i) \/ PollWoken(i) \/ Withdraw(i) \/ EndThread(i)

Next ==
  \/ MainThread
  \/ GetNextLoop \/ Destroy
  \/ SpuriousWakeup
  \/ \E i \in Threads : ChildThread(i) \/ PollOther(i)

SafeSpec == Init /\ [][Next]_vars

\* Every thread that can go on does, and one that waits for a mutex gets it in the
\* end.  Nothing is assumed of spurious wakeups, of other events, or of when the
\* pool is destroyed.
Spec ==
  /\ SafeSpec
  /\ WF_vars(MainThread)
  /\ \A i \in Threads : WF_vars(ChildThread(i)) /\ SF_vars(Publish(i))
-----------------------------------------------------------------------------
TypeOK ==
  /\ at \in {"create", "lock", "test", "wait", "return", "serve", "end", "quit",
             "wakeup", "join", "gone"}
  /\ t \in 1..(ThreadNum + 1)
  /\ next \in Nat /\ (started > 0 => next < started)
  /\ child \in [Threads -> {"none", "construct", "publish", "check", "poll", "leave",
                            "destroy", "ended"}]
  /\ loop_ \in [Threads -> BOOLEAN]
  /\ mutex \in [Threads -> {"free", "main"}]
  /\ quit \in [Threads -> BOOLEAN]
  /\ eventfd \in [Threads -> BOOLEAN]
  /\ started \in 0..ThreadNum
  /\ given \in [Threads -> Nat]

\* Every loop in loops_ exists, and has not been told to stop, until the pool is
\* destroyed: startLoop does not return before the thread has built its loop, no
\* matter when the condition variable wakes, and the loop outlives that return.
StartedLoopsRun ==
  at \in {"create", "lock", "test", "wait", "return", "serve"} =>
    \A i \in 1..started : Exists(i) /\ loop_[i] /\ ~quit[i]

\* getNextLoop treats the loops alike: at any time two of them have been handed out
\* equally often, or the one whose turn came first once more.
LoopsTakeTurns ==
  \A i, j \in 1..started :
    i < j => given[i] = given[j] \/ given[i] = given[j] + 1

\* start() returns, no wakeup is lost between startLoop and threadFunc; and so does
\* ~EventLoopThreadPool, no thread sleeps on through its quit(), unless the loop is
\* gone when quit() comes to wake it.
CallsReturn ==
  /\ <>(at = "serve")
  /\ at = "end" ~> at = "gone" \/ (at = "wakeup" /\ ~Exists(t))

\* quit() never writes to the eventfd of a loop that is destroyed.
QuitFindsLoop == at = "wakeup" => Exists(t)
=============================================================================
