----------------------------- MODULE EventLoop -----------------------------
(***************************************************************************)
(* One EventLoop (EventLoop.h, EventLoop.cpp) with the Epoll it owns: the  *)
(* loop thread, and the threads that hand it work with runInLoop() or end  *)
(* it with quit().                                                         *)
(*                                                                         *)
(* A task stands for one functor given to runInLoop(); each is given once. *)
(* A critical section of mutex_ is one push_back or one swap, touches no   *)
(* other shared state, and is one step here.  What runs between the push   *)
(* and the write to the eventfd, between the read of the eventfd and the   *)
(* swap, and between two functors is left to the interleaving.             *)
(***************************************************************************)
EXTENDS Naturals, Sequences

CONSTANTS
  Callers,      \* threads, other than the loop's, that call runInLoop and quit
  Tasks,        \* the functors given to the loop
  Channels,     \* the channels registered beside eventfdchannel_
  EventFd       \* eventfdchannel_

ASSUME EventFdAssumption == EventFd \notin Channels

VARIABLES
  pending,      \* pendingFunctors_
  eventfd,      \* the kernel's counter behind eventfd_
  quit,         \* quit_
  pc,           \* where the loop thread is
  active,       \* channels poll() returned and loop() has still to handle
  functors,     \* the local vector of doPendingFunctors, less what has run
  callerPc,     \* per caller: "idle", or "wakeup" between its store and write()
  queued,       \* history: tasks pushed on pendingFunctors_, in order
  done,         \* history: tasks run by doPendingFunctors, in order
  direct        \* history: tasks runInLoop() ran on the spot

loopVars == <<pc, active, functors>>
shared   == <<pending, eventfd, quit>>
history  == <<queued, done, direct>>
vars     == <<shared, loopVars, callerPc, history>>

Elements(s) == {s[i] : i \in DOMAIN s}

Ungiven(t) == t \in Tasks \ (Elements(queued) \union direct)

Init ==
  /\ pending = <<>>
  /\ eventfd = 0
  /\ quit = FALSE
  /\ pc = "check"
  /\ active = {}
  /\ functors = <<>>
  /\ callerPc = [c \in Callers |-> "idle"]
  /\ queued = <<>>
  /\ done = <<>>
  /\ direct = {}
-----------------------------------------------------------------------------
(* The threads that use the loop. *)

\* queueInLoop: push under the lock; the caller still has to wake the loop.
QueueInLoop(c, t) ==
  /\ callerPc[c] = "idle"
  /\ Ungiven(t)
  /\ pending' = Append(pending, t)
  /\ queued' = Append(queued, t)
  /\ callerPc' = [callerPc EXCEPT ![c] = "wakeup"]
  /\ UNCHANGED <<eventfd, quit, loopVars, done, direct>>

\* Slip: quit() without its wakeup().
SlipQuitSilently(c) ==
  /\ callerPc[c] = "idle"
  /\ ~quit
  /\ quit' = TRUE
  /\ UNCHANGED <<pending, eventfd, loopVars, callerPc, history>>

\* quit: store the flag; the caller still has to wake the loop.  Bound: a second
\* quit() is not modelled, it adds one more wakeup and nothing else.
Quit(c) ==
  /\ callerPc[c] = "idle"
  /\ ~quit
  /\ quit' = TRUE
  /\ callerPc' = [callerPc EXCEPT ![c] = "wakeup"]
  /\ UNCHANGED <<pending, eventfd, loopVars, history>>

\* wakeup: write(eventfd_, 1).
Wakeup(c) ==
  /\ callerPc[c] = "wakeup"
  /\ eventfd' = eventfd + 1
  /\ callerPc' = [callerPc EXCEPT ![c] = "idle"]
  /\ UNCHANGED <<pending, quit, loopVars, history>>

\* Slip: the else of runInLoop is missing, and the task is queued as well.
SlipRunAndQueue(t) ==
  /\ pc \in {"callback", "functor"}
  /\ Ungiven(t)
  /\ direct' = direct \union {t}
  /\ pending' = Append(pending, t)
  /\ queued' = Append(queued, t)
  /\ eventfd' = eventfd + 1
  /\ UNCHANGED <<quit, loopVars, callerPc, done>>

\* runInLoop on the loop's own thread, out of a callback or a functor: cb() runs
\* now, before everything that waits in the queue.
RunInLoopHere(t) ==
  /\ pc \in {"callback", "functor"}
  /\ Ungiven(t)
  /\ direct' = direct \union {t}
  /\ UNCHANGED <<shared, loopVars, callerPc, queued, done>>
-----------------------------------------------------------------------------
(* The loop thread. *)

\* while(!quit_.load())
Check ==
  /\ pc = "check"
  /\ pc' = IF quit THEN "stopped" ELSE "poll"
  /\ UNCHANGED <<shared, active, functors, callerPc, history>>

\* epoll_wait returns some of what is ready.  The eventfd is ready while its
\* counter is not zero (level-triggered); other channels whenever they please.
\* The array holds 64 events, so a crowded epoll may leave any of them out.
PollReturns(ready) ==
  /\ pc = "poll"
  /\ ready # {}
  /\ EventFd \in ready => eventfd > 0
  /\ active' = ready
  /\ pc' = "dispatch"
  /\ UNCHANGED <<shared, functors, callerPc, history>>

\* epoll_wait fails, with EINTR when a signal arrives: poll() returns {}.
PollInterrupted ==
  /\ pc = "poll"
  /\ pc' = "dispatch"
  /\ UNCHANGED <<shared, active, functors, callerPc, history>>

\* for(Channel* ch : active_channels) ch->handleEvent(), for a channel of a user.
DispatchChannel(ch) ==
  /\ pc = "dispatch"
  /\ ch \in active \ {EventFd}
  /\ active' = active \ {ch}
  /\ pc' = "callback"
  /\ UNCHANGED <<shared, functors, callerPc, history>>

CallbackReturns ==
  /\ pc = "callback"
  /\ pc' = "dispatch"
  /\ UNCHANGED <<shared, active, functors, callerPc, history>>

\* handleReadEventFd: the read takes the whole counter and sets it to zero.  When
\* it does not give 8 bytes the pending functors are left for another time.
HandleReadEventFd ==
  /\ pc = "dispatch"
  /\ EventFd \in active
  /\ active' = active \ {EventFd}
  /\ eventfd' = 0
  /\ pc' = IF eventfd > 0 THEN "swap" ELSE "dispatch"
  /\ UNCHANGED <<pending, quit, functors, callerPc, history>>

\* Slip: the queue is copied, not swapped.
SlipCopyFunctors ==
  /\ pc = "swap"
  /\ functors' = pending
  /\ pc' = "run"
  /\ UNCHANGED <<pending, eventfd, quit, active, callerPc, history>>

\* doPendingFunctors, under the lock: take the whole queue.
SwapFunctors ==
  /\ pc = "swap"
  /\ functors' = pending
  /\ pending' = <<>>
  /\ pc' = "run"
  /\ UNCHANGED <<eventfd, quit, active, callerPc, history>>

\* Slip: the batch is run from its back.
SlipRunLastFunctor ==
  /\ pc = "run"
  /\ functors # <<>>
  /\ done' = Append(done, functors[Len(functors)])
  /\ functors' = SubSeq(functors, 1, Len(functors) - 1)
  /\ pc' = "functor"
  /\ UNCHANGED <<shared, active, callerPc, queued, direct>>

\* doPendingFunctors, outside the lock: call the next functor.
RunFunctor ==
  /\ pc = "run"
  /\ functors # <<>>
  /\ done' = Append(done, Head(functors))
  /\ functors' = Tail(functors)
  /\ pc' = "functor"
  /\ UNCHANGED <<shared, active, callerPc, queued, direct>>

FunctorReturns ==
  /\ pc = "functor"
  /\ pc' = "run"
  /\ UNCHANGED <<shared, active, functors, callerPc, history>>

\* Slip: the eventfd is drained after the functors have run, not before.
SlipDrainLate ==
  /\ pc = "run"
  /\ functors = <<>>
  /\ eventfd' = 0
  /\ pc' = "dispatch"
  /\ UNCHANGED <<pending, quit, active, functors, callerPc, history>>

FunctorsDone ==
  /\ pc = "run"
  /\ functors = <<>>
  /\ pc' = "dispatch"
  /\ UNCHANGED <<shared, active, functors, callerPc, history>>

\* The for loop is over: back to the condition of the while loop.
DispatchDone ==
  /\ pc = "dispatch"
  /\ active = {}
  /\ pc' = "check"
  /\ UNCHANGED <<shared, active, functors, callerPc, history>>
-----------------------------------------------------------------------------
Sources == Channels \union {EventFd}

\* What the loop thread does when it is not in epoll_wait: code, which goes on.
Awake ==
  \/ Check
  \/ \E ch \in Channels : DispatchChannel(ch)
  \/ CallbackReturns
  \/ HandleReadEventFd
  \/ SwapFunctors
  \/ RunFunctor
  \/ FunctorReturns
  \/ FunctorsDone
  \/ DispatchDone

LoopThread == Awake \/ \E ready \in SUBSET Sources : PollReturns(ready)

Next ==
  \/ LoopThread
  \/ PollInterrupted
  \/ \E t \in Tasks : RunInLoopHere(t)
  \/ \E c \in Callers : Quit(c) \/ Wakeup(c)
  \/ \E c \in Callers, t \in Tasks : QueueInLoop(c, t)

\* Every thread that can go on does; callbacks and functors return; and epoll
\* rotates its ready list, so a ready eventfd is not left out for ever.  Nothing
\* says that another channel is ever ready: only the eventfd ends a sleep for sure.
Fairness ==
  /\ WF_vars(Awake)
  /\ SF_vars(\E ready \in SUBSET Sources : EventFd \in ready /\ PollReturns(ready))
  /\ \A c \in Callers : WF_vars(Wakeup(c))

SafeSpec == Init /\ [][Next]_vars

Spec == SafeSpec /\ Fairness
-----------------------------------------------------------------------------
\* The types; a task is queued, or run on the spot, or neither, but never both.
TypeOK ==
  /\ pending \in Seq(Tasks)
  /\ eventfd \in Nat
  /\ quit \in BOOLEAN
  /\ pc \in {"check", "poll", "dispatch", "callback", "swap", "run", "functor",
             "stopped"}
  /\ active \in SUBSET Sources
  /\ functors \in Seq(Tasks)
  /\ callerPc \in [Callers -> {"idle", "wakeup"}]
  /\ queued \in Seq(Tasks)
  /\ done \in Seq(Tasks)
  /\ direct \in SUBSET (Tasks \ Elements(queued))

WakeupComing == eventfd > 0 \/ \E c \in Callers : callerPc[c] = "wakeup"

\* No lost wakeup.  Whenever tasks wait in pendingFunctors_, the loop has been
\* woken for them, is about to be, or is on its way to take them; and a loop that
\* sits in epoll_wait although quit() was called is about to be woken.  This is
\* why handleReadEventFd reads the counter before it swaps the queue, and why
\* quit() and queueInLoop() store first and write to the eventfd afterwards.
NoLostWakeup ==
  /\ pending # <<>> => WakeupComing \/ pc = "swap"
  /\ quit /\ pc = "poll" => WakeupComing

\* Every task handed over by another thread is in exactly one place - run, in the
\* batch being run, or waiting - and in the order of the push_backs, through every
\* swap of the queue under the feet of the callers.
ExactlyOnceInOrder == done \o functors \o pending = queued

\* quit() ends the loop even when it sleeps in epoll_wait: loop() returns.
QuitStopsLoop == quit ~> pc = "stopped"

\* The loop implements the task queue its callers rely on.  It is the task about
\* to be called that counts as executed.
TQ == INSTANCE TaskQueue WITH
  queue <- functors \o pending,
  stopped <- pc = "stopped"

ImplementsTaskQueue == TQ!Spec
=============================================================================
