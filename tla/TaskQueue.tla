----------------------------- MODULE TaskQueue -----------------------------
(***************************************************************************)
(* What an event loop promises to the threads that hand it work: a task    *)
(* given to it from another thread is executed once, in the order in which *)
(* tasks were given; a task given from the loop's own thread is executed   *)
(* on the spot; and as long as the loop has not stopped a waiting task is  *)
(* eventually executed.  A loop that stops abandons what still waits.      *)
(* EventLoop.tla is shown to implement this specification.                 *)
(***************************************************************************)
EXTENDS Sequences

CONSTANT Tasks          \* the functors the program submits, each of them once

VARIABLES
  queue,                \* submitted from other threads, not yet executed
  done,                 \* executed from the queue, in order of execution
  direct,               \* executed at once, submitted by the loop's own thread
  stopped               \* the loop has returned from loop()

vars == <<queue, done, direct, stopped>>

Elements(s) == {s[i] : i \in DOMAIN s}

\* A task that nobody has submitted yet.
Fresh(t) == t \in Tasks \ (Elements(queue) \union Elements(done) \union direct)

Init ==
  /\ queue = <<>>
  /\ done = <<>>
  /\ direct = {}
  /\ stopped = FALSE

Submit(t) ==
  /\ Fresh(t)
  /\ queue' = Append(queue, t)
  /\ UNCHANGED <<done, direct, stopped>>

Execute ==
  /\ ~stopped
  /\ queue # <<>>
  /\ done' = Append(done, Head(queue))
  /\ queue' = Tail(queue)
  /\ UNCHANGED <<direct, stopped>>

ExecuteDirectly(t) ==
  /\ ~stopped
  /\ Fresh(t)
  /\ direct' = direct \union {t}
  /\ UNCHANGED <<queue, done, stopped>>

Stop ==
  /\ ~stopped
  /\ stopped' = TRUE
  /\ UNCHANGED <<queue, done, direct>>

Next ==
  \/ \E t \in Tasks : Submit(t) \/ ExecuteDirectly(t)
  \/ Execute
  \/ Stop

SafeSpec == Init /\ [][Next]_vars

Spec == SafeSpec /\ WF_vars(Execute)
=============================================================================
