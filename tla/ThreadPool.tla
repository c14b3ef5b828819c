----------------------------- MODULE ThreadPool -----------------------------
(***************************************************************************)
(* The general thread pool of an earlier stage (legacy/ThreadPool.h,       *)
(* legacy/ThreadPool.cpp): tasks_ behind queue_mutex_ and condition_, the  *)
(* workers, addTask from the owner of the pool and from running tasks, and *)
(* the destructor, which sets stop_ without the mutex.                     *)
(*                                                                         *)
(* A task stands for one packaged_task.  stop_ is atomic; tasks_ is read   *)
(* without the mutex by the condition of workerLoop's while, as it was     *)
(* before or after the change another worker is making.                    *)
(***************************************************************************)
EXTENDS Naturals, Sequences, FiniteSets

CONSTANTS
  Workers,      \* workers_: the constructor sees to it that there is one
  Owner,        \* the thread that adds tasks and destroys the pool
  Tasks,        \* the tasks there are, each added at most once
  None

ASSUME WorkersAssumption ==
  Workers # {} /\ Owner \notin Workers /\ None \notin Workers \union Tasks

Threads == Workers \union {Owner}

VARIABLES
  tasks,        \* tasks_
  stop,         \* stop_
  mutex,        \* who holds queue_mutex_
  waiting,      \* who sleeps on condition_
  pc,           \* where a thread is
  task,         \* per thread: the task it runs
  adding,       \* per thread: the task it is in addTask with
  added,        \* history: tasks in the order in which they were put into tasks_
  refused,      \* history: tasks addTask has thrown for
  begun,        \* history: tasks in the order in which workers took them
  done          \* history: tasks that have run

history == <<added, refused, begun, done>>
vars    == <<tasks, stop, mutex, waiting, pc, task, adding, history>>

Elements(s) == {s[i] : i \in DOMAIN s}

\* A task nobody has called addTask with.
New(t) == t \in Tasks \ (Elements(added) \union refused \union {adding[p] : p \in Threads})

Init ==
  /\ tasks = <<>>
  /\ stop = FALSE
  /\ mutex = None
  /\ waiting = {}
  /\ pc = [p \in Threads |-> IF p = Owner THEN "user" ELSE "loop"]
  /\ task = [p \in Threads |-> None]
  /\ adding = [p \in Threads |-> None]
  /\ added = <<>>
  /\ refused = {}
  /\ begun = <<>>
  /\ done = {}

Goto(p, where) == pc' = [pc EXCEPT ![p] = where]
-----------------------------------------------------------------------------
(* addTask, called by the owner or by a task that runs on a worker. *)

\* if(stop_) throw
AddTask(p, t) ==
  /\ pc[p] \in {"user", "run"}
  /\ New(t)
  /\ IF stop
     THEN /\ refused' = refused \union {t}
          /\ UNCHANGED <<adding, pc>>
     ELSE /\ adding' = [adding EXCEPT ![p] = t]
          /\ Goto(p, "add")
          /\ UNCHANGED refused
  /\ UNCHANGED <<tasks, stop, mutex, waiting, task, added, begun, done>>

\* Slip: what goes into the queue is not the new task.
SlipEnqueue(p) ==
  /\ pc[p] = "add"
  /\ mutex = None
  /\ tasks' = Append(tasks, task[p])
  /\ added' = Append(added, adding[p])
  /\ Goto(p, "notify")
  /\ UNCHANGED <<stop, mutex, waiting, task, adding, refused, begun, done>>

\* Under the mutex: tasks_.emplace
Enqueue(p) ==
  /\ pc[p] = "add"
  /\ mutex = None
  /\ tasks' = Append(tasks, adding[p])
  /\ added' = Append(added, adding[p])
  /\ Goto(p, "notify")
  /\ UNCHANGED <<stop, mutex, waiting, task, adding, refused, begun, done>>

\* Slip: addTask returns without notify_one.
SlipNotifyOne(p) ==
  /\ pc[p] = "notify"
  /\ Goto(p, IF p = Owner THEN "user" ELSE "run")
  /\ adding' = [adding EXCEPT ![p] = None]
  /\ UNCHANGED <<tasks, stop, mutex, waiting, task, history>>

\* condition_.notify_one()
NotifyOne(p) ==
  /\ pc[p] = "notify"
  /\ Goto(p, IF p = Owner THEN "user" ELSE "run")
  /\ adding' = [adding EXCEPT ![p] = None]
  /\ IF waiting = {} THEN UNCHANGED waiting
     ELSE \E w \in waiting : waiting' = waiting \ {w}
  /\ UNCHANGED <<tasks, stop, mutex, task, history>>
-----------------------------------------------------------------------------
(* workerLoop *)

\* Slip: a stopped worker leaves although tasks wait.
SlipLoop(w) ==
  /\ pc[w] = "loop"
  /\ Goto(w, IF ~stop THEN "lock" ELSE "ended")
  /\ UNCHANGED <<tasks, stop, mutex, waiting, task, adding, history>>

\* while(!stop_ || !tasks_.empty())
Loop(w) ==
  /\ pc[w] = "loop"
  /\ Goto(w, IF ~stop \/ tasks # <<>> THEN "lock" ELSE "ended")
  /\ UNCHANGED <<tasks, stop, mutex, waiting, task, adding, history>>

\* The mutex is taken, at first or by wait() for a worker that was woken.
Lock(w) ==
  /\ pc[w] = "lock"
  /\ mutex = None
  /\ w \notin waiting
  /\ mutex' = w
  /\ Goto(w, "test")
  /\ UNCHANGED <<tasks, stop, waiting, task, adding, history>>

\* The predicate of wait(), evaluated with the mutex held: go on, or go to sleep.
Test(w) ==
  /\ pc[w] = "test"
  /\ Goto(w, IF stop \/ tasks # <<>> THEN "take" ELSE "sleep")
  /\ UNCHANGED <<tasks, stop, mutex, waiting, task, adding, history>>

\* wait(): release the mutex and sleep, in one step as far as notify is concerned.
Sleep(w) ==
  /\ pc[w] = "sleep"
  /\ mutex' = None
  /\ waiting' = waiting \union {w}
  /\ Goto(w, "lock")
  /\ UNCHANGED <<tasks, stop, task, adding, history>>

SpuriousWakeup(w) ==
  /\ w \in waiting
  /\ waiting' = waiting \ {w}
  /\ UNCHANGED <<tasks, stop, mutex, pc, task, adding, history>>

\* Slip: the task is read from the front and never popped.
SlipTake(w) ==
  /\ pc[w] = "take"
  /\ mutex' = None
  /\ IF tasks = <<>>
     THEN /\ Goto(w, "ended")
          /\ UNCHANGED <<task, begun>>
     ELSE /\ task' = [task EXCEPT ![w] = Head(tasks)]
          /\ begun' = Append(begun, Head(tasks))
          /\ Goto(w, "run")
  /\ UNCHANGED <<tasks, stop, waiting, adding, added, refused, done>>

\* The pool has stopped and nothing is left; or the oldest task is taken.
Take(w) ==
  /\ pc[w] = "take"
  /\ mutex' = None
  /\ IF stop /\ tasks = <<>>
     THEN /\ Goto(w, "ended")
          /\ UNCHANGED <<tasks, task, begun>>
     ELSE /\ task' = [task EXCEPT ![w] = Head(tasks)]
          /\ begun' = Append(begun, Head(tasks))
          /\ tasks' = Tail(tasks)
          /\ Goto(w, "run")
  /\ UNCHANGED <<stop, waiting, adding, added, refused, done>>

\* task() returns.
TaskReturns(w) ==
  /\ pc[w] = "run"
  /\ done' = done \union {task[w]}
  /\ task' = [task EXCEPT ![w] = None]
  /\ Goto(w, "loop")
  /\ UNCHANGED <<tasks, stop, mutex, waiting, adding, added, refused, begun>>
-----------------------------------------------------------------------------
(* ~ThreadPool *)

\* stop_ = true, and nobody holds the mutex for it.
Stop ==
  /\ pc[Owner] = "user"
  /\ stop' = TRUE
  /\ Goto(Owner, "notifyAll")
  /\ UNCHANGED <<tasks, mutex, waiting, task, adding, history>>

\* Slip: notify_one, as after a new task.
SlipNotifyAll ==
  /\ pc[Owner] = "notifyAll"
  /\ IF waiting = {} THEN UNCHANGED waiting
     ELSE \E w \in waiting : waiting' = waiting \ {w}
  /\ Goto(Owner, "join")
  /\ UNCHANGED <<tasks, stop, mutex, task, adding, history>>

\* condition_.notify_all()
NotifyAll ==
  /\ pc[Owner] = "notifyAll"
  /\ waiting' = {}
  /\ Goto(Owner, "join")
  /\ UNCHANGED <<tasks, stop, mutex, task, adding, history>>

\* worker.join() for all of them
Join ==
  /\ pc[Owner] = "join"
  /\ \A w \in Workers : pc[w] = "ended"
  /\ Goto(Owner, "gone")
  /\ UNCHANGED <<tasks, stop, mutex, waiting, task, adding, history>>
-----------------------------------------------------------------------------
Worker(w) == Loop(w) \/ Lock(w) \/ Test(w) \/ Sleep(w) \/ Take(w) \/ TaskReturns(w)

Adding(p) == Enqueue(p) \/ NotifyOne(p)

Destructor == NotifyAll \/ Join

Next ==
  \/ \E w \in Workers : Worker(w) \/ SpuriousWakeup(w)
  \/ \E p \in Threads : Adding(p) \/ \E t \in Tasks : AddTask(p, t)
  \/ Stop \/ Destructor

SafeSpec == Init /\ [][Next]_vars

\* Threads that can go on do, tasks return, and a thread that wants the mutex gets
\* it in the end.
Spec ==
  /\ SafeSpec
  /\ \A w \in Workers : WF_vars(Worker(w)) /\ SF_vars(Lock(w))
  /\ \A p \in Threads : WF_vars(Adding(p)) /\ SF_vars(Enqueue(p))
  /\ WF_vars(Destructor)
-----------------------------------------------------------------------------
TypeOK ==
  /\ tasks \in Seq(Tasks)
  /\ stop \in BOOLEAN
  /\ mutex \in Workers \union {None}
  /\ waiting \in SUBSET Workers
  /\ pc \in [Threads -> {"user", "add", "notify", "notifyAll", "join", "gone", "loop",
                         "lock", "test", "sleep", "take", "run", "ended"}]
  /\ task \in [Threads -> Tasks \union {None}]
  /\ adding \in [Threads -> Tasks \union {None}]
  /\ {added, begun} \subseteq Seq(Tasks)
  /\ refused \in SUBSET Tasks
  /\ done \in SUBSET Tasks

\* Tasks are taken in the order in which they were added, each of them by one
\* worker, whoever of the woken and the busy workers is first.
TakenInOrder ==
  /\ begun \o tasks = added
  /\ \A v, w \in Workers : v # w /\ task[v] # None => task[v] # task[w]

\* When the destructor returns every task that addTask accepted has run, those
\* included that running tasks added while the pool was being stopped.
AcceptedHaveRun ==
  pc[Owner] = "gone" =>
    /\ Elements(added) \subseteq done
    /\ \A p \in Threads : adding[p] = None

\* A task in the queue is run: no notify_one is lost or wasted on a busy worker.
AcceptedAreRun == \A t \in Tasks : t \in Elements(added) ~> t \in done

\* The destructor returns, unless a worker that had found neither a task nor stop_
\* before falls asleep after notify_all: nobody holds queue_mutex_ to prevent that.
DestructorReturns ==
  pc[Owner] = "notifyAll" ~>
    pc[Owner] = "gone" \/ (pc[Owner] = "join" /\ \E w \in Workers : pc[w] = "sleep")
=============================================================================
