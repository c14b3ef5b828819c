# Verification of the multi-reactor TCP server

TLA+ models of the server in `src/` (one event loop per thread, echo over TCP)
of the servers and the thread pool of its earlier stages in `legacy/`, and of the
load test client in `tools/`; the TLC runs that check them on small instances; and
TLAPS proofs of the main results for instances of every size. `PROJECT.json` lists components, runs, mutants, the source lines
behind every definition, findings, hazards and theorems. Paths below are those
of the repository.

## The system

| component | state | operations | works with |
|---|---|---|---|
| `EventLoop` (src/EventLoop.cpp) | `quit_`, `eventfd_`, `pendingFunctors_` behind `mutex_` | `loop`, `quit`, `runInLoop`, `queueInLoop`, `handleReadEventFd`, `doPendingFunctors` | called by every thread; owns one `Epoll` |
| `Epoll` (src/Epoll.cpp) | `epoll_fd_`, `active_events_` | `poll`, `updateChannel`, `removeChannel` | keeps raw `Channel*` |
| `Channel` (src/Channel.cpp) | `events_`, `revents_`, `index_`, callbacks | `handleEvent`, `enable…`/`disable…` | owned by its connection |
| `TcpConnection` (src/TcpConnection.cpp) | `state_`, `input_buffer_`, `output_buffer_` | `handleRead`, `handleWrite`, `handleError`, `handleClose`, `send`, `forceClose`, `connectEstablished`, `connectDestroyed` | its loop; `closeCallback_` to the server |
| `TcpServer` (src/TcpServer.cpp) | `connections_`, `listen_fd_` | `handleAccept`, `removeConnection(InLoop)`, destructor | main loop, thread pool, connections |
| `EventLoopThread`, `EventLoopThreadPool` | `loop_`, `mutex_`, `cond_`; `loops_`, `next_` | `startLoop`, `threadFunc`, destructor; `start`, `getNextLoop` | one thread per loop |
| main program (src/test_reactor_server.cpp) | `g_loop` | `signalHandler`, `main` | `quit()` from a signal |
| legacy `ThreadPool` | `tasks_`, `stop_`, `workers_` | `addTask`, `workerLoop`, destructor | its owner, its tasks |
| legacy epoll servers (`epoll_server_skel`, `_lt`, `_et`, `_buffer`) | descriptors in epoll, `running`; `output_buffers` in the last | one `main` each | level- or edge-triggered epoll |
| legacy blocking servers (`echo_server`, `_fork`, `_pthread`) | `running`, the `client_fd` of `main`, children or threads | `main`, `handle_client`, the signal handler | blocking sockets, `fork`, `pthread_create` |
| `tools/load_test_client.cpp` | `stats_`, `stop_`, the workers' sockets and latencies | `run`, `worker`, `sendFull`, `recvFull`, `printReport` | any echo server, over TCP |

A client is accepted on the main loop; the connection goes into `connections_`
and its registration travels, as a functor with a `shared_ptr`, to a sub loop.
There it is read, echoed and written. When it closes, `closeCallback_` sends a
functor back to the main loop, which erases the entry and sends the last
`shared_ptr` to the sub loop again; the destructor closes the descriptor. SIGINT
ends the main loop, and the destructors of `main()` end everything else.

What is hard here: tasks and wakeups between threads; the order in which
references come and go while raw pointers are in use; descriptors that get
reused while removals are under way; a client that finishes or resets between
any two system calls; partial sends; loops and threads that end while others
still use them.

What makes each part correct:

* an event loop never sleeps on a task or on `quit()`, and runs each task once and in order;
* `connections_` maps a descriptor to the connection that has it, no thread touches a connection that is gone, and a client that leaves costs nothing afterwards;
* a connection echoes exactly what it gets, and waits for EPOLLOUT exactly when it has to;
* `startLoop` returns a loop that runs, loops are used in turn, destructors return;
* the thread pool runs what it accepts, in order, and its destructor returns;
* an edge-triggered server uses up every edge it is told of; what a client writes is
  read, never doubled and never given to another client, and with `output_buffers` none
  of it is lost;
* a blocking server keeps the clients apart, makes others wait for a slow one only where
  it is meant to, closes a connection in every process that has it, and ends on SIGINT;
* the load test client times each request with its own answer, counts everything once,
  and comes back when its time is over.

## Modules

`TaskQueue` is what an event loop promises: tasks given from other threads are
executed once, in order; those given on the loop's thread at once; a waiting
task is executed unless the loop stops.

`EventLoop` is one loop with its `Epoll`. `pending`, `eventfd`, `quit` are
`pendingFunctors_`, the kernel's counter and `quit_`; `functors` is the local
vector of `doPendingFunctors`. The two halves of `queueInLoop()` and of `quit()`
(the store, the write to the eventfd) are separate steps, as are the read of the
eventfd, the swap of the queue and each functor. A critical section of `mutex_`
is one step, because all it does is one push or one swap. `epoll_wait` may
return any part of what is ready, and may be interrupted. The module ends with
the refinement: the loop implements `TaskQueue`, whose queue is the running
batch followed by `pendingFunctors_`.

`TcpServer` is the life of connections across loops: `connections`, the functors
on their way (`pending`, `batch`), the list `epoll_wait` returned (`ready`), the
connection a thread is busy with (`cur`). `Alive(c)` says that some `shared_ptr`
to `c` exists: in `connections_`, bound in a functor that waits or belongs to the
batch being run, or in the hand of the loop of `~TcpServer`. Raw pointers
(`ready`, `cur`) do not count; that is what the properties are about.
`handleClose` is two steps, the store of `kDisconnected` and the rest; the test
and the store of `forceClose` are two steps. `SubLoops` is the sequence of sub
loops; empty, it is the single reactor, where `runInLoop` runs at once.
`EnableReading` lets `epoll_ctl` fail, which `Epoll::update` only logs: such a
connection is in service and in no epoll (`Refused`). `MCTcpServer` gives
`SubLoops` its values. How a loop is woken is left to `EventLoop`, so
here a loop with waiting functors is simply ready; what is read and written is
left to `TcpConnection`.

`TcpConnection` is one established connection and its bytes. `rcvbuf` and
`sndbuf` are the kernel's; each `recv` and `send` is a step, and the client moves
in between. Other threads call `send()` (`messages`) and `forceClose()` (`closer`).
As in the code, a client's last bytes are lost when its FIN is there already (`ReceiveEnd`).

`EchoStream` is what a connection promises: one stream of bytes to the client, which
grows at its end only, by the echo of what the client wrote and by whole messages; it is
cut off at the end only, and only after the client has left or `forceClose` was called;
without that everything comes and is read. `TcpConnection` ends with the refinement: the
stream is what the client has read, what the kernel has, and what `output_buffer_` has
still to send as long as the channel can be reported again (`CanWrite`).

`EventLoopThreadPool` is the threads: `child` is where a thread is in
`threadFunc`, `at` where the main thread is in `start()`, `getNextLoop()` or the
destructors. The condition variable has spurious wakeups.

`ThreadPool` is the legacy pool. `stop_` is stored without the mutex, as in the
code; `Loop` reads `tasks_` without it.

`EpollServerBuffer` is the four epoll servers; the variable `program` says which one
a behaviour is of, and what they have in common is written once. `edge` is the kernel's
ready list: `epoll_wait` empties it, an event on the socket or `epoll_ctl` puts
an entry back, and in the level-triggered programs so does what is still there.
Room in a send buffer is an event only when it was full. A `send` on a connection that
was reset fails or, without `MSG_NOSIGNAL`, kills the process. `MCEpollServerBuffer`
says how much each client writes.

`BlockingServers` is the three blocking servers, again one `program` per behaviour. A
handler is what serves a client: `main` itself, a child process or a thread. `holders`
and `listening` say which processes have a socket open, because a descriptor that
`fork` copied is shut only when the last copy is closed. A call that waits falls asleep
at some moment, and only from then on does a signal interrupt it; `heeded` remembers
that SIGINT woke `main` from a sleep. `MCBlockingServers` gives the bounds per client.

`LoadTestClient` is the load test client, with the server as its environment: it may
be silent for ever, cut a connection at any time, or change a byte. A byte on its way
is the number of the round it belongs to, which the program cannot see; so the model
can tell a late answer from the right one. The socket timeouts may end any `send` or
`recv` that waits.

The proof modules are `EventLoopProofs`, `EventLoopThreadPoolProofs`,
`ThreadPoolProofs`, `TcpConnectionProofs`, `TcpServerProofs`, `EpollServerBufferProofs`,
`BlockingServersProofs` and `LoadTestClientProofs`, one for each model of a component.

The operators called `Slip…` are not part of the models. Each is a variant of the
definition after it with a plausible mistake (a forgotten wakeup, an erase that
hands nothing back, an index that does not wrap). Put in that definition's place
it breaks the property `PROJECT.json` names with it: this is how we know that the
properties can fail.

## Runs

| run | instance | shows |
|---|---|---|
| `EventLoop` | 2 callers, 3 tasks, 1 channel | `NoLostWakeup`, `ExactlyOnceInOrder`, `QuitStopsLoop`, `ImplementsTaskQueue` (with its liveness) |
| `TcpServer` | 2 sub loops, 2 clients, 2 descriptors, failing `epoll_ctl` | `NoUseAfterFreeWhileServing`, `ServedAreKnown`, `EntriesOutlastService`, `NothingLeftAtExit` |
| `TcpServerLiveness` | 2 sub loops, 2 clients, 1 descriptor | `LeaversAreReleased`, `InterruptEndsServer` |
| `TcpConnection` | 3 bytes to echo, 2 messages of 2 bytes, kernel buffers of 2 | `EchoIsExact`, `MessagesIntact`, `InterestFollowsOutput`, `ImplementsEchoStream` (with its liveness), `CloseIsFinished` |
| `EventLoopThreadPool` | 3 threads, 3 `getNextLoop` counted | `StartedLoopsRun`, `LoopsTakeTurns`, `CallsReturn` |
| `ThreadPool` | 2 workers, 3 tasks | `TakenInOrder`, `AcceptedHaveRun`, `AcceptedAreRun`, `DestructorReturns` |
| `EpollServerBuffer` | four programs, 2 clients on 1 descriptor, 3 bytes and 1, send buffer of 1 | `EchoIsComplete`, `NoEdgeMissed`, `EchoComesBack` |
| `BlockingServers` | three programs, 2 clients, 2 bytes and 1, send buffer of 1 | `EchoIsExact`, `EchoComesBack`, `LeaversAreReleased`, `InterruptStops` |
| `LoadTestClient` | 2 workers, 2 rounds of 3 bytes, send buffer of 2 | `AnswersAreOwn`, `ReportAddsUp`, `RunReturns` |

Each of them checks its module's `TypeOK` too (`TcpServerLiveness` leaves it to
`TcpServer`). Three runs show where the code does not do what its documentation
says; TLC ends them with a counterexample:

* `TcpServerSingle` (`NoUseAfterFree`): with `threadNum = 0` the close callback
  destroys the connection and its `Channel` while `Channel::handleEvent` runs in it.
* `TcpServerTeardown` (`NoUseAfterFree`): `~TcpServer` clears `connections_` while
  the sub loops still run; a connection that `forceClose` passed over is destroyed
  under the hands of its loop.
* `EventLoopThreadPoolQuit` (`QuitFindsLoop`): between `quit_.store(true)` and
  `wakeup()` the loop can end and be destroyed.

More disagreements are findings without a run; the models have the behaviour, and the
property named with it allows exactly that:

* the destructor of the legacy pool sets `stop_` without `queue_mutex_`: a worker between
  its test and its sleep misses `notify_all`, and `join` waits for ever (`DestructorReturns`);
* in `epoll_server_buffer` new bytes overtake those in `output_buffers`
  (`EchoIsComplete` compares the set of bytes there, not their order);
* `epoll_server_et` and `epoll_server_lt` lose the rest of a buffer when `send` would block
  (`EchoIsComplete` asks them for order only);
* a SIGINT between the test of `running` and the sleep in `accept` goes unnoticed in the
  blocking servers, as does one that another thread is given: the server stays for ever
  when nobody connects any more (`InterruptStops` allows it just as long as `accept` has
  nobody to take, or a single server has its client);
* a client's last bytes are not echoed when its FIN is read in the same `handleRead`;
* `forceClose` can make `handleClose` run twice, which its guard is there to prevent;
* the signal handler is installed with `signal()`, where the documentation says `sigaction`.

### Bounds

The smallest instances in which the interesting cases meet. Two sub loops make
connections on different threads possible and are joined one after the other;
two clients with one or two descriptors make a descriptor be reused while the
removal of its former owner is on its way. Three tasks make a batch, a task that
arrives while it runs, and one that waits behind that. With kernel buffers of two
bytes (one in `EpollServerBuffer` and `BlockingServers`), three bytes have some sent,
some waiting and some arriving; two are enough where nothing is kept. In
`LoadTestClient` a message of three bytes and room for two make both `send` and `recv`
return a part, and the second round is where a late answer of the first would be taken
for its own. Clients connect once, and what is unbounded in the programs is bounded by the
constants `Tasks`, `EchoMax` (per client in `EpollServerBuffer` and
`BlockingServers`), `MsgMax`, `GiveMax` and `MaxRounds`; `RcvCap`, `SndCap`, `ReadSize`
and `MessageSize` are sizes; `quit()` is called once per loop
(a second call adds a wakeup). `epoll_wait` fits its events into the array in
`TcpServer`, `TcpConnection` and `EpollServerBuffer`, where a handful of
descriptors is open; `EventLoop` lets it leave any of them out. No run uses
symmetry. Deadlock is not checked: every one of these programs may stop, and when
it should not, a liveness property says so. In the models a use of a destroyed
object stops the thread that makes it, since the program's behaviour is undefined
from there on; `InterruptEndsServer` and `CallsReturn` except those states, which
`TcpServerTeardown` and `EventLoopThreadPoolQuit` report.

### Fairness

A thread that can go on does (weak fairness per thread): the operating system
schedules every thread, functors and callbacks return. A thread that waits for a
mutex gets it in the end (strong fairness of the step that takes it), as long as
the others release it. In `EventLoop` the eventfd is not left out of the result of
`epoll_wait` for ever: the kernel rotates the ready list when the array is full; no
other channel is assumed to be ever ready, so a sleep ends for sure only by a wakeup.
Clients owe nothing but this: in `TcpConnection`, `EpollServerBuffer` and
`BlockingServers` a client that is still there reads what it is sent. `accept` of a
blocking server may sleep for ever when nobody comes, so its failure is in no fairness
condition (`MainGoesOn` is `MainLoop` without it); while somebody waits it does not fail
for ever (strong fairness of `Accept`), nor does that of `TcpServer` while a descriptor
is free too. In `LoadTestClient` the time passes and the timeouts with it; the server
owes nothing at all. Nothing is assumed of signals, of when
clients come and go, of spurious wakeups, or of the calls the program makes.

## Proofs

All theorems hold for every value of the constants; the assumptions used are those
stated in the modules: the eventfd's channel is not a user's (`EventFdAssumption`), the
number of threads is a natural number, sizes are positive (`SizesAssumption`,
`ConfigAssumption`, which has a finite set of workers too), there is a worker and
the owner, `None` and the tasks differ from the workers (`WorkersAssumption`), the main
loop is no sub loop and is not told from connections by chance (`LoopsAssumption`), and
`None`, and `Main` of the blocking servers, are neither clients nor descriptors
(`ProgramsAssumption`). A theorem that needs more says so: `PoolIsAwake` counts the
workers and has a finite set of them, and those of `TcpServerProofs` a sub loop.
Modules with theorems are free of recursive operators, so that the SMT backend works.

`EventLoopProofs`
* `TypeCorrect`: `SafeSpec => []TypeOK`, which is inductive as it stands; it says too
  that no task is both queued and run on the spot (`ElementsOfAppend`).
* `WakeupsAreKept`: `SafeSpec => []NoLostWakeup`. The first half is not inductive:
  the loop leaves epoll_wait with the counter read and the tasks still in the
  queue. What is proved inductive says in addition where the loop is then (at the
  swap), with the types.
* `TasksRunOnceInOrder`: `SafeSpec => []ExactlyOnceInOrder`. The invariant
  `Account` adds that no task is queued twice; the lemmas `MoveHead`,
  `AppendToConcat`, `HeadOfConcat` and `ElementsOfConcat` say what the steps do to
  `done \o functors \o pending`.
* `LoopRefinesTaskQueue`: `SafeSpec => TQ!SafeSpec`. Each step maps to a step of
  `TaskQueue` or to a stutter; `UngivenIsFresh` carries the guard over.

`EventLoopThreadPoolProofs`
* `TypeCorrect`, `HandedOutLoopsRun` (`StartedLoopsRun`) and `RoundRobin`
  (`LoopsTakeTurns`) follow from one invariant, `Inv`: `StartInv` (threads are
  started one after the other, and nothing is handed out before), `HandshakeInv`
  (`loop_` is set exactly while the thread is between publishing and withdrawing
  its loop, and no loop is told to quit before the pool is destroyed) and
  `TurnInv` (the loops below `next_` have been handed out once more than the
  others). `LoopsTakeTurns` says nothing of `next_` and is not inductive without
  `TurnInv`; `TurnWraps` and `TurnKept` are its two lemmas.
* `NobodyWaitsInVain` is the safety under `CallsReturn`: `startLoop` sleeps only while the
  notify is still to come, the destructor joins only a thread that is past its loop or will
  see `quit_` without another wakeup, and no thread is left at the end. It needs `EndInv`:
  threads end one after the other, and those whose turn has not come serve on, untold.

`ThreadPoolProofs` (three invariants, each of which contains the one before)
* `TypeCorrect`, from `PlaceInv`: who is where, who has the mutex, who holds a task.
* `TasksTakenInOrder` (`TakenInOrder`), from `OrderInv`: in addition no task is queued
  twice, one that is being added or run is not queued, and what a worker runs has been
  taken. That two workers run different tasks is not inductive without it.
* `PoolDrains` (`AcceptedHaveRun`), from `StopInv`: in addition what was taken has run or
  runs, workers end only when `stop_` is set, and while tasks wait not all have ended: what
  comes after the queue was found empty comes from a running task, whose worker looks again.
* `PoolIsAwake` is the safety under `AcceptedAreRun`: while a worker sleeps, every task in
  the queue has somebody of its own on the way to it, a worker that will look before it
  sleeps or a thread about to notify. A weaker statement, that somebody looks when the queue
  is not empty, is not inductive: one `Take` uses one of them up. `Asleep` adds that a
  worker between test and sleep has found the queue empty and holds the mutex.

`TcpConnectionProofs`
* `TypeCorrect`, from `TypeInv`: the types and `Closing`, which says that only `forceClose`
  brings `state_` back from `kDisconnected`, once; that bounds `notified`.
* `InterestIsRight` (`InterestFollowsOutput`), from `FollowInv`: the channel and the epoll
  agree, and while the connection is up EPOLLOUT is asked for exactly when output waits,
  at every step and not only between two events.
* What was read, what the kernel has and what `output_buffer_` has still to send is one
  stream: `StreamReads`, `StreamWrites` and `StreamEndsWrite` show that bytes only move
  along it, `StreamSends` that `sendInLoop` adds at its end, whoever keeps what.
* `EchoIsExactAlways` (`EchoIsExact`), from `EchoInv`, which adds that `total_sent` is 0
  outside `handleWrite`. Its second half is what makes the first inductive: the bytes
  that are not in the stream yet wait, in order, where the next `recv` and the next echo
  find them.
* `MessagesIntactAlways` (`MessagesIntact`), from `MsgInv`, which contains `EchoInv` and
  adds that the messages in the queue of functors are in order and later than those in
  the stream, and that the stream of a client that is there does not end inside a
  message. `PlaceIsUnique` says that a byte belongs to one place of one message.
* `ConnectionIsEchoStream`: `SafeSpec => ES!SafeSpec`. Each step maps to a step of
  `EchoStream` or to a stutter, by the same lemmas on the stream. The invariant for it,
  `StreamInv`, adds to `EchoInv` and `Following` that messages and functors leave no gap
  (`GapInv`: the functors that wait carry exactly the messages that are not in the
  stream yet) and that what makes the loop close a connection has a reason
  (`ReasonInv`), without which a close could not be one that `EchoStream` allows.

`EpollServerBufferProofs`
* `TypeCorrect`, from `TypeInv`: the types and `PlaceInv`, what holds of the descriptor
  at hand where the server is.
* `NoEdgeIsMissed` (`NoEdgeMissed`), from `EdgeInv`, which says at every step, and not
  only in epoll_wait, where the news is that a descriptor has input, or room for the
  output that waits (`Going`), or that a client waits in the backlog (`Listening`): in the
  ready list, in the batch `events`, or in the server's hands, who is then at a point from
  where it looks again. `AlertClient`, `AlertBatch`, `AlertAccept` and so on are the lemmas
  for the steps. After a SIGINT the server may leave all of it behind, except where it is
  already on its way into epoll_wait: that is what `Awake` stands for. `PeopleInv`, on
  clients without a descriptor, is needed because a client may have written, or left,
  before it was accepted.
* `EchoIsWhole` (`EchoIsComplete`), from `ByteInv`, which adds that a client has one
  descriptor (`DistinctInv`) and what there is of a client who waits to be accepted
  (`FreshInv`). Most steps leave the trail of a client as it is (`TrailRecv`,
  `TrailWrite`, ...); one that sends before what waits in `output_buffers` keeps its
  length and its elements (`OvertakenIsWhole`), one that drops bytes its order
  (`DroppedIsWhole`).

`LoadTestClientProofs`
* `TypeCorrect`; `LatenciesAreOfExchanges` (`AnswersAreOwn`), from `AnswerInv`: on a
  connection that is in use every byte on its way or received belongs to the current
  round or was changed, and between rounds there is none; `ReportIsComplete`
  (`ReportAddsUp`), from `TallyInv`: at any time the counters, the requests in flight
  and the workers that have ended add up.
* `PercentileIsRight`: the index the report takes exists, and is the right one.

`TcpServerProofs`, for servers with at least one sub loop (`SubLoops # <<>>` is a
hypothesis of each theorem; without it `NoUseAfterFree` is false, see `TcpServerSingle`)
* `TypeCorrect`, `NoUseWhileServing` (`NoUseAfterFreeWhileServing`),
  `ServedAreKnownAlways` (`ServedAreKnown`), `NothingLeft` (`NothingLeftAtExit`) and
  `EntriesLast` (`EntriesOutlastService`) follow from one invariant, `Inv`. Its parts:
  `BirthInv` (who has a descriptor and an entry), `FunctorInv` and `OnceInv` (which
  functors of a connection can be on their way, in each of its states; it is established
  once), `ThreadInv` (what each thread has in its hands at each point), `RegisteredInv`,
  `KnownInv` (until `connections_` is cleared, what is watched, reported or handled is
  entered, or its last `shared_ptr` waits behind what its loop is doing), `ClosingInv`
  (what `~TcpServer` still has to visit is entered), `FdInv` (the descriptors of live
  connections differ) and `PhaseInv` (what only the end of the server brings about).
  None of the five is inductive alone: that an entry is not removed by a stranger needs
  `FdInv`, that needs what `Alive` means for connections on their way, and that a
  reported channel is alive needs the order of functors and events on a loop.
* `EntriesAreAttended` is the safety under `LeaversAreReleased`: until `connections_` is
  cleared, an entry of it that is not in service has the functor that will establish, close
  or remove it on its way to the right loop, or a thread in its `handleClose`. Without
  `Inv` it is not inductive: that a removal hits the entry it is meant for is `RemoveEffect`.
  `OnTheWayKept` and `BatchGoesOn` say that a functor is on its way until it is called.
* The proof says once what each step does (`...Effect`, `Moves`, `LoopThreadDoes`,
  `MainThreadDoes`), and has one lemma per part of `Inv` (`...Kept`).

`BlockingServersProofs`, for the three programs at once
* `TypeCorrect`, from `PlaceInv`: a client waits in the backlog once, until `main` takes
  it, and has a handler of its own after that, which serves no other.
* `DescriptorsAreOwned`, from `OwnerInv`: a socket is open in exactly the processes that
  have still to close it, `listen_fd` in `main` and in children that begin. `Owners` and
  `Listeners` say who that is, and each step of `fork`, `close` and the ends of handlers
  and of `main` is shown to change both sides alike.
* `NobodyIsForgotten` and `EndIsComplete` follow, with `AttendInv`: a connected client
  waits where somebody listens, is in the hands of `main`, or has a handler at work; and
  when all have ended nothing is open and nobody is left. They are the safety under
  `LeaversAreReleased` and `InterruptStops`.
* `EchoIsExactAlways` (`EchoIsExact`), from `ByteInv`: what has been received, what is on
  its way back, in the handler's buffer, and on its way there is one trail, in order, and
  complete while the server runs and the client is there. It contains `OwnerInv`, because
  a trail may have gaps only where a socket was closed early: by the end of the server,
  which in the single and the threaded program a handler at work rules out.

Only model-checked: all liveness (the prover handles neither fairness nor ENABLED), so
of the two refinements their `WF` half; and the server with a single reactor. Every
invariant and every action property that a run checks with success is a theorem.

## Not modelled

* A failing `epoll_ctl` that modifies or removes (one that adds is modelled); a failing
  `write` to the eventfd; a `send` that fails, with another error than EAGAIN, on a healthy connection.
* Failures of `socket`, `bind` and `listen`: the program ends before it serves.
* Addresses, printing, the size of buffers as such.
* The second SIGINT after the loop of `main()` is gone.
* Tasks of the legacy pool that throw, and its futures.
* The iterator of the loop in `~TcpServer`, which on a single reactor is
  invalidated by the erase `forceClose` leads to.
* The data race of the legacy pool's loop condition as a torn read: it sees the queue as
  it is at some moment.
* Of the load test client's report the printing and the averages.

## Plan

Done: every component but the parts named above; the proofs of the safety properties of
`EventLoop`, `EventLoopThreadPool`, `ThreadPool`, `TcpServer`, `TcpConnection`,
`LoadTestClient`, `EpollServerBuffer` and `BlockingServers`, with the safety that their
liveness rests on where it is more than a property a run checks; and the proofs that the
event loop and the connection implement the safety part of `TaskQueue` and `EchoStream`.

Left: the liveness of larger instances, `LeaversAreReleased` of `BlockingServers` first, where
many children inherit each other's clients (that every socket is closed by those who have
it is proved for any number, that they come to do so is checked for two); and what
"Not modelled" lists.
