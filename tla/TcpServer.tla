----------------------------- MODULE TcpServer -----------------------------
(***************************************************************************)
(* The life of connections across threads: TcpServer on the main loop,     *)
(* TcpConnection objects on the sub loops (or on the main loop, when there *)
(* are none), the functors that travel between the loops, the shared_ptrs  *)
(* that keep a connection alive meanwhile, and the destruction of the      *)
(* server (TcpServer.cpp, TcpConnection.cpp, Channel.cpp, Epoll.cpp).      *)
(*                                                                         *)
(* A connection is a TcpConnection object with its Channel: it lives while *)
(* some shared_ptr refers to it and closes its fd when the last one goes.  *)
(* How a loop is woken for its functors is EventLoop's; what is read and   *)
(* written is TcpConnection's.                                             *)
(***************************************************************************)
EXTENDS Naturals, Sequences, FiniteSets

CONSTANTS
  Conns,        \* connections that clients open, each of them once
  Fds,          \* descriptors the process may have open for connections
  MainLoop,     \* loop_: accepts, and owns connections_
  SubLoops,     \* loops_ of the thread pool, a sequence; empty: one reactor
  EventFd, Listener, None

Subs  == {SubLoops[i] : i \in DOMAIN SubLoops}
Loops == Subs \union {MainLoop}

ASSUME LoopsAssumption ==
  /\ SubLoops \in Seq(Subs)
  /\ MainLoop \notin Subs
  /\ {EventFd, Listener, None} \intersect Conns = {}

VARIABLES
  peer,         \* the client's end: "none", "open", "closed" (FIN), "reset" (RST)
  backlog,      \* connected clients not accepted yet
  state,        \* state_, "unborn" before the TcpConnection exists
  fd,           \* fd_
  owner,        \* the TcpConnection's loop_
  registered,   \* connections whose channel is in their loop's epoll
  revents,      \* revents_ of the channel, less what handleEvent dealt with
  connections,  \* connections_
  next,         \* next_ of the thread pool
  pending,      \* per loop: pendingFunctors_
  batch,        \* per loop: the local vector of doPendingFunctors
  ran,          \* per loop: how many functors of batch have been called
  ready,        \* per loop: what is left of active_channels
  at,           \* per loop: where its thread is
  cur,          \* per loop: the connection its thread is busy with
  closing,      \* per loop: in handleClose, from the store of kDisconnected to
                \* the return of closeCallback_
  quit,         \* per loop: quit_
  todo          \* connections ~TcpServer has still to visit

net    == <<peer, backlog>>
conn   == <<state, fd, owner, registered>>
server == <<connections, next>>
queues == <<pending, batch, ran>>
where  == <<ready, at, cur, closing>>
vars   == <<net, conn, revents, server, queues, where, quit, todo>>

Functors == [run : {"establish", "remove", "destroy", "forceClose"}, conn : Conns]

Functor(run, c) == [run |-> run, conn |-> c]

\* The connections some functor of the sequence s holds a shared_ptr to.
Held(s) == {s[i].conn : i \in DOMAIN s}

\* The shared_ptrs: in connections_, bound in functors that wait or belong to the
\* batch being run, and the copy the loop of ~TcpServer has in its hand.
Alive(c) ==
  \/ \E f \in Fds : connections[f] = c
  \/ \E l \in Loops : c \in Held(pending[l]) \union Held(batch[l])
  \/ at[MainLoop] = "closing" /\ cur[MainLoop] = c

\* Slip: handleClose closes the descriptor, not the destructor.
SlipOpenFds == {fd[c] : c \in {d \in Conns : Alive(d) /\ state[d] # "kDisconnected"}}

\* The descriptors of connections: the destructor closes them, nothing else does.
OpenFds == {fd[c] : c \in {d \in Conns : Alive(d)}}

Init ==
  /\ peer = [c \in Conns |-> "none"]
  /\ backlog = {}
  /\ state = [c \in Conns |-> "unborn"]
  /\ fd = [c \in Conns |-> None]
  /\ owner = [c \in Conns |-> None]
  /\ registered = {}
  /\ revents = [c \in Conns |-> {}]
  /\ connections = [f \in Fds |-> None]
  /\ next = 0
  /\ pending = [l \in Loops |-> <<>>]
  /\ batch = [l \in Loops |-> <<>>]
  /\ ran = [l \in Loops |-> 0]
  /\ ready = [l \in Loops |-> {}]
  /\ at = [l \in Loops |-> "poll"]
  /\ cur = [l \in Loops |-> None]
  /\ closing = [l \in Loops |-> FALSE]
  /\ quit = [l \in Loops |-> FALSE]
  /\ todo = {}
-----------------------------------------------------------------------------
(* Clients. *)

ClientConnects(c) ==
  /\ peer[c] = "none"
  /\ at[MainLoop] # "exited"
  /\ peer' = [peer EXCEPT ![c] = "open"]
  /\ backlog' = backlog \union {c}
  /\ UNCHANGED <<conn, revents, server, queues, where, quit, todo>>

ClientLeaves(c, how) ==
  /\ peer[c] = "open"
  /\ c \in backlog \/ Alive(c)
  /\ peer' = [peer EXCEPT ![c] = how]
  /\ UNCHANGED <<backlog, conn, revents, server, queues, where, quit, todo>>
-----------------------------------------------------------------------------
(* Every loop: epoll_wait, handleEvent of what it returned, functors. *)

Watched(l) == {c \in registered : owner[c] = l /\ Alive(c)}

\* What epoll may report of a connection.  A client that left stays readable
\* (level-triggered), one that reset is reported with EPOLLERR or EPOLLHUP too.
Reports(c) ==
  CASE peer[c] = "open"   -> SUBSET {"in", "out"}
    [] peer[c] = "closed" -> {{"in"}, {"in", "out"}}
    [] peer[c] = "reset"  -> {{"err", "in"}, {"err", "in", "out"}}

\* Slip: quit() stores its flag and does not wake the loop.
SlipAlsoReady(l) ==
  {x \in {EventFd} : pending[l] # <<>>}
    \union {x \in {Listener} : l = MainLoop /\ backlog # {}}

\* The channels, other than those of connections, that are ready for certain.
AlsoReady(l) ==
  {x \in {EventFd} : pending[l] # <<>> \/ quit[l]}
    \union {x \in {Listener} : l = MainLoop /\ backlog # {}}

\* poll: all that is ready fits into the array of 64 events.
Poll(l) ==
  /\ at[l] = "poll"
  /\ \E events \in [Watched(l) -> SUBSET {"err", "in", "out"}] :
       /\ \A c \in Watched(l) : events[c] \in Reports(c)
       /\ revents' = [c \in Conns |->
                        IF c \in Watched(l) THEN events[c] ELSE revents[c]]
       /\ ready' = [ready EXCEPT ![l] =
                      AlsoReady(l) \union {c \in Watched(l) : events[c] # {}}]
  /\ ready'[l] # {}
  /\ at' = [at EXCEPT ![l] = "dispatch"]
  /\ UNCHANGED <<net, conn, server, queues, cur, closing, quit, todo>>

\* loop(): the next channel of active_channels is that of a connection.
BeginEvent(l, c) ==
  /\ at[l] = "dispatch"
  /\ c \in ready[l]
  /\ ready' = [ready EXCEPT ![l] = @ \ {c}]
  /\ at' = [at EXCEPT ![l] = "event"]
  /\ cur' = [cur EXCEPT ![l] = c]
  /\ UNCHANGED <<net, conn, revents, server, queues, closing, quit, todo>>

\* handleClose up to its first store: nothing for a connection that is closed.
BeginClose(l, c) ==
  IF state[c] = "kDisconnected"
  THEN UNCHANGED <<state, closing>>
  ELSE /\ state' = [state EXCEPT ![c] = "kDisconnected"]
       /\ closing' = [closing EXCEPT ![l] = TRUE]

\* handleEvent of cur[l] has come to event e.  The program is undefined once it
\* touches a connection that is gone: the model goes no further.
Handling(l, e) ==
  /\ at[l] = "event" /\ ~closing[l]
  /\ Alive(cur[l])
  /\ e \in revents[cur[l]]
  /\ revents' = [revents EXCEPT ![cur[l]] = @ \ {e}]
  /\ UNCHANGED <<net, fd, owner, registered, server, queues, ready, at, cur, quit,
                 todo>>

\* handleError
HandleError(l) ==
  /\ Handling(l, "err")
  /\ BeginClose(l, cur[l])

\* Slip: recv returns 0 and is taken for EAGAIN.
SlipReadIgnoresFin(l) ==
  /\ Handling(l, "in")
  /\ "err" \notin revents[cur[l]]
  /\ IF peer[cur[l]] # "reset"
     THEN UNCHANGED <<state, closing>>
     ELSE BeginClose(l, cur[l])

\* handleRead: recv until EAGAIN and echo, or until FIN or an error and close.
HandleRead(l) ==
  /\ Handling(l, "in")
  /\ "err" \notin revents[cur[l]]
  /\ IF peer[cur[l]] = "open"
     THEN UNCHANGED <<state, closing>>
     ELSE BeginClose(l, cur[l])

\* handleWrite: close when send fails, or when all is sent on a connection that
\* is kDisconnecting.
HandleWrite(l) ==
  /\ Handling(l, "out")
  /\ {"err", "in"} \intersect revents[cur[l]] = {}
  /\ \/ UNCHANGED <<state, closing>>
     \/ /\ peer[cur[l]] # "open" \/ state[cur[l]] = "kDisconnecting"
        /\ BeginClose(l, cur[l])

EndEvent(l) ==
  /\ at[l] = "event" /\ ~closing[l]
  /\ Alive(cur[l])
  /\ revents[cur[l]] = {}
  /\ at' = [at EXCEPT ![l] = "dispatch"]
  /\ cur' = [cur EXCEPT ![l] = None]
  /\ UNCHANGED <<net, conn, revents, server, queues, ready, closing, quit, todo>>

\* Slip: removeConnectionInLoop erases and hands nothing back to the sub loop.
SlipEraseOnly(c, queue) ==
  /\ connections' = [connections EXCEPT ![fd[c]] = None]
  /\ pending' = queue

\* removeConnectionInLoop: connections_.erase(fd), and the shared_ptr goes back to
\* the connection's loop.  On a single reactor that functor runs at once and
\* finds nothing to do; what it held is released.
RemoveConnectionInLoop(c, queue) ==
  IF connections[fd[c]] = None
  THEN UNCHANGED connections /\ pending' = queue
  ELSE /\ connections' = [connections EXCEPT ![fd[c]] = None]
       /\ pending' = IF owner[c] = MainLoop THEN queue
                     ELSE [queue EXCEPT ![owner[c]] =
                             Append(@, Functor("destroy", c))]

\* Slip: handleClose without removeChannel.
SlipKeepChannel(l) ==
  /\ closing[l]
  /\ Alive(cur[l])
  /\ closing' = [closing EXCEPT ![l] = FALSE]
  /\ IF l = MainLoop
     THEN RemoveConnectionInLoop(cur[l], pending)
     ELSE /\ pending' = [pending EXCEPT ![MainLoop] =
                           Append(@, Functor("remove", cur[l]))]
          /\ UNCHANGED connections
  /\ cur' = IF at[l] = "closing" THEN [cur EXCEPT ![l] = None] ELSE cur
  /\ UNCHANGED <<net, conn, revents, next, batch, ran, ready, at, quit, todo>>

\* The rest of handleClose: removeChannel, then closeCallback_, which runs
\* removeConnectionInLoop on the main loop's thread and queues it from another.
FinishClose(l) ==
  /\ closing[l]
  /\ Alive(cur[l])
  /\ registered' = registered \ {cur[l]}
  /\ closing' = [closing EXCEPT ![l] = FALSE]
  /\ IF l = MainLoop
     THEN RemoveConnectionInLoop(cur[l], pending)
     ELSE /\ pending' = [pending EXCEPT ![MainLoop] =
                           Append(@, Functor("remove", cur[l]))]
          /\ UNCHANGED connections
  /\ cur' = IF at[l] = "closing" THEN [cur EXCEPT ![l] = None] ELSE cur
  /\ UNCHANGED <<net, state, fd, owner, revents, next, batch, ran, ready, at, quit,
                 todo>>
-----------------------------------------------------------------------------
\* handleReadEventFd: doPendingFunctors takes the queue.
TakeFunctors(l) ==
  /\ at[l] = "dispatch"
  /\ EventFd \in ready[l]
  /\ ready' = [ready EXCEPT ![l] = @ \ {EventFd}]
  /\ batch' = [batch EXCEPT ![l] = pending[l]]
  /\ pending' = [pending EXCEPT ![l] = <<>>]
  /\ ran' = [ran EXCEPT ![l] = 0]
  /\ at' = [at EXCEPT ![l] = "functors"]
  /\ UNCHANGED <<net, conn, revents, server, cur, closing, quit, todo>>

\* doPendingFunctors is about to call a functor of the given kind for c.
Calling(l, run, c) ==
  /\ at[l] = "functors" /\ ~closing[l]
  /\ ran[l] < Len(batch[l])
  /\ batch[l][ran[l] + 1] = Functor(run, c)
  /\ ran' = [ran EXCEPT ![l] = @ + 1]
  /\ cur' = [cur EXCEPT ![l] = c]
  /\ UNCHANGED <<net, fd, owner, revents, next, batch, ready, at, quit, todo>>

\* enableReading: the channel enters the epoll of its loop, unless epoll_ctl fails,
\* which update() only logs.
EnableReading(c) ==
  \/ registered' = registered \union {c}
  \/ UNCHANGED registered

\* connectEstablishedInLoop
Establish(l, c) ==
  /\ Calling(l, "establish", c)
  /\ state' = [state EXCEPT ![c] = "kConnected"]
  /\ EnableReading(c)
  /\ UNCHANGED <<connections, pending, closing>>

\* removeConnectionInLoop, on the main loop
Remove(l, c) ==
  /\ Calling(l, "remove", c)
  /\ RemoveConnectionInLoop(c, pending)
  /\ UNCHANGED <<state, registered, closing>>

\* connectDestroyedInLoop
Destroy(l, c) ==
  /\ Calling(l, "destroy", c)
  /\ IF state[c] = "kConnected"
     THEN /\ state' = [state EXCEPT ![c] = "kDisconnected"]
          /\ registered' = registered \ {c}
     ELSE UNCHANGED <<state, registered>>
  /\ UNCHANGED <<connections, pending, closing>>

\* forceCloseInLoop
ForceClose(l, c) ==
  /\ Calling(l, "forceClose", c)
  /\ IF state[c] \in {"kConnected", "kDisconnecting"}
     THEN BeginClose(l, c)
     ELSE UNCHANGED <<state, closing>>
  /\ UNCHANGED <<registered, connections, pending>>

\* The local vector goes, and with it the shared_ptrs of all its functors.
EndFunctors(l) ==
  /\ at[l] = "functors" /\ ~closing[l]
  /\ ran[l] = Len(batch[l])
  /\ batch' = [batch EXCEPT ![l] = <<>>]
  /\ ran' = [ran EXCEPT ![l] = 0]
  /\ at' = [at EXCEPT ![l] = "dispatch"]
  /\ cur' = [cur EXCEPT ![l] = None]
  /\ UNCHANGED <<net, conn, revents, server, pending, ready, closing, quit, todo>>

\* Slip: the loop of a sub thread is never destroyed.
SlipLoopOutlivesThread(l) ==
  /\ at[l] = "dispatch"
  /\ ready[l] = {}
  /\ at' = [at EXCEPT ![l] = IF quit[l] THEN "stopped" ELSE "poll"]
  /\ UNCHANGED <<net, conn, revents, server, queues, ready, cur, closing, quit, todo>>

\* The end of the for loop, and the condition of the while loop.  A sub loop that
\* stops is destroyed, with the functors it never ran (threadFunc).
EndDispatch(l) ==
  /\ at[l] = "dispatch"
  /\ ready[l] = {}
  /\ at' = [at EXCEPT ![l] = IF quit[l] THEN "stopped" ELSE "poll"]
  /\ pending' = IF quit[l] /\ l # MainLoop THEN [pending EXCEPT ![l] = <<>>]
                ELSE pending
  /\ UNCHANGED <<net, conn, revents, server, batch, ran, ready, cur, closing, quit,
                 todo>>
-----------------------------------------------------------------------------
(* The main loop: handleAccept. *)

BeginAccept ==
  /\ at[MainLoop] = "dispatch"
  /\ Listener \in ready[MainLoop]
  /\ ready' = [ready EXCEPT ![MainLoop] = @ \ {Listener}]
  /\ at' = [at EXCEPT ![MainLoop] = "accept"]
  /\ UNCHANGED <<net, conn, revents, server, queues, cur, closing, quit, todo>>

\* Slip: next_ does not wrap around.
SlipNextIndex == next + 1

NextIndex == IF SubLoops = <<>> THEN next ELSE (next + 1) % Len(SubLoops)

\* getNextLoop
NextLoop == IF SubLoops = <<>> THEN MainLoop ELSE SubLoops[next + 1]

\* accept, make_shared<TcpConnection>, connections_[fd] = conn, connectEstablished
Accept(c, f) ==
  /\ at[MainLoop] = "accept"
  /\ c \in backlog
  /\ f \notin OpenFds
  /\ backlog' = backlog \ {c}
  /\ fd' = [fd EXCEPT ![c] = f]
  /\ owner' = [owner EXCEPT ![c] = NextLoop]
  /\ next' = NextIndex
  /\ connections' = [connections EXCEPT ![f] = c]
  /\ IF NextLoop = MainLoop
     THEN /\ state' = [state EXCEPT ![c] = "kConnected"]
          /\ EnableReading(c)
          /\ UNCHANGED pending
     ELSE /\ state' = [state EXCEPT ![c] = "kConnecting"]
          /\ pending' = [pending EXCEPT ![NextLoop] =
                           Append(@, Functor("establish", c))]
          /\ UNCHANGED registered
  /\ UNCHANGED <<peer, revents, batch, ran, where, quit, todo>>

\* The connection is accepted and setNonBlocking fails: its fd is closed at once.
AcceptAndDrop(c) ==
  /\ at[MainLoop] = "accept"
  /\ c \in backlog
  /\ Fds \ OpenFds # {}
  /\ backlog' = backlog \ {c}
  /\ UNCHANGED <<peer, conn, revents, server, queues, where, quit, todo>>

\* accept fails: EAGAIN when nobody waits, EMFILE when descriptors are used up,
\* or another error.  Who is left waits for the next poll.
EndAccept ==
  /\ at[MainLoop] = "accept"
  /\ at' = [at EXCEPT ![MainLoop] = "dispatch"]
  /\ UNCHANGED <<net, conn, revents, server, queues, ready, cur, closing, quit,
                 todo>>
-----------------------------------------------------------------------------
(* The end: SIGINT, then the destructors that run when main() returns. *)

Interrupt ==
  /\ ~quit[MainLoop]
  /\ quit' = [quit EXCEPT ![MainLoop] = TRUE]
  /\ UNCHANGED <<net, conn, revents, server, queues, where, todo>>

\* ~TcpServer begins to walk through connections_.
BeginTeardown ==
  /\ at[MainLoop] = "stopped"
  /\ at' = [at EXCEPT ![MainLoop] = "closing"]
  /\ todo' = {c \in Conns : \E f \in Fds : connections[f] = c}
  /\ UNCHANGED <<net, conn, revents, server, queues, ready, cur, closing, quit>>

\* forceClose, the test: it->second is copied, and state_ is loaded.
TestConnection(c) ==
  /\ at[MainLoop] = "closing"
  /\ cur[MainLoop] = None
  /\ c \in todo
  /\ todo' = todo \ {c}
  /\ cur' = IF state[c] \in {"kConnected", "kDisconnecting"}
            THEN [cur EXCEPT ![MainLoop] = c] ELSE cur
  /\ UNCHANGED <<net, conn, revents, server, queues, ready, at, closing, quit>>

\* forceClose, the act: state_ is stored, and forceCloseInLoop is queued, or run
\* when the connection lives on the main loop.
MarkConnection ==
  /\ at[MainLoop] = "closing"
  /\ ~closing[MainLoop]
  /\ cur[MainLoop] # None
  /\ LET c == cur[MainLoop]
     IN IF owner[c] = MainLoop
        THEN /\ BeginClose(MainLoop, c)
             /\ cur' = IF closing'[MainLoop] THEN cur
                       ELSE [cur EXCEPT ![MainLoop] = None]
             /\ UNCHANGED pending
        ELSE /\ state' = [state EXCEPT ![c] = "kDisconnecting"]
             /\ pending' = [pending EXCEPT ![owner[c]] =
                              Append(@, Functor("forceClose", c))]
             /\ cur' = [cur EXCEPT ![MainLoop] = None]
             /\ UNCHANGED closing
  /\ UNCHANGED <<net, fd, owner, registered, revents, server, batch, ran, ready, at,
                 quit, todo>>

\* connections_.clear(), close(listen_fd_); then the thread pool is destroyed.
ClearConnections ==
  /\ at[MainLoop] = "closing"
  /\ cur[MainLoop] = None
  /\ todo = {}
  /\ connections' = [f \in Fds |-> None]
  /\ backlog' = {}
  /\ at' = [at EXCEPT ![MainLoop] = "joining"]
  /\ UNCHANGED <<peer, conn, revents, next, queues, ready, cur, closing, quit, todo>>

\* ~EventLoopThread, thread after thread: quit() when those before have ended.
QuitSub(i) ==
  /\ at[MainLoop] = "joining"
  /\ i \in DOMAIN SubLoops
  /\ \A j \in 1..(i - 1) : at[SubLoops[j]] = "stopped"
  /\ ~quit[SubLoops[i]]
  /\ quit' = [quit EXCEPT ![SubLoops[i]] = TRUE]
  /\ UNCHANGED <<net, conn, revents, server, queues, where, todo>>

\* All threads are joined; main()'s own loop goes, with what waits in it.
Exit ==
  /\ at[MainLoop] = "joining"
  /\ \A l \in Subs : at[l] = "stopped"
  /\ pending' = [pending EXCEPT ![MainLoop] = <<>>]
  /\ at' = [at EXCEPT ![MainLoop] = "exited"]
  /\ UNCHANGED <<net, conn, revents, server, batch, ran, ready, cur, closing, quit,
                 todo>>
-----------------------------------------------------------------------------
LoopThread(l) ==
  \/ Poll(l)
  \/ HandleError(l) \/ HandleRead(l) \/ HandleWrite(l) \/ EndEvent(l)
  \/ FinishClose(l)
  \/ TakeFunctors(l) \/ EndFunctors(l)
  \/ EndDispatch(l)
  \/ \E c \in Conns :
       \/ BeginEvent(l, c)
       \/ Establish(l, c) \/ Remove(l, c) \/ Destroy(l, c) \/ ForceClose(l, c)

MainThread ==
  \/ BeginAccept \/ EndAccept
  \/ \E c \in Conns : AcceptAndDrop(c) \/ \E f \in Fds : Accept(c, f)
  \/ BeginTeardown \/ MarkConnection \/ ClearConnections \/ Exit
  \/ \E c \in Conns : TestConnection(c)
  \/ \E i \in DOMAIN SubLoops : QuitSub(i)

Clients ==
  \E c \in Conns : ClientConnects(c) \/ \E how \in {"closed", "reset"} : ClientLeaves(c, how)

Next ==
  \/ \E l \in Loops : LoopThread(l)
  \/ MainThread
  \/ Clients
  \/ Interrupt

SafeSpec == Init /\ [][Next]_vars

\* Every thread that can go on does; and accept does not fail for ever while a client
\* waits and a descriptor is free.  Nothing is assumed of clients and signals.
Spec ==
  /\ SafeSpec
  /\ \A l \in Subs : WF_vars(LoopThread(l))
  /\ WF_vars(LoopThread(MainLoop) \/ MainThread)
  /\ SF_vars(\E c \in Conns : AcceptAndDrop(c) \/ \E f \in Fds : Accept(c, f))
-----------------------------------------------------------------------------
StateE == {"kConnecting", "kConnected", "kDisconnecting", "kDisconnected"}

TypeOK ==
  /\ peer \in [Conns -> {"none", "open", "closed", "reset"}]
  /\ backlog \in SUBSET Conns
  /\ state \in [Conns -> StateE \union {"unborn"}]
  /\ fd \in [Conns -> Fds \union {None}]
  /\ owner \in [Conns -> Loops \union {None}]
  /\ registered \in SUBSET Conns
  /\ revents \in [Conns -> SUBSET {"err", "in", "out"}]
  /\ connections \in [Fds -> Conns \union {None}]
  /\ next \in Nat /\ (SubLoops # <<>> => next < Len(SubLoops))
  /\ pending \in [Loops -> Seq(Functors)]
  /\ batch \in [Loops -> Seq(Functors)]
  /\ ran \in [Loops -> Nat] /\ \A l \in Loops : ran[l] <= Len(batch[l])
  /\ ready \in [Loops -> SUBSET (Conns \union {EventFd, Listener})]
  /\ at \in [Loops -> {"poll", "dispatch", "event", "functors", "accept", "stopped",
                       "closing", "joining", "exited"}]
  /\ cur \in [Loops -> Conns \union {None}]
  /\ closing \in [Loops -> BOOLEAN]
  /\ quit \in [Loops -> BOOLEAN]
  /\ todo \in SUBSET Conns

\* The connections a thread is busy with or holds raw Channel pointers to.
InUse(l) == ({cur[l]} \ {None}) \union (ready[l] \intersect Conns)

Serving == at[MainLoop] \notin {"joining", "exited"}

\* No thread touches a connection that is gone.  Nobody but the shared_ptrs in
\* connections_ and in travelling functors keeps one alive, so this is about the
\* order in which they come and go.
NoUseAfterFree == \A l \in Loops : \A c \in InUse(l) : Alive(c)

\* The same until ~TcpServer clears connections_: while the server serves, and
\* while its destructor force-closes the connections.
NoUseAfterFreeWhileServing == Serving => NoUseAfterFree

\* The server knows every connection in service under the descriptor it has, so no
\* accept and no late removal has hit the entry of another connection that got
\* the same descriptor; and a connection is in the epoll only while in service.
ServedAreKnown ==
  \A c \in Conns :
    /\ Serving /\ state[c] \in {"kConnecting", "kConnected"} => connections[fd[c]] = c
    /\ c \in registered =>
         \/ state[c] \in {"kConnected", "kDisconnecting"}
         \/ \E l \in Loops : closing[l] /\ cur[l] = c

\* An entry of connections_ goes when its connection has been closed, by nobody
\* else's removal, and it is never replaced by another.
EntriesOutlastService ==
  [][\A f \in Fds :
       connections[f] # None /\ connections'[f] # connections[f] /\ Serving' =>
         connections'[f] = None /\ state[connections[f]] = "kDisconnected"]_vars

\* In service, and in no epoll: epoll_ctl failed, and no event will ever close it.
Refused(c) == state[c] = "kConnected" /\ c \notin registered

\* No leak, as long as the server is not told to stop: a client that left has its
\* connection destroyed and its descriptor closed - only one that the kernel refused
\* to watch keeps it -, and no client waits in the backlog while a descriptor is free.
LeaversAreReleased ==
  \A c \in Conns :
    /\ Alive(c) /\ peer[c] # "open" ~> ~Alive(c) \/ quit[MainLoop] \/ Refused(c)
    /\ c \in backlog ~> c \notin backlog \/ Fds \subseteq OpenFds \/ quit[MainLoop]

\* SIGINT ends the process: every loop stops, every thread is joined.
InterruptEndsServer == quit[MainLoop] ~> at[MainLoop] = "exited" \/ ~NoUseAfterFree

\* At the end no connection is left behind with its descriptor open.
NothingLeftAtExit == at[MainLoop] = "exited" => \A c \in Conns : ~Alive(c)
=============================================================================
