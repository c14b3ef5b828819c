------------------------- MODULE EpollServerBuffer -------------------------
(***************************************************************************)
(* The single-threaded servers that came before the reactors.  The last,   *)
(* "buffer", has edge-triggered epoll, echo, and output_buffers for what a *)
(* client's socket does not take (legacy/epoll_server_buffer.cpp).  "et"   *)
(* is the same without output_buffers, "lt" is level-triggered and accepts *)
(* or reads once per event, "skel" closes what it accepts                  *)
(* (epoll_server_et.cpp, epoll_server_lt.cpp, epoll_server_skel.cpp).      *)
(* A behaviour is one of one program.                                      *)
(*                                                                         *)
(* One action of the server is one system call with what follows it up to  *)
(* the next one.  Clients, signals and the kernel move in between.  The    *)
(* kernel's ready list is edge: epoll_wait empties it, and an entry comes  *)
(* back when something happens to its socket, or by epoll_ctl.             *)
(***************************************************************************)
EXTENDS Naturals, Sequences, FiniteSets

CONSTANTS
  Programs,     \* which of "skel", "lt", "et", "buffer"
  Clients,      \* clients, each connects once
  Fds,          \* descriptors the server may have open for clients
  Listener,     \* listen_fd
  None,
  EchoMax,      \* bound, per client: bytes it writes
  RcvCap,       \* room of a socket's receive buffer
  SndCap,       \* room of a socket's send buffer
  ReadSize      \* sizeof(buffer)-1

ASSUME SizesAssumption ==
  /\ Programs \subseteq {"skel", "lt", "et", "buffer"}
  /\ EchoMax \in [Clients -> Nat]
  /\ {RcvCap, SndCap, ReadSize} \subseteq Nat \ {0}
  /\ Listener \notin Fds
  /\ None \notin Clients \union Fds \union {Listener}

VARIABLES
  program,      \* which program runs
  client,       \* "none", "open", "finished" (FIN), "gone" (reset)
  sent,         \* how many bytes a client has written
  received,     \* what it has read
  backlog,      \* connected clients not accepted yet
  socket,       \* per descriptor: the client at its other end, None: closed
  rcvbuf,       \* per client: the receive buffer of its socket
  sndbuf,       \* per client: the send buffer of its socket
  interest,     \* per descriptor: what its epoll entry waits for
  edge,         \* the kernel's ready list
  output_buffers,
  events,       \* per descriptor: what epoll_wait returned, {} once handled
  cur,          \* the descriptor the server is busy with
  evs,          \* its events
  buffer,       \* what is still to be sent of the local buffer
  running,
  spurned,      \* history: an accept has failed, and nobody has connected since
  pc            \* where the server is

outside == <<program, client, sent, received>>
kernel  == <<backlog, socket, rcvbuf, sndbuf, interest, edge>>
locals  == <<events, cur, evs, buffer>>
signal  == <<running, spurned>>
vars    == <<outside, kernel, output_buffers, locals, signal, pc>>

Byte(c, n) == <<c, n>>
Take(s, n) == SubSeq(s, 1, n)
Drop(s, n) == SubSeq(s, n + 1, Len(s))
Least(a, b) == IF a < b THEN a ELSE b

Sources == Fds \union {Listener}

EdgeTriggered == program \in {"et", "buffer"}

\* The accept and recv loops of the edge-triggered servers are while(running); the
\* others have no such loops.
Looping == EdgeTriggered => running

Init ==
  /\ program \in Programs
  /\ client = [c \in Clients |-> "none"]
  /\ sent = [c \in Clients |-> 0]
  /\ received = [c \in Clients |-> <<>>]
  /\ backlog = {}
  /\ socket = [f \in Fds |-> None]
  /\ rcvbuf = [c \in Clients |-> <<>>]
  /\ sndbuf = [c \in Clients |-> <<>>]
  /\ interest = [f \in Fds |-> {}]
  /\ edge = {}
  /\ output_buffers = [f \in Fds |-> <<>>]
  /\ events = [f \in Sources |-> {}]
  /\ cur = None
  /\ evs = {}
  /\ buffer = <<>>
  /\ running = TRUE
  /\ spurned = FALSE
  /\ pc = "test"
-----------------------------------------------------------------------------
(* Clients, and what happens to them puts on the ready list. *)

\* Something happens to fs; what is level-triggered needs no list.
Notify(fs) == edge' = IF EdgeTriggered THEN edge \union fs ELSE edge

FdOf(c) == {f \in Fds : socket[f] = c}

ClientConnects(c) ==
  /\ client[c] = "none"
  /\ pc \notin {"stopped", "killed"}
  /\ client' = [client EXCEPT ![c] = "open"]
  /\ backlog' = backlog \union {c}
  /\ Notify({Listener})
  /\ spurned' = FALSE
  /\ UNCHANGED <<program, sent, received, socket, rcvbuf, sndbuf, interest,
                 output_buffers, locals, running, pc>>

ClientWrites(c) ==
  /\ client[c] = "open"
  /\ sent[c] < EchoMax[c]
  /\ Len(rcvbuf[c]) < RcvCap
  /\ sent' = [sent EXCEPT ![c] = @ + 1]
  /\ rcvbuf' = [rcvbuf EXCEPT ![c] = Append(@, Byte(c, sent[c] + 1))]
  /\ Notify(FdOf(c))
  /\ UNCHANGED <<program, client, received, backlog, socket, sndbuf, interest, output_buffers,
                 locals, signal, pc>>

\* Room in a send buffer is news only after it was full.
ClientReads(c) ==
  /\ client[c] # "gone"
  /\ sndbuf[c] # <<>>
  /\ received' = [received EXCEPT ![c] = Append(@, Head(sndbuf[c]))]
  /\ sndbuf' = [sndbuf EXCEPT ![c] = Tail(@)]
  /\ Notify({f \in FdOf(c) : "out" \in interest[f] /\ Len(sndbuf[c]) = SndCap})
  /\ UNCHANGED <<program, client, sent, backlog, socket, rcvbuf, interest, output_buffers,
                 locals, signal, pc>>

ClientLeaves(c, how) ==
  /\ client[c] = "open" \/ (client[c] = "finished" /\ how = "gone")
  /\ client' = [client EXCEPT ![c] = how]
  /\ sndbuf' = IF how = "gone" THEN [sndbuf EXCEPT ![c] = <<>>] ELSE sndbuf
  /\ Notify(FdOf(c))
  /\ UNCHANGED <<program, sent, received, backlog, socket, rcvbuf, interest, output_buffers,
                 locals, signal, pc>>

\* SIGINT: handle_sigint, and epoll_wait, if the server is in it, fails with EINTR.
Interrupt ==
  /\ running
  /\ running' = FALSE
  /\ pc' \in {pc} \union {p \in {"test"} : pc = "wait"}
  /\ UNCHANGED <<outside, kernel, output_buffers, locals, spurned>>
-----------------------------------------------------------------------------
(* The server. *)

Ready(f) ==
  LET c == socket[f]
  IN {e \in {"in"}  : rcvbuf[c] # <<>> \/ client[c] # "open"}
       \union {e \in {"out"} : Len(sndbuf[c]) < SndCap \/ client[c] = "gone"}
       \union {e \in {"err"} : client[c] = "gone"}

Reported(f) ==
  IF f = Listener THEN {e \in {"in"} : backlog # {}}
  ELSE IF socket[f] = None THEN {}
  ELSE Ready(f) \intersect (interest[f] \union {"err"})

\* epoll_ctl with ADD or MOD looks at the socket at once.
SetInterest(f, wanted) ==
  /\ interest' = [interest EXCEPT ![f] = wanted]
  /\ Notify(IF Ready(f) \intersect (wanted \union {"err"}) # {} THEN {f} ELSE {})

Test ==
  /\ pc = "test"
  /\ pc' = IF running THEN "wait" ELSE "stopped"
  /\ UNCHANGED <<outside, kernel, output_buffers, locals, signal>>

\* epoll_wait reports what is on the ready list, or ready: all fits into events.
Wait ==
  /\ pc = "wait"
  /\ LET listed == IF EdgeTriggered THEN edge ELSE Sources
     IN /\ \E f \in listed : Reported(f) # {}
        /\ events' = [f \in Sources |-> IF f \in listed THEN Reported(f) ELSE {}]
  /\ edge' = {}
  /\ pc' = "next"
  /\ UNCHANGED <<outside, backlog, socket, rcvbuf, sndbuf, interest, output_buffers,
                 cur, evs, buffer, signal>>

\* The next event of the for loop.
NextEvent(f) ==
  /\ pc = "next"
  /\ events[f] # {}
  /\ events' = [events EXCEPT ![f] = {}]
  /\ cur' = f
  /\ evs' = events[f]
  /\ pc' = IF f = Listener THEN "accept" ELSE "recv"
  /\ UNCHANGED <<outside, kernel, output_buffers, buffer, signal>>

EndFor ==
  /\ pc = "next"
  /\ \A f \in Sources : events[f] = {}
  /\ pc' = "test"
  /\ UNCHANGED <<outside, kernel, output_buffers, locals, signal>>

\* Whether the accept loop goes on, or there is none.
AfterAccept == IF EdgeTriggered THEN "accept" ELSE "next"

\* accept, set_nonblocking, EPOLL_CTL_ADD
Accept(c, f) ==
  /\ pc = "accept"
  /\ Looping
  /\ program # "skel"
  /\ c \in backlog
  /\ socket[f] = None
  /\ backlog' = backlog \ {c}
  /\ socket' = [socket EXCEPT ![f] = c]
  /\ interest' = [interest EXCEPT ![f] = {"in"}]
  /\ Notify(IF rcvbuf[c] # <<>> \/ client[c] # "open" THEN {f} ELSE {})
  /\ pc' = AfterAccept
  /\ UNCHANGED <<outside, rcvbuf, sndbuf, output_buffers, locals, signal>>

\* One of the two fails after accept, or the program is no more than accept and
\* close: the descriptor is closed, the client cut off.
AcceptAndDrop(c) ==
  /\ pc = "accept"
  /\ Looping
  /\ c \in backlog
  /\ \E f \in Fds : socket[f] = None
  /\ backlog' = backlog \ {c}
  /\ client' = [client EXCEPT ![c] = "gone"]
  /\ pc' = AfterAccept
  /\ UNCHANGED <<program, sent, received, socket, rcvbuf, sndbuf, interest, edge,
                 output_buffers, locals, signal>>

\* EAGAIN, when nobody waits; or SIGINT has come.
EndAccept ==
  /\ pc = "accept"
  /\ Looping => backlog = {}
  /\ pc' = "next"
  /\ UNCHANGED <<outside, kernel, output_buffers, locals, signal>>

\* accept fails, with EMFILE or another error, and somebody waits.
AcceptFails ==
  /\ pc = "accept"
  /\ Looping
  /\ backlog # {}
  /\ spurned' = TRUE
  /\ pc' = "next"
  /\ UNCHANGED <<outside, kernel, output_buffers, locals, running>>

Peer == socket[cur]

\* Slip: the descriptor is closed and its output buffer stays.
SlipCloseCurrent ==
  /\ socket' = [socket EXCEPT ![cur] = None]
  /\ interest' = [interest EXCEPT ![cur] = {}]
  /\ edge' = edge \ {cur}
  /\ UNCHANGED output_buffers

\* EPOLL_CTL_DEL, output_buffers.erase, close
CloseCurrent ==
  /\ socket' = [socket EXCEPT ![cur] = None]
  /\ interest' = [interest EXCEPT ![cur] = {}]
  /\ edge' = edge \ {cur}
  /\ output_buffers' = [output_buffers EXCEPT ![cur] = <<>>]

\* The EPOLLOUT branch comes after the recv loop; a level-triggered server reads
\* once, and has no loop.
AfterRecv == IF program = "buffer" THEN "out" ELSE "next"
AfterEcho == IF EdgeTriggered THEN "recv" ELSE "next"

\* recv gives bytes.
Recv ==
  /\ pc = "recv"
  /\ Looping
  /\ Peer # None /\ rcvbuf[Peer] # <<>>
  /\ LET n == Least(Len(rcvbuf[Peer]), ReadSize)
     IN /\ buffer' = Take(rcvbuf[Peer], n)
        /\ rcvbuf' = [rcvbuf EXCEPT ![Peer] = Drop(@, n)]
  /\ pc' = "echo"
  /\ UNCHANGED <<outside, backlog, socket, sndbuf, interest, edge, output_buffers,
                 events, cur, evs, signal>>

\* recv gives 0 for a FIN, or an error.
RecvEnd ==
  /\ pc = "recv"
  /\ Looping
  /\ Peer # None /\ rcvbuf[Peer] = <<>>
  /\ client[Peer] # "open"
  /\ CloseCurrent
  /\ pc' = AfterRecv
  /\ UNCHANGED <<outside, backlog, rcvbuf, sndbuf, locals, signal>>

\* Slip: one recv per event, as level-triggered servers may.
SlipRecvOver ==
  /\ pc = "recv"
  /\ pc' = AfterRecv
  /\ UNCHANGED <<outside, kernel, output_buffers, locals, signal>>

\* The recv loop ends: EAGAIN; SIGINT; or EBADF, on a descriptor that a failed send
\* has closed and that is now closed again, with no effect.
RecvOver ==
  /\ pc = "recv"
  /\ Looping /\ Peer # None => rcvbuf[Peer] = <<>> /\ client[Peer] = "open"
  /\ pc' = AfterRecv
  /\ UNCHANGED <<outside, kernel, output_buffers, locals, signal>>

\* The send loop: send takes some bytes.
EchoSome ==
  /\ pc = "echo"
  /\ buffer # <<>>
  /\ client[Peer] # "gone" /\ Len(sndbuf[Peer]) < SndCap
  /\ LET n == Least(Len(buffer), SndCap - Len(sndbuf[Peer]))
     IN /\ sndbuf' = [sndbuf EXCEPT ![Peer] = @ \o Take(buffer, n)]
        /\ buffer' = Drop(buffer, n)
  /\ UNCHANGED <<outside, backlog, socket, rcvbuf, interest, edge, output_buffers,
                 events, cur, evs, signal, pc>>

EchoDone ==
  /\ pc = "echo"
  /\ buffer = <<>>
  /\ pc' = AfterEcho
  /\ UNCHANGED <<outside, kernel, output_buffers, locals, signal>>

\* Slip: the rest is kept for later, and counts as still to be sent all the same.
SlipEchoAgain ==
  /\ pc = "echo" /\ program = "buffer"
  /\ buffer # <<>>
  /\ client[Peer] # "gone" /\ Len(sndbuf[Peer]) = SndCap
  /\ output_buffers' = [output_buffers EXCEPT ![cur] = @ \o buffer]
  /\ pc' = "ask"
  /\ UNCHANGED <<outside, kernel, locals, signal>>

\* EAGAIN: the rest goes into output_buffers ...
EchoAgain ==
  /\ pc = "echo" /\ program = "buffer"
  /\ buffer # <<>>
  /\ client[Peer] # "gone" /\ Len(sndbuf[Peer]) = SndCap
  /\ output_buffers' = [output_buffers EXCEPT ![cur] = @ \o buffer]
  /\ buffer' = <<>>
  /\ pc' = "ask"
  /\ UNCHANGED <<outside, kernel, events, cur, evs, signal>>

\* Without output_buffers the rest is lost.
EchoDrops ==
  /\ pc = "echo" /\ program # "buffer"
  /\ buffer # <<>>
  /\ client[Peer] # "gone" /\ Len(sndbuf[Peer]) = SndCap
  /\ buffer' = <<>>
  /\ pc' = AfterEcho
  /\ UNCHANGED <<outside, kernel, output_buffers, events, cur, evs, signal>>

\* ... and EPOLLOUT is asked for.
AskForOut ==
  /\ pc = "ask"
  /\ SetInterest(cur, {"in", "out"})
  /\ pc' = "recv"
  /\ UNCHANGED <<outside, backlog, socket, rcvbuf, sndbuf, output_buffers, locals,
                 signal>>

\* send fails: SIGPIPE ends the process, or the connection is closed; the loop of an
\* edge-triggered server goes on with the closed descriptor.
EchoFails ==
  /\ pc = "echo"
  /\ buffer # <<>>
  /\ client[Peer] = "gone"
  /\ \/ /\ pc' = "killed"
        /\ UNCHANGED <<socket, interest, edge, output_buffers, buffer>>
     \/ /\ CloseCurrent
        /\ buffer' = <<>>
        /\ pc' = AfterEcho
  /\ UNCHANGED <<outside, backlog, rcvbuf, sndbuf, events, cur, evs, signal>>

\* No EPOLLOUT in events[i].events; or nothing to write, and EPOLLOUT is given up.
NothingToWrite ==
  /\ pc = "out"
  /\ "out" \notin evs \/ output_buffers[cur] = <<>>
  /\ IF "out" \in evs /\ Peer # None
     THEN SetInterest(cur, {"in"})
     ELSE UNCHANGED <<interest, edge>>
  /\ pc' = "next"
  /\ UNCHANGED <<outside, backlog, socket, rcvbuf, sndbuf, output_buffers, locals,
                 signal>>

\* Slip: what is left after a partial send is dropped with the rest.
SlipWrite ==
  /\ pc = "out"
  /\ "out" \in evs /\ output_buffers[cur] # <<>>
  /\ client[Peer] # "gone"
  /\ LET n == Least(Len(output_buffers[cur]), SndCap - Len(sndbuf[Peer]))
     IN /\ sndbuf' = [sndbuf EXCEPT ![Peer] = @ \o Take(output_buffers[cur], n)]
        /\ output_buffers' = [output_buffers EXCEPT ![cur] = Drop(@, n)]
  /\ SetInterest(cur, {"in"})
  /\ pc' = "next"
  /\ UNCHANGED <<outside, backlog, socket, rcvbuf, locals, signal>>

\* The EPOLLOUT branch sends once.  EPOLLOUT is given up when all is out; a send
\* buffer that is full again gives EAGAIN, and everything stays.
Write ==
  /\ pc = "out"
  /\ "out" \in evs /\ output_buffers[cur] # <<>>
  /\ client[Peer] # "gone"
  /\ LET n == Least(Len(output_buffers[cur]), SndCap - Len(sndbuf[Peer]))
     IN /\ sndbuf' = [sndbuf EXCEPT ![Peer] = @ \o Take(output_buffers[cur], n)]
        /\ output_buffers' = [output_buffers EXCEPT ![cur] = Drop(@, n)]
  /\ IF output_buffers'[cur] = <<>> THEN SetInterest(cur, {"in"})
     ELSE UNCHANGED <<interest, edge>>
  /\ pc' = "next"
  /\ UNCHANGED <<outside, backlog, socket, rcvbuf, locals, signal>>

WriteFails ==
  /\ pc = "out"
  /\ "out" \in evs /\ output_buffers[cur] # <<>>
  /\ client[Peer] = "gone"
  /\ \/ /\ pc' = "killed"
        /\ UNCHANGED <<socket, interest, edge, output_buffers>>
     \/ /\ CloseCurrent
        /\ pc' = "next"
  /\ UNCHANGED <<outside, backlog, rcvbuf, sndbuf, locals, signal>>
-----------------------------------------------------------------------------
Server ==
  \/ Test \/ Wait \/ EndFor
  \/ \E f \in Sources : NextEvent(f)
  \/ \E c \in Clients : AcceptAndDrop(c) \/ \E f \in Fds : Accept(c, f)
  \/ EndAccept \/ AcceptFails
  \/ Recv \/ RecvEnd \/ RecvOver
  \/ EchoSome \/ EchoDone \/ EchoAgain \/ EchoDrops \/ AskForOut \/ EchoFails
  \/ NothingToWrite \/ Write \/ WriteFails

Next ==
  \/ Server
  \/ \E c \in Clients :
       \/ ClientConnects(c) \/ ClientWrites(c) \/ ClientReads(c)
       \/ \E how \in {"finished", "gone"} : ClientLeaves(c, how)
  \/ Interrupt

SafeSpec == Init /\ [][Next]_vars

\* The server goes on when it can, and a client that is there reads what comes.
Spec ==
  /\ SafeSpec
  /\ WF_vars(Server)
  /\ \A c \in Clients : WF_vars(ClientReads(c))
-----------------------------------------------------------------------------
Bytes == UNION {{c} \X (1..EchoMax[c]) : c \in Clients}

TypeOK ==
  /\ program \in Programs
  /\ client \in [Clients -> {"none", "open", "finished", "gone"}]
  /\ sent \in [Clients -> Nat] /\ \A c \in Clients : sent[c] <= EchoMax[c]
  /\ received \in [Clients -> Seq(Bytes)]
  /\ backlog \in SUBSET Clients
  /\ socket \in [Fds -> Clients \union {None}]
  /\ rcvbuf \in [Clients -> Seq(Bytes)] /\ \A c \in Clients : Len(rcvbuf[c]) <= RcvCap
  /\ sndbuf \in [Clients -> Seq(Bytes)] /\ \A c \in Clients : Len(sndbuf[c]) <= SndCap
  /\ interest \in [Fds -> SUBSET {"in", "out"}]
  /\ edge \in SUBSET Sources
  /\ output_buffers \in [Fds -> Seq(Bytes)]
  /\ events \in [Sources -> SUBSET {"err", "in", "out"}]
  /\ cur \in Sources \union {None}
  /\ evs \in SUBSET {"err", "in", "out"}
  /\ buffer \in Seq(Bytes) /\ (buffer # <<>> => pc \in {"echo", "killed"})
  /\ {running, spurned} \subseteq BOOLEAN
  /\ pc \in {"test", "wait", "next", "accept", "recv", "echo", "ask", "out", "stopped",
             "killed"}

\* Where the bytes of the client behind f are, once it has written them.
Trail(f) ==
  LET c == socket[f]
  IN received[c] \o sndbuf[c] \o output_buffers[f]
       \o (IF cur = f THEN buffer ELSE <<>>) \o rcvbuf[c]

\* Every byte of a connected client is in one place: still to be read, in the hands
\* of the server, in its output buffer, in the socket, or back; and no byte of
\* another client is, whoever had the descriptor before.  Without output_buffers
\* bytes may be lost, and what is there is in order.
EchoIsComplete ==
  \A f \in Fds :
    socket[f] # None /\ client[socket[f]] # "gone" =>
      LET c == socket[f]
          trail == Trail(f)
      IN IF program = "buffer"
         THEN /\ Len(trail) = sent[c]
              /\ {trail[i] : i \in DOMAIN trail} = {Byte(c, n) : n \in 1..sent[c]}
         ELSE \A i \in DOMAIN trail :
                trail[i][1] = c /\ \A j \in 1..(i - 1) : trail[j][2] < trail[i][2]

\* Edge-triggered, and no edge is missed: when the server goes to sleep, a client
\* whose bytes wait to be read, who has left, or whose output could go out, is on
\* the ready list, and the listener is when somebody waits to be accepted; except
\* after an accept that failed with somebody waiting: then only the next client to
\* connect brings an edge.
NoEdgeMissed ==
  pc = "wait" /\ EdgeTriggered =>
    /\ backlog # {} /\ ~spurned => Listener \in edge
    /\ \A f \in Fds :
         LET c == socket[f]
         IN c # None =>
              /\ rcvbuf[c] # <<>> \/ client[c] # "open" => f \in edge
              /\ output_buffers[f] # <<>> =>
                   "out" \in interest[f] /\ (Len(sndbuf[c]) = SndCap \/ f \in edge)

\* While the server runs, again and again an accepted client has got back all that
\* it has written; without output_buffers, which may lose some of it, all that it
\* has written has been read.
EchoComesBack ==
  \A c \in Clients :
    []<>(FdOf(c) # {} /\ client[c] = "open" /\ running /\ pc # "killed" =>
           IF program = "buffer" THEN Len(received[c]) = sent[c] ELSE rcvbuf[c] = <<>>)
=============================================================================
