--------------------------- MODULE BlockingServers ---------------------------
(***************************************************************************)
(* The three blocking echo servers of the first stages: one client after   *)
(* the other (legacy/echo_server.cpp), a child process for each client     *)
(* (legacy/echo_server_fork.cpp), a thread for each client                 *)
(* (legacy/echo_server_pthread.cpp).  A behaviour is one of one program.   *)
(*                                                                         *)
(* A handler is what serves a client: main itself, a child or a thread; it *)
(* has the name of the client it was made for.  A call that has to wait    *)
(* falls asleep at some moment; only then does a signal interrupt it.      *)
(***************************************************************************)
EXTENDS Naturals, Sequences, FiniteSets

CONSTANTS
  Programs,     \* which of "single", "fork", "pthread"
  Clients,      \* clients, each connects once
  Main,         \* the process that listens
  None,
  EchoMax,      \* bound, per client: bytes it writes
  SndCap,       \* room of a socket's send buffer
  ReadSize      \* what recv is given

ASSUME ProgramsAssumption ==
  /\ Programs \subseteq {"single", "fork", "pthread"}
  /\ Main \notin Clients /\ None \notin Clients
  /\ EchoMax \in [Clients -> Nat]
  /\ {SndCap, ReadSize} \subseteq Nat \ {0}

VARIABLES
  program,      \* which program runs
  client,       \* "none", "open", "finished" (FIN), "gone" (reset, or cut off)
  sent,         \* how many bytes a client has written
  received,     \* what it has read
  backlog,      \* connected clients not accepted yet
  rcvbuf,       \* per client: the receive buffer of its socket
  sndbuf,       \* per client: the send buffer of its socket
  holders,      \* per client: the processes that have its socket open
  listening,    \* the processes that have listen_fd open
  pc,           \* where main is
  cur,          \* client_fd of main
  handler,      \* per handler: where it is; "sending" when send has taken a part
  serves,       \* per handler: its client_fd
  buffer,       \* per handler: what is still to be sent of its buffer
  running,
  heeded        \* history: SIGINT found main asleep in accept or recv, and woke it

outside == <<client, sent, received>>
sockets == <<rcvbuf, sndbuf>>
open    == <<client, holders, listening, backlog>>
hands   == <<handler, serves, buffer>>
signal  == <<running, heeded>>
vars    == <<program, client, sent, received, sockets, holders, listening, backlog,
             pc, cur, hands, signal>>

Take(s, n) == SubSeq(s, 1, n)
Drop(s, n) == SubSeq(s, n + 1, Len(s))
Least(a, b) == IF a < b THEN a ELSE b

Init ==
  /\ program \in Programs
  /\ client = [c \in Clients |-> "none"]
  /\ sent = [c \in Clients |-> 0]
  /\ received = [c \in Clients |-> <<>>]
  /\ backlog = <<>>
  /\ rcvbuf = [c \in Clients |-> <<>>]
  /\ sndbuf = [c \in Clients |-> <<>>]
  /\ holders = [c \in Clients |-> {}]
  /\ listening = {Main}
  /\ pc = "test"
  /\ cur = None
  /\ handler = [h \in Clients |-> "none"]
  /\ serves = [h \in Clients |-> None]
  /\ buffer = [h \in Clients |-> <<>>]
  /\ running = TRUE
  /\ heeded = FALSE

Over == pc \in {"returned", "killed"}

\* The process a handler is part of.
Process(h) == IF program = "fork" THEN h ELSE Main

\* Process p closes the sockets of cs, and listen_fd if p \in l.  A connection that
\* nobody holds is shut; when nobody listens those in the backlog are cut off.
Close(p, cs, l) ==
  LET shut == {c \in cs : holders[c] = {p}}
      left == IF listening \subseteq l THEN {backlog[i] : i \in DOMAIN backlog} ELSE {}
  IN /\ holders' = [c \in Clients |-> IF c \in cs THEN holders[c] \ {p} ELSE holders[c]]
     /\ listening' = listening \ l
     /\ backlog' = IF listening \subseteq l THEN <<>> ELSE backlog
     /\ client' = [c \in Clients |-> IF c \in shut \union left /\ client[c] = "open"
                                     THEN "gone" ELSE client[c]]

\* A process ends: the kernel closes what it has open, and its handlers are no more.
Exit(p) ==
  /\ Close(p, Clients, {p})
  /\ handler' = [h \in Clients |-> IF handler[h] # "none" /\ Process(h) = p
                                   THEN "ended" ELSE handler[h]]
  /\ buffer' = [h \in Clients |-> IF Process(h) = p THEN <<>> ELSE buffer[h]]
-----------------------------------------------------------------------------
(* Clients. *)

ClientConnects(c) ==
  /\ client[c] = "none"
  /\ listening # {}
  /\ client' = [client EXCEPT ![c] = "open"]
  /\ backlog' = Append(backlog, c)
  /\ UNCHANGED <<program, sent, received, sockets, holders, listening, pc, cur, hands,
                 signal>>

ClientWrites(c) ==
  /\ client[c] = "open"
  /\ sent[c] < EchoMax[c]
  /\ sent' = [sent EXCEPT ![c] = @ + 1]
  /\ rcvbuf' = [rcvbuf EXCEPT ![c] = Append(@, <<c, sent[c] + 1>>)]
  /\ UNCHANGED <<program, received, sndbuf, open, pc, cur, hands, signal>>

ClientReads(c) ==
  /\ client[c] \in {"open", "finished"}
  /\ sndbuf[c] # <<>>
  /\ received' = [received EXCEPT ![c] = Append(@, Head(sndbuf[c]))]
  /\ sndbuf' = [sndbuf EXCEPT ![c] = Tail(@)]
  /\ UNCHANGED <<program, sent, rcvbuf, open, pc, cur, hands, signal>>

ClientLeaves(c, how) ==
  /\ client[c] = "open" \/ (client[c] = "finished" /\ how = "gone")
  /\ client' = [client EXCEPT ![c] = how]
  /\ sndbuf' = IF how = "gone" THEN [sndbuf EXCEPT ![c] = <<>>] ELSE sndbuf
  /\ UNCHANGED <<program, sent, received, rcvbuf, holders, listening, backlog, pc, cur,
                 hands, signal>>
-----------------------------------------------------------------------------
(* main *)

\* while(running); at the end listen_fd is closed and main returns, and with it all
\* threads of its process are gone.
Test ==
  /\ pc = "test"
  /\ IF running
     THEN /\ pc' = "accept"
          /\ UNCHANGED <<open, handler, buffer>>
     ELSE /\ pc' = "returned"
          /\ Exit(Main)
  /\ UNCHANGED <<program, sent, received, sockets, cur, serves, signal>>

\* accept fails with another error than EINTR: continue.
AcceptFails ==
  /\ pc = "accept"
  /\ pc' = "test"
  /\ UNCHANGED <<program, outside, sockets, holders, listening, backlog, cur, hands, signal>>

\* The connection is served by main at once, or by a child or thread yet to be made.
Accept ==
  /\ pc = "accept"
  /\ backlog # <<>>
  /\ LET c == Head(backlog)
     IN /\ cur' = c
        /\ holders' = [holders EXCEPT ![c] = {Main}]
        /\ IF program = "single"
           THEN /\ pc' = "serve"
                /\ handler' = [handler EXCEPT ![c] = "recv"]
                /\ serves' = [serves EXCEPT ![c] = c]
           ELSE /\ pc' = "create"
                /\ UNCHANGED <<handler, serves>>
  /\ backlog' = Tail(backlog)
  /\ UNCHANGED <<program, outside, sockets, listening, buffer, signal>>

\* fork(): the child has a copy of all that is open.
Fork ==
  /\ pc = "create" /\ program = "fork"
  /\ holders' = [c \in Clients |-> IF Main \in holders[c] THEN holders[c] \union {cur}
                                   ELSE holders[c]]
  /\ listening' = listening \union {cur}
  /\ handler' = [handler EXCEPT ![cur] = "start"]
  /\ pc' = "parent"
  /\ UNCHANGED <<program, outside, sockets, backlog, cur, serves, buffer, signal>>

\* Slip: the parent keeps the client's descriptor.
SlipCloseInParent ==
  /\ pc = "parent"
  /\ pc' = "test"
  /\ UNCHANGED <<open, program, sent, received, sockets, cur, hands, signal>>

\* The parent closes its copy of client_fd.
CloseInParent ==
  /\ pc = "parent"
  /\ Close(Main, {cur}, {})
  /\ pc' = "test"
  /\ UNCHANGED <<program, sent, received, sockets, cur, hands, signal>>

\* pthread_create, with a copy of client_fd on the heap, and pthread_detach
PthreadCreate ==
  /\ pc = "create" /\ program = "pthread"
  /\ handler' = [handler EXCEPT ![cur] = "start"]
  /\ pc' = "test"
  /\ UNCHANGED <<program, outside, sockets, holders, listening, backlog, cur, serves,
                 buffer, signal>>

\* fork or pthread_create fails: close(client_fd).
CreateFails ==
  /\ pc = "create"
  /\ Close(Main, {cur}, {})
  /\ pc' = "test"
  /\ UNCHANGED <<program, sent, received, sockets, cur, hands, signal>>
-----------------------------------------------------------------------------
(* A handler. *)

At(h, where) == handler[h] = where

Goto(h, where) == handler' = [handler EXCEPT ![h] = where]

\* Slip: the thread was given the address of main's client_fd.
SlipBegin(h) ==
  /\ At(h, "start")
  /\ Close(Process(h), {}, {Process(h)} \ {Main})
  /\ serves' = [serves EXCEPT ![h] = IF program = "pthread" THEN cur ELSE h]
  /\ Goto(h, "recv")
  /\ UNCHANGED <<program, sent, received, sockets, pc, cur, buffer, signal>>

\* A child closes listen_fd.  It has a client_fd of its own, and so has a thread, by
\* the copy that main has made for it on the heap.
Begin(h) ==
  /\ At(h, "start")
  /\ Close(Process(h), {}, {Process(h)} \ {Main})
  /\ serves' = [serves EXCEPT ![h] = h]
  /\ Goto(h, "recv")
  /\ UNCHANGED <<program, sent, received, sockets, pc, cur, buffer, signal>>

Recv(h) ==
  /\ At(h, "recv")
  /\ rcvbuf[serves[h]] # <<>>
  /\ LET n == Least(Len(rcvbuf[serves[h]]), ReadSize)
     IN /\ buffer' = [buffer EXCEPT ![h] = Take(rcvbuf[serves[h]], n)]
        /\ rcvbuf' = [rcvbuf EXCEPT ![serves[h]] = Drop(@, n)]
  /\ Goto(h, "send")
  /\ UNCHANGED <<program, outside, sndbuf, holders, listening, backlog, pc, cur, serves,
                 signal>>

\* The recv loop is over: close(client_fd).  Main goes on, a thread ends, a child
\* exits.
End(h) ==
  /\ IF program = "fork"
     THEN Exit(h)
     ELSE /\ Close(Main, {serves[h]}, {})
          /\ Goto(h, "ended")
          /\ UNCHANGED buffer
  /\ pc' = IF program = "single" THEN "test" ELSE pc

\* recv gives 0 for a FIN, or an error for a reset.
RecvEnds(h) ==
  /\ At(h, "recv")
  /\ rcvbuf[serves[h]] = <<>> /\ client[serves[h]] # "open"
  /\ End(h)
  /\ UNCHANGED <<program, sent, received, sockets, cur, serves, signal>>

\* Slip: after a part has been taken send is given the buffer from its start again.
SlipSend(h) ==
  /\ At(h, "send") \/ At(h, "sending")
  /\ client[serves[h]] # "gone"
  /\ \E n \in 1..Least(Len(buffer[h]), SndCap - Len(sndbuf[serves[h]])) :
       /\ sndbuf' = [sndbuf EXCEPT ![serves[h]] = @ \o Take(buffer[h], n)]
       /\ buffer' = [buffer EXCEPT ![h] = Take(@, Len(@) - n)]
       /\ Goto(h, IF n = Len(buffer[h]) THEN "recv" ELSE "sending")
  /\ UNCHANGED <<program, outside, rcvbuf, holders, listening, backlog, pc, cur, serves,
                 signal>>

\* send takes bytes as there is room, and returns when it has taken them all.
Send(h) ==
  /\ At(h, "send") \/ At(h, "sending")
  /\ client[serves[h]] # "gone"
  /\ \E n \in 1..Least(Len(buffer[h]), SndCap - Len(sndbuf[serves[h]])) :
       /\ sndbuf' = [sndbuf EXCEPT ![serves[h]] = @ \o Take(buffer[h], n)]
       /\ buffer' = [buffer EXCEPT ![h] = Drop(@, n)]
       /\ Goto(h, IF n = Len(buffer[h]) THEN "recv" ELSE "sending")
  /\ UNCHANGED <<program, outside, rcvbuf, holders, listening, backlog, pc, cur, serves,
                 signal>>

\* Slip: the error of send is not looked at.
SlipSendFails(h) ==
  /\ At(h, "send") \/ At(h, "sending")
  /\ client[serves[h]] = "gone"
  /\ Goto(h, "recv")
  /\ UNCHANGED <<open, pc, program, sent, received, sockets, cur, serves, buffer, signal>>

\* send fails: SIGPIPE ends the process, or the rest of the buffer is given up and
\* recv goes on.
SendFails(h) ==
  /\ At(h, "send") \/ At(h, "sending")
  /\ client[serves[h]] = "gone"
  /\ \/ /\ Exit(Process(h))
        /\ pc' = IF Process(h) = Main THEN "killed" ELSE pc
     \/ /\ buffer' = [buffer EXCEPT ![h] = <<>>]
        /\ Goto(h, "recv")
        /\ UNCHANGED <<open, pc>>
  /\ UNCHANGED <<program, sent, received, sockets, cur, serves, signal>>
-----------------------------------------------------------------------------
(* SIGINT *)

\* Who runs handle_sigint, besides noting it in running: the one process, or its
\* children too when it comes from the terminal; any one of the threads.
Signalled ==
  LET alive == {h \in Clients : handler[h] \notin {"none", "ended"}}
  IN CASE program = "single"  -> {{Main}}
       [] program = "fork"    -> {{Main}, {Main} \union alive}
       [] program = "pthread" -> {{Main}} \union {{h} : h \in alive}

\* A single server is its own handler.
Runs(h) == IF program = "single" THEN {Main} ELSE {h}

\* Calls that may sleep: accept, recv and send with nothing to give or take.
Idle == pc = "accept" /\ backlog = <<>>
Starved(h) == At(h, "recv") /\ rcvbuf[serves[h]] = <<>> /\ client[serves[h]] = "open"
Stuffed(h) == At(h, "send") /\ Len(sndbuf[serves[h]]) = SndCap

\* Slip: SA_RESTART, as signal() would set it.
SlipInterrupt ==
  /\ running /\ ~Over
  /\ running' = FALSE
  /\ \E who \in Signalled : \E asleep \in SUBSET who :
       heeded' = (Main \in asleep /\ (Idle \/ (pc = "serve" /\ Starved(cur))))
  /\ UNCHANGED <<program, outside, sockets, holders, listening, backlog, pc, cur, hands>>

\* No SA_RESTART: a call that sleeps fails with EINTR.  After accept main continues,
\* after recv the handler closes, after send the rest of its buffer is lost (but a
\* send that has taken a part returns that, and the loop goes on).
Interrupt ==
  /\ running /\ ~Over
  /\ running' = FALSE
  /\ \E who \in Signalled : \E asleep \in SUBSET who :
       LET hit == {h \in Clients : Runs(h) \subseteq asleep}
           cut == {h \in hit : Stuffed(h)}
       IN /\ heeded' = (Main \in asleep /\ (Idle \/ (pc = "serve" /\ Starved(cur))))
          /\ pc' = IF Main \in asleep /\ Idle THEN "test" ELSE pc
          /\ handler' = [h \in Clients |->
               CASE h \in hit /\ Starved(h) -> "closing"
                 [] h \in cut -> "recv"
                 [] OTHER -> handler[h]]
          /\ buffer' = [h \in Clients |-> IF h \in cut THEN <<>> ELSE buffer[h]]
  /\ UNCHANGED <<program, outside, sockets, holders, listening, backlog, cur, serves>>

\* "recv error", and the loop is left.
CloseInterrupted(h) ==
  /\ At(h, "closing")
  /\ End(h)
  /\ UNCHANGED <<program, sent, received, sockets, cur, serves, signal>>
-----------------------------------------------------------------------------
\* What main does once it can; accept waits for a client.
MainGoesOn ==
  \/ Test \/ Accept
  \/ Fork \/ CloseInParent \/ PthreadCreate \/ CreateFails

MainLoop == MainGoesOn \/ AcceptFails

Handle(h) ==
  \/ Begin(h) \/ Recv(h) \/ RecvEnds(h)
  \/ Send(h) \/ SendFails(h) \/ CloseInterrupted(h)

Next ==
  \/ MainLoop
  \/ \E h \in Clients : Handle(h)
  \/ \E c \in Clients :
       \/ ClientConnects(c) \/ ClientWrites(c) \/ ClientReads(c)
       \/ \E how \in {"finished", "gone"} : ClientLeaves(c, how)
  \/ Interrupt

SafeSpec == Init /\ [][Next]_vars

\* Processes and threads go on when they can.  Nothing makes an accept return while
\* nobody comes; while somebody waits it does not fail for ever.  A client that is
\* there reads what comes.
Spec ==
  /\ SafeSpec
  /\ WF_vars(MainGoesOn) /\ SF_vars(Accept)
  /\ \A c \in Clients : WF_vars(Handle(c)) /\ WF_vars(ClientReads(c))
-----------------------------------------------------------------------------
Bytes == UNION {{c} \X (1..EchoMax[c]) : c \in Clients}

Places == {"none", "start", "recv", "send", "sending", "closing", "ended"}

TypeOK ==
  /\ program \in Programs
  /\ client \in [Clients -> {"none", "open", "finished", "gone"}]
  /\ sent \in [Clients -> Nat] /\ \A c \in Clients : sent[c] <= EchoMax[c]
  /\ received \in [Clients -> Seq(Bytes)]
  /\ backlog \in Seq(Clients)
  /\ rcvbuf \in [Clients -> Seq(Bytes)]
  /\ sndbuf \in [Clients -> Seq(Bytes)] /\ \A c \in Clients : Len(sndbuf[c]) <= SndCap
  /\ holders \in [Clients -> SUBSET (Clients \union {Main})]
  /\ listening \in SUBSET (Clients \union {Main})
  /\ pc \in {"test", "accept", "create", "parent", "serve", "returned", "killed"}
  /\ cur \in Clients \union {None}
  /\ handler \in [Clients -> Places]
  /\ serves \in [Clients -> Clients \union {None}]
  /\ buffer \in [Clients -> Seq(Bytes)]
  /\ \A h \in Clients : /\ Len(buffer[h]) <= ReadSize
                        /\ buffer[h] # <<>> => handler[h] \in {"send", "sending"}
  /\ running \in BOOLEAN
  /\ heeded \in BOOLEAN

\* A client gets exactly its own bytes back, each once and in order, and as long as
\* no signal comes none is missing: what is not back yet is in its socket or in the
\* buffer of the one handler that has it.
EchoIsExact ==
  \A c \in Clients : client[c] \in {"open", "finished"} =>
    LET back == received[c] \o sndbuf[c]
        held == IF serves[c] = c THEN buffer[c] ELSE <<>>
    IN /\ \A i, j \in DOMAIN back :
            back[i][1] = c /\ (i < j => back[i][2] < back[j][2])
       /\ running /\ ~Over => back \o held \o rcvbuf[c] = [n \in 1..sent[c] |-> <<c, n>>]

\* What a client writes comes back.  A child or thread per client: to every client,
\* also one that still waits to be accepted while others are served; one client
\* after the other: to the one that is served.
EchoComesBack ==
  \A c \in Clients :
    []<>(client[c] = "open" /\ running /\ ~Over
           /\ (program = "single" => cur = c /\ pc = "serve")
         => Len(received[c]) = sent[c])

\* The connection of a client that has left is closed by every process that has it,
\* so that no descriptor leaks and a client that only finished sees the end.
LeaversAreReleased ==
  \A c \in Clients : client[c] \in {"finished", "gone"} /\ holders[c] # {}
                       ~> holders[c] = {}

\* main may stay where it is: in accept while nobody comes; or it serves its client
\* itself, or is about to, and that one stays.
Kept ==
  \/ Idle
  \/ program = "single" /\ (pc = "accept" \/ (pc = "serve" /\ client[cur] = "open"))

\* SIGINT ends the server, with all who listen, and nobody is left in the backlog.  A
\* main that sleeps in accept or recv and is given the signal is woken for it.  One
\* that is not, because it falls asleep only then or another thread has the signal,
\* is ended by the next client, or by the leaving of its own; until then it may stay.
InterruptStops ==
  heeded \/ (~running /\ ~Kept) ~> Over /\ listening = {} /\ backlog = <<>>
=============================================================================
