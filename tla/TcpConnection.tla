--------------------------- MODULE TcpConnection ---------------------------
(***************************************************************************)
(* What one established TcpConnection does with the bytes of its client    *)
(* (TcpConnection.cpp, handleEvent of Channel.cpp, the interest Epoll.cpp  *)
(* keeps): it echoes them, keeps what the kernel does not take and asks    *)
(* for EPOLLOUT, and sends the messages another thread gives to send().    *)
(* The client, the two socket buffers and epoll are the environment; a     *)
(* system call is one step, and the client moves between any two.          *)
(*                                                                         *)
(* A byte is <<its origin, its number>>: the client's come as "client", the *)
(* bytes of messages given to send() as "app".                             *)
(***************************************************************************)
EXTENDS Integers, Sequences

CONSTANTS
  EchoMax,      \* bound: bytes the client writes
  MsgMax,       \* bound: messages given to send()
  MsgLen,       \* bytes in such a message
  RcvCap,       \* room of the socket's receive buffer
  SndCap,       \* room of the socket's send buffer
  ReadSize      \* sizeof(buffer)-1 in handleRead

ASSUME SizesAssumption ==
  /\ {EchoMax, MsgMax} \subseteq Nat
  /\ {MsgLen, RcvCap, SndCap, ReadSize} \subseteq Nat \ {0}

VARIABLES
  client,       \* "open", "finished" (its FIN is out), "gone" (reset)
  sent,         \* how many bytes the client has written
  received,     \* what it has read
  rcvbuf,       \* the socket's receive buffer
  sndbuf,       \* the socket's send buffer
  state,        \* state_
  input,        \* input_buffer_
  output,       \* output_buffer_
  total_sent,   \* the local of handleWrite
  events,       \* events_ of the channel
  interest,     \* what its epoll entry waits for, {}: not in the epoll
  revents,      \* revents_ of the channel, less what handleEvent dealt with
  pc,           \* "poll", "dispatch", "event", "write": in handleWrite's loop
  functors,     \* functors for this connection that wait in its loop
  messages,     \* how many messages send() has accepted
  closer,       \* the thread in forceClose: "idle", "tested", "done"
  notified,     \* how often closeCallback_ was called
  released      \* the TcpConnection is destroyed, its fd closed

peer     == <<client, sent, received>>
buffers  == <<input, output, total_sent>>
channel  == <<events, interest>>
others   == <<messages, closer>>
life     == <<state, notified, released>>
vars     == <<peer, rcvbuf, sndbuf, buffers, channel, revents, pc, functors, others,
              life>>

Byte(origin, n) == <<origin, n>>
Message(m) == [i \in 1..MsgLen |-> Byte("app", (m - 1) * MsgLen + i)]

SendFunctor(m) == [run |-> "send", msg |-> m]
CloseFunctor   == [run |-> "forceClose", msg |-> 0]

Least(a, b) == IF a < b THEN a ELSE b
Take(s, n) == SubSeq(s, 1, n)
Drop(s, n) == SubSeq(s, n + 1, Len(s))

Init ==
  /\ client = "open" /\ sent = 0 /\ received = <<>>
  /\ rcvbuf = <<>> /\ sndbuf = <<>>
  /\ state = "kConnected"
  /\ input = <<>> /\ output = <<>> /\ total_sent = 0
  /\ events = {"in"} /\ interest = {"in"} /\ revents = {}
  /\ pc = "poll"
  /\ functors = <<>>
  /\ messages = 0
  /\ closer = "idle"
  /\ notified = 0
  /\ released = FALSE
-----------------------------------------------------------------------------
(* The client.  A reset throws away what is on its way to it; what the kernel has
   received before can still be read. *)

ClientWrites ==
  /\ client = "open" /\ ~released
  /\ sent < EchoMax
  /\ Len(rcvbuf) < RcvCap
  /\ sent' = sent + 1
  /\ rcvbuf' = Append(rcvbuf, Byte("client", sent + 1))
  /\ UNCHANGED <<client, received, sndbuf, buffers, channel, revents, pc, functors,
                 others, life>>

ClientReads ==
  /\ client # "gone"
  /\ sndbuf # <<>>
  /\ received' = Append(received, Head(sndbuf))
  /\ sndbuf' = Tail(sndbuf)
  /\ UNCHANGED <<client, sent, rcvbuf, buffers, channel, revents, pc, functors,
                 others, life>>

ClientFinishes ==
  /\ client = "open"
  /\ client' = "finished"
  /\ UNCHANGED <<sent, received, rcvbuf, sndbuf, buffers, channel, revents, pc,
                 functors, others, life>>

ClientResets ==
  /\ client # "gone"
  /\ client' = "gone"
  /\ sndbuf' = <<>>
  /\ UNCHANGED <<sent, received, rcvbuf, buffers, channel, revents, pc, functors,
                 others, life>>
-----------------------------------------------------------------------------
(* Other threads of the program. *)

\* send: accepted while the connection is kConnected, and queued to its loop.
Send ==
  /\ messages < MsgMax
  /\ state = "kConnected"
  /\ messages' = messages + 1
  /\ functors' = Append(functors, SendFunctor(messages + 1))
  /\ UNCHANGED <<peer, rcvbuf, sndbuf, buffers, channel, revents, pc, closer, life>>

\* forceClose, the test of state_ ...
TestState ==
  /\ closer = "idle"
  /\ closer' = IF state \in {"kConnected", "kDisconnecting"} THEN "tested" ELSE "done"
  /\ UNCHANGED <<peer, rcvbuf, sndbuf, buffers, channel, revents, pc, functors,
                 messages, life>>

\* ... and the store, with forceCloseInLoop queued behind it.
MarkDisconnecting ==
  /\ closer = "tested"
  /\ closer' = "done"
  /\ state' = "kDisconnecting"
  /\ functors' = Append(functors, CloseFunctor)
  /\ UNCHANGED <<peer, rcvbuf, sndbuf, buffers, channel, revents, pc, messages,
                 notified, released>>
-----------------------------------------------------------------------------
(* The connection's loop. *)

Ready ==
  {e \in {"err"} : client = "gone"}
    \union {e \in interest \intersect {"in"} : rcvbuf # <<>> \/ client # "open"}
    \union {e \in interest \intersect {"out"} : Len(sndbuf) < SndCap \/ client = "gone"}

\* epoll_wait returns the channel.
Poll ==
  /\ pc = "poll"
  /\ interest # {} /\ Ready # {}
  /\ revents' = Ready
  /\ pc' = "dispatch"
  /\ UNCHANGED <<peer, rcvbuf, sndbuf, buffers, channel, functors, others, life>>

BeginEvent ==
  /\ pc = "dispatch"
  /\ pc' = "event"
  /\ UNCHANGED <<peer, rcvbuf, sndbuf, buffers, channel, revents, functors, others,
                 life>>

\* Slip: enableWriting and disableWriting without updateChannel.
SlipUpdateChannel(e) == events' = e /\ UNCHANGED interest

\* updateChannel of Epoll: ADD, MOD, or DEL when no event is left.
UpdateChannel(e) == events' = e /\ interest' = e

\* enableWriting and disableWriting, each followed by updateChannel.
SetWriting(on) ==
  UpdateChannel(IF on THEN events \union {"out"} ELSE events \ {"out"})

\* handleClose, up to the return of closeCallback_.
HandleClose ==
  IF state = "kDisconnected"
  THEN UNCHANGED <<channel, life>>
  ELSE /\ state' = "kDisconnected"
       /\ events' = {} /\ interest' = {}
       /\ notified' = notified + 1
       /\ UNCHANGED released

\* handleEvent calls the callback for e next.
Dispatching(e) ==
  /\ pc = "event"
  /\ e \in revents
  /\ e = "in" => "err" \notin revents
  /\ e = "out" => revents = {"out"}

HandleError ==
  /\ Dispatching("err")
  /\ revents' = revents \ {"err"}
  /\ HandleClose
  /\ UNCHANGED <<peer, rcvbuf, sndbuf, buffers, pc, functors, others>>

\* handleRead: recv gives bytes, and the loop goes round.
Receive ==
  /\ Dispatching("in")
  /\ rcvbuf # <<>>
  /\ LET n == Least(Len(rcvbuf), ReadSize)
     IN /\ input' = input \o Take(rcvbuf, n)
        /\ rcvbuf' = Drop(rcvbuf, n)
  /\ UNCHANGED <<peer, sndbuf, output, total_sent, channel, revents, pc, functors,
                 others, life>>

\* Slip: a recv of 0 bytes ends the loop as EAGAIN does.
SlipReceiveEnd ==
  /\ Dispatching("in")
  /\ rcvbuf = <<>>
  /\ client # "open"
  /\ revents' = revents \ {"in"}
  /\ UNCHANGED <<peer, rcvbuf, sndbuf, buffers, channel, pc, functors, others, life>>

\* handleRead: recv gives 0 for a FIN, or an error.
ReceiveEnd ==
  /\ Dispatching("in")
  /\ rcvbuf = <<>>
  /\ client # "open"
  /\ revents' = revents \ {"in"}
  /\ HandleClose
  /\ UNCHANGED <<peer, rcvbuf, sndbuf, buffers, pc, functors, others>>

\* sendInLoop: the bytes the kernel has not taken wait, and EPOLLOUT is asked for.
KeepUnsent(rest) ==
  /\ output' = output \o rest
  /\ IF rest # <<>> /\ "out" \notin events
     THEN SetWriting(TRUE)
     ELSE UNCHANGED channel

\* Slip: sendInLoop tries the kernel first although older bytes wait.
SlipSendInLoop(msg) ==
  LET n == IF client = "gone" THEN 0 ELSE Least(Len(msg), SndCap - Len(sndbuf))
  IN /\ sndbuf' = sndbuf \o Take(msg, n)
     /\ KeepUnsent(Drop(msg, n))

\* sendInLoop: straight to the kernel when nothing waits before it.  On a client
\* that is gone send fails and the message is dropped.
SendInLoop(msg) ==
  IF state # "kConnected" \/ (output = <<>> /\ client = "gone")
  THEN UNCHANGED <<sndbuf, output, channel>>
  ELSE LET n == IF output = <<>> THEN Least(Len(msg), SndCap - Len(sndbuf)) ELSE 0
       IN /\ sndbuf' = sndbuf \o Take(msg, n)
          /\ KeepUnsent(Drop(msg, n))

\* handleRead: EAGAIN, and what has been read is echoed.
Echo ==
  /\ Dispatching("in")
  /\ rcvbuf = <<>>
  /\ client = "open"
  /\ revents' = revents \ {"in"}
  /\ input' = <<>>
  /\ IF input # <<>> THEN SendInLoop(input) ELSE UNCHANGED <<sndbuf, output, channel>>
  /\ UNCHANGED <<peer, rcvbuf, total_sent, pc, functors, others, life>>

\* handleWrite with nothing to write; or the beginning of its loop.
BeginWrite ==
  /\ Dispatching("out")
  /\ revents' = {}
  /\ total_sent' = 0
  /\ IF output = <<>>
     THEN /\ IF "out" \in events THEN SetWriting(FALSE) ELSE UNCHANGED channel
          /\ UNCHANGED pc
     ELSE pc' = "write" /\ UNCHANGED channel
  /\ UNCHANGED <<peer, rcvbuf, sndbuf, input, output, functors, others, life>>

\* handleWrite: send takes some bytes.
WriteSome ==
  /\ pc = "write"
  /\ client # "gone"
  /\ total_sent < Len(output)
  /\ Len(sndbuf) < SndCap
  /\ LET n == Least(Len(output) - total_sent, SndCap - Len(sndbuf))
     IN /\ sndbuf' = sndbuf \o SubSeq(output, total_sent + 1, total_sent + n)
        /\ total_sent' = total_sent + n
  /\ UNCHANGED <<peer, rcvbuf, input, output, channel, revents, pc, functors, others,
                 life>>

\* handleWrite: send fails.
WriteFails ==
  /\ pc = "write"
  /\ client = "gone"
  /\ total_sent < Len(output)
  /\ pc' = "event"
  /\ total_sent' = 0
  /\ HandleClose
  /\ UNCHANGED <<peer, rcvbuf, sndbuf, input, output, revents, functors, others>>

\* Slip: EPOLLOUT is given up after EAGAIN too.
SlipStopWriting ==
  /\ pc = "write"
  /\ total_sent = Len(output) \/ (client # "gone" /\ Len(sndbuf) = SndCap)
  /\ pc' = "event"
  /\ output' = Drop(output, total_sent)
  /\ total_sent' = 0
  /\ SetWriting(FALSE)
  /\ UNCHANGED <<peer, rcvbuf, sndbuf, input, revents, functors, others, life>>

\* Slip: what was written is not erased when the kernel did not take all.
SlipEndWrite ==
  /\ pc = "write"
  /\ total_sent = Len(output) \/ (client # "gone" /\ Len(sndbuf) = SndCap)
  /\ pc' = "event"
  /\ total_sent' = 0
  /\ IF total_sent = Len(output)
     THEN /\ output' = <<>>
          /\ IF state = "kDisconnecting" THEN HandleClose
             ELSE SetWriting(FALSE) /\ UNCHANGED life
     ELSE UNCHANGED <<output, channel, life>>
  /\ UNCHANGED <<peer, rcvbuf, sndbuf, input, revents, functors, others>>

\* Slip: total_sent survives the call.
SlipKeepCount ==
  /\ pc = "write"
  /\ total_sent = Len(output) \/ (client # "gone" /\ Len(sndbuf) = SndCap)
  /\ pc' = "event"
  /\ output' = Drop(output, total_sent)
  /\ IF output' = <<>> THEN SetWriting(FALSE) ELSE UNCHANGED channel
  /\ UNCHANGED <<peer, rcvbuf, sndbuf, input, total_sent, revents, functors, others,
                 life>>

\* handleWrite: all is written, or EAGAIN; what was written is erased.
EndWrite ==
  /\ pc = "write"
  /\ total_sent = Len(output) \/ (client # "gone" /\ Len(sndbuf) = SndCap)
  /\ pc' = "event"
  /\ output' = Drop(output, total_sent)
  /\ total_sent' = 0
  /\ CASE output' # <<>>           -> UNCHANGED <<channel, life>>
       [] output' = <<>> /\ state = "kDisconnecting" -> HandleClose
       [] OTHER -> /\ IF "out" \in events THEN SetWriting(FALSE) ELSE UNCHANGED channel
                   /\ UNCHANGED life
  /\ UNCHANGED <<peer, rcvbuf, sndbuf, input, revents, functors, others>>

EndEvent ==
  /\ pc = "event"
  /\ revents = {}
  /\ pc' = "poll"
  /\ UNCHANGED <<peer, rcvbuf, sndbuf, buffers, channel, revents, functors, others,
                 life>>

\* The loop runs the next functor, before or after it handles the channel.
RunSend ==
  /\ pc \in {"poll", "dispatch"}
  /\ functors # <<>> /\ Head(functors).run = "send"
  /\ functors' = Tail(functors)
  /\ SendInLoop(Message(Head(functors).msg))
  /\ UNCHANGED <<peer, rcvbuf, input, total_sent, revents, pc, others, life>>

\* forceCloseInLoop
RunForceClose ==
  /\ pc \in {"poll", "dispatch"}
  /\ functors # <<>> /\ Head(functors).run = "forceClose"
  /\ functors' = Tail(functors)
  /\ IF state \in {"kConnected", "kDisconnecting"} THEN HandleClose
     ELSE UNCHANGED <<channel, life>>
  /\ UNCHANGED <<peer, rcvbuf, sndbuf, buffers, revents, pc, others>>

\* The last shared_ptr goes, some time after closeCallback_: ~TcpConnection.
\* forceClose and functors hold one, handlers rely on one (TcpServer.tla).
Release ==
  /\ ~released /\ notified > 0
  /\ pc = "poll"
  /\ functors = <<>> /\ closer # "tested"
  /\ released' = TRUE
  /\ rcvbuf' = <<>>
  /\ UNCHANGED <<peer, sndbuf, buffers, channel, revents, pc, functors, others, state,
                 notified>>
-----------------------------------------------------------------------------
Client == ClientWrites \/ ClientReads \/ ClientFinishes \/ ClientResets

OtherThreads == Send \/ TestState \/ MarkDisconnecting

LoopThread ==
  \/ Poll \/ BeginEvent \/ EndEvent
  \/ HandleError
  \/ Receive \/ ReceiveEnd \/ Echo
  \/ BeginWrite \/ WriteSome \/ WriteFails \/ EndWrite
  \/ RunSend \/ RunForceClose
  \/ Release

Next == Client \/ OtherThreads \/ LoopThread

SafeSpec == Init /\ [][Next]_vars

\* Threads that can go on do, and a client that is still there reads.
Spec ==
  /\ SafeSpec
  /\ WF_vars(LoopThread)
  /\ WF_vars(MarkDisconnecting)
  /\ WF_vars(ClientReads)
-----------------------------------------------------------------------------
Bytes == ({"client"} \X (1..EchoMax)) \union ({"app"} \X (1..(MsgMax * MsgLen)))

TypeOK ==
  /\ client \in {"open", "finished", "gone"}
  /\ sent \in 0..EchoMax
  /\ {received, input, output} \subseteq Seq(Bytes)
  /\ rcvbuf \in Seq(Bytes) /\ Len(rcvbuf) <= RcvCap
  /\ sndbuf \in Seq(Bytes) /\ Len(sndbuf) <= SndCap
  /\ state \in {"kConnected", "kDisconnecting", "kDisconnected"}
  /\ total_sent \in 0..Len(output)
  /\ {events, interest} \subseteq SUBSET {"in", "out"}
  /\ revents \subseteq {"err", "in", "out"}
  /\ pc \in {"poll", "dispatch", "event", "write"}
  /\ functors \in Seq({SendFunctor(m) : m \in 1..MsgMax} \union {CloseFunctor})
  /\ messages \in 0..MsgMax
  /\ closer \in {"idle", "tested", "done"}
  /\ notified \in 0..2
  /\ released \in BOOLEAN

\* Everything on its way to the client: read, in the kernel, in output_buffer_.  A
\* client that is gone gets no more than it has read.
Stream == IF client = "gone" THEN received
          ELSE received \o sndbuf \o Drop(output, total_sent)

\* The numbers of the client's bytes among the first n of s.
Echoed(s, n) == {s[i][2] : i \in {j \in 1..n : s[j][1] = "client"}}

\* The echo is the client's bytes, in order, without gaps or repetitions: before each
\* byte of it come exactly those the client wrote before; and while the connection is
\* up what is not in it yet waits in the two buffers that lead to it, and nothing else.
EchoIsExact ==
  /\ \A i \in DOMAIN Stream :
       Stream[i][1] = "client" => Echoed(Stream, i - 1) = 1..(Stream[i][2] - 1)
  /\ state = "kConnected" /\ client # "gone" =>
       \E k \in 0..sent :
         /\ Echoed(Stream, Len(Stream)) = 1..k
         /\ input \o rcvbuf = [i \in 1..(sent - k) |-> Byte("client", k + i)]

\* Messages from another thread reach the stream in order and in one piece: no
\* echo, and no other message, between two bytes of the same one.
MessagesIntact ==
  /\ \A i, j \in DOMAIN Stream :
       i < j /\ Stream[i][1] = "app" /\ Stream[j][1] = "app" => Stream[i][2] < Stream[j][2]
  /\ \A i \in DOMAIN Stream, m \in 1..MsgMax, p \in 1..(MsgLen - 1) :
       Stream[i] = Message(m)[p] /\ i < Len(Stream) => Stream[i + 1] = Message(m)[p + 1]

\* Between two events EPOLLOUT is waited for exactly while output_buffer_ holds
\* something: without it the rest would be stuck, with it for nothing the loop
\* would spin.  A closed connection is out of the epoll and stays out.
InterestFollowsOutput ==
  /\ pc = "poll" /\ state = "kConnected" => ("out" \in interest <=> output # <<>>)
  /\ state = "kDisconnected" => interest = {} /\ events = {}

Undisturbed == client = "open" /\ closer = "idle"

\* A channel without interest does not report again, so that what is in
\* output_buffer_ goes out only while this holds.
CanWrite == interest # {} \/ "out" \in revents \/ pc = "write"

Coming == IF CanWrite \/ client = "gone" THEN Stream ELSE received \o sndbuf

ES == INSTANCE EchoStream WITH
  written <- sent,
  accepted <- messages,
  stream <- Coming,
  asked <- closer # "idle",
  closed <- state # "kConnected"

\* The connection does what EchoStream.tla promises.  What has been put on its way to
\* the client by handleRead and sendInLoop comes out unchanged, through output_buffer_,
\* EPOLLOUT and any number of partial sends; nothing is cut off before the client has
\* left or forceClose was called; and as long as neither happens every byte the client
\* wrote and every message send() accepted is put on its way and read.
ImplementsEchoStream == ES!Spec

\* A client that finishes or resets, and a forceClose, end the connection.
CloseIsFinished == ~Undisturbed ~> released
=============================================================================
