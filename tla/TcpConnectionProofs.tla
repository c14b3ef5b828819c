------------------------ MODULE TcpConnectionProofs ------------------------
(***************************************************************************)
(* Theorems about one connection, for any number of bytes and messages and *)
(* any sizes of the kernel's and the connection's buffers: its types; that *)
(* it closes at most twice; that EPOLLOUT is waited for exactly while      *)
(* output waits; that its client gets back what it wrote, in order,        *)
(* without gaps or repetitions; that the messages of send() come in order  *)
(* and in one piece; and that every step is one EchoStream allows.         *)
(***************************************************************************)
EXTENDS TcpConnection, SequenceTheorems, TLAPS

\* What a system call takes of a buffer and what it leaves.
LEMMA TakeDrop ==
  ASSUME NEW S, NEW s \in Seq(S), NEW n \in 0 .. Len(s)
  PROVE  /\ Take(s, n) \in Seq(S) /\ Len(Take(s, n)) = n
         /\ Drop(s, n) \in Seq(S) /\ Len(Drop(s, n)) = Len(s) - n
<1>1. Len(s) \in Nat /\ \A i \in 1 .. Len(s) : s[i] \in S
  BY LenProperties, ElementOfSeq
<1>2. Take(s, n) \in Seq(S) /\ Len(Take(s, n)) = n
  BY <1>1, SubSeqProperties DEF Take
<1>3. Drop(s, n) \in Seq(S) /\ Len(Drop(s, n)) = Len(s) - n
  BY <1>1, SubSeqProperties DEF Drop
<1> QED
  BY <1>2, <1>3

\* Reading a byte moves it from what waits to what was read.
LEMMA MoveHead ==
  ASSUME NEW S, NEW d \in Seq(S), NEW s \in Seq(S), s # <<>>
  PROVE  Append(d, Head(s)) \o Tail(s) = d \o s
<1>1. Head(s) \in S /\ Tail(s) \in Seq(S) /\ Len(s) \in Nat \ {0}
  BY HeadTailProperties, EmptySeq
<1>2. s = <<Head(s)>> \o Tail(s)
  <2>1. SubSeq(s, 1, Len(s)) = <<s[1]>> \o SubSeq(s, 1 + 1, Len(s))
    BY <1>1, SubSeqRecursiveFirst
  <2>2. Head(s) = s[1] /\ Tail(s) = SubSeq(s, 1 + 1, Len(s))
    BY <1>1, TailIsSubSeq
  <2> QED
    BY <2>1, <2>2, SubSeqFull
<1>3. <<Head(s)>> \in Seq(S)
  BY <1>1
<1>4. Append(d, Head(s)) = d \o <<Head(s)>>
  BY <1>1, AppendIsConcat
<1>5. (d \o <<Head(s)>>) \o Tail(s) = d \o (<<Head(s)>> \o Tail(s))
  BY <1>1, <1>3, ConcatAssociative
<1> QED
  BY <1>2, <1>4, <1>5

\* What is put at the end of the last part is put at the end of the whole.
LEMMA AppendToConcat ==
  ASSUME NEW S, NEW d \in Seq(S), NEW s \in Seq(S), NEW e \in S
  PROVE  d \o Append(s, e) = Append(d \o s, e)
<1>1. <<e>> \in Seq(S)
  OBVIOUS
<1>2. d \o Append(s, e) = d \o (s \o <<e>>)
  BY AppendIsConcat
<1>3. Append(d \o s, e) = (d \o s) \o <<e>>
  BY ConcatProperties, AppendIsConcat
<1> QED
  BY <1>1, <1>2, <1>3, ConcatAssociative

USE DEF vars, peer, buffers, channel, others, life

-----------------------------------------------------------------------------
(* Types. *)

\* forceClose and the client can each close the connection once: state_ goes back
\* from kDisconnected at most one time.
Closing ==
  /\ state = "kConnected" => notified = 0
  /\ state = "kDisconnecting" => closer = "done" /\ notified <= 1
  /\ notified = 2 => closer = "done"

TypeInv == TypeOK /\ Closing

LEMMA NoBytes ==
  ASSUME NEW S
  PROVE  <<>> \in Seq(S) /\ Len(<<>>) = 0
  OBVIOUS

LEMMA ByteTypes ==
  /\ \A n \in 1 .. EchoMax : Byte("client", n) \in Bytes
  /\ \A n \in 1 .. MsgMax * MsgLen : Byte("app", n) \in Bytes
BY DEF Byte, Bytes

\* A message is made of bytes of its own.
LEMMA MessageType ==
  ASSUME NEW m \in 1 .. MsgMax
  PROVE  Message(m) \in Seq(Bytes)
<1>1. MsgMax \in Nat /\ MsgLen \in Nat
  BY SizesAssumption
<1>2. \A a, b \in Nat : a * b \in Nat
  OBVIOUS
<1>3. (m - 1) * MsgLen \in Nat /\ (MsgMax - m) * MsgLen \in Nat
  BY <1>1, <1>2
<1>4. MsgMax * MsgLen = (m - 1) * MsgLen + MsgLen + (MsgMax - m) * MsgLen
  BY <1>1
<1>5. ASSUME NEW i \in 1 .. MsgLen
      PROVE  (m - 1) * MsgLen + i \in 1 .. MsgMax * MsgLen
  <2> DEFINE x == (m - 1) * MsgLen
             y == (MsgMax - m) * MsgLen
             z == MsgMax * MsgLen
  <2>1. x \in Nat /\ y \in Nat /\ z = x + MsgLen + y
    BY <1>3, <1>4
  <2> HIDE DEF x, y, z
  <2>2. x + i \in 1 .. z
    BY <1>1, <2>1
  <2> QED
    BY <2>2 DEF x, z
<1> QED
  BY <1>1, <1>5, ByteTypes DEF Message

\* The parts of SendInLoop, whether the kernel takes all, some or nothing.
LEMMA SendInLoopTypes ==
  ASSUME TypeOK, NEW msg \in Seq(Bytes), SendInLoop(msg)
  PROVE  /\ sndbuf' \in Seq(Bytes) /\ Len(sndbuf') <= SndCap
         /\ output' \in Seq(Bytes) /\ Len(output') >= Len(output)
         /\ events' \in SUBSET {"in", "out"} /\ interest' \in SUBSET {"in", "out"}
<1>1. /\ sndbuf \in Seq(Bytes) /\ output \in Seq(Bytes)
      /\ Len(sndbuf) \in Nat /\ Len(output) \in Nat /\ Len(msg) \in Nat
      /\ Len(sndbuf) <= SndCap /\ SndCap \in Nat
      /\ events \in SUBSET {"in", "out"} /\ interest \in SUBSET {"in", "out"}
  BY SizesAssumption, LenProperties DEF TypeOK
<1>2. CASE UNCHANGED <<sndbuf, output, channel>>
  BY <1>1, <1>2
<1>3. CASE ~UNCHANGED <<sndbuf, output, channel>>
  <2> DEFINE room == SndCap - Len(sndbuf)
             n == IF output = <<>> THEN Least(Len(msg), room) ELSE 0
  <2>1. sndbuf' = sndbuf \o Take(msg, n) /\ KeepUnsent(Drop(msg, n))
    BY <1>3 DEF SendInLoop
  <2>2. n \in 0 .. Len(msg) /\ n <= room
    <3>1. room \in Nat
      BY <1>1
    <3> HIDE DEF room
    <3> QED
      BY <1>1, <3>1 DEF Least
  <2> HIDE DEF n
  <2>3. /\ Take(msg, n) \in Seq(Bytes) /\ Len(Take(msg, n)) = n
        /\ Drop(msg, n) \in Seq(Bytes) /\ Len(Drop(msg, n)) = Len(msg) - n
    BY <2>2, TakeDrop
  <2>4. /\ sndbuf' \in Seq(Bytes) /\ Len(sndbuf') = Len(sndbuf) + n
    BY <1>1, <2>1, <2>3, ConcatProperties
  <2>5. /\ output' \in Seq(Bytes) /\ Len(output') = Len(output) + (Len(msg) - n)
    BY <1>1, <2>1, <2>3, ConcatProperties DEF KeepUnsent
  <2>6. Len(sndbuf') <= SndCap /\ Len(output') >= Len(output)
    BY <1>1, <2>2, <2>4, <2>5
  <2>7. events' \in SUBSET {"in", "out"} /\ interest' \in SUBSET {"in", "out"}
    BY <1>1, <2>1 DEF KeepUnsent, SetWriting, UpdateChannel
  <2> QED
    BY <2>4, <2>5, <2>6, <2>7
<1> QED
  BY <1>2, <1>3

LEMMA HandleCloseTypes ==
  ASSUME TypeInv, HandleClose, closer' = closer
  PROVE  /\ state' = "kDisconnected"
         /\ events' \in SUBSET {"in", "out"} /\ interest' \in SUBSET {"in", "out"}
         /\ notified' \in 0 .. 2
         /\ released' = released
         /\ Closing'
BY DEF TypeInv, TypeOK, Closing, HandleClose

LEMMA TypeInit ==
  ASSUME Init
  PROVE  TypeInv
<1>1. /\ received \in Seq(Bytes) /\ rcvbuf \in Seq(Bytes) /\ sndbuf \in Seq(Bytes)
      /\ input \in Seq(Bytes) /\ output \in Seq(Bytes)
      /\ Len(rcvbuf) = 0 /\ Len(sndbuf) = 0 /\ Len(output) = 0
  BY NoBytes DEF Init
<1>2. functors \in Seq({SendFunctor(m) : m \in 1 .. MsgMax} \union {CloseFunctor})
  BY NoBytes DEF Init
<1>3. /\ sent \in 0 .. EchoMax /\ messages \in 0 .. MsgMax
      /\ Len(rcvbuf) <= RcvCap /\ Len(sndbuf) <= SndCap /\ total_sent \in 0 .. Len(output)
  BY <1>1, SizesAssumption DEF Init
<1>4. /\ client = "open" /\ state = "kConnected" /\ pc = "poll" /\ closer = "idle"
      /\ events = {"in"} /\ interest = {"in"} /\ revents = {}
      /\ notified = 0 /\ released = FALSE
  BY DEF Init
<1>5. Closing /\ notified \in 0 .. 2
  BY <1>4 DEF Closing
<1>6. TypeOK
  BY <1>1, <1>2, <1>3, <1>4, <1>5 DEF TypeOK
<1> QED
  BY <1>5, <1>6 DEF TypeInv

LEMMA TypeClient ==
  ASSUME TypeInv, Client
  PROVE  TypeInv'
<1> USE DEF TypeInv
<1>0. /\ rcvbuf \in Seq(Bytes) /\ sndbuf \in Seq(Bytes) /\ received \in Seq(Bytes)
      /\ Len(rcvbuf) \in Nat /\ Len(sndbuf) \in Nat /\ RcvCap \in Nat /\ SndCap \in Nat
      /\ Len(rcvbuf) <= RcvCap /\ Len(sndbuf) <= SndCap
      /\ sent \in 0 .. EchoMax /\ EchoMax \in Nat
  BY SizesAssumption, LenProperties DEF TypeOK
<1>1. CASE ClientWrites
  <2>1. sent' \in 0 .. EchoMax
    BY <1>0, <1>1 DEF ClientWrites
  <2>2. Byte("client", sent + 1) \in Bytes
    <3>1. sent + 1 \in 1 .. EchoMax
      BY <1>0, <1>1 DEF ClientWrites
    <3> QED
      BY <3>1, ByteTypes
  <2>3. rcvbuf' \in Seq(Bytes) /\ Len(rcvbuf') = Len(rcvbuf) + 1
    BY <1>0, <1>1, <2>2, AppendProperties DEF ClientWrites
  <2>4. Len(rcvbuf') <= RcvCap
    BY <1>0, <1>1, <2>3 DEF ClientWrites
  <2> QED
    BY <1>1, <2>1, <2>3, <2>4 DEF ClientWrites, TypeOK, Closing
<1>2. CASE ClientReads
  <2>1. /\ Head(sndbuf) \in Bytes
        /\ Tail(sndbuf) \in Seq(Bytes) /\ Len(Tail(sndbuf)) = Len(sndbuf) - 1
    BY <1>0, <1>2, HeadTailProperties DEF ClientReads
  <2>2. /\ received' \in Seq(Bytes)
        /\ sndbuf' \in Seq(Bytes) /\ Len(sndbuf') = Len(sndbuf) - 1
    BY <1>0, <1>2, <2>1, AppendProperties DEF ClientReads
  <2>3. Len(sndbuf') <= SndCap
    BY <1>0, <2>2
  <2> QED
    BY <1>2, <2>2, <2>3 DEF ClientReads, TypeOK, Closing
<1>3. CASE ClientFinishes \/ ClientResets
  <2>1. sndbuf' \in Seq(Bytes) /\ Len(sndbuf') <= SndCap
    <3>1. sndbuf' = sndbuf \/ sndbuf' = <<>>
      BY <1>3 DEF ClientFinishes, ClientResets
    <3>2. <<>> \in Seq(Bytes) /\ Len(<<>>) = 0
      BY NoBytes
    <3>3. 0 <= SndCap
      BY <1>0
    <3>4. CASE sndbuf' = sndbuf
      BY <1>0, <3>4
    <3>5. CASE sndbuf' = <<>>
      BY <3>2, <3>3, <3>5
    <3> QED
      BY <3>1, <3>4, <3>5
  <2> QED
    <3>1. /\ client' \in {"finished", "gone"}
          /\ UNCHANGED <<sent, received, rcvbuf, buffers, channel, revents, pc, functors,
                         others, life>>
      BY <1>3 DEF ClientFinishes, ClientResets
    <3>2. Closing'
      BY <3>1 DEF Closing
    <3>3. TypeOK'
      BY <2>1, <3>1 DEF TypeOK
    <3> QED
      BY <3>2, <3>3
<1> QED
  BY <1>1, <1>2, <1>3 DEF Client

Functors == {SendFunctor(m) : m \in 1 .. MsgMax} \union {CloseFunctor}

LEMMA TypeOtherThreads ==
  ASSUME TypeInv, OtherThreads
  PROVE  TypeInv'
<1> USE DEF TypeInv
<1>0. functors \in Seq(Functors) /\ messages \in 0 .. MsgMax /\ MsgMax \in Nat
  BY SizesAssumption DEF TypeOK, Functors
<1>1. CASE Send
  <2>1. messages' = messages + 1 /\ messages' \in 1 .. MsgMax
    BY <1>0, <1>1 DEF Send
  <2>2. SendFunctor(messages + 1) \in Functors
    BY <2>1 DEF Functors
  <2>3. functors' \in Seq(Functors)
    BY <1>0, <1>1, <2>2, AppendProperties DEF Send
  <2>4. messages' \in 0 .. MsgMax
    BY <1>0, <2>1
  <2> QED
    BY <1>1, <2>3, <2>4 DEF Send, TypeOK, Closing, Functors
<1>2. CASE TestState
  BY <1>2 DEF TestState, TypeOK, Closing
<1>3. CASE MarkDisconnecting
  <2>1. functors' \in Seq(Functors)
    BY <1>0, <1>3, AppendProperties DEF MarkDisconnecting, Functors
  <2> QED
    BY <1>3, <2>1 DEF MarkDisconnecting, TypeOK, Closing, Functors
<1> QED
  BY <1>1, <1>2, <1>3 DEF OtherThreads

LEMMA TypeLoopThread ==
  ASSUME TypeInv, LoopThread
  PROVE  TypeInv'
<1> USE DEF TypeInv
<1>0. /\ rcvbuf \in Seq(Bytes) /\ sndbuf \in Seq(Bytes)
      /\ input \in Seq(Bytes) /\ output \in Seq(Bytes)
      /\ Len(rcvbuf) \in Nat /\ Len(sndbuf) \in Nat /\ Len(output) \in Nat
      /\ RcvCap \in Nat /\ SndCap \in Nat /\ ReadSize \in Nat
      /\ Len(rcvbuf) <= RcvCap /\ Len(sndbuf) <= SndCap
      /\ total_sent \in 0 .. Len(output)
      /\ functors \in Seq(Functors)
  BY SizesAssumption, LenProperties DEF TypeOK, Functors
<1>1. CASE Poll \/ BeginEvent \/ EndEvent
  BY <1>1 DEF Poll, BeginEvent, EndEvent, Ready, TypeOK, Closing
<1>2. CASE HandleError \/ ReceiveEnd
  <2>1. /\ HandleClose
        /\ revents' \subseteq revents
        /\ UNCHANGED <<peer, rcvbuf, sndbuf, buffers, pc, functors, others>>
    BY <1>2 DEF HandleError, ReceiveEnd
  <2> QED
    BY <2>1, HandleCloseTypes DEF TypeOK
<1>3. CASE Receive
  <2> DEFINE n == Least(Len(rcvbuf), ReadSize)
  <2>1. n \in 0 .. Len(rcvbuf)
    BY <1>0 DEF Least
  <2>2. input' = input \o Take(rcvbuf, n) /\ rcvbuf' = Drop(rcvbuf, n)
    BY <1>3 DEF Receive
  <2> HIDE DEF n
  <2>3. /\ Take(rcvbuf, n) \in Seq(Bytes)
        /\ Drop(rcvbuf, n) \in Seq(Bytes) /\ Len(Drop(rcvbuf, n)) = Len(rcvbuf) - n
    BY <1>0, <2>1, TakeDrop
  <2>4. input' \in Seq(Bytes) /\ rcvbuf' \in Seq(Bytes)
    BY <1>0, <2>2, <2>3, ConcatProperties
  <2>5. Len(rcvbuf') <= RcvCap
    BY <1>0, <2>1, <2>2, <2>3
  <2> QED
    BY <1>3, <2>4, <2>5 DEF Receive, TypeOK, Closing
<1>4. CASE Echo
  <2>1. /\ sndbuf' \in Seq(Bytes) /\ Len(sndbuf') <= SndCap
        /\ output' \in Seq(Bytes) /\ Len(output') >= Len(output)
        /\ events' \in SUBSET {"in", "out"} /\ interest' \in SUBSET {"in", "out"}
    <3>1. CASE input # <<>>
      BY <1>0, <1>4, <3>1, SendInLoopTypes DEF Echo
    <3>2. CASE input = <<>>
      BY <1>0, <1>4, <3>2 DEF Echo, TypeOK
    <3> QED
      BY <3>1, <3>2
  <2>2. /\ input' \in Seq(Bytes) /\ revents' \subseteq revents
        /\ UNCHANGED <<peer, rcvbuf, total_sent, pc, functors, others, life>>
    BY <1>4, NoBytes DEF Echo
  <2>3. total_sent' \in 0 .. Len(output')
    BY <1>0, <2>1, <2>2, LenProperties
  <2> QED
    BY <2>1, <2>2, <2>3 DEF TypeOK, Closing
<1>5. CASE BeginWrite
  <2>1. /\ events' \in SUBSET {"in", "out"} /\ interest' \in SUBSET {"in", "out"}
        /\ pc' \in {pc, "write"}
    BY <1>5 DEF BeginWrite, SetWriting, UpdateChannel, TypeOK
  <2>2. /\ total_sent' = 0 /\ revents' = {}
        /\ UNCHANGED <<peer, rcvbuf, sndbuf, input, output, functors, others, life>>
    BY <1>5 DEF BeginWrite
  <2>3. total_sent' \in 0 .. Len(output')
    BY <1>0, <2>2
  <2> QED
    BY <2>1, <2>2, <2>3 DEF TypeOK, Closing
<1>6. CASE WriteSome
  <2> DEFINE n == Least(Len(output) - total_sent, SndCap - Len(sndbuf))
             part == SubSeq(output, total_sent + 1, total_sent + n)
  <2>1. /\ n \in Nat /\ n <= Len(output) - total_sent /\ n <= SndCap - Len(sndbuf)
        /\ n > 0
    BY <1>0, <1>6 DEF WriteSome, Least
  <2>2. sndbuf' = sndbuf \o part /\ total_sent' = total_sent + n
    BY <1>6 DEF WriteSome
  <2> HIDE DEF n
  <2>3. part \in Seq(Bytes) /\ Len(part) = n
    <3>1. \A i \in total_sent + 1 .. total_sent + n : output[i] \in Bytes
      BY <1>0, <2>1, ElementOfSeq
    <3>2. /\ total_sent + 1 \in Int /\ total_sent + n \in Int
          /\ total_sent + 1 <= total_sent + n
          /\ (total_sent + n) - (total_sent + 1) + 1 = n
      BY <1>0, <2>1
    <3> QED
      BY <3>1, <3>2, SubSeqProperties
  <2> HIDE DEF part
  <2>4. sndbuf' \in Seq(Bytes) /\ Len(sndbuf') = Len(sndbuf) + n
    BY <1>0, <2>2, <2>3, ConcatProperties
  <2>5. Len(sndbuf') <= SndCap /\ total_sent' \in 0 .. Len(output)
    BY <1>0, <2>1, <2>2, <2>4
  <2> QED
    BY <1>6, <2>4, <2>5 DEF WriteSome, TypeOK, Closing
<1>7. CASE WriteFails
  <2>1. /\ HandleClose /\ pc' = "event" /\ total_sent' = 0
        /\ UNCHANGED <<peer, rcvbuf, sndbuf, input, output, revents, functors, others>>
    BY <1>7 DEF WriteFails
  <2>2. total_sent' \in 0 .. Len(output')
    BY <1>0, <2>1
  <2> QED
    BY <2>1, <2>2, HandleCloseTypes DEF TypeOK
<1>8. CASE EndWrite
  <2>1. /\ output' = Drop(output, total_sent) /\ pc' = "event" /\ total_sent' = 0
        /\ UNCHANGED <<peer, rcvbuf, sndbuf, input, revents, functors, others>>
    BY <1>8 DEF EndWrite
  <2>2. output' \in Seq(Bytes)
    BY <1>0, <2>1, TakeDrop
  <2>3. total_sent' \in 0 .. Len(output')
    BY <2>1, <2>2, LenProperties
  <2>4. CASE HandleClose
    BY <2>1, <2>2, <2>3, <2>4, HandleCloseTypes DEF TypeOK
  <2>5. CASE ~HandleClose
    <3>1. /\ events' \in SUBSET {"in", "out"} /\ interest' \in SUBSET {"in", "out"}
          /\ UNCHANGED life
      BY <1>8, <2>5 DEF EndWrite, SetWriting, UpdateChannel, TypeOK
    <3> QED
      BY <2>1, <2>2, <2>3, <3>1 DEF TypeOK, Closing
  <2> QED
    BY <2>4, <2>5
<1>9. CASE RunSend
  <2>1. /\ functors # <<>> /\ Head(functors).run = "send"
        /\ functors' = Tail(functors)
        /\ SendInLoop(Message(Head(functors).msg))
        /\ UNCHANGED <<peer, rcvbuf, input, total_sent, revents, pc, others, life>>
    BY <1>9 DEF RunSend
  <2>2. Head(functors) \in Functors /\ functors' \in Seq(Functors)
    BY <1>0, <2>1, HeadTailProperties
  <2>3. Head(functors).msg \in 1 .. MsgMax
    BY <2>1, <2>2 DEF Functors, SendFunctor, CloseFunctor
  <2>4. Message(Head(functors).msg) \in Seq(Bytes)
    BY <2>3, MessageType
  <2>5. /\ sndbuf' \in Seq(Bytes) /\ Len(sndbuf') <= SndCap
        /\ output' \in Seq(Bytes) /\ Len(output') >= Len(output)
        /\ events' \in SUBSET {"in", "out"} /\ interest' \in SUBSET {"in", "out"}
    BY <2>1, <2>4, SendInLoopTypes
  <2>6. total_sent' \in 0 .. Len(output')
    BY <1>0, <2>1, <2>5, LenProperties
  <2> QED
    BY <2>1, <2>2, <2>5, <2>6 DEF TypeOK, Closing, Functors
<1>10. CASE RunForceClose
  <2>1. /\ functors' \in Seq(Functors)
        /\ UNCHANGED <<peer, rcvbuf, sndbuf, buffers, revents, pc, others>>
    BY <1>0, <1>10, HeadTailProperties DEF RunForceClose
  <2>2. CASE HandleClose
    BY <2>1, <2>2, HandleCloseTypes DEF TypeOK, Functors
  <2>3. CASE ~HandleClose
    BY <1>10, <2>1, <2>3 DEF RunForceClose, TypeOK, Closing, Functors
  <2> QED
    BY <2>2, <2>3
<1>11. CASE Release
  BY <1>0, <1>11, NoBytes DEF Release, TypeOK, Closing
<1> QED
  BY <1>1, <1>2, <1>3, <1>4, <1>5, <1>6, <1>7, <1>8, <1>9, <1>10, <1>11 DEF LoopThread

LEMMA TypeStep ==
  ASSUME TypeInv, [Next]_vars
  PROVE  TypeInv'
<1>1. CASE UNCHANGED vars
  BY <1>1 DEF TypeInv, TypeOK, Closing
<1> QED
  BY <1>1, TypeClient, TypeOtherThreads, TypeLoopThread DEF Next

\* Every variable keeps its type: no buffer is overfilled, send() never reads behind
\* output_buffer_, and the connection is reported closed at most twice.
THEOREM TypeCorrect == SafeSpec => []TypeOK
<1>1. Init => TypeInv
  BY TypeInit
<1>2. TypeInv /\ [Next]_vars => TypeInv'
  BY TypeStep
<1>3. TypeInv => TypeOK
  BY DEF TypeInv
<1> QED
  BY <1>1, <1>2, <1>3, PTL DEF SafeSpec

-----------------------------------------------------------------------------
(* EPOLLOUT. *)

\* The epoll entry is what the channel wants, and that follows output_buffer_ at every
\* step of the loop, not only between two events.
Following ==
  /\ events = interest
  /\ state = "kConnected" => ("out" \in events <=> output # <<>>)
  /\ state = "kDisconnected" => events = {}

FollowInv == TypeInv /\ Following

LEMMA FollowHandleClose ==
  ASSUME Following, HandleClose
  PROVE  Following'
<1>1. CASE state = "kDisconnected"
  BY <1>1 DEF Following, HandleClose
<1>2. CASE state # "kDisconnected"
  BY <1>2 DEF Following, HandleClose
<1> QED
  BY <1>1, <1>2

\* sendInLoop asks for EPOLLOUT as soon as it keeps something.
LEMMA FollowSendInLoop ==
  ASSUME FollowInv, NEW msg \in Seq(Bytes), SendInLoop(msg), state' = state
  PROVE  Following'
<1>1. CASE UNCHANGED <<output, channel>>
  BY <1>1 DEF FollowInv, Following
<1>2. CASE ~UNCHANGED <<output, channel>>
  <2> DEFINE room == SndCap - Len(sndbuf)
             n == IF output = <<>> THEN Least(Len(msg), room) ELSE 0
             rest == Drop(msg, n)
  <2>1. KeepUnsent(rest) /\ state = "kConnected"
    BY <1>2 DEF SendInLoop
  <2>2. n \in 0 .. Len(msg)
    <3>1. Len(msg) \in Nat /\ room \in Nat
      BY SizesAssumption, LenProperties, SMTT(30) DEF FollowInv, TypeInv, TypeOK
    <3> HIDE DEF room
    <3> QED
      BY <3>1 DEF Least
  <2> HIDE DEF n
  <2>3. rest \in Seq(Bytes) /\ output \in Seq(Bytes)
    BY <2>2, TakeDrop DEF FollowInv, TypeInv, TypeOK
  <2> HIDE DEF rest
  <2>4. output' = output \o rest
    BY <2>1 DEF KeepUnsent
  <2>5. output' = <<>> <=> output = <<>> /\ rest = <<>>
    <3>1. /\ output' \in Seq(Bytes) /\ Len(output') = Len(output) + Len(rest)
          /\ Len(output) \in Nat /\ Len(rest) \in Nat
      BY <2>3, <2>4, ConcatProperties, LenProperties
    <3>2. /\ output' = <<>> <=> Len(output') = 0
          /\ output = <<>> <=> Len(output) = 0
          /\ rest = <<>> <=> Len(rest) = 0
      BY <2>3, <3>1, EmptySeq
    <3> QED
      BY <3>1, <3>2
  <2>6. CASE rest # <<>> /\ "out" \notin events
    <3>1. events' = events \union {"out"} /\ interest' = events'
      BY <2>1, <2>6 DEF KeepUnsent, SetWriting, UpdateChannel
    <3> QED
      BY <2>1, <2>5, <2>6, <3>1 DEF Following
  <2>7. CASE ~(rest # <<>> /\ "out" \notin events)
    <3>1. UNCHANGED channel
      BY <2>1, <2>7 DEF KeepUnsent
    <3> QED
      BY <2>1, <2>5, <2>7, <3>1 DEF FollowInv, Following
  <2> QED
    BY <2>6, <2>7
<1> QED
  BY <1>1, <1>2

LEMMA FollowStep ==
  ASSUME FollowInv, [Next]_vars
  PROVE  Following'
<1>0. Following
  BY DEF FollowInv
<1>1. CASE UNCHANGED <<output, channel, state>>
  BY <1>0, <1>1 DEF Following
<1>2. CASE MarkDisconnecting
  BY <1>0, <1>2 DEF MarkDisconnecting, Following
<1>3. CASE HandleError \/ ReceiveEnd \/ WriteFails
  BY <1>0, <1>3, FollowHandleClose DEF HandleError, ReceiveEnd, WriteFails
<1>4. CASE Echo
  <2>1. CASE input # <<>>
    BY <1>4, <2>1, FollowSendInLoop DEF Echo, FollowInv, TypeInv, TypeOK
  <2>2. CASE input = <<>>
    BY <1>1, <1>4, <2>2 DEF Echo
  <2> QED
    BY <2>1, <2>2
<1>5. CASE BeginWrite
  <2>1. UNCHANGED <<output, state>>
    BY <1>5 DEF BeginWrite
  <2>2. CASE UNCHANGED channel
    BY <1>1, <2>1, <2>2
  <2>3. CASE ~UNCHANGED channel
    <3>1. /\ output = <<>> /\ "out" \in events
          /\ events' = events \ {"out"} /\ interest' = events'
      BY <1>5, <2>3 DEF BeginWrite, SetWriting, UpdateChannel
    <3> QED
      BY <1>0, <2>1, <3>1 DEF Following
  <2> QED
    BY <2>2, <2>3
<1>6. CASE EndWrite
  <2>1. output' = Drop(output, total_sent)
    BY <1>6 DEF EndWrite
  <2>2. output' # <<>> => output # <<>>
    <3>1. /\ output \in Seq(Bytes) /\ total_sent \in 0 .. Len(output)
      BY DEF FollowInv, TypeInv, TypeOK
    <3>2. /\ output' \in Seq(Bytes) /\ Len(output') = Len(output) - total_sent
          /\ Len(output) \in Nat
      BY <2>1, <3>1, TakeDrop, LenProperties
    <3>3. output = <<>> => Len(output') = 0
      BY <3>1, <3>2, EmptySeq
    <3> QED
      BY <3>2, <3>3, EmptySeq
  <2>3. CASE output' # <<>>
    BY <1>0, <1>6, <2>2, <2>3 DEF EndWrite, Following
  <2>4. CASE output' = <<>> /\ state = "kDisconnecting"
    BY <1>0, <1>6, <2>4, FollowHandleClose DEF EndWrite
  <2>5. CASE output' = <<>> /\ state # "kDisconnecting"
    <3>1. /\ UNCHANGED state
          /\ IF "out" \in events THEN SetWriting(FALSE) ELSE UNCHANGED channel
      BY <1>6, <2>5 DEF EndWrite
    <3>2. "out" \notin events' /\ events' = interest'
      BY <1>0, <3>1 DEF SetWriting, UpdateChannel, Following
    <3>3. events = {} => events' = {}
      BY <3>1 DEF SetWriting, UpdateChannel
    <3> QED
      BY <1>0, <2>5, <3>1, <3>2, <3>3 DEF Following
  <2> QED
    BY <2>3, <2>4, <2>5
<1>7. CASE RunSend
  <2>1. /\ functors # <<>> /\ Head(functors).run = "send"
        /\ SendInLoop(Message(Head(functors).msg))
        /\ state' = state
    BY <1>7 DEF RunSend
  <2>2. functors \in Seq(Functors)
    BY DEF FollowInv, TypeInv, TypeOK, Functors
  <2>3. Head(functors) \in Functors
    BY <2>1, <2>2, HeadTailProperties
  <2>4. Head(functors).msg \in 1 .. MsgMax
    BY <2>1, <2>3 DEF Functors, SendFunctor, CloseFunctor
  <2> QED
    BY <2>1, <2>4, MessageType, FollowSendInLoop
<1>8. CASE RunForceClose
  <2>1. CASE HandleClose
    BY <1>0, <2>1, FollowHandleClose
  <2>2. CASE ~HandleClose
    BY <1>1, <1>8, <2>2 DEF RunForceClose
  <2> QED
    BY <2>1, <2>2
<1>9. CASE Client
  BY <1>1, <1>9 DEF Client, ClientWrites, ClientReads, ClientFinishes, ClientResets
<1>10. CASE Send \/ TestState
  BY <1>1, <1>10 DEF Send, TestState
<1>11. CASE Poll \/ BeginEvent \/ EndEvent \/ Receive \/ WriteSome \/ Release
  BY <1>1, <1>11 DEF Poll, BeginEvent, EndEvent, Receive, WriteSome, Release
<1>12. CASE UNCHANGED vars
  BY <1>1, <1>12
<1> QED
  BY <1>2, <1>3, <1>4, <1>5, <1>6, <1>7, <1>8, <1>9, <1>10, <1>11, <1>12
  DEF Next, OtherThreads, LoopThread

\* EPOLLOUT is waited for exactly while output waits, and never on a closed connection.
THEOREM InterestIsRight == SafeSpec => []InterestFollowsOutput
<1>1. Init => FollowInv
  BY TypeInit DEF Init, FollowInv, Following
<1>2. FollowInv /\ [Next]_vars => FollowInv'
  BY TypeStep, FollowStep DEF FollowInv
<1>3. FollowInv => InterestFollowsOutput
  BY DEF FollowInv, Following, InterestFollowsOutput
<1> QED
  BY <1>1, <1>2, <1>3, PTL DEF SafeSpec

-----------------------------------------------------------------------------
(***************************************************************************)
(* What a connection sends.  Whoever keeps which part of it, what is read, *)
(* in the kernel and in output_buffer_ is one stream.  Bytes move along    *)
(* it; it grows only where sendInLoop is called, and there only at its     *)
(* end.                                                                    *)
(***************************************************************************)

(* Order in a sequence of bytes. *)

InOrder(s) ==
  \A i \in DOMAIN s : s[i][1] = "client" => Echoed(s, i - 1) = 1 .. (s[i][2] - 1)

\* The client's numbers in a sequence that is put behind another.
LEMMA EchoedOfConcat ==
  ASSUME NEW s \in Seq(Bytes), NEW u \in Seq(Bytes)
  PROVE  /\ \A n \in 0 .. Len(s) : Echoed(s \o u, n) = Echoed(s, n)
         /\ \A n \in 0 .. Len(u) :
              Echoed(s \o u, Len(s) + n) = Echoed(s, Len(s)) \union Echoed(u, n)
<1>1. /\ Len(s) \in Nat /\ Len(u) \in Nat /\ Len(s \o u) = Len(s) + Len(u)
      /\ \A i \in 1 .. Len(s) : (s \o u)[i] = s[i]
      /\ \A i \in 1 .. Len(u) : (s \o u)[Len(s) + i] = u[i]
  <2>1. /\ Len(s) \in Nat /\ Len(u) \in Nat /\ Len(s \o u) = Len(s) + Len(u)
        /\ \A i \in 1 .. Len(s) + Len(u) :
             (s \o u)[i] = IF i <= Len(s) THEN s[i] ELSE u[i - Len(s)]
    BY ConcatProperties, LenProperties
  <2>2. ASSUME NEW i \in 1 .. Len(u)
        PROVE  (s \o u)[Len(s) + i] = u[i]
    <3>1. Len(s) + i \in 1 .. Len(s) + Len(u) /\ ~(Len(s) + i <= Len(s))
          /\ (Len(s) + i) - Len(s) = i
      BY <2>1
    <3> QED
      BY <2>1, <3>1
  <2> QED
    BY <2>1, <2>2
<1>2. ASSUME NEW n \in 0 .. Len(s)
      PROVE  Echoed(s \o u, n) = Echoed(s, n)
  <2>1. \A j \in 1 .. n : (s \o u)[j] = s[j]
    BY <1>1
  <2> QED
    BY <2>1 DEF Echoed
<1>3. ASSUME NEW n \in 0 .. Len(u)
      PROVE  Echoed(s \o u, Len(s) + n) = Echoed(s, Len(s)) \union Echoed(u, n)
  <2>1. \A j \in 1 .. Len(s) + n : j \in 1 .. Len(s) \/ (j - Len(s) \in 1 .. n /\ j = Len(s) + (j - Len(s)))
    BY <1>1
  <2>2. ASSUME NEW x \in Echoed(s \o u, Len(s) + n)
        PROVE  x \in Echoed(s, Len(s)) \union Echoed(u, n)
    <3>1. PICK j \in 1 .. Len(s) + n : (s \o u)[j][1] = "client" /\ x = (s \o u)[j][2]
      BY <2>2 DEF Echoed
    <3>2. CASE j \in 1 .. Len(s)
      BY <1>1, <3>1, <3>2 DEF Echoed
    <3>3. CASE j - Len(s) \in 1 .. n /\ j = Len(s) + (j - Len(s))
      <4>1. (s \o u)[j] = u[j - Len(s)]
        BY <1>1, <3>3
      <4> QED
        BY <3>1, <3>3, <4>1 DEF Echoed
    <3> QED
      BY <2>1, <3>2, <3>3
  <2>3. ASSUME NEW x \in Echoed(s, Len(s))
        PROVE  x \in Echoed(s \o u, Len(s) + n)
    <3>1. PICK j \in 1 .. Len(s) : s[j][1] = "client" /\ x = s[j][2]
      BY <2>3 DEF Echoed
    <3>2. j \in 1 .. Len(s) + n /\ (s \o u)[j] = s[j]
      BY <1>1
    <3> QED
      BY <3>1, <3>2 DEF Echoed
  <2>4. ASSUME NEW x \in Echoed(u, n)
        PROVE  x \in Echoed(s \o u, Len(s) + n)
    <3>1. PICK j \in 1 .. n : u[j][1] = "client" /\ x = u[j][2]
      BY <2>4 DEF Echoed
    <3>2. Len(s) + j \in 1 .. Len(s) + n /\ (s \o u)[Len(s) + j] = u[j]
      BY <1>1
    <3> QED
      BY <3>1, <3>2 DEF Echoed
  <2> QED
    BY <2>2, <2>3, <2>4
<1> QED
  BY <1>2, <1>3

\* A message of the program adds nothing to the echo.
LEMMA OrderWithMessage ==
  ASSUME NEW s \in Seq(Bytes), NEW u \in Seq(Bytes), InOrder(s),
         \A i \in 1 .. Len(u) : u[i][1] = "app"
  PROVE  /\ InOrder(s \o u)
         /\ Echoed(s \o u, Len(s \o u)) = Echoed(s, Len(s))
<1>1. /\ Len(s) \in Nat /\ Len(u) \in Nat /\ Len(s \o u) = Len(s) + Len(u)
      /\ s \o u \in Seq(Bytes)
      /\ \A i \in 1 .. Len(s) + Len(u) :
           (s \o u)[i] = IF i <= Len(s) THEN s[i] ELSE u[i - Len(s)]
  BY ConcatProperties, LenProperties
<1>2. Echoed(u, Len(u)) = {}
  BY DEF Echoed
<1>3. \A n \in 0 .. Len(u) : Echoed(s \o u, Len(s) + n) = Echoed(s, Len(s)) \union Echoed(u, n)
  BY EchoedOfConcat
<1>4. Echoed(s \o u, Len(s) + Len(u)) = Echoed(s, Len(s))
  <2>1. Len(u) \in 0 .. Len(u)
    BY <1>1
  <2> QED
    BY <1>2, <1>3, <2>1
<1>5. ASSUME NEW i \in DOMAIN (s \o u), (s \o u)[i][1] = "client"
      PROVE  Echoed(s \o u, i - 1) = 1 .. ((s \o u)[i][2] - 1)
  <2>1. i \in 1 .. Len(s) + Len(u)
    BY <1>1, <1>5, LenProperties
  <2>2. i <= Len(s)
    <3> SUFFICES ASSUME ~(i <= Len(s))
                 PROVE  FALSE
      OBVIOUS
    <3>1. i - Len(s) \in 1 .. Len(u) /\ (s \o u)[i] = u[i - Len(s)]
      BY <1>1, <2>1
    <3> QED
      BY <1>5, <3>1
  <2>3. i \in DOMAIN s /\ (s \o u)[i] = s[i] /\ i - 1 \in 0 .. Len(s)
    BY <1>1, <2>1, <2>2
  <2> QED
    BY <1>5, <2>3, EchoedOfConcat DEF InOrder
<1> QED
  BY <1>1, <1>4, <1>5 DEF InOrder

\* What follows k bytes of the client are those from k + 1 on.
LEMMA OrderWithEcho ==
  ASSUME NEW s \in Seq(Bytes), NEW u \in Seq(Bytes), InOrder(s), NEW k \in Nat,
         Echoed(s, Len(s)) = 1 .. k,
         \A i \in 1 .. Len(u) : u[i] = Byte("client", k + i)
  PROVE  /\ InOrder(s \o u)
         /\ Echoed(s \o u, Len(s \o u)) = 1 .. (k + Len(u))
<1>1. /\ Len(s) \in Nat /\ Len(u) \in Nat /\ Len(s \o u) = Len(s) + Len(u)
      /\ s \o u \in Seq(Bytes)
      /\ \A i \in 1 .. Len(s) + Len(u) :
           (s \o u)[i] = IF i <= Len(s) THEN s[i] ELSE u[i - Len(s)]
  BY ConcatProperties, LenProperties
<1>2. ASSUME NEW n \in 0 .. Len(u)
      PROVE  Echoed(s \o u, Len(s) + n) = 1 .. (k + n)
  <2>1. Echoed(u, n) = {k + i : i \in 1 .. n}
    <3>1. ASSUME NEW i \in 1 .. n
          PROVE  u[i][1] = "client" /\ u[i][2] = k + i
      <4>1. u[i] = Byte("client", k + i)
        BY <1>1
      <4> QED
        BY <4>1 DEF Byte
    <3> QED
      BY <3>1 DEF Echoed
  <2>2. (1 .. k) \union {k + i : i \in 1 .. n} = 1 .. (k + n)
    <3>1. ASSUME NEW x \in 1 .. (k + n), x \notin 1 .. k
          PROVE  \E i \in 1 .. n : x = k + i
      <4>1. x - k \in 1 .. n /\ x = k + (x - k)
        BY <1>1, <3>1
      <4> QED
        BY <4>1
    <3>2. \A i \in 1 .. n : k + i \in 1 .. (k + n)
      BY <1>1
    <3>3. 1 .. k \subseteq 1 .. (k + n)
      BY <1>1
    <3> QED
      BY <3>1, <3>2, <3>3
  <2>3. Echoed(s \o u, Len(s) + n) = Echoed(s, Len(s)) \union Echoed(u, n)
    BY EchoedOfConcat
  <2> QED
    BY <2>1, <2>2, <2>3
<1>3. ASSUME NEW i \in DOMAIN (s \o u), (s \o u)[i][1] = "client"
      PROVE  Echoed(s \o u, i - 1) = 1 .. ((s \o u)[i][2] - 1)
  <2>1. i \in 1 .. Len(s) + Len(u)
    BY <1>1, <1>3, LenProperties
  <2>2. CASE i <= Len(s)
    <3>1. i \in DOMAIN s /\ (s \o u)[i] = s[i] /\ i - 1 \in 0 .. Len(s)
      BY <1>1, <2>1, <2>2
    <3> QED
      BY <1>3, <3>1, EchoedOfConcat DEF InOrder
  <2>3. CASE ~(i <= Len(s))
    <3>1. PICK n \in 0 .. Len(u) : n = i - 1 - Len(s) /\ i - 1 = Len(s) + n /\ n + 1 \in 1 .. Len(u)
      BY <1>1, <2>1, <2>3, SMTT(30)
    <3>2. i - Len(s) = n + 1 /\ (s \o u)[i] = u[n + 1]
      BY <1>1, <2>1, <2>3, <3>1, SMTT(30)
    <3>3. (s \o u)[i][2] = k + (n + 1)
      BY <3>1, <3>2, SMTT(30) DEF Byte
    <3>4. (s \o u)[i][2] - 1 = k + n
      BY <3>3
    <3> QED
      BY <1>2, <3>1, <3>4
  <2> QED
    BY <2>2, <2>3
<1>4. Echoed(s \o u, Len(s \o u)) = 1 .. (k + Len(u))
  <2>1. Len(u) \in 0 .. Len(u)
    BY <1>1
  <2> QED
    BY <1>1, <1>2, <2>1
<1> QED
  BY <1>3, <1>4 DEF InOrder

-----------------------------------------------------------------------------
(* The stream. *)

\* What a partial send leaves and what it took make up the whole.
LEMMA TakeAndDrop ==
  ASSUME NEW S, NEW s \in Seq(S), NEW n \in 0 .. Len(s)
  PROVE  /\ Take(s, n) \o Drop(s, n) = s
         /\ Drop(s, 0) = s
         /\ Drop(Drop(s, n), 0) = Drop(s, n)
<1>1. Take(s, n) \o Drop(s, n) = s
  <2>1. Len(s) \in Nat /\ 1 \in 1 .. Len(s) + 1 /\ n \in 1 - 1 .. Len(s) /\ Len(s) \in n .. Len(s)
    BY LenProperties
  <2>2. SubSeq(s, 1, n) \o SubSeq(s, n + 1, Len(s)) = SubSeq(s, 1, Len(s))
    BY <2>1, ConcatAdjacentSubSeq
  <2> QED
    BY <2>2, SubSeqFull DEF Take, Drop
<1>2. \A t \in Seq(S) : Drop(t, 0) = t
  BY SubSeqFull DEF Drop
<1>3. Drop(s, n) \in Seq(S)
  BY TakeDrop
<1> QED
  BY <1>1, <1>2, <1>3

LEMMA StreamType ==
  ASSUME TypeOK
  PROVE  /\ received \in Seq(Bytes) /\ sndbuf \in Seq(Bytes) /\ output \in Seq(Bytes)
         /\ input \in Seq(Bytes) /\ rcvbuf \in Seq(Bytes)
         /\ Drop(output, total_sent) \in Seq(Bytes)
         /\ Stream \in Seq(Bytes)
<1>1. /\ received \in Seq(Bytes) /\ sndbuf \in Seq(Bytes) /\ output \in Seq(Bytes)
      /\ input \in Seq(Bytes) /\ rcvbuf \in Seq(Bytes) /\ total_sent \in 0 .. Len(output)
  BY DEF TypeOK
<1>2. Drop(output, total_sent) \in Seq(Bytes)
  BY <1>1, TakeDrop
<1>3. received \o sndbuf \in Seq(Bytes)
  BY <1>1, ConcatProperties
<1>4. (received \o sndbuf) \o Drop(output, total_sent) \in Seq(Bytes)
  BY <1>2, <1>3, ConcatProperties
<1> QED
  BY <1>1, <1>2, <1>4 DEF Stream

\* Where the stream is alone: a client that is there reads, handleWrite sends, counts
\* and erases.
LEMMA StreamReads ==
  ASSUME TypeOK, ClientReads
  PROVE  Stream' = Stream
<1>1. /\ client # "gone" /\ client' = client /\ sndbuf # <<>>
      /\ received' = Append(received, Head(sndbuf)) /\ sndbuf' = Tail(sndbuf)
      /\ output' = output /\ total_sent' = total_sent
  BY DEF ClientReads
<1>2. received' \o sndbuf' = received \o sndbuf
  BY <1>1, StreamType, MoveHead
<1> QED
  BY <1>1, <1>2 DEF Stream

LEMMA StreamWrites ==
  ASSUME TypeOK, WriteSome
  PROVE  Stream' = Stream
<1>1. PICK n : /\ n = Least(Len(output) - total_sent, SndCap - Len(sndbuf))
               /\ sndbuf' = sndbuf \o SubSeq(output, total_sent + 1, total_sent + n)
               /\ total_sent' = total_sent + n
  BY DEF WriteSome
<1>2. /\ client # "gone" /\ client' = client /\ received' = received /\ output' = output
      /\ total_sent < Len(output) /\ Len(sndbuf) < SndCap
  BY DEF WriteSome
<1>3. /\ total_sent \in Nat /\ Len(output) \in Nat /\ Len(sndbuf) \in Nat /\ SndCap \in Nat
      /\ total_sent <= Len(output)
  BY StreamType, SizesAssumption, LenProperties DEF TypeOK
<1>4. n \in Nat /\ total_sent + n <= Len(output)
  BY <1>1, <1>2, <1>3 DEF Least
<1> DEFINE part == SubSeq(output, total_sent + 1, total_sent + n)
<1>5. part \o Drop(output, total_sent + n) = Drop(output, total_sent)
  <2>1. /\ total_sent + 1 \in 1 .. Len(output) + 1
        /\ total_sent + n \in (total_sent + 1) - 1 .. Len(output)
        /\ Len(output) \in total_sent + n .. Len(output)
    BY <1>3, <1>4
  <2> QED
    BY <2>1, StreamType, ConcatAdjacentSubSeq DEF Drop
<1>6. part \in Seq(Bytes) /\ Drop(output, total_sent + n) \in Seq(Bytes)
  <2>1. \A i \in total_sent + 1 .. total_sent + n : output[i] \in Bytes
    BY <1>3, <1>4, StreamType, ElementOfSeq
  <2>2. total_sent + n \in 0 .. Len(output)
    BY <1>3, <1>4
  <2> QED
    BY <1>3, <1>4, <2>1, <2>2, StreamType, SubSeqProperties, TakeDrop
<1> HIDE DEF part
<1>7. (received \o (sndbuf \o part)) \o Drop(output, total_sent + n)
        = (received \o sndbuf) \o (part \o Drop(output, total_sent + n))
  <2>1. received \in Seq(Bytes) /\ sndbuf \in Seq(Bytes)
    BY StreamType
  <2>2. PICK r \in Seq(Bytes), s \in Seq(Bytes), u \in Seq(Bytes), v \in Seq(Bytes) :
          r = received /\ s = sndbuf /\ u = part /\ v = Drop(output, total_sent + n)
    BY <1>6, <2>1
  <2>3. (r \o (s \o u)) \o v = (r \o s) \o (u \o v)
    <3>1. (r \o s) \o u = r \o (s \o u)
      BY ConcatAssociative, SMTT(60)
    <3>2. PICK w \in Seq(Bytes) : w = r \o s
      BY ConcatProperties
    <3>3. (w \o u) \o v = w \o (u \o v)
      BY ConcatAssociative, SMTT(60)
    <3> QED
      BY <3>1, <3>2, <3>3
  <2> QED
    BY <2>2, <2>3
<1> QED
  BY <1>1, <1>2, <1>5, <1>7 DEF Stream, part

LEMMA StreamEndsWrite ==
  ASSUME TypeOK, EndWrite
  PROVE  Stream' = Stream
<1>1. /\ client' = client /\ received' = received /\ sndbuf' = sndbuf
      /\ output' = Drop(output, total_sent) /\ total_sent' = 0
  BY DEF EndWrite
<1>2. Drop(Drop(output, total_sent), 0) = Drop(output, total_sent)
  BY StreamType, TakeAndDrop DEF TypeOK
<1> QED
  BY <1>1, <1>2 DEF Stream

\* sendInLoop puts the message behind all the rest, whoever keeps which part of it.
LEMMA StreamSends ==
  ASSUME TypeOK, NEW msg \in Seq(Bytes), SendInLoop(msg), total_sent = 0, total_sent' = 0,
         client' = client, received' = received
  PROVE  \/ Stream' = Stream /\ (state # "kConnected" \/ client = "gone")
         \/ Stream' = Stream \o msg /\ state = "kConnected" /\ client # "gone"
<1>1. CASE client = "gone"
  BY <1>1 DEF Stream
<1>2. CASE client # "gone" /\ state # "kConnected"
  <2>1. sndbuf' = sndbuf /\ output' = output
    BY <1>2 DEF SendInLoop
  <2> QED
    BY <1>2, <2>1 DEF Stream
<1>3. CASE client # "gone" /\ state = "kConnected"
  <2>1. PICK n : /\ n = IF output = <<>> THEN Least(Len(msg), SndCap - Len(sndbuf)) ELSE 0
                 /\ sndbuf' = sndbuf \o Take(msg, n)
                 /\ output' = output \o Drop(msg, n)
    BY <1>3 DEF SendInLoop, KeepUnsent
  <2>2. n \in 0 .. Len(msg)
    <3>1. /\ Len(msg) \in Nat /\ Len(sndbuf) \in Nat /\ SndCap \in Nat /\ Len(sndbuf) <= SndCap
      BY StreamType, SizesAssumption, LenProperties DEF TypeOK
    <3> QED
      BY <2>1, <3>1 DEF Least
  <2>3. /\ Take(msg, n) \in Seq(Bytes) /\ Drop(msg, n) \in Seq(Bytes)
        /\ Take(msg, n) \o Drop(msg, n) = msg /\ Drop(msg, 0) = msg
    BY <2>2, TakeDrop, TakeAndDrop
  <2>4. \A t \in Seq(Bytes) : Drop(t, 0) = t
    <3> TAKE t \in Seq(Bytes)
    <3>1. 0 \in 0 .. Len(t)
      BY LenProperties
    <3> QED
      BY <3>1, TakeAndDrop
  <2>5. /\ received \in Seq(Bytes) /\ sndbuf \in Seq(Bytes) /\ output \in Seq(Bytes)
        /\ received \o sndbuf \in Seq(Bytes) /\ output' \in Seq(Bytes)
    BY <2>1, <2>3, StreamType, ConcatProperties
  <2>6. /\ Stream = (received \o sndbuf) \o output
        /\ Stream' = (received \o sndbuf') \o output'
    BY <1>3, <2>4, <2>5 DEF Stream
  <2>7. (received \o (sndbuf \o Take(msg, n))) \o Drop(msg, n) = (received \o sndbuf) \o msg
    <3>1. PICK r \in Seq(Bytes), s \in Seq(Bytes), u \in Seq(Bytes), v \in Seq(Bytes) :
            r = received /\ s = sndbuf /\ u = Take(msg, n) /\ v = Drop(msg, n)
      BY <2>3, <2>5
    <3>2. (r \o (s \o u)) \o v = (r \o s) \o (u \o v)
      <4>1. (r \o s) \o u = r \o (s \o u)
        BY ConcatAssociative, SMTT(60)
      <4>2. PICK w \in Seq(Bytes) : w = r \o s
        BY ConcatProperties
      <4>3. (w \o u) \o v = w \o (u \o v)
        BY ConcatAssociative, SMTT(60)
      <4> QED
        BY <4>1, <4>2, <4>3
    <3> QED
      BY <2>3, <3>1, <3>2
  <2>8. CASE output = <<>>
    <3>1. output' = Drop(msg, n) /\ Stream = received \o sndbuf
      BY <2>1, <2>3, <2>5, <2>6, <2>8, ConcatEmptySeq
    <3> QED
      BY <1>3, <2>1, <2>6, <2>7, <3>1
  <2>9. CASE output # <<>>
    <3>1. n = 0 /\ output' = output \o msg
      BY <2>1, <2>3, <2>9
    <3>2. Take(msg, n) = <<>>
      BY <2>2, <2>3, <3>1, TakeDrop, EmptySeq
    <3>3. sndbuf' = sndbuf
      BY <2>1, <2>5, <3>2, ConcatEmptySeq
    <3>4. ((received \o sndbuf) \o output) \o msg = (received \o sndbuf) \o (output \o msg)
      <4>1. PICK s \in Seq(Bytes), u \in Seq(Bytes) : s = received \o sndbuf /\ u = output
        BY <2>5
      <4>2. (s \o u) \o msg = s \o (u \o msg)
        BY ConcatAssociative, SMTT(60)
      <4> QED
        BY <4>1, <4>2
    <3> QED
      BY <1>3, <2>6, <3>1, <3>3, <3>4
  <2> QED
    BY <2>8, <2>9
<1> QED
  BY <1>1, <1>2, <1>3

-----------------------------------------------------------------------------
(* The echo. *)

\* total_sent counts only while handleWrite runs: before it, all of output_buffer_ is
\* still to be sent.
EchoInv == TypeInv /\ (pc # "write" => total_sent = 0) /\ EchoIsExact

\* What waits to be echoed to the end of s, when the client has written n bytes.
Waits(s, w, n) ==
  \E k \in 0 .. n :
    /\ Echoed(s, Len(s)) = 1 .. k
    /\ w = [i \in 1 .. (n - k) |-> Byte("client", k + i)]

LEMMA EchoParts ==
  /\ EchoIsExact <=>
       /\ InOrder(Stream)
       /\ state = "kConnected" /\ client # "gone" => Waits(Stream, input \o rcvbuf, sent)
  /\ EchoIsExact' <=>
       /\ InOrder(Stream')
       /\ state' = "kConnected" /\ client' # "gone" =>
            Waits(Stream', input' \o rcvbuf', sent')
BY DEF EchoIsExact, InOrder, Waits, Echoed

\* A step that leaves the stream and what waits before it alone.
LEMMA SameStream ==
  ASSUME EchoIsExact, Stream' = Stream, sent' = sent,
         state' = "kConnected" /\ client' # "gone" =>
           state = "kConnected" /\ client # "gone" /\ input' \o rcvbuf' = input \o rcvbuf
  PROVE  EchoIsExact'
BY EchoParts

\* What was read of an ordered stream is in order.
LEMMA OrderOfPrefix ==
  ASSUME NEW s \in Seq(Bytes), NEW u \in Seq(Bytes), InOrder(s \o u)
  PROVE  InOrder(s)
<1>1. /\ Len(s) \in Nat /\ Len(u) \in Nat /\ Len(s \o u) = Len(s) + Len(u)
      /\ s \o u \in Seq(Bytes)
      /\ \A i \in 1 .. Len(s) + Len(u) :
           (s \o u)[i] = IF i <= Len(s) THEN s[i] ELSE u[i - Len(s)]
  BY ConcatProperties, LenProperties
<1>2. ASSUME NEW i \in DOMAIN s, s[i][1] = "client"
      PROVE  Echoed(s, i - 1) = 1 .. (s[i][2] - 1)
  <2>1. i \in 1 .. Len(s) /\ i \in DOMAIN (s \o u) /\ (s \o u)[i] = s[i] /\ i - 1 \in 0 .. Len(s)
    BY <1>1, LenProperties
  <2>2. Echoed(s \o u, i - 1) = 1 .. ((s \o u)[i][2] - 1)
    BY <1>2, <2>1 DEF InOrder
  <2>3. Echoed(s \o u, i - 1) = Echoed(s, i - 1)
    BY <2>1, EchoedOfConcat
  <2> QED
    BY <2>1, <2>2, <2>3
<1> QED
  BY <1>2 DEF InOrder

LEMMA EchoClient ==
  ASSUME EchoInv, Client
  PROVE  EchoIsExact'
<1>1. EchoIsExact /\ TypeOK
  BY DEF EchoInv, TypeInv
<1>2. CASE ClientReads
  <2>1. Stream' = Stream
    BY <1>1, <1>2, StreamReads
  <2> QED
    BY <1>1, <1>2, <2>1, SameStream DEF ClientReads
<1>3. CASE ClientFinishes
  <2>1. Stream' = Stream
    BY <1>3 DEF ClientFinishes, Stream
  <2> QED
    BY <1>1, <1>3, <2>1, SameStream DEF ClientFinishes
<1>4. CASE ClientResets
  <2>1. client # "gone" /\ client' = "gone" /\ Stream' = received
    BY <1>4 DEF ClientResets, Stream
  <2>2. /\ Stream = (received \o sndbuf) \o Drop(output, total_sent)
        /\ received \o sndbuf \in Seq(Bytes)
    BY <1>1, <2>1, StreamType, ConcatProperties DEF Stream
  <2>3. InOrder(Stream)
    BY <1>1 DEF EchoIsExact, InOrder
  <2>4. InOrder(received)
    BY <1>1, <2>2, <2>3, StreamType, OrderOfPrefix
  <2> QED
    BY <2>1, <2>4, EchoParts
<1>5. CASE ClientWrites
  <2>1. /\ Stream' = Stream /\ sent' = sent + 1 /\ client' = client /\ state' = state
        /\ input' = input /\ rcvbuf' = Append(rcvbuf, Byte("client", sent + 1))
        /\ sent < EchoMax
    BY <1>5 DEF ClientWrites, Stream
  <2>2. sent \in Nat /\ EchoMax \in Nat /\ sent + 1 \in 1 .. EchoMax
    BY <1>1, <2>1, SizesAssumption DEF TypeOK
  <2>3. Byte("client", sent + 1) \in Bytes
    BY <2>2, ByteTypes
  <2>4. input' \o rcvbuf' = Append(input \o rcvbuf, Byte("client", sent + 1))
    BY <1>1, <2>1, <2>3, StreamType, AppendToConcat, SMTT(30)
  <2>5. ASSUME state = "kConnected", client # "gone"
        PROVE  \E k \in 0 .. sent' :
                 /\ Echoed(Stream', Len(Stream')) = 1 .. k
                 /\ input' \o rcvbuf' = [i \in 1 .. (sent' - k) |-> Byte("client", k + i)]
    <3>1. PICK k \in 0 .. sent :
            /\ Echoed(Stream, Len(Stream)) = 1 .. k
            /\ input \o rcvbuf = [i \in 1 .. (sent - k) |-> Byte("client", k + i)]
      BY <1>1, <2>5 DEF EchoIsExact
    <3> DEFINE s == input \o rcvbuf
               t == [i \in 1 .. (sent' - k) |-> Byte("client", k + i)]
    <3>2. s \in Seq(Bytes) /\ Len(s) = sent - k
      <4>1. s \in Seq(Bytes)
        BY <1>1, StreamType, ConcatProperties
      <4>2. sent - k \in Nat
        BY <2>2
      <4> QED
        BY <3>1, <4>1, <4>2
    <3>3. /\ Append(s, Byte("client", sent + 1)) \in Seq(Bytes)
          /\ Len(Append(s, Byte("client", sent + 1))) = (sent - k) + 1
          /\ \A i \in 1 .. sent - k : Append(s, Byte("client", sent + 1))[i] = s[i]
          /\ Append(s, Byte("client", sent + 1))[(sent - k) + 1] = Byte("client", sent + 1)
      BY <2>3, <3>2, AppendProperties
    <3>4. \A i \in 1 .. sent - k : s[i] = Byte("client", k + i)
      BY <3>1
    <3>5. sent' - k \in Nat /\ sent' - k = (sent - k) + 1 /\ k + ((sent - k) + 1) = sent + 1
      BY <2>1, <2>2
    <3>6. t \in Seq(Bytes) /\ Len(t) = (sent - k) + 1
      <4>1. \A i \in 1 .. (sent' - k) : Byte("client", k + i) \in Bytes
        <5> TAKE i \in 1 .. (sent' - k)
        <5>1. k + i \in 1 .. EchoMax
          BY <2>1, <2>2
        <5> QED
          BY <5>1, ByteTypes
      <4> QED
        BY <3>5, <4>1
    <3> HIDE DEF s
    <3>7. ASSUME NEW i \in 1 .. (sent - k) + 1
          PROVE  Append(s, Byte("client", sent + 1))[i] = t[i]
      <4>1. t[i] = Byte("client", k + i)
        BY <3>5
      <4>2. CASE i \in 1 .. sent - k
        BY <3>3, <3>4, <4>1, <4>2
      <4>3. CASE i = (sent - k) + 1
        BY <3>3, <3>5, <4>1, <4>3
      <4>4. i \in 1 .. sent - k \/ i = (sent - k) + 1
        BY <2>2
      <4> QED
        BY <4>2, <4>3, <4>4
    <3> HIDE DEF t
    <3>8. Append(s, Byte("client", sent + 1)) = t
      BY <3>3, <3>6, <3>7, SeqEqual
    <3>9. k \in 0 .. sent'
      BY <2>1, <2>2
    <3> QED
      BY <2>1, <2>4, <3>1, <3>8, <3>9 DEF s, t
  <2> QED
    <3>1. InOrder(Stream')
      BY <1>1, <2>1, EchoParts
    <3>2. state' = "kConnected" /\ client' # "gone" =>
            Waits(Stream', input' \o rcvbuf', sent')
      BY <2>1, <2>5 DEF Waits
    <3> QED
      BY <3>1, <3>2, EchoParts
<1> QED
  BY <1>2, <1>3, <1>4, <1>5 DEF Client

LEMMA EchoReceive ==
  ASSUME EchoInv, Receive
  PROVE  EchoIsExact'
<1>1. EchoIsExact /\ TypeOK
  BY DEF EchoInv, TypeInv
<1>2. PICK n : /\ n = Least(Len(rcvbuf), ReadSize)
               /\ input' = input \o Take(rcvbuf, n) /\ rcvbuf' = Drop(rcvbuf, n)
  BY DEF Receive
<1>3. n \in 0 .. Len(rcvbuf)
  <2>1. Len(rcvbuf) \in Nat /\ ReadSize \in Nat
    BY <1>1, StreamType, SizesAssumption, LenProperties
  <2> QED
    BY <1>2, <2>1 DEF Least
<1>4. /\ Take(rcvbuf, n) \in Seq(Bytes) /\ Drop(rcvbuf, n) \in Seq(Bytes)
      /\ Take(rcvbuf, n) \o Drop(rcvbuf, n) = rcvbuf
  BY <1>1, <1>3, StreamType, TakeDrop, TakeAndDrop
<1>5. (input \o Take(rcvbuf, n)) \o Drop(rcvbuf, n) = input \o rcvbuf
  <2>1. PICK r \in Seq(Bytes), s \in Seq(Bytes), u \in Seq(Bytes) :
          r = input /\ s = Take(rcvbuf, n) /\ u = Drop(rcvbuf, n)
    BY <1>1, <1>4, StreamType
  <2>2. (r \o s) \o u = r \o (s \o u)
    BY ConcatAssociative, SMTT(60)
  <2> QED
    BY <1>4, <2>1, <2>2
<1>6. Stream' = Stream
  BY DEF Receive, Stream
<1>7. UNCHANGED <<client, sent, state>>
  BY DEF Receive
<1> QED
  BY <1>1, <1>2, <1>5, <1>6, <1>7, SameStream

LEMMA EchoEcho ==
  ASSUME EchoInv, Echo
  PROVE  EchoIsExact'
<1>1. EchoIsExact /\ TypeOK /\ total_sent = 0
  BY DEF EchoInv, TypeInv, Echo, Dispatching
<1>2. /\ rcvbuf = <<>> /\ client = "open" /\ input' = <<>>
      /\ UNCHANGED <<client, sent, received, rcvbuf, state, total_sent>>
  BY DEF Echo
<1>3. input \in Seq(Bytes) /\ Stream \in Seq(Bytes) /\ input \o rcvbuf = input
  BY <1>1, <1>2, StreamType, ConcatEmptySeq
<1>4. CASE input = <<>>
  <2>1. Stream' = Stream
    BY <1>2, <1>4 DEF Echo, Stream
  <2> QED
    BY <1>1, <1>2, <1>4, <2>1, SameStream
<1>5. CASE input # <<>>
  <2>1. SendInLoop(input)
    BY <1>5 DEF Echo
  <2>2. \/ Stream' = Stream /\ (state # "kConnected" \/ client = "gone")
        \/ Stream' = Stream \o input /\ state = "kConnected" /\ client # "gone"
    BY <1>1, <1>2, <1>3, <2>1, StreamSends
  <2>3. CASE Stream' = Stream /\ (state # "kConnected" \/ client = "gone")
    BY <1>1, <1>2, <2>3, SameStream
  <2>4. CASE Stream' = Stream \o input /\ state = "kConnected" /\ client # "gone"
    <3>1. InOrder(Stream) /\ Waits(Stream, input, sent)
      BY <1>1, <1>3, <2>4, EchoParts
    <3>2. PICK k \in 0 .. sent :
            /\ Echoed(Stream, Len(Stream)) = 1 .. k
            /\ input = [i \in 1 .. (sent - k) |-> Byte("client", k + i)]
      BY <3>1 DEF Waits
    <3>3. sent \in Nat /\ sent - k \in Nat /\ k \in Nat /\ k + (sent - k) = sent
      BY <1>1 DEF TypeOK
    <3>4. Len(input) = sent - k
      BY <1>3, <3>2, <3>3
    <3>5. \A i \in 1 .. Len(input) : input[i] = Byte("client", k + i)
      BY <3>2, <3>4
    <3>6. InOrder(Stream') /\ Echoed(Stream', Len(Stream')) = 1 .. sent
      <4>1. k \in Nat
        BY <3>3
      <4>2. InOrder(Stream \o input)
            /\ Echoed(Stream \o input, Len(Stream \o input)) = 1 .. (k + Len(input))
        BY <1>3, <3>1, <3>2, <3>5, <4>1, OrderWithEcho, ZenonT(30)
      <4>3. k + Len(input) = sent
        BY <3>3, <3>4
      <4> QED
        BY <2>4, <4>2, <4>3
    <3>7. Waits(Stream', <<>>, sent)
      <4>1. sent \in 0 .. sent
        BY <3>3
      <4>2. <<>> = [i \in 1 .. (sent - sent) |-> Byte("client", sent + i)]
        BY <3>3
      <4> QED
        BY <3>6, <4>1, <4>2 DEF Waits
    <3>8. input' \o rcvbuf' = <<>>
      BY <1>2, NoBytes, ConcatEmptySeq
    <3> QED
      BY <1>2, <3>6, <3>7, <3>8, EchoParts
  <2> QED
    BY <2>2, <2>3, <2>4
<1> QED
  BY <1>4, <1>5

LEMMA EchoRunSend ==
  ASSUME EchoInv, RunSend
  PROVE  EchoIsExact'
<1>1. EchoIsExact /\ TypeOK /\ total_sent = 0
  BY DEF EchoInv, TypeInv, RunSend
<1>2. /\ functors # <<>> /\ Head(functors).run = "send"
      /\ SendInLoop(Message(Head(functors).msg))
      /\ UNCHANGED <<client, sent, received, rcvbuf, input, state, total_sent>>
  BY DEF RunSend
<1>3. PICK m \in 1 .. MsgMax : SendInLoop(Message(m))
  <2>1. functors \in Seq(Functors)
    BY <1>1 DEF TypeOK, Functors
  <2>2. Head(functors) \in Functors
    BY <1>2, <2>1, HeadTailProperties
  <2>3. Head(functors).msg \in 1 .. MsgMax
    BY <1>2, <2>2 DEF Functors, SendFunctor, CloseFunctor
  <2> QED
    BY <1>2, <2>3
<1>4. Message(m) \in Seq(Bytes) /\ Stream \in Seq(Bytes)
  BY <1>1, MessageType, StreamType
<1>5. \A i \in 1 .. Len(Message(m)) : Message(m)[i][1] = "app"
  <2>1. DOMAIN Message(m) = 1 .. MsgLen
    BY DEF Message
  <2>2. 1 .. Len(Message(m)) = 1 .. MsgLen
    BY <1>4, <2>1, LenProperties
  <2>3. \A i \in 1 .. MsgLen : Message(m)[i][1] = "app"
    BY DEF Message, Byte
  <2> QED
    BY <2>2, <2>3
<1>6. \/ Stream' = Stream /\ (state # "kConnected" \/ client = "gone")
      \/ Stream' = Stream \o Message(m) /\ state = "kConnected" /\ client # "gone"
  BY <1>1, <1>2, <1>3, <1>4, StreamSends
<1>7. CASE Stream' = Stream /\ (state # "kConnected" \/ client = "gone")
  BY <1>1, <1>2, <1>7, SameStream
<1>8. CASE Stream' = Stream \o Message(m) /\ state = "kConnected" /\ client # "gone"
  <2>1. InOrder(Stream) /\ Waits(Stream, input \o rcvbuf, sent)
    BY <1>1, <1>8, EchoParts
  <2>2. InOrder(Stream') /\ Echoed(Stream', Len(Stream')) = Echoed(Stream, Len(Stream))
    BY <1>4, <1>5, <1>8, <2>1, OrderWithMessage
  <2>3. Waits(Stream', input \o rcvbuf, sent)
    BY <2>1, <2>2 DEF Waits
  <2> QED
    BY <1>2, <2>2, <2>3, EchoParts
<1> QED
  BY <1>6, <1>7, <1>8

\* Every other step leaves the stream alone; state_ never comes back to kConnected.
LEMMA EchoStep ==
  ASSUME EchoInv, [Next]_vars
  PROVE  EchoInv'
<1>1. EchoIsExact /\ TypeOK /\ TypeInv
  BY DEF EchoInv, TypeInv
<1>2. TypeInv'
  BY <1>1, TypeStep
<1>3. (pc # "write" => total_sent = 0)'
  <2>1. CASE UNCHANGED <<pc, total_sent>> \/ total_sent' = 0 \/ pc' = "write"
    BY <2>1 DEF EchoInv
  <2>2. CASE Client \/ OtherThreads \/ UNCHANGED vars
    BY <2>1, <2>2 DEF Client, ClientWrites, ClientReads, ClientFinishes, ClientResets,
                      OtherThreads, Send, TestState, MarkDisconnecting
  <2>3. CASE Poll \/ BeginEvent \/ EndEvent
    BY <2>3 DEF Poll, BeginEvent, EndEvent, EchoInv
  <2>4. CASE HandleError \/ Receive \/ ReceiveEnd \/ Echo \/ BeginWrite
    BY <2>1, <2>4 DEF HandleError, Receive, ReceiveEnd, Echo, BeginWrite
  <2>5. CASE WriteSome \/ WriteFails \/ EndWrite
    BY <2>1, <2>5 DEF WriteSome, WriteFails, EndWrite
  <2>6. CASE RunSend \/ RunForceClose \/ Release
    BY <2>1, <2>6 DEF RunSend, RunForceClose, Release
  <2> QED
    BY <2>2, <2>3, <2>4, <2>5, <2>6 DEF Next, LoopThread
<1>4. EchoIsExact'
  <2>1. CASE /\ UNCHANGED <<client, sent, received, sndbuf, output, total_sent, input,
                            rcvbuf>>
             /\ state' = "kConnected" => state = "kConnected"
    <3>1. Stream' = Stream
      BY <2>1 DEF Stream
    <3> QED
      BY <1>1, <2>1, <3>1, SameStream
  <2>2. CASE OtherThreads \/ UNCHANGED vars
    BY <2>1, <2>2 DEF OtherThreads, Send, TestState, MarkDisconnecting
  <2>3. CASE Poll \/ BeginEvent \/ EndEvent
    BY <2>1, <2>3 DEF Poll, BeginEvent, EndEvent
  <2>4. CASE HandleError \/ ReceiveEnd \/ RunForceClose
    BY <2>1, <2>4 DEF HandleError, ReceiveEnd, RunForceClose, HandleClose
  <2>5. CASE BeginWrite
    <3>1. total_sent = 0 /\ total_sent' = 0
      BY <2>5 DEF EchoInv, BeginWrite, Dispatching
    <3> QED
      BY <2>1, <2>5, <3>1 DEF BeginWrite
  <2>6. CASE WriteSome
    <3>1. Stream' = Stream
      BY <1>1, <2>6, StreamWrites
    <3> QED
      BY <1>1, <2>6, <3>1, SameStream DEF WriteSome
  <2>7. CASE WriteFails
    <3>1. client = "gone" /\ UNCHANGED <<client, sent, received>>
      BY <2>7 DEF WriteFails
    <3>2. Stream' = Stream
      BY <3>1 DEF Stream
    <3> QED
      BY <1>1, <3>1, <3>2, SameStream
  <2>8. CASE EndWrite
    <3>1. Stream' = Stream
      BY <1>1, <2>8, StreamEndsWrite
    <3>2. /\ UNCHANGED <<client, sent, input, rcvbuf>>
          /\ state' = "kConnected" => state = "kConnected"
      BY <2>8 DEF EndWrite, HandleClose
    <3> QED
      BY <1>1, <3>1, <3>2, SameStream
  <2>9. CASE Release
    <3>1. /\ UNCHANGED <<client, sent, received, sndbuf, output, total_sent, state>>
          /\ state # "kConnected"
      BY <1>1, <2>9 DEF Release, TypeInv, TypeOK, Closing
    <3>2. Stream' = Stream
      BY <3>1 DEF Stream
    <3> QED
      BY <1>1, <3>1, <3>2, SameStream
  <2> QED
    BY <2>2, <2>3, <2>4, <2>5, <2>6, <2>7, <2>8, <2>9, EchoClient, EchoReceive, EchoEcho,
       EchoRunSend DEF Next, LoopThread
<1> QED
  BY <1>2, <1>3, <1>4 DEF EchoInv

LEMMA EchoInit ==
  ASSUME Init
  PROVE  EchoInv
<1>1. /\ client = "open" /\ sent = 0 /\ total_sent = 0
      /\ received = <<>> /\ sndbuf = <<>> /\ output = <<>> /\ input = <<>> /\ rcvbuf = <<>>
  BY DEF Init
<1>2. TypeInv
  BY TypeInit
<1>3. Stream = <<>>
  <2>1. Drop(output, total_sent) = <<>>
    <3>1. output \in Seq(Bytes) /\ 0 \in 0 .. Len(output)
      BY <1>1, NoBytes
    <3>2. Drop(output, 0) = output
      BY <3>1, TakeAndDrop
    <3> QED
      BY <1>1, <3>2
  <2>2. received \o sndbuf = <<>>
    BY <1>1, NoBytes, ConcatEmptySeq
  <2> QED
    BY <1>1, <2>1, <2>2, NoBytes, ConcatEmptySeq DEF Stream
<1>4. InOrder(<<>>)
  BY DEF InOrder
<1>5. Waits(<<>>, <<>>, 0)
  <2>1. Echoed(<<>>, Len(<<>>)) = 1 .. 0
    <3>1. Len(<<>>) = 0
      BY NoBytes
    <3>2. Echoed(<<>>, 0) = {}
      BY DEF Echoed
    <3> QED
      BY <3>1, <3>2
  <2>2. <<>> = [i \in 1 .. (0 - 0) |-> Byte("client", 0 + i)]
    OBVIOUS
  <2>3. 0 \in 0 .. 0
    OBVIOUS
  <2> QED
    BY <2>1, <2>2, <2>3 DEF Waits
<1>6. input \o rcvbuf = <<>>
  BY <1>1, NoBytes, ConcatEmptySeq
<1> QED
  BY <1>1, <1>2, <1>3, <1>4, <1>5, <1>6, EchoParts DEF EchoInv

\* What the client gets back is what it wrote, in order, without gaps or repetitions,
\* however the kernel and handleWrite cut it into pieces; and as long as the connection
\* is up, what it has not got waits in input_buffer_ and the receive buffer.
THEOREM EchoIsExactAlways == SafeSpec => []EchoIsExact
<1>1. Init => EchoInv
  BY EchoInit
<1>2. EchoInv /\ [Next]_vars => EchoInv'
  BY EchoStep
<1>3. EchoInv => EchoIsExact
  BY DEF EchoInv
<1> QED
  BY <1>1, <1>2, <1>3, PTL DEF SafeSpec

-----------------------------------------------------------------------------
(* The messages of send(). *)

\* A number belongs to one place of one message.
LEMMA PlaceIsUnique ==
  ASSUME NEW m \in 1 .. MsgMax, NEW q \in 1 .. MsgLen,
         NEW n \in 1 .. MsgMax, NEW p \in 1 .. MsgLen
  PROVE  /\ m < n => (m - 1) * MsgLen + q < (n - 1) * MsgLen + p
         /\ (m - 1) * MsgLen + q = (n - 1) * MsgLen + p => m = n /\ q = p
<1>1. MsgMax \in Nat /\ MsgLen \in Nat
  BY SizesAssumption
<1>2. ASSUME NEW a \in 1 .. MsgMax, NEW b \in 1 .. MsgMax, a < b
      PROVE  (a - 1) * MsgLen + MsgLen <= (b - 1) * MsgLen
  <2>1. \A x, y \in Nat : x * y \in Nat
    OBVIOUS
  <2>2. (b - a - 1) * MsgLen \in Nat /\ (a - 1) * MsgLen \in Nat
    <3>1. b - a - 1 \in Nat /\ a - 1 \in Nat
      BY <1>1, <1>2
    <3> QED
      BY <1>1, <2>1, <3>1
  <2>3. (b - 1) * MsgLen = (a - 1) * MsgLen + MsgLen + (b - a - 1) * MsgLen
    BY <1>1
  <2> DEFINE x == (a - 1) * MsgLen
             y == (b - a - 1) * MsgLen
             z == (b - 1) * MsgLen
  <2>4. x \in Nat /\ y \in Nat /\ z = x + MsgLen + y
    BY <2>2, <2>3
  <2> HIDE DEF x, y, z
  <2>5. x + MsgLen <= z
    BY <1>1, <2>4
  <2> QED
    BY <2>5 DEF x, z
<1> DEFINE x == (m - 1) * MsgLen
           z == (n - 1) * MsgLen
<1>3. x \in Int /\ z \in Int
  BY <1>1
<1>4. /\ m < n => x + MsgLen <= z
      /\ n < m => z + MsgLen <= x
      /\ m = n => x = z
  BY <1>2
<1> HIDE DEF x, z
<1>5. (m < n => x + q < z + p) /\ (x + q = z + p => m = n /\ q = p)
  BY <1>1, <1>3, <1>4
<1> QED
  BY <1>5 DEF x, z

\* A byte of a message other than its last: another byte of it must follow.
Inner(b) == \E m \in 1 .. MsgMax, p \in 1 .. (MsgLen - 1) : b = Message(m)[p]

Increasing(s) ==
  \A i, j \in DOMAIN s : i < j /\ s[i][1] = "app" /\ s[j][1] = "app" => s[i][2] < s[j][2]

Unbroken(s) ==
  \A i \in DOMAIN s, m \in 1 .. MsgMax, p \in 1 .. (MsgLen - 1) :
    s[i] = Message(m)[p] /\ i < Len(s) => s[i + 1] = Message(m)[p + 1]

Whole(s) == \A i \in DOMAIN s : i = Len(s) => ~Inner(s[i])

\* The numbers in s are before those of message m.
Before(s, m) == \A i \in DOMAIN s : s[i][1] = "app" => s[i][2] <= (m - 1) * MsgLen

LEMMA MessageBytes ==
  ASSUME NEW m \in 1 .. MsgMax
  PROVE  /\ Message(m) \in Seq(Bytes) /\ Len(Message(m)) = MsgLen
         /\ \A q \in 1 .. MsgLen :
              Message(m)[q][1] = "app" /\ Message(m)[q][2] = (m - 1) * MsgLen + q
<1>1. Message(m) \in Seq(Bytes)
  BY MessageType
<1>2. DOMAIN Message(m) = 1 .. MsgLen /\ MsgLen \in Nat
  BY SizesAssumption DEF Message
<1>3. Len(Message(m)) = MsgLen
  BY <1>1, <1>2, LenProperties
<1> QED
  BY <1>1, <1>3 DEF Message, Byte

\* A byte stands for the same place in whatever message it is looked for.
LEMMA MessagePlace ==
  ASSUME NEW m \in 1 .. MsgMax, NEW q \in 1 .. MsgLen,
         NEW n \in 1 .. MsgMax, NEW p \in 1 .. MsgLen,
         Message(m)[q] = Message(n)[p]
  PROVE  m = n /\ q = p
<1>1. (m - 1) * MsgLen + q = (n - 1) * MsgLen + p
  BY MessageBytes
<1> QED
  BY <1>1, PlaceIsUnique

\* The echo put behind whole messages.
LEMMA EchoBehind ==
  ASSUME NEW s \in Seq(Bytes), NEW u \in Seq(Bytes), Increasing(s), Unbroken(s), Whole(s),
         \A i \in 1 .. Len(u) : u[i][1] = "client"
  PROVE  Increasing(s \o u) /\ Unbroken(s \o u) /\ Whole(s \o u)
<1>1. /\ Len(s) \in Nat /\ Len(u) \in Nat /\ Len(s \o u) = Len(s) + Len(u)
      /\ DOMAIN s = 1 .. Len(s) /\ DOMAIN (s \o u) = 1 .. Len(s) + Len(u)
      /\ \A i \in 1 .. Len(s) + Len(u) :
           (s \o u)[i] = IF i <= Len(s) THEN s[i] ELSE u[i - Len(s)]
  BY ConcatProperties, LenProperties
<1>2. ASSUME NEW i \in DOMAIN (s \o u), (s \o u)[i][1] = "app"
      PROVE  i \in 1 .. Len(s) /\ (s \o u)[i] = s[i]
  <2>1. CASE i <= Len(s)
    BY <1>1, <2>1
  <2>2. CASE ~(i <= Len(s))
    <3>1. i - Len(s) \in 1 .. Len(u) /\ (s \o u)[i] = u[i - Len(s)]
      BY <1>1, <2>2
    <3> QED
      BY <1>2, <3>1
  <2> QED
    BY <2>1, <2>2
<1>3. ASSUME NEW m \in 1 .. MsgMax, NEW p \in 1 .. (MsgLen - 1)
      PROVE  Message(m)[p][1] = "app"
  <2>1. p \in 1 .. MsgLen
    BY SizesAssumption
  <2> QED
    BY <2>1, MessageBytes
<1>4. Increasing(s \o u)
  BY <1>1, <1>2 DEF Increasing
<1>5. Unbroken(s \o u)
  <2> SUFFICES ASSUME NEW i \in DOMAIN (s \o u),
                      NEW m \in 1 .. MsgMax, NEW p \in 1 .. (MsgLen - 1),
                      (s \o u)[i] = Message(m)[p], i < Len(s \o u)
               PROVE  (s \o u)[i + 1] = Message(m)[p + 1]
    BY DEF Unbroken
  <2>1. i \in 1 .. Len(s) /\ s[i] = Message(m)[p]
    BY <1>2, <1>3
  <2>2. i # Len(s)
    BY <1>1, <2>1 DEF Whole, Inner
  <2>3. i < Len(s) /\ i + 1 \in 1 .. Len(s) + Len(u) /\ i + 1 <= Len(s)
    BY <1>1, <2>1, <2>2
  <2> QED
    BY <1>1, <2>1, <2>3 DEF Unbroken
<1>6. Whole(s \o u)
  <2> SUFFICES ASSUME NEW i \in DOMAIN (s \o u), i = Len(s \o u), Inner((s \o u)[i])
               PROVE  FALSE
    BY DEF Whole
  <2>1. i \in 1 .. Len(s) /\ (s \o u)[i] = s[i]
    BY <1>2, <1>3 DEF Inner
  <2>2. i = Len(s)
    <3>1. i = Len(s) + Len(u) /\ i <= Len(s) /\ Len(s) \in Nat /\ Len(u) \in Nat
      BY <1>1, <2>1
    <3> QED
      BY <3>1
  <2> QED
    BY <1>1, <2>1, <2>2 DEF Whole
<1> QED
  BY <1>4, <1>5, <1>6

\* The next message put behind whole messages.
LEMMA MessageBehind ==
  ASSUME NEW s \in Seq(Bytes), NEW m \in 1 .. MsgMax, Increasing(s), Unbroken(s), Whole(s),
         Before(s, m)
  PROVE  Increasing(s \o Message(m)) /\ Unbroken(s \o Message(m)) /\ Whole(s \o Message(m))
<1> DEFINE u == Message(m)
           base == (m - 1) * MsgLen
<1>0. /\ u \in Seq(Bytes) /\ Len(u) = MsgLen /\ MsgLen \in Nat \ {0} /\ base \in Int
      /\ \A q \in 1 .. MsgLen : u[q][1] = "app" /\ u[q][2] = base + q
  BY MessageBytes, SizesAssumption
<1> HIDE DEF u, base
<1>1. /\ Len(s) \in Nat /\ Len(s \o u) = Len(s) + MsgLen
      /\ DOMAIN s = 1 .. Len(s) /\ DOMAIN (s \o u) = 1 .. Len(s) + MsgLen
      /\ \A i \in 1 .. Len(s) + MsgLen :
           (s \o u)[i] = IF i <= Len(s) THEN s[i] ELSE u[i - Len(s)]
  <2>1. /\ Len(s) \in Nat /\ Len(s \o u) = Len(s) + Len(u)
        /\ s \o u \in Seq(Bytes)
        /\ \A i \in 1 .. Len(s) + Len(u) :
             (s \o u)[i] = IF i <= Len(s) THEN s[i] ELSE u[i - Len(s)]
    BY <1>0, ConcatProperties, LenProperties
  <2>2. DOMAIN s = 1 .. Len(s) /\ DOMAIN (s \o u) = 1 .. Len(s \o u)
    BY <2>1, LenProperties
  <2> QED
    BY <1>0, <2>1, <2>2
<1>2. \A i \in 1 .. Len(s) : s[i][1] = "app" => s[i][2] \in Int /\ s[i][2] <= base
  <2> SUFFICES ASSUME NEW i \in 1 .. Len(s), s[i][1] = "app"
               PROVE  s[i][2] \in Int /\ s[i][2] <= base
    OBVIOUS
  <2>1. s[i] \in Bytes
    BY ElementOfSeq
  <2>2. s[i][2] \in Int
    BY <2>1 DEF Bytes
  <2> QED
    BY <1>1, <2>2 DEF Before, base
<1>3. ASSUME NEW q \in 1 .. MsgLen, NEW n \in 1 .. MsgMax, NEW p \in 1 .. (MsgLen - 1),
             u[q] = Message(n)[p]
      PROVE  n = m /\ p = q
  <2>1. p \in 1 .. MsgLen
    BY <1>0
  <2> QED
    BY <1>3, <2>1, MessagePlace DEF u
<1>4. Increasing(s \o u)
  <2> SUFFICES ASSUME NEW i \in DOMAIN (s \o u), NEW j \in DOMAIN (s \o u), i < j,
                      (s \o u)[i][1] = "app", (s \o u)[j][1] = "app"
               PROVE  (s \o u)[i][2] < (s \o u)[j][2]
    BY DEF Increasing
  <2>1. CASE j <= Len(s)
    <3>1. i \in DOMAIN s /\ j \in DOMAIN s /\ (s \o u)[i] = s[i] /\ (s \o u)[j] = s[j]
      BY <1>1, <2>1
    <3> QED
      BY <3>1 DEF Increasing
  <2>2. CASE ~(j <= Len(s))
    <3>1. j - Len(s) \in 1 .. MsgLen /\ (s \o u)[j] = u[j - Len(s)]
      BY <1>0, <1>1, <2>2
    <3>2. (s \o u)[j][2] = base + (j - Len(s))
      BY <1>0, <3>1
    <3>3. CASE i <= Len(s)
      <4>1. i \in 1 .. Len(s) /\ (s \o u)[i] = s[i]
        BY <1>1, <3>3
      <4>2. s[i][2] \in Int /\ s[i][2] <= base
        BY <1>2, <4>1
      <4> QED
        BY <1>0, <1>1, <3>1, <3>2, <4>1, <4>2, SMTT(30)
    <3>4. CASE ~(i <= Len(s))
      <4>1. i - Len(s) \in 1 .. MsgLen /\ (s \o u)[i] = u[i - Len(s)]
        BY <1>0, <1>1, <3>4, SMTT(30)
      <4>2. (s \o u)[i][2] = base + (i - Len(s))
        BY <1>0, <4>1
      <4> QED
        BY <1>0, <1>1, <3>2, <4>2
    <3> QED
      BY <3>3, <3>4
  <2> QED
    BY <2>1, <2>2
<1>5. Unbroken(s \o u)
  <2> SUFFICES ASSUME NEW i \in DOMAIN (s \o u),
                      NEW n \in 1 .. MsgMax, NEW p \in 1 .. (MsgLen - 1),
                      (s \o u)[i] = Message(n)[p], i < Len(s \o u)
               PROVE  (s \o u)[i + 1] = Message(n)[p + 1]
    BY DEF Unbroken
  <2>1. CASE i <= Len(s)
    <3>1. i \in DOMAIN s /\ s[i] = Message(n)[p]
      BY <1>1, <2>1
    <3>2. i # Len(s)
      BY <3>1 DEF Whole, Inner
    <3>3. i < Len(s) /\ i + 1 \in 1 .. Len(s) + MsgLen /\ i + 1 <= Len(s)
      BY <1>0, <1>1, <2>1, <3>2
    <3> QED
      BY <1>1, <3>1, <3>3 DEF Unbroken
  <2>2. CASE ~(i <= Len(s))
    <3>1. i - Len(s) \in 1 .. MsgLen /\ u[i - Len(s)] = Message(n)[p]
      BY <1>0, <1>1, <2>2
    <3>2. n = m /\ p = i - Len(s)
      BY <1>3, <3>1
    <3>3. /\ i + 1 \in 1 .. Len(s) + MsgLen /\ ~(i + 1 <= Len(s))
          /\ (i + 1) - Len(s) = p + 1
      <4>1. /\ i = Len(s) + p /\ p \in 1 .. (MsgLen - 1) /\ Len(s) \in Nat
            /\ MsgLen \in Nat
        BY <1>0, <1>1, <3>2
      <4> QED
        BY <4>1
    <3>4. (s \o u)[i + 1] = u[(i + 1) - Len(s)]
      BY <1>1, <3>3
    <3> QED
      BY <3>2, <3>3, <3>4 DEF u
  <2> QED
    BY <2>1, <2>2
<1>6. Whole(s \o u)
  <2> SUFFICES ASSUME Inner((s \o u)[Len(s) + MsgLen])
               PROVE  FALSE
    BY <1>1 DEF Whole
  <2>1. (s \o u)[Len(s) + MsgLen] = u[MsgLen] /\ MsgLen \in 1 .. MsgLen
    <3>1. /\ Len(s) + MsgLen \in 1 .. Len(s) + MsgLen /\ ~(Len(s) + MsgLen <= Len(s))
          /\ (Len(s) + MsgLen) - Len(s) = MsgLen /\ MsgLen \in 1 .. MsgLen
      BY <1>0, <1>1
    <3> QED
      BY <1>1, <3>1
  <2>2. PICK n \in 1 .. MsgMax, p \in 1 .. (MsgLen - 1) : u[MsgLen] = Message(n)[p]
    BY <2>1 DEF Inner
  <2>3. p = MsgLen
    BY <1>3, <2>1, <2>2
  <2> QED
    BY <1>0, <2>3
<1> QED
  BY <1>4, <1>5, <1>6 DEF u

\* What was read of a stream of messages.
LEMMA MessagesOfPrefix ==
  ASSUME NEW s \in Seq(Bytes), NEW u \in Seq(Bytes), Increasing(s \o u), Unbroken(s \o u)
  PROVE  Increasing(s) /\ Unbroken(s)
<1>1. /\ Len(s) \in Nat /\ Len(u) \in Nat /\ Len(s \o u) = Len(s) + Len(u)
      /\ DOMAIN s = 1 .. Len(s) /\ DOMAIN (s \o u) = 1 .. Len(s) + Len(u)
      /\ \A i \in 1 .. Len(s) + Len(u) :
           (s \o u)[i] = IF i <= Len(s) THEN s[i] ELSE u[i - Len(s)]
  BY ConcatProperties, LenProperties
<1>2. \A i \in 1 .. Len(s) : i \in 1 .. Len(s) + Len(u) /\ (s \o u)[i] = s[i]
  BY <1>1
<1>3. Increasing(s)
  BY <1>1, <1>2 DEF Increasing
<1>4. Unbroken(s)
  <2> SUFFICES ASSUME NEW i \in DOMAIN s,
                      NEW m \in 1 .. MsgMax, NEW p \in 1 .. (MsgLen - 1),
                      s[i] = Message(m)[p], i < Len(s)
               PROVE  s[i + 1] = Message(m)[p + 1]
    BY DEF Unbroken
  <2>1. i + 1 \in 1 .. Len(s) /\ i < Len(s \o u)
    BY <1>1
  <2> QED
    BY <1>1, <1>2, <2>1 DEF Unbroken
<1> QED
  BY <1>3, <1>4

\* The numbers of a message are before those of a later one.
LEMMA LaterMessages ==
  ASSUME NEW m \in Nat \ {0}, NEW n \in Nat \ {0}
  PROVE  /\ (m - 1) * MsgLen \in Nat
         /\ m <= n => (m - 1) * MsgLen <= (n - 1) * MsgLen
         /\ m < n => (m - 1) * MsgLen + MsgLen <= (n - 1) * MsgLen
<1>0. MsgLen \in Nat
  BY SizesAssumption
<1>1. \A x, y \in Nat : x * y \in Nat
  OBVIOUS
<1>2. m - 1 \in Nat /\ n - 1 \in Nat
  OBVIOUS
<1> DEFINE a == (m - 1) * MsgLen
           b == (n - 1) * MsgLen
<1>3. a \in Nat /\ b \in Nat
  BY <1>0, <1>1, <1>2
<1>4. CASE m < n
  <2> DEFINE c == (n - m - 1) * MsgLen
  <2>1. c \in Nat
    <3>1. n - m - 1 \in Nat
      BY <1>4
    <3> QED
      BY <1>0, <1>1, <3>1
  <2>2. b = a + MsgLen + c
    BY <1>0
  <2> HIDE DEF a, b, c
  <2>3. a + MsgLen <= b /\ a <= b
    BY <1>0, <1>3, <2>1, <2>2
  <2> QED
    BY <1>3, <2>3 DEF a, b
<1>5. CASE m = n
  BY <1>3, <1>5
<1>6. CASE n < m
  BY <1>3, <1>6
<1> QED
  BY <1>4, <1>5, <1>6

LEMMA BeforeLater ==
  ASSUME NEW s \in Seq(Bytes), NEW m \in Nat \ {0}, NEW n \in Nat \ {0}, m <= n, Before(s, m)
  PROVE  Before(s, n)
<1>1. (m - 1) * MsgLen \in Int /\ (n - 1) * MsgLen \in Int
      /\ (m - 1) * MsgLen <= (n - 1) * MsgLen
  BY LaterMessages
<1> DEFINE a == (m - 1) * MsgLen
           b == (n - 1) * MsgLen
<1>2. ASSUME NEW i \in DOMAIN s, s[i][1] = "app"
      PROVE  s[i][2] <= b
  <2>1. s[i][2] \in Int
    BY ElementOfSeq, LenProperties DEF Bytes
  <2>2. s[i][2] <= a
    BY <1>2 DEF Before
  <2> HIDE DEF a, b
  <2>3. a \in Int /\ b \in Int /\ a <= b
    BY <1>1 DEF a, b
  <2> QED
    BY <2>1, <2>2, <2>3
<1> QED
  BY <1>2 DEF Before

LEMMA BeforeOfConcat ==
  ASSUME NEW s \in Seq(Bytes), NEW u \in Seq(Bytes), NEW m
  PROVE  /\ Before(s \o u, m) => Before(s, m)
         /\ Before(s, m) /\ Before(u, m) => Before(s \o u, m)
<1>1. /\ Len(s) \in Nat /\ Len(u) \in Nat /\ Len(s \o u) = Len(s) + Len(u)
      /\ DOMAIN s = 1 .. Len(s) /\ DOMAIN u = 1 .. Len(u)
      /\ DOMAIN (s \o u) = 1 .. Len(s) + Len(u)
      /\ \A i \in 1 .. Len(s) + Len(u) :
           (s \o u)[i] = IF i <= Len(s) THEN s[i] ELSE u[i - Len(s)]
  BY ConcatProperties, LenProperties
<1>2. ASSUME Before(s \o u, m)
      PROVE  Before(s, m)
  <2>1. \A i \in 1 .. Len(s) : i \in 1 .. Len(s) + Len(u) /\ (s \o u)[i] = s[i]
    BY <1>1
  <2> QED
    BY <1>1, <1>2, <2>1 DEF Before
<1>3. ASSUME Before(s, m), Before(u, m)
      PROVE  Before(s \o u, m)
  <2>1. \A i \in 1 .. Len(s) + Len(u) :
          \/ i \in 1 .. Len(s) /\ (s \o u)[i] = s[i]
          \/ i - Len(s) \in 1 .. Len(u) /\ (s \o u)[i] = u[i - Len(s)]
    BY <1>1
  <2> QED
    BY <1>1, <1>3, <2>1 DEF Before
<1> QED
  BY <1>2, <1>3

LEMMA BeforeMessage ==
  ASSUME NEW s \in Seq(Bytes), NEW m \in 1 .. MsgMax, NEW n \in Nat \ {0}, m < n,
         Before(s, m)
  PROVE  Before(s \o Message(m), n)
<1>1. MsgMax \in Nat /\ MsgLen \in Nat /\ m \in Nat \ {0} /\ m <= n
  BY SizesAssumption
<1>2. Before(s, n)
  BY <1>1, BeforeLater
<1>3. Before(Message(m), n)
  <2> DEFINE a == (m - 1) * MsgLen
             b == (n - 1) * MsgLen
  <2>1. a \in Int /\ b \in Int /\ a + MsgLen <= b
    BY <1>1, LaterMessages
  <2>2. /\ DOMAIN Message(m) = 1 .. MsgLen
        /\ \A q \in 1 .. MsgLen : Message(m)[q][2] = a + q
    BY MessageBytes, LenProperties
  <2> HIDE DEF a, b
  <2>3. \A q \in 1 .. MsgLen : a + q <= b
    BY <1>1, <2>1
  <2> QED
    BY <2>2, <2>3 DEF Before, b
<1> QED
  BY <1>2, <1>3, MessageBytes, BeforeOfConcat

\* The messages that wait are later than those in the stream, and later ones wait
\* behind earlier ones.
Sends == {i \in DOMAIN functors : functors[i].run = "send"}

Waiting ==
  /\ Before(Stream, messages + 1)
  /\ \A i \in Sends : functors[i].msg <= messages /\ Before(Stream, functors[i].msg)
  /\ \A i, j \in Sends : i < j => functors[i].msg < functors[j].msg

\* Only a client that is gone can have been left in the middle of a message.
MsgInv ==
  /\ EchoInv
  /\ Increasing(Stream) /\ Unbroken(Stream)
  /\ client # "gone" => Whole(Stream)
  /\ Waiting

LEMMA SameMessages ==
  ASSUME MsgInv, EchoInv', Stream' = Stream, UNCHANGED <<functors, messages>>,
         client' # "gone" => client # "gone"
  PROVE  MsgInv'
<1>1. Increasing(Stream') /\ Unbroken(Stream') /\ (client' # "gone" => Whole(Stream'))
  BY DEF MsgInv
<1>2. /\ Before(Stream', messages' + 1)
      /\ Sends' = Sends
      /\ \A i \in Sends : functors'[i].msg <= messages' /\ Before(Stream', functors'[i].msg)
      /\ \A i, j \in Sends : i < j => functors'[i].msg < functors'[j].msg
  BY DEF MsgInv, Waiting, Sends
<1> QED
  BY <1>1, <1>2 DEF MsgInv, Waiting

\* The next functor is taken: the ones behind it keep their order.
LEMMA WaitingTail ==
  ASSUME MsgInv, functors # <<>>, functors' = Tail(functors), messages' = messages,
         Before(Stream', messages + 1),
         \A m \in 1 .. MsgMax :
           /\ m <= messages /\ Before(Stream, m)
           /\ Head(functors).run = "send" => Head(functors).msg < m
           => Before(Stream', m)
  PROVE  Waiting'
<1>1. functors \in Seq(Functors) /\ messages \in Nat
  BY DEF MsgInv, EchoInv, TypeInv, TypeOK, Functors
<1>2. /\ functors' \in Seq(Functors) /\ Len(functors') = Len(functors) - 1
      /\ \A i \in 1 .. Len(functors') : functors'[i] = functors[i + 1]
      /\ Len(functors) \in Nat \ {0} /\ Head(functors) = functors[1]
      /\ DOMAIN functors = 1 .. Len(functors) /\ DOMAIN functors' = 1 .. Len(functors')
  BY <1>1, HeadTailProperties, EmptySeq, LenProperties
<1>3. ASSUME NEW i \in Sends'
      PROVE  /\ i \in Int /\ 1 < i + 1 /\ i + 1 \in Sends /\ 1 \in DOMAIN functors
             /\ functors'[i] = functors[i + 1]
             /\ functors'[i].msg \in 1 .. MsgMax
  <2>1. i \in 1 .. Len(functors') /\ functors'[i].run = "send"
    BY <1>2, <1>3 DEF Sends
  <2>2. /\ i \in Int /\ 1 < i + 1 /\ i + 1 \in 1 .. Len(functors) /\ 1 \in 1 .. Len(functors)
        /\ functors'[i] = functors[i + 1]
    BY <1>2, <2>1
  <2>3. functors'[i] \in Functors
    BY <1>1, <2>2, ElementOfSeq
  <2>4. functors'[i].msg \in 1 .. MsgMax
    <3>1. PICK f \in Functors : f = functors'[i]
      BY <2>3
    <3>2. f.run = "send" => f.msg \in 1 .. MsgMax
      BY DEF Functors, SendFunctor, CloseFunctor
    <3> QED
      BY <2>1, <3>1, <3>2
  <2> QED
    BY <1>2, <2>1, <2>2, <2>4 DEF Sends
<1>4. ASSUME NEW i \in Sends'
      PROVE  functors'[i].msg <= messages /\ Before(Stream', functors'[i].msg)
  <2>1. functors'[i].msg <= messages /\ Before(Stream, functors'[i].msg)
    BY <1>3 DEF MsgInv, Waiting
  <2>2. ASSUME Head(functors).run = "send"
        PROVE  Head(functors).msg < functors'[i].msg
    <3>1. 1 \in Sends
      BY <1>2, <1>3, <2>2 DEF Sends
    <3> QED
      BY <1>2, <1>3, <3>1 DEF MsgInv, Waiting
  <2> QED
    BY <1>3, <2>1, <2>2
<1>5. ASSUME NEW i \in Sends', NEW j \in Sends', i < j
      PROVE  functors'[i].msg < functors'[j].msg
  <2>1. i + 1 < j + 1
    BY <1>3, <1>5
  <2> QED
    BY <1>3, <2>1 DEF MsgInv, Waiting
<1> QED
  BY <1>4, <1>5 DEF Waiting

LEMMA MessagesClientResets ==
  ASSUME MsgInv, EchoInv', ClientResets
  PROVE  MsgInv'
<1>1. TypeOK
  BY DEF MsgInv, EchoInv, TypeInv
<1>2. /\ client # "gone" /\ client' = "gone" /\ Stream' = received
      /\ UNCHANGED <<functors, messages>>
  BY DEF ClientResets, Stream
<1> DEFINE rest == sndbuf \o Drop(output, total_sent)
<1>3. rest \in Seq(Bytes) /\ received \in Seq(Bytes) /\ Stream = received \o rest
  <2>1. rest \in Seq(Bytes)
    BY <1>1, StreamType, ConcatProperties
  <2>2. (received \o sndbuf) \o Drop(output, total_sent) = received \o rest
    <3>1. PICK r \in Seq(Bytes), s \in Seq(Bytes), u \in Seq(Bytes) :
            r = received /\ s = sndbuf /\ u = Drop(output, total_sent)
      BY <1>1, StreamType
    <3>2. (r \o s) \o u = r \o (s \o u)
      BY ConcatAssociative, SMTT(60)
    <3> QED
      BY <3>1, <3>2
  <2> QED
    BY <1>1, <1>2, <2>1, <2>2, StreamType DEF Stream
<1> HIDE DEF rest
<1>4. Increasing(Stream') /\ Unbroken(Stream')
  BY <1>2, <1>3, MessagesOfPrefix DEF MsgInv
<1>5. \A m : Before(Stream, m) => Before(Stream', m)
  BY <1>2, <1>3, BeforeOfConcat
<1>6. Waiting'
  <2>1. Sends' = Sends
    BY <1>2 DEF Sends
  <2> QED
    BY <1>2, <1>5, <2>1 DEF MsgInv, Waiting
<1> QED
  BY <1>2, <1>4, <1>6 DEF MsgInv

LEMMA MessagesOtherThreads ==
  ASSUME MsgInv, EchoInv', OtherThreads
  PROVE  MsgInv'
<1>1. TypeOK /\ Stream \in Seq(Bytes)
  BY StreamType DEF MsgInv, EchoInv, TypeInv
<1>2. client' = client /\ Stream' = Stream
  BY DEF OtherThreads, Send, TestState, MarkDisconnecting, Stream
<1>3. functors \in Seq(Functors) /\ messages \in Nat
  BY <1>1 DEF TypeOK, Functors
<1>4. CASE TestState
  BY <1>2, <1>4, SameMessages DEF TestState
<1>5. ASSUME NEW f, functors' = Append(functors, f),
             \/ f = CloseFunctor /\ messages' = messages
             \/ f = SendFunctor(messages + 1) /\ messages' = messages + 1
      PROVE  Waiting'
  <2>1. /\ Len(functors) \in Nat /\ DOMAIN functors = 1 .. Len(functors)
        /\ DOMAIN functors' = 1 .. Len(functors) + 1
        /\ \A i \in 1 .. Len(functors) : functors'[i] = functors[i]
        /\ functors'[Len(functors) + 1] = f
    <3>1. functors \in Seq(Functors \union {f}) /\ f \in Functors \union {f}
      BY <1>3
    <3> QED
      BY <1>5, <3>1, AppendProperties, LenProperties
  <2>2. Sends' \subseteq Sends \union {Len(functors) + 1}
    BY <2>1 DEF Sends
  <2>3. Sends \subseteq 1 .. Len(functors)
    BY <2>1 DEF Sends
  <2>4. Len(functors) + 1 \in Sends' => f = SendFunctor(messages + 1) /\ messages' = messages + 1
    BY <1>5, <2>1 DEF Sends, CloseFunctor
  <2>5. Before(Stream', messages + 1) /\ Before(Stream', messages' + 1)
    <3>1. Before(Stream, messages + 1)
      BY DEF MsgInv, Waiting
    <3>2. messages + 1 \in Nat \ {0} /\ messages' + 1 \in Nat \ {0}
          /\ messages + 1 <= messages' + 1
      BY <1>3, <1>5
    <3> QED
      BY <1>1, <1>2, <3>1, <3>2, BeforeLater
  <2>6. ASSUME NEW i \in Sends
        PROVE  /\ functors'[i] = functors[i]
               /\ functors[i].msg \in Int /\ functors[i].msg <= messages
               /\ Before(Stream', functors[i].msg)
    <3>1. functors[i] \in Functors /\ functors[i].run = "send"
      BY <1>3, <2>1, <2>3, ElementOfSeq DEF Sends
    <3>2. functors[i].msg \in Int
      BY <3>1 DEF Functors, SendFunctor, CloseFunctor
    <3> QED
      BY <1>2, <2>1, <2>3, <3>2 DEF MsgInv, Waiting
  <2>7. ASSUME Len(functors) + 1 \in Sends'
        PROVE  functors'[Len(functors) + 1].msg = messages + 1 /\ messages' = messages + 1
    BY <2>1, <2>4, <2>7 DEF SendFunctor
  <2>8. messages <= messages'
    BY <1>3, <1>5
  <2>9. ASSUME NEW i \in Sends'
        PROVE  functors'[i].msg <= messages' /\ Before(Stream', functors'[i].msg)
    <3>1. CASE i \in Sends
      <4>1. functors[i].msg <= messages'
        BY <1>3, <1>5, <2>6, <3>1
      <4> QED
        BY <2>6, <3>1, <4>1
    <3>2. CASE i = Len(functors) + 1
      BY <1>3, <2>5, <2>7, <2>9, <3>2
    <3> QED
      BY <2>2, <3>1, <3>2
  <2>10. ASSUME NEW i \in Sends', NEW j \in Sends', i < j
         PROVE  functors'[i].msg < functors'[j].msg
    <3>1. CASE i \in Sends /\ j \in Sends
      BY <2>6, <2>10, <3>1 DEF MsgInv, Waiting
    <3>2. CASE i \in Sends /\ j = Len(functors) + 1
      <4>1. functors'[j].msg = messages + 1
        BY <2>7, <3>2
      <4> QED
        BY <1>3, <2>6, <3>2, <4>1
    <3>3. CASE i = Len(functors) + 1
      <4>1. j \in 1 .. Len(functors) + 1
        BY <2>1, <2>2, <2>3
      <4> QED
        BY <2>1, <2>10, <3>3, <4>1
    <3> QED
      BY <2>2, <3>1, <3>2, <3>3
  <2> QED
    BY <2>5, <2>9, <2>10 DEF Waiting
<1>6. CASE Send
  BY <1>2, <1>5, <1>6 DEF Send, MsgInv
<1>7. CASE MarkDisconnecting
  BY <1>2, <1>5, <1>7 DEF MarkDisconnecting, MsgInv
<1> QED
  BY <1>4, <1>6, <1>7 DEF OtherThreads

LEMMA MessagesEcho ==
  ASSUME MsgInv, EchoInv', Echo
  PROVE  MsgInv'
<1>1. EchoIsExact /\ TypeOK /\ total_sent = 0
  BY DEF MsgInv, EchoInv, TypeInv, Echo, Dispatching
<1>2. /\ rcvbuf = <<>>
      /\ UNCHANGED <<client, received, state, total_sent, functors, messages>>
  BY DEF Echo
<1>3. input \in Seq(Bytes) /\ Stream \in Seq(Bytes) /\ input \o rcvbuf = input
  BY <1>1, <1>2, StreamType, ConcatEmptySeq
<1>4. CASE input = <<>>
  <2>1. Stream' = Stream
    BY <1>2, <1>4 DEF Echo, Stream
  <2> QED
    BY <1>2, <2>1, SameMessages
<1>5. CASE input # <<>>
  <2>1. SendInLoop(input)
    BY <1>5 DEF Echo
  <2>2. \/ Stream' = Stream /\ (state # "kConnected" \/ client = "gone")
        \/ Stream' = Stream \o input /\ state = "kConnected" /\ client # "gone"
    BY <1>1, <1>2, <1>3, <2>1, StreamSends
  <2>3. CASE Stream' = Stream
    BY <1>2, <2>3, SameMessages
  <2>4. CASE Stream' = Stream \o input /\ state = "kConnected" /\ client # "gone"
    <3>1. PICK k \in 0 .. sent : input = [i \in 1 .. (sent - k) |-> Byte("client", k + i)]
      BY <1>1, <1>3, <2>4, EchoParts DEF Waits
    <3>2. \A i \in 1 .. Len(input) : input[i][1] = "client"
      <4>1. DOMAIN input = 1 .. Len(input)
        BY <1>3, LenProperties
      <4>2. \A i \in 1 .. (sent - k) : input[i][1] = "client"
        BY <3>1 DEF Byte
      <4> QED
        BY <3>1, <4>1, <4>2
    <3>3. Increasing(Stream') /\ Unbroken(Stream') /\ Whole(Stream')
      BY <1>3, <2>4, <3>2, EchoBehind DEF MsgInv
    <3>4. \A m : Before(input, m)
      BY <1>3, <3>2, LenProperties DEF Before
    <3>5. \A m : Before(Stream, m) => Before(Stream', m)
      BY <1>3, <2>4, <3>4, BeforeOfConcat
    <3>6. Waiting'
      <4>1. Sends' = Sends
        BY <1>2 DEF Sends
      <4> QED
        BY <1>2, <3>5, <4>1 DEF MsgInv, Waiting
    <3> QED
      BY <3>3, <3>6 DEF MsgInv
  <2> QED
    BY <2>2, <2>3, <2>4
<1> QED
  BY <1>4, <1>5

LEMMA MessagesRunSend ==
  ASSUME MsgInv, EchoInv', RunSend
  PROVE  MsgInv'
<1>1. TypeOK /\ total_sent = 0 /\ Stream \in Seq(Bytes)
  BY StreamType DEF MsgInv, EchoInv, TypeInv, RunSend
<1>2. /\ functors # <<>> /\ Head(functors).run = "send"
      /\ functors' = Tail(functors)
      /\ SendInLoop(Message(Head(functors).msg))
      /\ UNCHANGED <<client, received, state, total_sent, messages>>
  BY DEF RunSend
<1>3. functors \in Seq(Functors) /\ messages \in Nat
  BY <1>1 DEF TypeOK, Functors
<1>4. PICK m \in 1 .. MsgMax : m = Head(functors).msg
  <2>1. Head(functors) \in Functors
    BY <1>2, <1>3, HeadTailProperties
  <2> QED
    BY <1>2, <2>1 DEF Functors, SendFunctor, CloseFunctor
<1>5. m <= messages /\ Before(Stream, m) /\ Before(Stream, messages + 1)
  <2>1. 1 \in Sends /\ Head(functors) = functors[1]
    <3>1. /\ Len(functors) \in Nat /\ Len(functors) # 0 /\ DOMAIN functors = 1 .. Len(functors)
          /\ Head(functors) = functors[1]
      BY <1>2, <1>3, EmptySeq, LenProperties, HeadTailProperties
    <3> QED
      BY <1>2, <3>1 DEF Sends
  <2> QED
    BY <1>4, <2>1 DEF MsgInv, Waiting
<1>6. Message(m) \in Seq(Bytes)
  BY MessageType
<1>7. \/ Stream' = Stream /\ (state # "kConnected" \/ client = "gone")
      \/ Stream' = Stream \o Message(m) /\ state = "kConnected" /\ client # "gone"
  BY <1>1, <1>2, <1>4, <1>6, StreamSends
<1>8. CASE Stream' = Stream
  <2>1. Waiting'
    BY <1>2, <1>5, <1>8, WaitingTail
  <2> QED
    BY <1>2, <1>8, <2>1 DEF MsgInv
<1>9. CASE Stream' = Stream \o Message(m) /\ state = "kConnected" /\ client # "gone"
  <2>1. Increasing(Stream') /\ Unbroken(Stream') /\ Whole(Stream')
    BY <1>1, <1>5, <1>9, MessageBehind DEF MsgInv
  <2>2. \A n \in Nat \ {0} : m < n => Before(Stream', n)
    BY <1>1, <1>5, <1>9, BeforeMessage
  <2>3. messages + 1 \in Nat \ {0} /\ m < messages + 1
    BY <1>3, <1>5
  <2>4. \A n \in 1 .. MsgMax : n \in Nat \ {0}
    BY SizesAssumption
  <2>5. Before(Stream', messages + 1)
    BY <2>2, <2>3
  <2>6. Waiting'
    BY <1>2, <1>4, <2>2, <2>4, <2>5, WaitingTail
  <2> QED
    BY <2>1, <2>6 DEF MsgInv
<1> QED
  BY <1>7, <1>8, <1>9

LEMMA MessagesStep ==
  ASSUME MsgInv, [Next]_vars
  PROVE  MsgInv'
<1>1. EchoInv' /\ TypeOK
  BY EchoStep DEF MsgInv, EchoInv, TypeInv
<1>2. CASE OtherThreads \/ ClientResets \/ Echo \/ RunSend
  BY <1>1, <1>2, MessagesOtherThreads, MessagesClientResets, MessagesEcho, MessagesRunSend
<1>3. CASE UNCHANGED vars \/ Poll \/ BeginEvent \/ EndEvent
  BY <1>1, <1>3, SameMessages DEF Poll, BeginEvent, EndEvent, Stream
<1>4. CASE ClientReads
  BY <1>1, <1>4, StreamReads, SameMessages DEF ClientReads
<1>5. CASE ClientWrites \/ ClientFinishes
  BY <1>1, <1>5, SameMessages DEF ClientWrites, ClientFinishes, Stream
<1>6. CASE HandleError \/ Receive \/ ReceiveEnd \/ Release
  BY <1>1, <1>6, SameMessages DEF HandleError, Receive, ReceiveEnd, Release, Stream
<1>7. CASE BeginWrite
  <2>1. total_sent = 0 /\ total_sent' = 0
    BY <1>7 DEF MsgInv, EchoInv, BeginWrite, Dispatching
  <2> QED
    BY <1>1, <1>7, <2>1, SameMessages DEF BeginWrite, Stream
<1>8. CASE WriteSome
  BY <1>1, <1>8, StreamWrites, SameMessages DEF WriteSome
<1>9. CASE WriteFails
  BY <1>1, <1>9, SameMessages DEF WriteFails, Stream
<1>10. CASE EndWrite
  BY <1>1, <1>10, StreamEndsWrite, SameMessages DEF EndWrite
<1>11. CASE RunForceClose
  <2>1. Stream' = Stream
    BY <1>11 DEF RunForceClose, Stream
  <2>2. /\ functors # <<>> /\ functors' = Tail(functors)
        /\ UNCHANGED <<client, messages>>
    BY <1>11 DEF RunForceClose
  <2>3. Waiting'
    BY <2>1, <2>2, WaitingTail DEF MsgInv, Waiting
  <2> QED
    BY <1>1, <2>1, <2>2, <2>3 DEF MsgInv
<1> QED
  BY <1>2, <1>3, <1>4, <1>5, <1>6, <1>7, <1>8, <1>9, <1>10, <1>11
  DEF Next, Client, LoopThread

LEMMA MessagesInit ==
  ASSUME Init
  PROVE  MsgInv
<1>1. EchoInv /\ functors = <<>> /\ messages = 0
  BY EchoInit DEF Init
<1>2. Stream \in Seq(Bytes) /\ Len(Stream) = 0
  <2>1. received = <<>> /\ sndbuf = <<>> /\ output = <<>> /\ total_sent = 0
    BY DEF Init
  <2>2. Drop(output, total_sent) = <<>>
    <3>1. output \in Seq(Bytes) /\ 0 \in 0 .. Len(output)
      BY <2>1, NoBytes
    <3>2. Drop(output, 0) = output
      BY <3>1, TakeAndDrop
    <3> QED
      BY <2>1, <3>2
  <2>3. received \o sndbuf = <<>>
    BY <2>1, NoBytes, ConcatEmptySeq
  <2> QED
    BY <2>1, <2>2, <2>3, NoBytes, ConcatEmptySeq DEF Stream
<1>3. DOMAIN Stream = {}
  BY <1>2, LenProperties
<1>4. Increasing(Stream) /\ Unbroken(Stream) /\ Whole(Stream) /\ Before(Stream, messages + 1)
  BY <1>3 DEF Increasing, Unbroken, Whole, Before
<1>5. Sends = {}
  BY <1>1 DEF Sends
<1> QED
  BY <1>1, <1>4, <1>5 DEF MsgInv, Waiting

\* A message that another thread gives to send() reaches the stream in one piece and
\* after those that were accepted before it: no echo and no part of another message
\* comes between two of its bytes.
THEOREM MessagesIntactAlways == SafeSpec => []MessagesIntact
<1>1. Init => MsgInv
  BY MessagesInit
<1>2. MsgInv /\ [Next]_vars => MsgInv'
  BY MessagesStep
<1>3. MsgInv => MessagesIntact
  BY DEF MsgInv, Increasing, Unbroken, MessagesIntact
<1> QED
  BY <1>1, <1>2, <1>3, PTL DEF SafeSpec

-----------------------------------------------------------------------------
(* The abstract stream. *)

\* The numbers of the bytes of one origin.
NumbersOf(s, o) == {s[i][2] : i \in {j \in DOMAIN s : s[j][1] = o}}

\* Messages up to m are in the stream, the later ones wait, one functor each.
Undelivered(m) ==
  /\ NumbersOf(Stream, "app") = 1 .. (m * MsgLen)
  /\ functors = [i \in 1 .. (messages - m) |-> SendFunctor(m + i)]

GapInv == state = "kConnected" /\ client # "gone" => \E m \in 0 .. messages : Undelivered(m)

\* Who makes the loop close the connection has a reason, and until then it can read.
ReasonInv ==
  /\ "err" \in revents => client = "gone"
  /\ state = "kConnected" => "in" \in interest
  /\ \A i \in DOMAIN functors : functors[i].run = "forceClose" => closer # "idle"

StreamInv == EchoInv /\ Following /\ ReasonInv /\ GapInv

LEMMA NumbersOfConcat ==
  ASSUME NEW s \in Seq(Bytes), NEW u \in Seq(Bytes), NEW o
  PROVE  NumbersOf(s \o u, o) = NumbersOf(s, o) \union NumbersOf(u, o)
<1>1. /\ Len(s) \in Nat /\ Len(u) \in Nat
      /\ DOMAIN s = 1 .. Len(s) /\ DOMAIN u = 1 .. Len(u)
      /\ DOMAIN (s \o u) = 1 .. Len(s) + Len(u)
      /\ \A i \in 1 .. Len(s) + Len(u) :
           (s \o u)[i] = IF i <= Len(s) THEN s[i] ELSE u[i - Len(s)]
  BY ConcatProperties, LenProperties
<1>2. ASSUME NEW i \in DOMAIN (s \o u), (s \o u)[i][1] = o
      PROVE  (s \o u)[i][2] \in NumbersOf(s, o) \union NumbersOf(u, o)
  <2>1. CASE i <= Len(s)
    BY <1>1, <1>2, <2>1 DEF NumbersOf
  <2>2. CASE ~(i <= Len(s))
    <3>1. i - Len(s) \in DOMAIN u /\ (s \o u)[i] = u[i - Len(s)]
      BY <1>1, <1>2, <2>2
    <3> QED
      BY <1>2, <3>1 DEF NumbersOf
  <2> QED
    BY <2>1, <2>2
<1>3. ASSUME NEW i \in DOMAIN s, s[i][1] = o
      PROVE  s[i][2] \in NumbersOf(s \o u, o)
  <2>1. i \in DOMAIN (s \o u) /\ (s \o u)[i] = s[i]
    BY <1>1
  <2> QED
    BY <1>3, <2>1 DEF NumbersOf
<1>4. ASSUME NEW i \in DOMAIN u, u[i][1] = o
      PROVE  u[i][2] \in NumbersOf(s \o u, o)
  <2>1. Len(s) + i \in DOMAIN (s \o u) /\ (s \o u)[Len(s) + i] = u[i]
    BY <1>1
  <2> QED
    BY <1>4, <2>1 DEF NumbersOf
<1>5. NumbersOf(s \o u, o) \subseteq NumbersOf(s, o) \union NumbersOf(u, o)
  BY <1>2 DEF NumbersOf
<1>6. NumbersOf(s, o) \subseteq NumbersOf(s \o u, o)
  BY <1>3 DEF NumbersOf
<1>7. NumbersOf(u, o) \subseteq NumbersOf(s \o u, o)
  BY <1>4 DEF NumbersOf
<1> QED
  BY <1>5, <1>6, <1>7

\* Behind the messages up to m comes message m + 1.
LEMMA NumbersOfMessage ==
  ASSUME NEW m \in Nat, m + 1 \in 1 .. MsgMax
  PROVE  1 .. (m * MsgLen) \union NumbersOf(Message(m + 1), "app") = 1 .. ((m + 1) * MsgLen)
<1>1. MsgLen \in Nat
  BY SizesAssumption
<1> DEFINE x == m * MsgLen
<1>2. x \in Nat /\ (m + 1) * MsgLen = x + MsgLen /\ ((m + 1) - 1) * MsgLen = x
  BY <1>1
<1> HIDE DEF x
<1>3. Message(m + 1) = [i \in 1 .. MsgLen |-> <<"app", x + i>>]
  BY <1>2 DEF Message, Byte
<1>4. NumbersOf(Message(m + 1), "app") = {x + i : i \in 1 .. MsgLen}
  <2>1. /\ DOMAIN Message(m + 1) = 1 .. MsgLen
        /\ \A i \in 1 .. MsgLen :
             Message(m + 1)[i][1] = "app" /\ Message(m + 1)[i][2] = x + i
    <3>1. DOMAIN Message(m + 1) = 1 .. MsgLen
      BY <1>3
    <3>2. \A i \in 1 .. MsgLen : Message(m + 1)[i] = <<"app", x + i>>
      BY <1>3
    <3> QED
      BY <3>1, <3>2
  <2>2. {j \in DOMAIN Message(m + 1) : Message(m + 1)[j][1] = "app"} = 1 .. MsgLen
    BY <2>1
  <2>3. NumbersOf(Message(m + 1), "app") = {Message(m + 1)[i][2] : i \in 1 .. MsgLen}
    BY <2>2 DEF NumbersOf
  <2>4. \A n : n \in {Message(m + 1)[i][2] : i \in 1 .. MsgLen} <=> n \in {x + i : i \in 1 .. MsgLen}
    BY <2>1
  <2> QED
    BY <2>3, <2>4
<1>5. {x + i : i \in 1 .. MsgLen} = (x + 1) .. (x + MsgLen)
  <2>1. ASSUME NEW n \in (x + 1) .. (x + MsgLen)
        PROVE  \E i \in 1 .. MsgLen : n = x + i
    <3>1. n - x \in 1 .. MsgLen /\ n = x + (n - x)
      BY <1>1, <1>2
    <3> QED
      BY <3>1
  <2>2. \A i \in 1 .. MsgLen : x + i \in (x + 1) .. (x + MsgLen)
    BY <1>1, <1>2
  <2> QED
    BY <2>1, <2>2
<1>6. (1 .. x) \union ((x + 1) .. (x + MsgLen)) = 1 .. (x + MsgLen)
  BY <1>1, <1>2
<1> QED
  BY <1>2, <1>4, <1>5, <1>6 DEF x

-----------------------------------------------------------------------------
(* The reasons. *)

LEMMA ReasonStep ==
  ASSUME FollowInv, ReasonInv, [Next]_vars
  PROVE  ReasonInv'
<1>1. ("err" \in revents => client = "gone")'
  <2>1. CASE Poll
    BY <2>1 DEF Poll, Ready
  <2>2. CASE revents' \subseteq revents /\ (client = "gone" => client' = "gone")
    BY <2>2 DEF ReasonInv
  <2>3. CASE Client \/ OtherThreads \/ UNCHANGED vars
    BY <2>2, <2>3 DEF Client, ClientWrites, ClientReads, ClientFinishes, ClientResets,
                      OtherThreads, Send, TestState, MarkDisconnecting
  <2>4. CASE LoopThread /\ ~Poll
    BY <2>2, <2>4 DEF LoopThread, BeginEvent, EndEvent, HandleError, Receive, ReceiveEnd, Echo,
                      BeginWrite, WriteSome, WriteFails, EndWrite, RunSend, RunForceClose,
                      Release
  <2> QED
    BY <2>1, <2>3, <2>4 DEF Next
<1>2. (state = "kConnected" => "in" \in interest)'
  <2>0. events = interest
    BY DEF FollowInv, Following
  <2>1. CASE UNCHANGED <<state, interest>>
    BY <2>1 DEF ReasonInv
  <2>2. CASE HandleClose
    BY <2>1, <2>2 DEF HandleClose
  <2>3. ASSUME NEW on \in BOOLEAN, SetWriting(on), UNCHANGED state
        PROVE  (state = "kConnected" => "in" \in interest)'
    BY <2>0, <2>3 DEF SetWriting, UpdateChannel, ReasonInv
  <2>4. ASSUME NEW msg, SendInLoop(msg), UNCHANGED state
        PROVE  (state = "kConnected" => "in" \in interest)'
    BY <2>1, <2>3, <2>4 DEF SendInLoop, KeepUnsent
  <2>5. CASE Client \/ OtherThreads \/ UNCHANGED vars
    BY <2>1, <2>5 DEF Client, ClientWrites, ClientReads, ClientFinishes, ClientResets,
                      OtherThreads, Send, TestState, MarkDisconnecting
  <2>6. CASE Poll \/ BeginEvent \/ EndEvent \/ Receive \/ WriteSome \/ Release
    BY <2>1, <2>6 DEF Poll, BeginEvent, EndEvent, Receive, WriteSome, Release
  <2>7. CASE HandleError \/ ReceiveEnd \/ WriteFails
    BY <2>2, <2>7 DEF HandleError, ReceiveEnd, WriteFails
  <2>8. CASE Echo \/ RunSend
    BY <2>1, <2>4, <2>8 DEF Echo, RunSend
  <2>9. CASE BeginWrite
    BY <2>1, <2>3, <2>9 DEF BeginWrite
  <2>10. CASE EndWrite
    BY <2>1, <2>2, <2>3, <2>10 DEF EndWrite
  <2>11. CASE RunForceClose
    BY <2>1, <2>2, <2>11 DEF RunForceClose
  <2> QED
    BY <2>5, <2>6, <2>7, <2>8, <2>9, <2>10, <2>11 DEF Next, LoopThread
<1>3. (\A i \in DOMAIN functors : functors[i].run = "forceClose" => closer # "idle")'
  <2>0. functors \in Seq(Functors)
    BY DEF FollowInv, TypeInv, TypeOK, Functors
  <2>a. closer # "idle" => closer' # "idle"
    <3>1. CASE UNCHANGED closer \/ closer' = "done"
      BY <3>1
    <3>2. CASE Client \/ OtherThreads \/ UNCHANGED vars
      BY <3>2 DEF Client, ClientWrites, ClientReads, ClientFinishes, ClientResets,
                  OtherThreads, Send, TestState, MarkDisconnecting
    <3>3. CASE LoopThread
      BY <3>1, <3>3 DEF LoopThread, Poll, BeginEvent, EndEvent, HandleError, Receive,
                        ReceiveEnd, Echo, BeginWrite, WriteSome, WriteFails, EndWrite, RunSend,
                        RunForceClose, Release
    <3> QED
      BY <3>2, <3>3 DEF Next
  <2>1. CASE UNCHANGED functors
    BY <2>a, <2>1 DEF ReasonInv
  <2>2. CASE functors # <<>> /\ functors' = Tail(functors)
    <3>1. /\ Len(functors') = Len(functors) - 1
          /\ DOMAIN functors' = 1 .. Len(functors') /\ DOMAIN functors = 1 .. Len(functors)
          /\ \A i \in 1 .. Len(functors') : functors'[i] = functors[i + 1]
          /\ Len(functors) \in Nat
      BY <2>0, <2>2, HeadTailProperties, LenProperties
    <3>2. \A i \in DOMAIN functors' : i + 1 \in DOMAIN functors /\ functors'[i] = functors[i + 1]
      BY <3>1
    <3> QED
      BY <2>a, <3>2 DEF ReasonInv
  <2>3. ASSUME NEW f \in Functors, functors' = Append(functors, f),
               f.run = "forceClose" => closer' # "idle"
        PROVE  (\A i \in DOMAIN functors : functors[i].run = "forceClose" => closer # "idle")'
    <3>1. /\ Len(functors) \in Nat /\ DOMAIN functors = 1 .. Len(functors)
          /\ DOMAIN functors' = 1 .. Len(functors) + 1
          /\ \A i \in 1 .. Len(functors) : functors'[i] = functors[i]
          /\ functors'[Len(functors) + 1] = f
      BY <2>0, <2>3, AppendProperties, LenProperties
    <3>2. \A i \in DOMAIN functors' : i \in DOMAIN functors \/ i = Len(functors) + 1
      BY <3>1
    <3> QED
      BY <2>a, <2>3, <3>1, <3>2 DEF ReasonInv
  <2>4. CASE Send
    <3>1. SendFunctor(messages + 1) \in Functors
      <4>1. messages + 1 \in 1 .. MsgMax
        BY <2>4, SizesAssumption DEF Send, FollowInv, TypeInv, TypeOK
      <4> QED
        BY <4>1 DEF Functors
    <3>2. SendFunctor(messages + 1).run # "forceClose"
      BY DEF SendFunctor
    <3> QED
      BY <2>3, <2>4, <3>1, <3>2 DEF Send
  <2>5. CASE MarkDisconnecting
    BY <2>3, <2>5 DEF MarkDisconnecting, Functors
  <2>6. CASE Client \/ TestState \/ UNCHANGED vars
    BY <2>1, <2>6 DEF Client, ClientWrites, ClientReads, ClientFinishes, ClientResets, TestState
  <2>7. CASE RunSend \/ RunForceClose
    BY <2>2, <2>7 DEF RunSend, RunForceClose
  <2>8. CASE LoopThread /\ ~RunSend /\ ~RunForceClose
    BY <2>1, <2>8 DEF LoopThread, Poll, BeginEvent, EndEvent, HandleError, Receive,
                      ReceiveEnd, Echo, BeginWrite, WriteSome, WriteFails, EndWrite, Release
  <2> QED
    BY <2>4, <2>5, <2>6, <2>7, <2>8 DEF Next, OtherThreads
<1> QED
  BY <1>1, <1>2, <1>3 DEF ReasonInv

-----------------------------------------------------------------------------
(* The messages that wait. *)

\* A step that leaves the stream and the functors alone.
LEMMA SameGap ==
  ASSUME GapInv, UNCHANGED <<functors, messages>>,
         state' = "kConnected" /\ client' # "gone" =>
           state = "kConnected" /\ client # "gone" /\ Stream' = Stream
  PROVE  GapInv'
<1>1. CASE state' = "kConnected" /\ client' # "gone"
  <2>1. PICK m \in 0 .. messages : Undelivered(m)
    BY <1>1 DEF GapInv
  <2>2. Undelivered(m)'
    BY <1>1, <2>1 DEF Undelivered
  <2> QED
    BY <2>1, <2>2 DEF GapInv
<1> QED
  BY <1>1 DEF GapInv

LEMMA GapSend ==
  ASSUME TypeOK, GapInv, Send
  PROVE  GapInv'
<1>1. /\ state = "kConnected" /\ messages' = messages + 1 /\ messages \in Nat
      /\ functors' = Append(functors, SendFunctor(messages + 1))
      /\ Stream' = Stream /\ client' = client
  BY DEF Send, TypeOK, Stream
<1>2. CASE client # "gone"
  <2>1. PICK m \in 0 .. messages : Undelivered(m)
    BY <1>1, <1>2 DEF GapInv
  <2>2. m \in Nat /\ messages - m \in Nat /\ messages' - m = (messages - m) + 1
        /\ m \in 0 .. messages'
    BY <1>1
  <2>3. functors' = [i \in 1 .. (messages' - m) |-> SendFunctor(m + i)]
    <3> DEFINE n == messages - m
               S == {SendFunctor(i) : i \in Nat}
               f == [i \in 1 .. n |-> SendFunctor(m + i)]
               g == [i \in 1 .. n + 1 |-> SendFunctor(m + i)]
    <3>1. n \in Nat /\ m \in Nat /\ messages + 1 = m + (n + 1)
      BY <1>1, <2>2
    <3>2. messages' - m = n + 1
      BY <2>2
    <3> HIDE DEF n
    <3>3. \A i \in 1 .. n + 1 : SendFunctor(m + i) \in S
      BY <3>1
    <3> HIDE DEF S
    <3>4. /\ f \in Seq(S) /\ Len(f) = n /\ g \in Seq(S) /\ Len(g) = n + 1
          /\ \A i \in 1 .. n : f[i] = SendFunctor(m + i)
          /\ \A i \in 1 .. n + 1 : g[i] = SendFunctor(m + i)
      BY <3>1, <3>3
    <3>5. SendFunctor(m + (n + 1)) \in S
      BY <3>1, <3>3
    <3>6. functors = f
      BY <2>1 DEF Undelivered, n
    <3>7. messages' - m = n + 1 => g = [i \in 1 .. (messages' - m) |-> SendFunctor(m + i)]
      OBVIOUS
    <3> HIDE DEF f, g
    <3>8. /\ Append(f, SendFunctor(m + (n + 1))) \in Seq(S)
          /\ Len(Append(f, SendFunctor(m + (n + 1)))) = n + 1
          /\ \A i \in 1 .. n : Append(f, SendFunctor(m + (n + 1)))[i] = f[i]
          /\ Append(f, SendFunctor(m + (n + 1)))[n + 1] = SendFunctor(m + (n + 1))
      BY <3>4, <3>5, AppendProperties
    <3>9. \A i \in 1 .. n + 1 : Append(f, SendFunctor(m + (n + 1)))[i] = g[i]
      BY <3>1, <3>4, <3>8
    <3>10. Append(f, SendFunctor(m + (n + 1))) = g
      BY <3>4, <3>8, <3>9, SeqEqual
    <3> QED
      BY <1>1, <3>1, <3>2, <3>10, <3>6, <3>7
  <2>4. Undelivered(m)'
    BY <1>1, <2>1, <2>3 DEF Undelivered
  <2> QED
    BY <2>2, <2>4 DEF GapInv
<1> QED
  BY <1>1, <1>2 DEF GapInv

\* An echo has no byte of a message.
LEMMA GapEcho ==
  ASSUME EchoInv, GapInv, Echo
  PROVE  GapInv'
<1>1. EchoIsExact /\ TypeOK /\ total_sent = 0
  BY DEF EchoInv, TypeInv, Echo, Dispatching
<1>2. /\ rcvbuf = <<>>
      /\ UNCHANGED <<client, received, state, total_sent, functors, messages>>
  BY DEF Echo
<1>3. input \in Seq(Bytes) /\ Stream \in Seq(Bytes) /\ input \o rcvbuf = input
  BY <1>1, <1>2, StreamType, ConcatEmptySeq
<1>4. CASE input = <<>>
  <2>1. Stream' = Stream
    BY <1>2, <1>4 DEF Echo, Stream
  <2> QED
    BY <1>2, <2>1, SameGap
<1>5. CASE input # <<>>
  <2>1. SendInLoop(input)
    BY <1>5 DEF Echo
  <2>2. \/ Stream' = Stream /\ (state # "kConnected" \/ client = "gone")
        \/ Stream' = Stream \o input /\ state = "kConnected" /\ client # "gone"
    BY <1>1, <1>2, <1>3, <2>1, StreamSends
  <2>3. CASE Stream' = Stream
    BY <1>2, <2>3, SameGap
  <2>4. CASE Stream' = Stream \o input /\ state = "kConnected" /\ client # "gone"
    <3>1. PICK k \in 0 .. sent : input = [i \in 1 .. (sent - k) |-> Byte("client", k + i)]
      BY <1>1, <1>3, <2>4, EchoParts DEF Waits
    <3>2. NumbersOf(input, "app") = {}
      BY <3>1 DEF NumbersOf, Byte
    <3>3. NumbersOf(Stream', "app") = NumbersOf(Stream, "app")
      <4>1. NumbersOf(Stream \o input, "app") = NumbersOf(Stream, "app") \union NumbersOf(input, "app")
        BY <1>3, NumbersOfConcat
      <4> QED
        BY <2>4, <3>2, <4>1
    <3>4. PICK m \in 0 .. messages : Undelivered(m)
      BY <2>4 DEF GapInv
    <3>5. Undelivered(m)'
      BY <1>2, <3>3, <3>4 DEF Undelivered
    <3> QED
      BY <1>2, <3>5 DEF GapInv
  <2> QED
    BY <2>2, <2>3, <2>4
<1> QED
  BY <1>4, <1>5

\* The message at the head of the functors is the next one of the stream.
LEMMA NextMessage ==
  ASSUME TypeOK, GapInv, functors # <<>>, state = "kConnected", client # "gone"
  PROVE  \E m \in Nat :
           /\ m + 1 \in 1 .. messages /\ m + 1 \in 1 .. MsgMax
           /\ NumbersOf(Stream, "app") = 1 .. (m * MsgLen)
           /\ Head(functors) = SendFunctor(m + 1)
           /\ Tail(functors) = [i \in 1 .. (messages - (m + 1)) |-> SendFunctor((m + 1) + i)]
<1>1. PICK m \in 0 .. messages : Undelivered(m)
  BY DEF GapInv
<1>2. messages \in Nat /\ m \in Nat /\ messages <= MsgMax /\ MsgMax \in Nat
  BY <1>1, SizesAssumption DEF TypeOK
<1> DEFINE n == messages - m
           S == {SendFunctor(i) : i \in Nat}
           f == [i \in 1 .. n |-> SendFunctor(m + i)]
           g == [i \in 1 .. n - 1 |-> SendFunctor((m + 1) + i)]
<1>3. n \in Nat /\ messages - (m + 1) = n - 1 /\ messages = m + n
  BY <1>1, <1>2
<1>4. functors = f
  BY <1>1 DEF Undelivered
<1> HIDE DEF n
<1>5. \A i \in 1 .. n : SendFunctor(m + i) \in S
  BY <1>2, <1>3
<1>6. \A i \in 1 .. n - 1 : SendFunctor((m + 1) + i) \in S
  BY <1>2, <1>3
<1> HIDE DEF S
<1>7. n # 0
  <2>1. ASSUME n = 0 PROVE FALSE
    <3>1. functors = <<>>
      BY <1>4, <2>1
    <3> QED
      BY <3>1
  <2> QED
    BY <2>1
<1>8. f \in Seq(S) /\ Len(f) = n /\ \A i \in 1 .. n : f[i] = SendFunctor(m + i)
  BY <1>3, <1>5
<1>9. /\ g \in Seq(S) /\ Len(g) = n - 1
      /\ \A i \in 1 .. n - 1 : g[i] = SendFunctor((m + 1) + i)
  BY <1>3, <1>6, <1>7
<1>10. messages - (m + 1) = n - 1 =>
         g = [i \in 1 .. (messages - (m + 1)) |-> SendFunctor((m + 1) + i)]
  OBVIOUS
<1> HIDE DEF f, g
<1>11. /\ Head(f) = f[1] /\ Tail(f) \in Seq(S) /\ Len(Tail(f)) = n - 1
       /\ \A i \in 1 .. n - 1 : Tail(f)[i] = f[i + 1]
  <2>1. f # <<>>
    BY <1>4
  <2> QED
    BY <1>3, <1>8, <2>1, HeadTailProperties
<1>12. \A i \in 1 .. n - 1 : Tail(f)[i] = g[i]
  <2> TAKE i \in 1 .. n - 1
  <2>1. i + 1 \in 1 .. n /\ m + (i + 1) = (m + 1) + i
    BY <1>2, <1>3
  <2> QED
    BY <1>8, <1>9, <1>11, <2>1
<1>13. Tail(f) = g
  BY <1>9, <1>11, <1>12, SeqEqual
<1>14. Head(f) = SendFunctor(m + 1)
  <2>1. 1 \in 1 .. n
    BY <1>3, <1>7
  <2> QED
    BY <1>8, <1>11, <2>1
<1>15. m + 1 \in 1 .. messages /\ m + 1 \in 1 .. MsgMax
  BY <1>2, <1>3, <1>7
<1>16. NumbersOf(Stream, "app") = 1 .. (m * MsgLen)
  BY <1>1 DEF Undelivered
<1> QED
  BY <1>2, <1>3, <1>4, <1>13, <1>14, <1>15, <1>16, <1>10

LEMMA GapRunSend ==
  ASSUME EchoInv, GapInv, RunSend
  PROVE  GapInv'
<1>1. TypeOK /\ total_sent = 0 /\ Stream \in Seq(Bytes)
  BY StreamType DEF EchoInv, TypeInv, RunSend
<1>2. /\ functors # <<>>
      /\ functors' = Tail(functors)
      /\ SendInLoop(Message(Head(functors).msg))
      /\ UNCHANGED <<client, received, state, total_sent, messages>>
  BY DEF RunSend
<1>3. CASE state = "kConnected" /\ client # "gone"
  <2>1. PICK m \in Nat :
           /\ m + 1 \in 1 .. messages /\ m + 1 \in 1 .. MsgMax
           /\ NumbersOf(Stream, "app") = 1 .. (m * MsgLen)
           /\ Head(functors) = SendFunctor(m + 1)
           /\ Tail(functors) = [i \in 1 .. (messages - (m + 1)) |-> SendFunctor((m + 1) + i)]
    BY <1>1, <1>2, <1>3, NextMessage
  <2>2. Head(functors).msg = m + 1
    BY <2>1 DEF SendFunctor
  <2>3. Message(m + 1) \in Seq(Bytes)
    BY <2>1, MessageType
  <2>4. Stream' = Stream \o Message(m + 1)
    BY <1>1, <1>2, <1>3, <2>2, <2>3, StreamSends
  <2>5. NumbersOf(Stream', "app") = 1 .. ((m + 1) * MsgLen)
    <3>1. NumbersOf(Stream \o Message(m + 1), "app")
            = NumbersOf(Stream, "app") \union NumbersOf(Message(m + 1), "app")
      BY <1>1, <2>3, NumbersOfConcat
    <3>2. 1 .. (m * MsgLen) \union NumbersOf(Message(m + 1), "app") = 1 .. ((m + 1) * MsgLen)
      BY <2>1, NumbersOfMessage
    <3> QED
      BY <2>1, <2>4, <3>1, <3>2
  <2>6. Undelivered(m + 1)'
    BY <1>2, <2>1, <2>5 DEF Undelivered
  <2>7. m + 1 \in 0 .. messages'
    BY <1>2, <2>1
  <2> QED
    BY <2>6, <2>7 DEF GapInv
<1> QED
  BY <1>2, <1>3 DEF GapInv

LEMMA GapStep ==
  ASSUME EchoInv, GapInv, [Next]_vars
  PROVE  GapInv'
<1>1. TypeOK /\ (pc # "write" => total_sent = 0)
  BY DEF EchoInv, TypeInv
<1>2. CASE Send \/ Echo \/ RunSend
  BY <1>1, <1>2, GapSend, GapEcho, GapRunSend
<1>3. CASE UNCHANGED vars \/ Poll \/ BeginEvent \/ EndEvent \/ TestState
  BY <1>3, SameGap DEF Poll, BeginEvent, EndEvent, TestState, Stream
<1>4. CASE ClientReads
  BY <1>1, <1>4, StreamReads, SameGap DEF ClientReads
<1>5. CASE ClientWrites \/ ClientFinishes
  BY <1>5, SameGap DEF ClientWrites, ClientFinishes, Stream
<1>6. CASE ClientResets \/ MarkDisconnecting
  BY <1>6 DEF ClientResets, MarkDisconnecting, GapInv
<1>7. CASE HandleError \/ Receive \/ ReceiveEnd \/ Release
  BY <1>7, SameGap DEF HandleError, Receive, ReceiveEnd, Release, HandleClose, Stream
<1>8. CASE BeginWrite
  <2>1. total_sent = 0 /\ total_sent' = 0
    BY <1>1, <1>8 DEF BeginWrite, Dispatching
  <2> QED
    BY <1>8, <2>1, SameGap DEF BeginWrite, Stream
<1>9. CASE WriteSome
  BY <1>1, <1>9, StreamWrites, SameGap DEF WriteSome
<1>10. CASE WriteFails
  BY <1>10 DEF WriteFails, GapInv
<1>11. CASE EndWrite
  <2>1. UNCHANGED <<client, functors, messages>> /\ (state' = "kConnected" => state = "kConnected")
    BY <1>11 DEF EndWrite, HandleClose
  <2> QED
    BY <1>1, <1>11, <2>1, StreamEndsWrite, SameGap
<1>12. CASE RunForceClose
  <2>1. state' # "kConnected"
    BY <1>1, <1>12 DEF RunForceClose, HandleClose, TypeOK
  <2> QED
    BY <2>1 DEF GapInv
<1> QED
  BY <1>2, <1>3, <1>4, <1>5, <1>6, <1>7, <1>8, <1>9, <1>10, <1>11, <1>12
  DEF Next, Client, OtherThreads, LoopThread

-----------------------------------------------------------------------------
(* The steps of the stream. *)

\* What has been read is where the stream begins.
LEMMA ComingType ==
  ASSUME TypeOK
  PROVE  /\ received \o sndbuf \in Seq(Bytes)
         /\ Len(received \o sndbuf) = Len(received) + Len(sndbuf)
         /\ Coming \in Seq(Bytes)
         /\ Len(received) \in Nat /\ Len(sndbuf) \in Nat /\ Len(Coming) \in Nat
         /\ Len(Coming) >= Len(received)
<1>1. /\ received \in Seq(Bytes) /\ sndbuf \in Seq(Bytes)
      /\ Drop(output, total_sent) \in Seq(Bytes) /\ Stream \in Seq(Bytes)
  BY StreamType
<1>2. /\ received \o sndbuf \in Seq(Bytes)
      /\ Len(received \o sndbuf) = Len(received) + Len(sndbuf)
      /\ Len(received) \in Nat /\ Len(sndbuf) \in Nat
  BY <1>1, ConcatProperties, LenProperties
<1>3. /\ Len((received \o sndbuf) \o Drop(output, total_sent))
           = Len(received \o sndbuf) + Len(Drop(output, total_sent))
      /\ Len(Drop(output, total_sent)) \in Nat
  BY <1>1, <1>2, ConcatProperties, LenProperties
<1>4. Coming \in Seq(Bytes) /\ Len(Coming) \in Nat
  BY <1>1, <1>2, LenProperties DEF Coming
<1>5. Coming \in {received, received \o sndbuf, (received \o sndbuf) \o Drop(output, total_sent)}
  BY DEF Coming, Stream
<1>6. Len(Coming) >= Len(received)
  <2>1. CASE Coming = received
    BY <1>2, <2>1
  <2>2. CASE Coming = received \o sndbuf
    BY <1>2, <2>2
  <2>3. CASE Coming = (received \o sndbuf) \o Drop(output, total_sent)
    BY <1>2, <1>3, <2>3
  <2> QED
    BY <1>5, <2>1, <2>2, <2>3
<1> QED
  BY <1>2, <1>4, <1>6

\* Most steps leave the channel able to write, or unable, as it was.
LEMMA SameComing ==
  ASSUME Stream' = Stream, received' \o sndbuf' = received \o sndbuf,
         client' = "gone" <=> client = "gone", CanWrite' <=> CanWrite
  PROVE  Coming' = Coming
BY DEF Coming

\* A channel that leaves the epoll takes what is in output_buffer_ with it.
LEMMA ComingIsCut ==
  ASSUME TypeOK, Stream' = Stream, UNCHANGED <<client, received, sndbuf>>,
         CanWrite' => CanWrite
  PROVE  ES!CutOff
<1>1. CASE Coming' = Coming
  <2>1. SubSeq(Coming, 1, Len(Coming)) = Coming /\ Len(Coming) \in 0 .. Len(Coming)
    BY ComingType, SubSeqFull
  <2> QED
    BY <1>1, <2>1, ComingType DEF ES!CutOff
<1>2. CASE Coming' # Coming
  <2> DEFINE r == received \o sndbuf
             d == Drop(output, total_sent)
  <2>1. Coming = r \o d /\ Coming' = r
    BY <1>2 DEF Coming, Stream
  <2>2. r \in Seq(Bytes) /\ d \in Seq(Bytes) /\ Len(r) >= Len(received)
    BY ComingType, StreamType
  <2> HIDE DEF r, d
  <2>3. /\ Len(r) \in Nat /\ Len(d) \in Nat /\ Len(r \o d) = Len(r) + Len(d)
        /\ r \o d \in Seq(Bytes)
        /\ \A i \in 1 .. Len(r) : (r \o d)[i] = r[i]
    BY <2>2, ConcatProperties, LenProperties
  <2>4. Len(r) \in 0 .. Len(r \o d)
    BY <2>3
  <2>5. SubSeq(r \o d, 1, Len(r)) = r
    <3>1. SubSeq(r \o d, 1, Len(r)) \in Seq(Bytes) /\ Len(SubSeq(r \o d, 1, Len(r))) = Len(r)
      BY <2>3, <2>4, TakeDrop DEF Take
    <3>2. \A i \in 1 .. Len(r) : SubSeq(r \o d, 1, Len(r))[i] = r[i]
      <4>1. CASE Len(r) = 0
        BY <4>1
      <4>2. CASE Len(r) > 0
        <5>1. \A i \in 1 .. Len(r) : (r \o d)[i] \in Bytes
          BY <2>3, <2>4, ElementOfSeq
        <5>2. 1 \in Int /\ Len(r) \in Int /\ 1 <= Len(r) /\ (Len(r) - 1) + 1 = Len(r)
          BY <2>3, <4>2
        <5>3. \A i \in 1 .. (Len(r) - 1) + 1 : SubSeq(r \o d, 1, Len(r))[i] = (r \o d)[1 + i - 1]
          BY <5>1, <5>2, SubSeqProperties
        <5> QED
          BY <2>3, <5>2, <5>3
      <4> QED
        BY <2>3, <4>1, <4>2
    <3> QED
      BY <2>2, <3>1, <3>2, SeqEqual
  <2> QED
    BY <2>1, <2>2, <2>4, <2>5 DEF ES!CutOff
<1> QED
  BY <1>1, <1>2

LEMMA StreamIsRead ==
  ASSUME TypeOK, ClientReads
  PROVE  ES!Read
<1>1. /\ client # "gone" /\ sndbuf # <<>>
      /\ received' = Append(received, Head(sndbuf)) /\ sndbuf' = Tail(sndbuf)
      /\ UNCHANGED <<client, sent, interest, revents, pc, messages, closer, state>>
  BY DEF ClientReads
<1>2. /\ received \in Seq(Bytes) /\ sndbuf \in Seq(Bytes)
      /\ Drop(output, total_sent) \in Seq(Bytes)
      /\ Len(received) \in Nat /\ Len(sndbuf) \in Nat \ {0} /\ Head(sndbuf) = sndbuf[1]
  BY <1>1, StreamType, ComingType, EmptySeq, HeadTailProperties
<1>3. Coming' = Coming
  <2>1. received' \o sndbuf' = received \o sndbuf
    BY <1>1, <1>2, MoveHead
  <2>2. Stream' = Stream
    BY StreamReads
  <2> QED
    BY <1>1, <2>1, <2>2, SameComing DEF CanWrite
<1> DEFINE r == received \o sndbuf
           n == Len(received) + 1
<1>4. /\ r \in Seq(Bytes) /\ Len(r) = Len(received) + Len(sndbuf)
      /\ n \in 1 .. Len(r) /\ r[n] = Head(sndbuf)
  <2>1. /\ r \in Seq(Bytes) /\ Len(r) = Len(received) + Len(sndbuf)
        /\ n \in 1 .. Len(r) /\ n > Len(received) /\ n - Len(received) = 1
    BY <1>2, ComingType
  <2>2. r[n] = sndbuf[n - Len(received)]
    BY <1>2, <2>1, ConcatProperties
  <2> QED
    BY <1>2, <2>1, <2>2
<1> HIDE DEF r
<1>5. /\ Len(r \o Drop(output, total_sent)) = Len(r) + Len(Drop(output, total_sent))
      /\ Len(Drop(output, total_sent)) \in Nat /\ Len(r) \in Nat
      /\ (r \o Drop(output, total_sent))[n] = r[n]
  <2>1. /\ Len(r \o Drop(output, total_sent)) = Len(r) + Len(Drop(output, total_sent))
        /\ Len(Drop(output, total_sent)) \in Nat /\ Len(r) \in Nat
        /\ \A i \in 1 .. Len(r) : (r \o Drop(output, total_sent))[i] = r[i]
    <3>1. PICK d \in Seq(Bytes) : d = Drop(output, total_sent)
      BY <1>2
    <3>2. /\ Len(r \o d) = Len(r) + Len(d) /\ Len(d) \in Nat /\ Len(r) \in Nat
          /\ \A i \in 1 .. Len(r) : (r \o d)[i] = r[i]
      <4>1. r \in Seq(Bytes)
        BY <1>4
      <4> QED
        BY <4>1, ConcatProperties, LenProperties
    <3> QED
      BY <3>1, <3>2
  <2> QED
    BY <1>4, <2>1
<1>6. Coming = r \/ Coming = r \o Drop(output, total_sent)
  BY <1>1 DEF Coming, Stream, r
<1>7. Len(received) < Len(Coming) /\ Coming[n] = Head(sndbuf)
  <2>1. CASE Coming = r
    BY <1>2, <1>4, <2>1
  <2>2. CASE Coming = r \o Drop(output, total_sent)
    BY <1>2, <1>4, <1>5, <2>2
  <2> QED
    BY <1>6, <2>1, <2>2
<1> QED
  BY <1>1, <1>3, <1>7 DEF ES!Read

\* Who may read may write: a connection that is up.
LEMMA ConnectedCanWrite ==
  /\ ReasonInv /\ state = "kConnected" => CanWrite /\ Coming = Stream
  /\ ReasonInv' /\ state' = "kConnected" => CanWrite' /\ Coming' = Stream'
BY DEF ReasonInv, CanWrite, Coming

\* The connection closes, or is closed already and gives up what it still had to send.
LEMMA StreamIsCut ==
  ASSUME ES!CutOff, UNCHANGED <<client, sent, messages, received, closer # "idle">>,
         state' # "kConnected", state = "kConnected" => closer # "idle" \/ client # "open"
  PROVE  ES!Next
<1>1. CASE state = "kConnected"
  <2>1. ES!Close
    BY <1>1 DEF ES!Close
  <2> QED
    BY <2>1 DEF ES!Next
<1>2. CASE state # "kConnected"
  <2>1. ES!Lose
    BY <1>2 DEF ES!Lose
  <2> QED
    BY <2>1 DEF ES!Next
<1> QED
  BY <1>1, <1>2

LEMMA StreamEchoes ==
  ASSUME StreamInv, StreamInv', Echo
  PROVE  ES!Next \/ UNCHANGED ES!vars
<1>1. EchoIsExact /\ TypeOK /\ total_sent = 0
  BY DEF StreamInv, EchoInv, TypeInv, Echo, Dispatching
<1>2. /\ rcvbuf = <<>>
      /\ UNCHANGED <<client, sent, received, state, total_sent, messages, closer, pc>>
      /\ revents' = revents \ {"in"}
  BY DEF Echo
<1>3. input \in Seq(Bytes) /\ Stream \in Seq(Bytes) /\ input \o rcvbuf = input
  BY <1>1, <1>2, StreamType, ConcatEmptySeq
<1>4. CASE UNCHANGED <<sndbuf, output, channel>>
  <2>1. Stream' = Stream /\ (CanWrite' <=> CanWrite)
    BY <1>2, <1>4 DEF Stream, CanWrite
  <2>2. Coming' = Coming
    BY <1>2, <1>4, <2>1, SameComing
  <2> QED
    BY <1>2, <2>2 DEF ES!vars
<1>5. CASE ~UNCHANGED <<sndbuf, output, channel>>
  <2>1. SendInLoop(input) /\ input # <<>>
    BY <1>5 DEF Echo
  <2>2. state = "kConnected"
    BY <1>5, <2>1 DEF SendInLoop
  <2>3. CASE client = "gone"
    <3>1. Coming' = Coming
      BY <1>2, <2>3 DEF Coming, Stream
    <3> QED
      BY <1>2, <3>1 DEF ES!vars
  <2>4. CASE client # "gone"
    <3>1. Stream' = Stream \o input
      BY <1>1, <1>2, <1>3, <2>1, <2>2, <2>4, StreamSends
    <3>2. Coming = Stream /\ Coming' = Stream'
      BY <1>2, <2>2, ConnectedCanWrite DEF StreamInv
    <3>3. PICK k \in 0 .. sent :
            /\ Echoed(Stream, Len(Stream)) = 1 .. k
            /\ input = [i \in 1 .. (sent - k) |-> Byte("client", k + i)]
      BY <1>1, <1>3, <2>2, <2>4, EchoParts DEF Waits
    <3>4. sent \in 0 .. sent /\ sent \in Nat
      BY <1>1 DEF TypeOK
    <3>5. k < sent
      <4>1. ASSUME k = sent PROVE FALSE
        <5>1. input = <<>>
          BY <3>3, <3>4, <4>1
        <5> QED
          BY <2>1, <5>1
      <4> QED
        BY <3>4, <4>1
    <3>6. ES!Numbers("client") = 1 .. k
      <4>1. DOMAIN Stream = 1 .. Len(Stream)
        BY <1>3, LenProperties
      <4> QED
        BY <3>2, <3>3, <4>1 DEF ES!Numbers, Echoed
    <3>7. Coming' = Coming \o [i \in 1 .. (sent - k) |-> ES!Byte("client", k + i)]
      BY <3>1, <3>2, <3>3 DEF ES!Byte, Byte
    <3>8. ES!Echo
      BY <1>2, <2>2, <2>4, <3>4, <3>5, <3>6, <3>7 DEF ES!Echo, ES!Up
    <3> QED
      BY <3>8 DEF ES!Next
  <2> QED
    BY <2>3, <2>4
<1> QED
  BY <1>4, <1>5

LEMMA StreamCarries ==
  ASSUME StreamInv, StreamInv', RunSend
  PROVE  ES!Next \/ UNCHANGED ES!vars
<1>1. TypeOK /\ total_sent = 0 /\ Stream \in Seq(Bytes)
  BY StreamType DEF StreamInv, EchoInv, TypeInv, RunSend
<1>2. /\ functors # <<>>
      /\ SendInLoop(Message(Head(functors).msg))
      /\ UNCHANGED <<client, sent, received, state, total_sent, messages, closer, pc, revents>>
  BY DEF RunSend
<1>3. CASE state = "kConnected" /\ client # "gone"
  <2>1. PICK m \in Nat :
           /\ m + 1 \in 1 .. messages /\ m + 1 \in 1 .. MsgMax
           /\ NumbersOf(Stream, "app") = 1 .. (m * MsgLen)
           /\ Head(functors) = SendFunctor(m + 1)
    BY <1>1, <1>2, <1>3, NextMessage DEF StreamInv
  <2>2. Head(functors).msg = m + 1
    BY <2>1 DEF SendFunctor
  <2>3. Message(m + 1) \in Seq(Bytes)
    BY <2>1, MessageType
  <2>4. Stream' = Stream \o Message(m + 1)
    BY <1>1, <1>2, <1>3, <2>2, <2>3, StreamSends
  <2>5. Coming = Stream /\ Coming' = Stream'
    BY <1>2, <1>3, ConnectedCanWrite DEF StreamInv
  <2>6. Coming' = Coming \o ES!Message(m + 1)
    BY <2>4, <2>5 DEF ES!Message, ES!Byte, Message, Byte
  <2>7. ES!Numbers("app") = 1 .. (((m + 1) - 1) * MsgLen)
    <3>1. (m + 1) - 1 = m
      BY <2>1
    <3> QED
      BY <2>1, <2>5, <3>1 DEF ES!Numbers, NumbersOf
  <2>8. ES!Carry
    BY <1>2, <1>3, <2>1, <2>6, <2>7 DEF ES!Carry, ES!Up
  <2> QED
    BY <2>8 DEF ES!Next
<1>4. CASE ~(state = "kConnected" /\ client # "gone")
  <2>1. Coming' = Coming
    <3>1. CASE client = "gone"
      BY <1>2, <3>1 DEF Coming, Stream
    <3>2. CASE state # "kConnected"
      <4>1. UNCHANGED <<sndbuf, output, channel>>
        BY <1>2, <3>2 DEF SendInLoop
      <4>2. Stream' = Stream /\ (CanWrite' <=> CanWrite)
        BY <1>2, <4>1 DEF Stream, CanWrite
      <4> QED
        BY <1>2, <4>1, <4>2, SameComing
    <3> QED
      BY <1>4, <3>1, <3>2
  <2> QED
    BY <1>2, <2>1 DEF ES!vars
<1> QED
  BY <1>3, <1>4

LEMMA StreamStep ==
  ASSUME StreamInv, StreamInv', [Next]_vars
  PROVE  ES!Next \/ UNCHANGED ES!vars
<1>0. /\ TypeOK /\ ReasonInv /\ ReasonInv'
      /\ pc # "write" => total_sent = 0
  BY DEF StreamInv, EchoInv, TypeInv
<1>1. ASSUME Stream' = Stream, UNCHANGED <<client, sent, messages, received, sndbuf>>,
             UNCHANGED (closer # "idle"), CanWrite' => CanWrite, state' # "kConnected",
             state = "kConnected" => closer # "idle" \/ client # "open"
      PROVE  ES!Next
  <2>1. ES!CutOff
    BY <1>0, <1>1, ComingIsCut
  <2> QED
    BY <1>1, <2>1, StreamIsCut
<1>2. ASSUME Coming' = Coming,
             UNCHANGED <<client, sent, messages, received, closer, state>>
      PROVE  UNCHANGED ES!vars
  BY <1>2 DEF ES!vars
<1>3. CASE Echo \/ RunSend
  BY <1>3, StreamEchoes, StreamCarries
<1>4. CASE ClientReads
  BY <1>0, <1>4, StreamIsRead DEF ES!Next
<1>5. CASE ClientWrites
  <2>1. Coming' = Coming
    BY <1>5 DEF ClientWrites, Coming, Stream, CanWrite
  <2>2. ES!Write
    BY <1>5, <2>1 DEF ClientWrites, ES!Write
  <2> QED
    BY <2>2 DEF ES!Next
<1>6. CASE ClientFinishes
  <2>1. Coming' = Coming
    BY <1>6 DEF ClientFinishes, Coming, Stream, CanWrite
  <2>2. ES!Leave
    BY <1>6, <2>1 DEF ClientFinishes, ES!Leave
  <2> QED
    BY <2>2 DEF ES!Next
<1>7. CASE ClientResets
  <2>1. Coming' = received
    BY <1>7 DEF ClientResets, Coming, Stream
  <2>2. ES!Leave
    BY <1>7, <2>1 DEF ClientResets, ES!Leave
  <2> QED
    BY <2>2 DEF ES!Next
<1>8. CASE Send
  <2>1. Coming' = Coming
    BY <1>8 DEF Send, Coming, Stream, CanWrite
  <2>2. ES!Send
    BY <1>8, <2>1 DEF Send, ES!Send
  <2> QED
    BY <2>2 DEF ES!Next
<1>9. CASE TestState
  <2>1. Coming' = Coming
    BY <1>9 DEF TestState, Coming, Stream, CanWrite
  <2>2. ES!ForceClose
    BY <1>9, <2>1 DEF TestState, ES!ForceClose
  <2> QED
    BY <2>2 DEF ES!Next
<1>10. CASE MarkDisconnecting
  <2>1. Stream' = Stream /\ (CanWrite' => CanWrite)
    BY <1>10 DEF MarkDisconnecting, Stream, CanWrite
  <2>2. /\ UNCHANGED <<client, sent, messages, received, sndbuf>>
        /\ closer # "idle" /\ closer' # "idle" /\ state' # "kConnected"
    BY <1>10 DEF MarkDisconnecting
  <2> QED
    BY <1>1, <2>1, <2>2
<1>11. CASE UNCHANGED vars \/ BeginEvent \/ EndEvent \/ Receive \/ Release
  <2>1. /\ UNCHANGED <<client, sent, messages, received, sndbuf, output, total_sent, closer,
                       state, interest, revents>>
        /\ pc' = "write" <=> pc = "write"
    BY <1>11 DEF BeginEvent, EndEvent, Receive, Release
  <2>2. Coming' = Coming
    BY <2>1 DEF Coming, Stream, CanWrite
  <2> QED
    BY <1>2, <2>1, <2>2
<1>12. CASE Poll
  <2>1. Coming' = Coming
    BY <1>12 DEF Poll, Coming, Stream, CanWrite
  <2> QED
    BY <1>2, <1>12, <2>1 DEF Poll
<1>13. CASE HandleError \/ ReceiveEnd
  <2>1. HandleClose
    BY <1>13 DEF HandleError, ReceiveEnd
  <2>2. /\ UNCHANGED <<client, sent, messages, received, sndbuf, output, total_sent, closer, pc>>
        /\ revents' \subseteq revents /\ client # "open"
    BY <1>0, <1>13 DEF HandleError, ReceiveEnd, Dispatching, ReasonInv
  <2>3. state' # "kConnected" /\ (interest' = {} \/ interest' = interest)
    BY <2>1 DEF HandleClose
  <2>4. Stream' = Stream /\ (CanWrite' => CanWrite)
    BY <2>2, <2>3 DEF Stream, CanWrite
  <2> QED
    BY <1>1, <2>2, <2>3, <2>4
<1>14. CASE RunForceClose
  <2>1. /\ UNCHANGED <<client, sent, messages, received, sndbuf, output, total_sent, closer, pc,
                       revents>>
        /\ functors # <<>> /\ Head(functors).run = "forceClose"
    BY <1>14 DEF RunForceClose
  <2>2. closer # "idle"
    <3>1. functors \in Seq(Functors)
      BY <1>0 DEF TypeOK, Functors
    <3>2. Head(functors) = functors[1] /\ 1 \in DOMAIN functors
      <4>1. /\ Len(functors) \in Nat /\ Len(functors) # 0 /\ DOMAIN functors = 1 .. Len(functors)
            /\ Head(functors) = functors[1]
        BY <2>1, <3>1, EmptySeq, LenProperties, HeadTailProperties
      <4> QED
        BY <4>1
    <3> QED
      BY <1>0, <2>1, <3>2 DEF ReasonInv
  <2>3. state' # "kConnected" /\ (interest' = {} \/ interest' = interest)
    BY <1>0, <1>14 DEF RunForceClose, HandleClose, TypeOK
  <2>4. Stream' = Stream /\ (CanWrite' => CanWrite)
    BY <2>1, <2>3 DEF Stream, CanWrite
  <2> QED
    BY <1>1, <2>1, <2>2, <2>3, <2>4
<1>15. CASE BeginWrite
  <2>1. /\ UNCHANGED <<client, sent, messages, received, sndbuf, output, closer, state>>
        /\ total_sent = 0 /\ total_sent' = 0 /\ "out" \in revents
    BY <1>0, <1>15 DEF BeginWrite, Dispatching
  <2>2. Stream' = Stream /\ CanWrite
    BY <2>1 DEF Stream, CanWrite
  <2>3. CASE state = "kConnected"
    BY <1>0, <1>2, <2>1, <2>2, <2>3, ConnectedCanWrite
  <2>4. CASE state # "kConnected"
    BY <1>1, <2>1, <2>2, <2>4
  <2> QED
    BY <2>3, <2>4
<1>16. CASE WriteSome
  <2>1. UNCHANGED <<client, sent, messages, received, closer, state>> /\ CanWrite /\ CanWrite'
    BY <1>16 DEF WriteSome, CanWrite
  <2>2. Stream' = Stream
    BY <1>0, <1>16, StreamWrites
  <2> QED
    BY <1>2, <2>1, <2>2 DEF Coming
<1>17. CASE WriteFails
  <2>1. /\ UNCHANGED <<client, sent, messages, received, sndbuf, closer>>
        /\ client = "gone" /\ CanWrite /\ state' # "kConnected"
    BY <1>17 DEF WriteFails, HandleClose, CanWrite
  <2>2. Stream' = Stream
    BY <2>1 DEF Stream
  <2> QED
    BY <1>1, <2>1, <2>2
<1>18. CASE EndWrite
  <2>1. /\ UNCHANGED <<client, sent, messages, received, sndbuf, closer>> /\ CanWrite
        /\ state' = "kConnected" <=> state = "kConnected"
        /\ state = "kConnected" => state' = state
    BY <1>18 DEF EndWrite, HandleClose, CanWrite
  <2>2. Stream' = Stream
    BY <1>0, <1>18, StreamEndsWrite
  <2>3. CASE state = "kConnected"
    BY <1>0, <1>2, <2>1, <2>2, <2>3, ConnectedCanWrite
  <2>4. CASE state # "kConnected"
    BY <1>1, <2>1, <2>2, <2>4
  <2> QED
    BY <2>3, <2>4
<1> QED
  BY <1>3, <1>4, <1>5, <1>6, <1>7, <1>8, <1>9, <1>10, <1>11, <1>12, <1>13, <1>14, <1>15,
     <1>16, <1>17, <1>18 DEF Next, Client, OtherThreads, LoopThread

LEMMA StreamInit ==
  ASSUME Init
  PROVE  StreamInv /\ ES!Init
<1>1. EchoInv /\ Following
  BY EchoInit DEF Init, Following
<1>2. /\ client = "open" /\ sent = 0 /\ received = <<>> /\ sndbuf = <<>> /\ output = <<>>
      /\ total_sent = 0 /\ state = "kConnected" /\ interest = {"in"} /\ revents = {}
      /\ functors = <<>> /\ messages = 0 /\ closer = "idle"
  BY DEF Init
<1>3. Stream = <<>>
  <2>1. Drop(output, total_sent) = <<>>
    <3>1. output \in Seq(Bytes) /\ 0 \in 0 .. Len(output)
      BY <1>2, NoBytes
    <3>2. Drop(output, 0) = output
      BY <3>1, TakeAndDrop
    <3> QED
      BY <1>2, <3>2
  <2>2. received \o sndbuf = <<>>
    BY <1>2, NoBytes, ConcatEmptySeq
  <2> QED
    BY <1>2, <2>1, <2>2, NoBytes, ConcatEmptySeq DEF Stream
<1>4. ReasonInv
  BY <1>2 DEF ReasonInv
<1>5. Undelivered(0)
  <2>1. NumbersOf(<<>>, "app") = {}
    BY DEF NumbersOf
  <2>2. 1 .. (0 * MsgLen) = {}
    BY SizesAssumption
  <2>3. <<>> = [i \in 1 .. (0 - 0) |-> SendFunctor(0 + i)]
    OBVIOUS
  <2> QED
    BY <1>2, <1>3, <2>1, <2>2, <2>3 DEF Undelivered
<1>6. GapInv
  <2>1. 0 \in 0 .. messages
    BY <1>2
  <2> QED
    BY <1>5, <2>1 DEF GapInv
<1>7. ES!Init
  BY <1>2, <1>3, <1>4, ConnectedCanWrite DEF ES!Init
<1> QED
  BY <1>1, <1>4, <1>6, <1>7 DEF StreamInv

\* The safety part of ImplementsEchoStream: under the mapping every step of a connection
\* is one that EchoStream allows.  Echoes and messages are put behind what is on its way
\* and nowhere else, partial sends change nothing, and the stream is cut off only when
\* the connection closes, for which the client or forceClose is the reason.
THEOREM ConnectionIsEchoStream == SafeSpec => ES!SafeSpec
<1>1. Init => StreamInv /\ ES!Init
  BY StreamInit
<1>2. StreamInv /\ [Next]_vars => StreamInv'
  BY EchoStep, FollowStep, ReasonStep, GapStep DEF StreamInv, EchoInv, FollowInv
<1>3. StreamInv /\ StreamInv' /\ [Next]_vars => [ES!Next]_(ES!vars)
  BY StreamStep
<1> QED
  BY <1>1, <1>2, <1>3, PTL DEF SafeSpec, ES!SafeSpec

=============================================================================
