---------------------- MODULE EpollServerBufferProofs ----------------------
(***************************************************************************)
(* Theorems about the epoll servers, for any number of clients and         *)
(* descriptors, any input and any sizes of buffers: their types; that the  *)
(* edge-triggered ones never go to sleep with an edge missed; and that     *)
(* they lose no byte where they have buffers for it, reorder none where    *)
(* they have not, and give none to another client.                         *)
(***************************************************************************)
EXTENDS EpollServerBuffer, SequenceTheorems, TLAPS

\* Reading a byte moves it from what waits to what was read.
LEMMA MoveHead ==
  ASSUME NEW S, NEW d \in Seq(S), NEW s \in Seq(S), s # <<>>
  PROVE  Append(d, Head(s)) \o Tail(s) = d \o s
<1>1. Head(s) \in S /\ Tail(s) \in Seq(S) /\ Len(s) \in Nat \ {0}
  BY HeadTailProperties, EmptySeq
<1>2. s = <<Head(s)>> \o Tail(s)
  <2>1. SubSeq(s, 1, Len(s)) = <<s[1]>> \o SubSeq(s, 1 + 1, Len(s))
    BY <1>1, SubSeqRecursiveFirst
  <2>2. Head(s) = s[1] /\ Tail(s) = SubSeq(s, 1 + 1, Len(s))
    BY <1>1, TailIsSubSeq
  <2> QED
    BY <2>1, <2>2, SubSeqFull
<1>3. <<Head(s)>> \in Seq(S)
  BY <1>1
<1>4. Append(d, Head(s)) = d \o <<Head(s)>>
  BY <1>1, AppendIsConcat
<1>5. (d \o <<Head(s)>>) \o Tail(s) = d \o (<<Head(s)>> \o Tail(s))
  BY <1>1, <1>3, ConcatAssociative
<1> QED
  BY <1>2, <1>4, <1>5

\* What is put at the end of the last part is put at the end of the whole.
LEMMA AppendToConcat ==
  ASSUME NEW S, NEW d \in Seq(S), NEW s \in Seq(S), NEW e \in S
  PROVE  d \o Append(s, e) = Append(d \o s, e)
<1>1. <<e>> \in Seq(S)
  OBVIOUS
<1>2. d \o Append(s, e) = d \o (s \o <<e>>)
  BY AppendIsConcat
<1>3. Append(d \o s, e) = (d \o s) \o <<e>>
  BY ConcatProperties, AppendIsConcat
<1> QED
  BY <1>1, <1>2, <1>3, ConcatAssociative

USE DEF vars, outside, kernel, locals, signal

-----------------------------------------------------------------------------
(* Types, and where the server is. *)

\* What holds of the descriptor at hand where the server handles it; that epoll_wait is
\* called with nothing left of the last batch; and that neither a closed descriptor nor a
\* program without output_buffers has output.
PlaceInv ==
  /\ pc \in {"recv", "echo", "ask", "out"} => cur \in Fds
  /\ pc \in {"echo", "ask"} => socket[cur] # None
  /\ pc \in {"ask", "out"} => program = "buffer"
  /\ pc \in {"test", "wait"} => \A f \in Sources : events[f] = {}
  /\ \A f \in Fds : socket[f] = None \/ program # "buffer" => output_buffers[f] = <<>>

TypeInv == TypeOK /\ PlaceInv

LEMMA NoBytes ==
  ASSUME NEW S
  PROVE  <<>> \in Seq(S) /\ Len(<<>>) = 0
  OBVIOUS

\* What a system call takes of a buffer and what it leaves.
LEMMA TakeDrop ==
  ASSUME NEW S, NEW s \in Seq(S), NEW n \in 0 .. Len(s)
  PROVE  /\ Take(s, n) \in Seq(S) /\ Len(Take(s, n)) = n
         /\ Drop(s, n) \in Seq(S) /\ Len(Drop(s, n)) = Len(s) - n
<1>1. Len(s) \in Nat /\ \A i \in 1 .. Len(s) : s[i] \in S
  BY LenProperties, ElementOfSeq
<1>2. Take(s, n) \in Seq(S) /\ Len(Take(s, n)) = n
  BY <1>1, SubSeqProperties DEF Take
<1>3. Drop(s, n) \in Seq(S) /\ Len(Drop(s, n)) = Len(s) - n
  BY <1>1, SubSeqProperties DEF Drop
<1> QED
  BY <1>2, <1>3

LEMMA Sizes ==
  ASSUME TypeOK
  PROVE  /\ RcvCap \in Nat \ {0} /\ SndCap \in Nat \ {0} /\ ReadSize \in Nat \ {0}
         /\ Listener \notin Fds /\ None \notin Clients /\ None \notin Fds /\ None # Listener
         /\ \A c \in Clients :
              /\ EchoMax[c] \in Nat /\ sent[c] \in Nat /\ sent[c] <= EchoMax[c]
              /\ received[c] \in Seq(Bytes) /\ rcvbuf[c] \in Seq(Bytes)
              /\ sndbuf[c] \in Seq(Bytes)
              /\ Len(rcvbuf[c]) \in Nat /\ Len(rcvbuf[c]) <= RcvCap
              /\ Len(sndbuf[c]) \in Nat /\ Len(sndbuf[c]) <= SndCap
         /\ buffer \in Seq(Bytes) /\ Len(buffer) \in Nat
         /\ \A f \in Fds : output_buffers[f] \in Seq(Bytes) /\ Len(output_buffers[f]) \in Nat
BY SizesAssumption, LenProperties DEF TypeOK

LEMMA TypeInit ==
  ASSUME Init
  PROVE  TypeInv
<1>1. /\ received \in [Clients -> Seq(Bytes)] /\ rcvbuf \in [Clients -> Seq(Bytes)]
      /\ sndbuf \in [Clients -> Seq(Bytes)] /\ output_buffers \in [Fds -> Seq(Bytes)]
      /\ buffer \in Seq(Bytes)
  BY NoBytes DEF Init
<1>2. /\ \A c \in Clients : Len(rcvbuf[c]) <= RcvCap /\ Len(sndbuf[c]) <= SndCap
      /\ \A c \in Clients : sent[c] <= EchoMax[c]
  BY SizesAssumption, NoBytes DEF Init
<1>3. /\ sent \in [Clients -> Nat] /\ client \in [Clients -> {"none", "open", "finished", "gone"}]
      /\ socket \in [Fds -> Clients \union {None}]
      /\ interest \in [Fds -> SUBSET {"in", "out"}]
      /\ events \in [Sources -> SUBSET {"err", "in", "out"}]
  BY DEF Init
<1>4. TypeOK
  BY <1>1, <1>2, <1>3 DEF Init, TypeOK
<1>5. PlaceInv
  BY DEF Init, PlaceInv
<1> QED
  BY <1>4, <1>5 DEF TypeInv

LEMMA TypeClient ==
  ASSUME TypeInv, NEW c \in Clients,
         \/ ClientConnects(c) \/ ClientWrites(c) \/ ClientReads(c)
         \/ \E how \in {"finished", "gone"} : ClientLeaves(c, how)
  PROVE  TypeInv'
<1> USE DEF TypeInv
<1>0. TypeOK
  OBVIOUS
<1>1. /\ program' = program /\ pc' = pc /\ cur' = cur /\ evs' = evs /\ buffer' = buffer
      /\ socket' = socket /\ interest' = interest /\ events' = events
      /\ output_buffers' = output_buffers /\ running' = running
  BY DEF ClientConnects, ClientWrites, ClientReads, ClientLeaves
<1>2. PlaceInv'
  BY <1>1 DEF PlaceInv
<1>3. edge' \in SUBSET Sources /\ spurned' \in BOOLEAN
  BY <1>0 DEF ClientConnects, ClientWrites, ClientReads, ClientLeaves, Notify, FdOf, Sources,
              TypeOK
<1>4. client' \in [Clients -> {"none", "open", "finished", "gone"}]
      /\ backlog' \in SUBSET Clients
  BY <1>0 DEF ClientConnects, ClientWrites, ClientReads, ClientLeaves, TypeOK
<1>5. sent' \in [Clients -> Nat] /\ \A b \in Clients : sent'[b] <= EchoMax[b]
  <2>1. CASE sent' = sent
    BY <1>0, <2>1 DEF TypeOK
  <2>2. CASE sent' # sent
    <3>1. sent' = [sent EXCEPT ![c] = @ + 1] /\ sent[c] < EchoMax[c]
      BY <2>2 DEF ClientConnects, ClientWrites, ClientReads, ClientLeaves
    <3> QED
      BY <1>0, <3>1, Sizes DEF TypeOK
  <2> QED
    BY <2>1, <2>2
<1>6. rcvbuf' \in [Clients -> Seq(Bytes)] /\ \A b \in Clients : Len(rcvbuf'[b]) <= RcvCap
  <2>1. CASE rcvbuf' = rcvbuf
    BY <1>0, <2>1 DEF TypeOK
  <2>2. CASE rcvbuf' # rcvbuf
    <3>1. /\ rcvbuf' = [rcvbuf EXCEPT ![c] = Append(rcvbuf[c], Byte(c, sent[c] + 1))]
          /\ Len(rcvbuf[c]) < RcvCap /\ sent[c] < EchoMax[c]
      BY <2>2 DEF ClientConnects, ClientWrites, ClientReads, ClientLeaves
    <3>2. Byte(c, sent[c] + 1) \in Bytes
      <4>1. sent[c] + 1 \in 1 .. EchoMax[c]
        BY <1>0, <3>1, Sizes
      <4> QED
        BY <4>1 DEF Byte, Bytes
    <3>3. /\ Append(rcvbuf[c], Byte(c, sent[c] + 1)) \in Seq(Bytes)
          /\ Len(Append(rcvbuf[c], Byte(c, sent[c] + 1))) = Len(rcvbuf[c]) + 1
      BY <1>0, <3>2, Sizes, AppendProperties
    <3>4. Len(rcvbuf[c]) + 1 <= RcvCap
      BY <1>0, <3>1, Sizes
    <3> QED
      BY <1>0, <3>1, <3>3, <3>4 DEF TypeOK
  <2> QED
    BY <2>1, <2>2
<1>7. /\ sndbuf' \in [Clients -> Seq(Bytes)] /\ \A b \in Clients : Len(sndbuf'[b]) <= SndCap
      /\ received' \in [Clients -> Seq(Bytes)]
  <2>1. CASE sndbuf' = sndbuf /\ received' = received
    BY <1>0, <2>1 DEF TypeOK
  <2>2. CASE sndbuf' = [sndbuf EXCEPT ![c] = <<>>] /\ received' = received
    <3>1. <<>> \in Seq(Bytes) /\ Len(<<>>) <= SndCap
      BY <1>0, NoBytes, Sizes
    <3> QED
      BY <1>0, <2>2, <3>1 DEF TypeOK
  <2>3. CASE ClientReads(c)
    <3>1. /\ sndbuf' = [sndbuf EXCEPT ![c] = Tail(sndbuf[c])]
          /\ received' = [received EXCEPT ![c] = Append(received[c], Head(sndbuf[c]))]
          /\ sndbuf[c] # <<>>
      BY <2>3 DEF ClientReads
    <3>2. /\ Head(sndbuf[c]) \in Bytes /\ Tail(sndbuf[c]) \in Seq(Bytes)
          /\ Len(Tail(sndbuf[c])) = Len(sndbuf[c]) - 1
      BY <1>0, <3>1, Sizes, HeadTailProperties
    <3>3. Append(received[c], Head(sndbuf[c])) \in Seq(Bytes)
      BY <1>0, <3>2, Sizes, AppendProperties
    <3>4. Len(Tail(sndbuf[c])) <= SndCap
      BY <1>0, <3>2, Sizes
    <3> QED
      BY <1>0, <3>1, <3>2, <3>3, <3>4 DEF TypeOK
  <2> QED
    BY <2>1, <2>2, <2>3 DEF ClientConnects, ClientWrites, ClientLeaves
<1> QED
  BY <1>0, <1>1, <1>2, <1>3, <1>4, <1>5, <1>6, <1>7 DEF TypeOK

\* Steps that move no byte.
LEMMA TypeServerIdle ==
  ASSUME TypeInv,
         \/ Test \/ Wait \/ EndFor \/ EndAccept \/ AcceptFails \/ RecvOver \/ EchoDone
         \/ \E f \in Sources : NextEvent(f)
         \/ Interrupt
  PROVE  TypeInv'
<1> USE DEF TypeInv
<1>1. CASE Test \/ EndAccept \/ AcceptFails \/ RecvOver \/ EchoDone \/ Interrupt
  BY <1>1 DEF Test, EndAccept, AcceptFails, RecvOver, EchoDone, Interrupt, AfterRecv,
              AfterEcho, EdgeTriggered, TypeOK, PlaceInv
<1>2. CASE EndFor
  BY <1>2 DEF EndFor, TypeOK, PlaceInv
<1>3. CASE Wait
  <2>1. events' \in [Sources -> SUBSET {"err", "in", "out"}]
    <3>1. \A f \in Sources : Reported(f) \subseteq {"err", "in", "out"}
      BY DEF Reported, Ready
    <3> QED
      BY <1>3, <3>1 DEF Wait
  <2> QED
    BY <1>3, <2>1 DEF Wait, TypeOK, PlaceInv
<1>4. CASE \E f \in Sources : NextEvent(f)
  <2>1. PICK f \in Sources : NextEvent(f)
    BY <1>4
  <2>2. f # Listener => f \in Fds
    BY DEF Sources
  <2>3. /\ cur' = f /\ evs' = events[f] /\ pc' = IF f = Listener THEN "accept" ELSE "recv"
        /\ events' = [events EXCEPT ![f] = {}]
        /\ UNCHANGED <<outside, kernel, output_buffers, buffer, signal>>
        /\ pc = "next"
    BY <2>1 DEF NextEvent
  <2>4. TypeOK'
    BY <2>3 DEF TypeOK
  <2>5. PlaceInv'
    BY <2>2, <2>3 DEF TypeOK, PlaceInv
  <2> QED
    BY <2>4, <2>5
<1> QED
  BY <1>1, <1>2, <1>3, <1>4

LEMMA TypeAccept ==
  ASSUME TypeInv,
         \E c \in Clients : AcceptAndDrop(c) \/ \E f \in Fds : Accept(c, f)
  PROVE  TypeInv'
<1> USE DEF TypeInv
<1>1. PICK c \in Clients : AcceptAndDrop(c) \/ \E f \in Fds : Accept(c, f)
  OBVIOUS
<1>2. CASE AcceptAndDrop(c)
  BY <1>2 DEF AcceptAndDrop, AfterAccept, EdgeTriggered, TypeOK, PlaceInv
<1>3. CASE \E f \in Fds : Accept(c, f)
  <2>1. PICK f \in Fds : Accept(c, f)
    BY <1>3
  <2>2. edge' \in SUBSET Sources
    BY <2>1 DEF Accept, Notify, TypeOK, Sources
  <2>3. /\ socket' \in [Fds -> Clients \union {None}]
        /\ interest' \in [Fds -> SUBSET {"in", "out"}]
    BY <2>1 DEF Accept, TypeOK
  <2>4. PlaceInv'
    <3>1. pc = "accept" /\ pc' \in {"accept", "next"} /\ output_buffers' = output_buffers
      BY <2>1 DEF Accept, AfterAccept
    <3>2. \A g \in Fds : socket'[g] = None => socket[g] = None
      BY <2>1 DEF Accept, TypeOK
    <3> QED
      <4>1. program' = program
        BY <2>1 DEF Accept
      <4> QED
        BY <3>1, <3>2, <4>1 DEF PlaceInv
  <2> QED
    BY <2>1, <2>2, <2>3, <2>4 DEF Accept, AfterAccept, EdgeTriggered, TypeOK
<1> QED
  BY <1>1, <1>2, <1>3

LEMMA CloseCurrentTypes ==
  ASSUME TypeInv, CloseCurrent, cur \in Fds
  PROVE  /\ socket' \in [Fds -> Clients \union {None}]
         /\ interest' \in [Fds -> SUBSET {"in", "out"}]
         /\ edge' \in SUBSET Sources
         /\ output_buffers' \in [Fds -> Seq(Bytes)]
         /\ \A f \in Fds : socket'[f] = None \/ program # "buffer" => output_buffers'[f] = <<>>
         /\ \A f \in Fds : f # cur => socket'[f] = socket[f] /\ interest'[f] = interest[f]
                                      /\ output_buffers'[f] = output_buffers[f]
         /\ socket'[cur] = None
BY NoBytes DEF TypeInv, TypeOK, PlaceInv, CloseCurrent

LEMMA TypeReceive ==
  ASSUME TypeInv, Recv \/ RecvEnd
  PROVE  TypeInv'
<1> USE DEF TypeInv
<1>0. TypeOK /\ cur \in Fds
  BY DEF PlaceInv, Recv, RecvEnd
<1>1. CASE Recv
  <2> DEFINE n == Least(Len(rcvbuf[Peer]), ReadSize)
  <2>1. Peer \in Clients
    BY <1>0, <1>1 DEF Recv, Peer, TypeOK
  <2>2. n \in 0 .. Len(rcvbuf[Peer])
    BY <1>0, <2>1, Sizes DEF Least
  <2>3. /\ buffer' = Take(rcvbuf[Peer], n)
        /\ rcvbuf' = [rcvbuf EXCEPT ![Peer] = Drop(rcvbuf[Peer], n)]
    BY <1>1 DEF Recv
  <2> HIDE DEF n
  <2>4. /\ Take(rcvbuf[Peer], n) \in Seq(Bytes) /\ Drop(rcvbuf[Peer], n) \in Seq(Bytes)
        /\ Len(Drop(rcvbuf[Peer], n)) = Len(rcvbuf[Peer]) - n
    BY <1>0, <2>1, <2>2, Sizes, TakeDrop, ZenonT(30)
  <2>5. Len(Drop(rcvbuf[Peer], n)) <= RcvCap
    BY <1>0, <2>1, <2>2, <2>4, Sizes
  <2>6. rcvbuf' \in [Clients -> Seq(Bytes)] /\ \A c \in Clients : Len(rcvbuf'[c]) <= RcvCap
    BY <1>0, <2>1, <2>3, <2>4, <2>5 DEF TypeOK
  <2>7. TypeOK'
    BY <1>0, <1>1, <2>3, <2>4, <2>6 DEF Recv, TypeOK
  <2>8. PlaceInv'
    BY <1>0, <1>1 DEF Recv, Peer, PlaceInv
  <2> QED
    BY <2>7, <2>8
<1>2. CASE RecvEnd
  <2>1. pc' = AfterRecv /\ pc = "recv"
        /\ UNCHANGED <<outside, backlog, rcvbuf, sndbuf, locals, signal>>
        /\ CloseCurrent
    BY <1>2 DEF RecvEnd
  <2>2. pc' = "next" \/ (pc' = "out" /\ program = "buffer")
    BY <2>1 DEF AfterRecv
  <2>3. buffer = <<>>
    BY <1>0, <2>1 DEF TypeOK
  <2>4. TypeOK'
    BY <1>0, <2>1, <2>2, <2>3, CloseCurrentTypes DEF TypeOK
  <2>5. PlaceInv'
    BY <1>0, <2>1, <2>2, CloseCurrentTypes DEF PlaceInv
  <2> QED
    BY <2>4, <2>5
<1> QED
  BY <1>1, <1>2

LEMMA SetInterestTypes ==
  ASSUME TypeOK, cur \in Fds, NEW wanted \in SUBSET {"in", "out"}, SetInterest(cur, wanted)
  PROVE  interest' \in [Fds -> SUBSET {"in", "out"}] /\ edge' \in SUBSET Sources
BY DEF SetInterest, Notify, TypeOK, Sources

LEMMA TypeEcho ==
  ASSUME TypeInv, EchoSome \/ EchoAgain \/ EchoDrops \/ EchoFails \/ AskForOut
  PROVE  TypeInv'
<1> USE DEF TypeInv
<1>0. TypeOK /\ cur \in Fds /\ Peer \in Clients
  BY DEF PlaceInv, TypeOK, Peer, EchoSome, EchoAgain, EchoDrops, EchoFails, AskForOut
<1>1. CASE EchoSome
  <2> DEFINE n == Least(Len(buffer), SndCap - Len(sndbuf[Peer]))
  <2>1. n \in 0 .. Len(buffer) /\ Len(sndbuf[Peer]) + n <= SndCap
    BY <1>0, Sizes DEF Least
  <2>2. /\ buffer' = Drop(buffer, n)
        /\ sndbuf' = [sndbuf EXCEPT ![Peer] = sndbuf[Peer] \o Take(buffer, n)]
    BY <1>1 DEF EchoSome
  <2> HIDE DEF n
  <2>3. /\ Take(buffer, n) \in Seq(Bytes) /\ Len(Take(buffer, n)) = n
        /\ Drop(buffer, n) \in Seq(Bytes)
    BY <1>0, <2>1, Sizes, TakeDrop
  <2>4. /\ sndbuf[Peer] \o Take(buffer, n) \in Seq(Bytes)
        /\ Len(sndbuf[Peer] \o Take(buffer, n)) <= SndCap
    BY <1>0, <2>1, <2>3, Sizes, ConcatProperties
  <2>5. sndbuf' \in [Clients -> Seq(Bytes)] /\ \A c \in Clients : Len(sndbuf'[c]) <= SndCap
    BY <1>0, <2>2, <2>4 DEF TypeOK
  <2>6. TypeOK'
    BY <1>0, <1>1, <2>2, <2>3, <2>5 DEF EchoSome, TypeOK
  <2>7. PlaceInv'
    BY <1>1 DEF EchoSome, PlaceInv
  <2> QED
    BY <2>6, <2>7
<1>2. CASE EchoAgain
  <2>1. output_buffers[cur] \o buffer \in Seq(Bytes)
    BY <1>0, Sizes, ConcatProperties
  <2>2. output_buffers' = [output_buffers EXCEPT ![cur] = output_buffers[cur] \o buffer]
    BY <1>2 DEF EchoAgain
  <2>3. TypeOK'
    BY <1>0, <1>2, <2>1, <2>2, NoBytes DEF EchoAgain, TypeOK
  <2>4. PlaceInv'
    BY <1>0, <1>2, <2>2 DEF EchoAgain, PlaceInv, TypeOK
  <2> QED
    BY <2>3, <2>4
<1>3. CASE EchoDrops
  BY <1>0, <1>3, NoBytes DEF EchoDrops, AfterEcho, EdgeTriggered, TypeOK, PlaceInv
<1>4. CASE EchoFails
  <2>1. CASE pc' = "killed" /\ UNCHANGED <<socket, interest, edge, output_buffers, buffer>>
    BY <1>0, <1>4, <2>1 DEF EchoFails, TypeOK, PlaceInv
  <2>2. CASE CloseCurrent /\ buffer' = <<>> /\ pc' = AfterEcho
    <3>1. pc' \in {"recv", "next"}
      BY <2>2 DEF AfterEcho
    <3>2. UNCHANGED <<outside, backlog, rcvbuf, sndbuf, events, cur, evs, signal>>
      BY <1>4 DEF EchoFails
    <3>3. TypeOK'
      BY <1>0, <2>2, <3>1, <3>2, NoBytes, CloseCurrentTypes DEF TypeOK
    <3>4. PlaceInv'
      BY <1>0, <2>2, <3>1, <3>2, CloseCurrentTypes DEF PlaceInv
    <3> QED
      BY <3>3, <3>4
  <2> QED
    BY <1>4, <2>1, <2>2 DEF EchoFails
<1>5. CASE AskForOut
  <2>1. interest' \in [Fds -> SUBSET {"in", "out"}] /\ edge' \in SUBSET Sources
    BY <1>0, <1>5, SetInterestTypes DEF AskForOut
  <2>2. TypeOK'
    BY <1>0, <1>5, <2>1 DEF AskForOut, TypeOK
  <2>3. PlaceInv'
    BY <1>0, <1>5 DEF AskForOut, PlaceInv
  <2> QED
    BY <2>2, <2>3
<1> QED
  BY <1>1, <1>2, <1>3, <1>4, <1>5

\* The one send of the EPOLLOUT branch.
LEMMA WriteEffect ==
  ASSUME TypeInv, Write
  PROVE  \E n \in Nat :
           /\ n <= Len(output_buffers[cur]) /\ n <= SndCap - Len(sndbuf[Peer])
           /\ n = Len(output_buffers[cur]) \/ n = SndCap - Len(sndbuf[Peer])
           /\ sndbuf' = [sndbuf EXCEPT ![Peer] =
                           sndbuf[Peer] \o Take(output_buffers[cur], n)]
           /\ output_buffers' = [output_buffers EXCEPT ![cur] =
                                   Drop(output_buffers[cur], n)]
           /\ Take(output_buffers[cur], n) \in Seq(Bytes)
           /\ Drop(output_buffers[cur], n) \in Seq(Bytes)
           /\ Len(Take(output_buffers[cur], n)) = n
           /\ Len(Drop(output_buffers[cur], n)) = Len(output_buffers[cur]) - n
           /\ Peer \in Clients /\ cur \in Fds
<1>0. TypeOK /\ cur \in Fds
  BY DEF TypeInv, PlaceInv, Write
<1>1. Peer \in Clients
  BY <1>0 DEF TypeInv, PlaceInv, Write, Peer, TypeOK
<1> DEFINE n == Least(Len(output_buffers[cur]), SndCap - Len(sndbuf[Peer]))
<1>2. /\ sndbuf' = [sndbuf EXCEPT ![Peer] = sndbuf[Peer] \o Take(output_buffers[cur], n)]
      /\ output_buffers' = [output_buffers EXCEPT ![cur] = Drop(output_buffers[cur], n)]
  BY DEF Write
<1>3. /\ n \in Nat /\ n <= Len(output_buffers[cur]) /\ n <= SndCap - Len(sndbuf[Peer])
      /\ n = Len(output_buffers[cur]) \/ n = SndCap - Len(sndbuf[Peer])
      /\ n \in 0 .. Len(output_buffers[cur])
  BY <1>0, <1>1, Sizes DEF Least
<1> HIDE DEF n
<1>4. /\ Take(output_buffers[cur], n) \in Seq(Bytes)
      /\ Drop(output_buffers[cur], n) \in Seq(Bytes)
      /\ Len(Take(output_buffers[cur], n)) = n
      /\ Len(Drop(output_buffers[cur], n)) = Len(output_buffers[cur]) - n
  <2>1. output_buffers[cur] \in Seq(Bytes)
    BY <1>0, Sizes
  <2> QED
    BY <1>3, <2>1, TakeDrop
<1> QED
  BY <1>0, <1>1, <1>2, <1>3, <1>4

LEMMA TypeWrite ==
  ASSUME TypeInv, NothingToWrite \/ Write \/ WriteFails
  PROVE  TypeInv'
<1> USE DEF TypeInv
<1>0. TypeOK /\ cur \in Fds
  BY DEF PlaceInv, NothingToWrite, Write, WriteFails
<1>1. CASE NothingToWrite
  <2>1. interest' \in [Fds -> SUBSET {"in", "out"}] /\ edge' \in SUBSET Sources
    <3>1. CASE SetInterest(cur, {"in"})
      BY <1>0, <3>1, SetInterestTypes
    <3>2. CASE UNCHANGED <<interest, edge>>
      BY <1>0, <3>2 DEF TypeOK
    <3> QED
      BY <1>1, <3>1, <3>2 DEF NothingToWrite
  <2>2. TypeOK'
    BY <1>0, <1>1, <2>1 DEF NothingToWrite, TypeOK
  <2>3. PlaceInv'
    BY <1>1 DEF NothingToWrite, PlaceInv
  <2> QED
    BY <2>2, <2>3
<1>2. CASE Write
  <2>1. interest' \in [Fds -> SUBSET {"in", "out"}] /\ edge' \in SUBSET Sources
    <3>1. CASE interest' = interest /\ edge' = edge
      BY <1>0, <3>1 DEF TypeOK
    <3>2. CASE ~(interest' = interest /\ edge' = edge)
      <4>1. SetInterest(cur, {"in"})
        BY <1>2, <3>2 DEF Write
      <4> QED
        BY <1>0, <4>1, SetInterestTypes
    <3> QED
      BY <3>1, <3>2
  <2>2. PICK n \in Nat :
          /\ n <= SndCap - Len(sndbuf[Peer])
          /\ sndbuf' = [sndbuf EXCEPT ![Peer] =
                          sndbuf[Peer] \o Take(output_buffers[cur], n)]
          /\ output_buffers' = [output_buffers EXCEPT ![cur] = Drop(output_buffers[cur], n)]
          /\ Take(output_buffers[cur], n) \in Seq(Bytes)
          /\ Drop(output_buffers[cur], n) \in Seq(Bytes)
          /\ Len(Take(output_buffers[cur], n)) = n
          /\ Peer \in Clients
    BY <1>2, WriteEffect
  <2>3. /\ sndbuf[Peer] \o Take(output_buffers[cur], n) \in Seq(Bytes)
        /\ Len(sndbuf[Peer] \o Take(output_buffers[cur], n)) <= SndCap
    <3>1. /\ sndbuf[Peer] \in Seq(Bytes) /\ Len(sndbuf[Peer]) \in Nat /\ SndCap \in Nat
      BY <1>0, <2>2, Sizes
    <3>2. /\ sndbuf[Peer] \o Take(output_buffers[cur], n) \in Seq(Bytes)
          /\ Len(sndbuf[Peer] \o Take(output_buffers[cur], n)) = Len(sndbuf[Peer]) + n
      BY <2>2, <3>1, ConcatProperties, ZenonT(30)
    <3> QED
      BY <2>2, <3>1, <3>2
  <2>4. sndbuf' \in [Clients -> Seq(Bytes)] /\ \A c \in Clients : Len(sndbuf'[c]) <= SndCap
    BY <1>0, <2>2, <2>3 DEF TypeOK
  <2>5. output_buffers' \in [Fds -> Seq(Bytes)]
    BY <1>0, <2>2 DEF TypeOK
  <2>6. /\ UNCHANGED <<outside, backlog, socket, rcvbuf, locals, signal>>
        /\ pc' = "next" /\ pc = "out"
    BY <1>2 DEF Write
  <2>7. TypeOK'
    BY <1>0, <2>1, <2>4, <2>5, <2>6 DEF TypeOK
  <2>8. PlaceInv'
    <3>1. socket[cur] # None
      BY <2>2, <1>0, Sizes DEF Peer
    <3> QED
      BY <1>0, <2>2, <2>6, <3>1 DEF PlaceInv, TypeOK
  <2> QED
    BY <2>7, <2>8
<1>3. CASE WriteFails
  <2>1. UNCHANGED <<outside, backlog, rcvbuf, sndbuf, events, cur, evs, signal, buffer>>
    BY <1>3 DEF WriteFails
  <2>2. CASE pc' = "killed" /\ UNCHANGED <<socket, interest, edge, output_buffers>>
    BY <1>0, <2>1, <2>2 DEF TypeOK, PlaceInv
  <2>3. CASE CloseCurrent /\ pc' = "next"
    <3>1. buffer = <<>>
      BY <1>0, <1>3 DEF WriteFails, TypeOK
    <3>2. TypeOK'
      BY <1>0, <2>1, <2>3, <3>1, CloseCurrentTypes DEF TypeOK
    <3>3. PlaceInv'
      BY <1>0, <2>1, <2>3, CloseCurrentTypes DEF PlaceInv
    <3> QED
      BY <3>2, <3>3
  <2> QED
    BY <1>3, <2>2, <2>3 DEF WriteFails
<1> QED
  BY <1>1, <1>2, <1>3

LEMMA TypeStep ==
  ASSUME TypeInv, [Next]_vars
  PROVE  TypeInv'
<1>1. CASE UNCHANGED vars
  BY <1>1 DEF TypeInv, TypeOK, PlaceInv
<1>2. CASE Next
  BY <1>2, TypeClient, TypeServerIdle, TypeAccept, TypeReceive, TypeEcho, TypeWrite
  DEF Next, Server
<1> QED
  BY <1>1, <1>2

\* Every variable keeps its type: no socket buffer is overfilled, whatever the partial
\* sends, and nothing of the local buffer is left over where another descriptor is
\* handled.
THEOREM TypeCorrect == SafeSpec => []TypeOK
<1>1. Init => TypeInv
  BY TypeInit
<1>2. TypeInv /\ [Next]_vars => TypeInv'
  BY TypeStep
<1>3. TypeInv => TypeOK
  BY DEF TypeInv
<1> QED
  BY <1>1, <1>2, <1>3, PTL DEF SafeSpec

-----------------------------------------------------------------------------
(* Edges. *)

\* Who is not connected yet, or waits to be accepted, has no descriptor.
PeopleInv ==
  \A c \in Clients :
    /\ client[c] = "none" => c \notin backlog
    /\ client[c] = "none" \/ c \in backlog => FdOf(c) = {}

\* The server is in the middle of f, at one of these calls.
Handling(f, where) == cur = f /\ pc \in where

\* Where the news of a waiting client, of input and of room for output is: on the
\* ready list, in the batch of epoll_wait, or in the hands of the server, which then
\* goes on to EAGAIN.
Listening ==
  backlog # {} /\ ~spurned => Listener \in edge \/ events[Listener] # {} \/ pc = "accept"

Heard(f) ==
  rcvbuf[socket[f]] # <<>> \/ client[socket[f]] # "open" =>
    f \in edge \/ events[f] # {} \/ Handling(f, {"recv", "echo", "ask"})

Going(f) ==
  output_buffers[f] # <<>> =>
    /\ "out" \in interest[f] \/ Handling(f, {"ask"})
    /\ \/ Len(sndbuf[socket[f]]) = SndCap
       \/ f \in edge
       \/ "out" \in events[f]
       \/ Handling(f, {"ask"})
       \/ Handling(f, {"recv", "echo", "out"}) /\ "out" \in evs

Alert(f) == socket[f] # None => "in" \in interest[f] /\ Heard(f) /\ Going(f)

AllAlert == Listening /\ \A f \in Fds : Alert(f)

\* After SIGINT the loops are cut short: only a server that is already on its way into
\* epoll_wait still hears everything.
Awake == EdgeTriggered /\ pc # "killed" /\ (running \/ pc = "wait")

EdgeInv == TypeInv /\ PeopleInv /\ (Awake => AllAlert)

LEMMA PeopleStep ==
  ASSUME TypeInv, PeopleInv, [Next]_vars
  PROVE  PeopleInv'
<1>0. TypeOK
  BY DEF TypeInv
<1>1. CASE UNCHANGED <<client, backlog, socket>>
  BY <1>1 DEF PeopleInv, FdOf
<1>2. ASSUME NEW c \in Clients, ClientConnects(c)
      PROVE  PeopleInv'
  BY <1>0, <1>2 DEF ClientConnects, PeopleInv, FdOf, TypeOK
<1>3. ASSUME NEW c \in Clients, ClientWrites(c) \/ ClientReads(c)
      PROVE  PeopleInv'
  BY <1>1, <1>3 DEF ClientWrites, ClientReads
<1>4. ASSUME NEW c \in Clients, NEW how \in {"finished", "gone"}, ClientLeaves(c, how)
      PROVE  PeopleInv'
  BY <1>0, <1>4 DEF ClientLeaves, PeopleInv, FdOf, TypeOK
<1>5. ASSUME NEW c \in Clients, NEW f \in Fds, Accept(c, f)
      PROVE  PeopleInv'
  <2>1. /\ client' = client /\ backlog' = backlog \ {c} /\ c \in backlog
        /\ socket' = [socket EXCEPT ![f] = c]
    BY <1>5 DEF Accept
  <2>2. client[c] # "none"
    BY <2>1 DEF PeopleInv
  <2>3. \A b \in Clients : b # c => FdOf(b)' \subseteq FdOf(b)
    BY <1>0, <2>1 DEF FdOf, TypeOK
  <2> QED
    BY <2>1, <2>2, <2>3 DEF PeopleInv
<1>6. ASSUME NEW c \in Clients, AcceptAndDrop(c)
      PROVE  PeopleInv'
  BY <1>0, <1>6 DEF AcceptAndDrop, PeopleInv, FdOf, TypeOK
<1>7. CASE CloseCurrent /\ UNCHANGED <<client, backlog>> /\ cur \in Fds
  <2>1. \A b \in Clients : FdOf(b)' \subseteq FdOf(b)
    BY <1>0, <1>7, SizesAssumption DEF CloseCurrent, FdOf, TypeOK
  <2> QED
    BY <1>7, <2>1 DEF PeopleInv
<1>8. CASE RecvEnd \/ EchoFails \/ WriteFails
  <2>1. UNCHANGED <<client, backlog>> /\ cur \in Fds
    BY <1>8 DEF RecvEnd, EchoFails, WriteFails, TypeInv, PlaceInv
  <2> QED
    BY <1>1, <1>7, <1>8, <2>1 DEF RecvEnd, EchoFails, WriteFails
<1>9. CASE Interrupt \/ Test \/ Wait \/ EndFor \/ (\E f \in Sources : NextEvent(f)) \/ EndAccept
           \/ AcceptFails \/ Recv \/ RecvOver
  BY <1>1, <1>9 DEF Interrupt, Test, Wait, EndFor, NextEvent, EndAccept, AcceptFails, Recv,
                    RecvOver
<1>10. CASE EchoSome \/ EchoDone \/ EchoAgain \/ EchoDrops \/ AskForOut \/ NothingToWrite \/ Write
            \/ UNCHANGED vars
  BY <1>1, <1>10 DEF EchoSome, EchoDone, EchoAgain, EchoDrops, AskForOut, NothingToWrite, Write
<1> QED
  BY <1>2, <1>3, <1>4, <1>5, <1>6, <1>8, <1>9, <1>10 DEF Next, Server

\* Who is awake after a step was so before.
LEMMA AwakeBefore ==
  ASSUME TypeInv, [Next]_vars, Awake'
  PROVE  /\ Awake /\ EdgeTriggered' /\ program' = program
         /\ pc # "wait" => running
<1>1. CASE UNCHANGED <<pc, running, program>>
  BY <1>1 DEF Awake, EdgeTriggered
<1>2. CASE Interrupt \/ Test \/ Wait
  BY <1>2 DEF Interrupt, Test, Wait, Awake, EdgeTriggered
<1>3. CASE \E c \in Clients : \/ ClientConnects(c) \/ ClientWrites(c) \/ ClientReads(c)
                              \/ \E how \in {"finished", "gone"} : ClientLeaves(c, how)
  BY <1>1, <1>3 DEF ClientConnects, ClientWrites, ClientReads, ClientLeaves
<1>4. CASE /\ pc \notin {"wait", "killed"} /\ pc' # "wait"
           /\ UNCHANGED <<running, program>>
  BY <1>4 DEF Awake, EdgeTriggered
<1>5. CASE EndFor \/ (\E f \in Sources : NextEvent(f)) \/ EndAccept \/ AcceptFails
  BY <1>4, <1>5 DEF EndFor, NextEvent, EndAccept, AcceptFails
<1>6. CASE \E c \in Clients : AcceptAndDrop(c) \/ \E f \in Fds : Accept(c, f)
  BY <1>4, <1>6 DEF AcceptAndDrop, Accept, AfterAccept
<1>7. CASE Recv \/ RecvEnd \/ RecvOver
  BY <1>4, <1>7 DEF Recv, RecvEnd, RecvOver, AfterRecv
<1>8. CASE EchoSome \/ EchoDone \/ EchoAgain \/ EchoDrops \/ AskForOut \/ EchoFails
  BY <1>4, <1>8 DEF EchoSome, EchoDone, EchoAgain, EchoDrops, AskForOut, EchoFails, AfterEcho
<1>9. CASE NothingToWrite \/ Write \/ WriteFails
  BY <1>4, <1>9 DEF NothingToWrite, Write, WriteFails
<1> QED
  BY <1>1, <1>2, <1>3, <1>5, <1>6, <1>7, <1>8, <1>9 DEF Next, Server

\* What a client does to its own socket puts that socket on the ready list.
LEMMA AlertClient ==
  ASSUME EdgeInv, Awake, NEW c \in Clients,
         \/ ClientConnects(c) \/ ClientWrites(c) \/ ClientReads(c)
         \/ \E how \in {"finished", "gone"} : ClientLeaves(c, how)
  PROVE  AllAlert'
<1>0. TypeOK /\ PeopleInv /\ AllAlert /\ EdgeTriggered
  BY DEF EdgeInv, TypeInv, Awake
<1>1. /\ UNCHANGED <<socket, interest, output_buffers, locals, pc>>
      /\ \A f \in Sources : f \in edge => f \in edge'
  BY <1>0 DEF ClientConnects, ClientWrites, ClientReads, ClientLeaves, Notify
<1>2. Listening'
  <2>1. CASE ClientConnects(c)
    <3>1. Listener \in edge'
      BY <1>0, <2>1 DEF ClientConnects, Notify
    <3> QED
      BY <3>1 DEF Listening
  <2>2. CASE UNCHANGED <<backlog, spurned>>
    BY <1>0, <1>1, <2>2 DEF AllAlert, Listening, Sources
  <2> QED
    BY <2>1, <2>2 DEF ClientWrites, ClientReads, ClientLeaves
<1>3. ASSUME NEW f \in Fds, socket[f] # None
      PROVE  "in" \in interest'[f] /\ Heard(f)' /\ Going(f)'
  <2>0. /\ "in" \in interest[f] /\ Heard(f) /\ Going(f)
        /\ socket[f] \in Clients /\ f \in Sources
    BY <1>0, <1>3 DEF AllAlert, Alert, TypeOK, Sources
  <2>1. CASE f \in edge'
    BY <1>1, <2>0, <2>1 DEF Heard, Going, Handling
  <2>2. CASE socket[f] # c
    <3>1. /\ rcvbuf'[socket[f]] = rcvbuf[socket[f]] /\ sndbuf'[socket[f]] = sndbuf[socket[f]]
          /\ client'[socket[f]] = client[socket[f]]
      BY <1>0, <2>0, <2>2
      DEF ClientConnects, ClientWrites, ClientReads, ClientLeaves, TypeOK
    <3> QED
      BY <1>1, <2>0, <3>1 DEF Heard, Going, Handling
  <2>3. CASE socket[f] = c /\ f \notin edge'
    <3>1. f \in FdOf(c)
      BY <2>3 DEF FdOf
    <3>2. ClientReads(c)
      <4>1. ~ClientConnects(c)
        BY <1>0, <3>1 DEF ClientConnects, PeopleInv
      <4>2. ~ClientWrites(c) /\ \A how \in {"finished", "gone"} : ~ClientLeaves(c, how)
        BY <1>0, <2>3, <3>1 DEF ClientWrites, ClientLeaves, Notify
      <4> QED
        BY <4>1, <4>2
    <3>3. ~("out" \in interest[f] /\ Len(sndbuf[c]) = SndCap)
      BY <1>0, <2>3, <3>1, <3>2 DEF ClientReads, Notify
    <3>4. UNCHANGED <<rcvbuf, client>>
      BY <3>2 DEF ClientReads
    <3>5. Heard(f)'
      BY <1>1, <2>0, <2>3, <3>4 DEF Heard, Handling
    <3>6. Going(f)'
      BY <1>1, <2>0, <2>3, <3>3 DEF Going, Handling
    <3> QED
      BY <1>1, <2>0, <3>5, <3>6
  <2> QED
    BY <2>1, <2>2, <2>3
<1> QED
  BY <1>1, <1>2, <1>3 DEF AllAlert, Alert

\* From the ready list into a batch, and from the batch into the hands of the server.
LEMMA AlertBatch ==
  ASSUME EdgeInv, Awake, Awake',
         \/ Test \/ Wait \/ EndFor \/ Interrupt
         \/ \E f \in Sources : NextEvent(f)
  PROVE  AllAlert'
<1>0. TypeOK /\ PlaceInv /\ AllAlert /\ EdgeTriggered
  BY DEF EdgeInv, TypeInv, Awake
<1>1. CASE Test \/ EndFor \/ Interrupt
  <2>1. UNCHANGED <<outside, kernel, output_buffers, locals, spurned>>
    BY <1>1 DEF Test, EndFor, Interrupt
  <2>2. pc' = pc \/ (pc \in {"test", "next", "wait"} /\ pc' \in {"wait", "stopped", "test"})
    BY <1>1 DEF Test, EndFor, Interrupt
  <2>3. Listening'
    BY <1>0, <2>1, <2>2 DEF AllAlert, Listening
  <2>4. \A f \in Fds : Alert(f)'
    BY <1>0, <2>1, <2>2 DEF AllAlert, Alert, Heard, Going, Handling
  <2> QED
    BY <2>3, <2>4 DEF AllAlert
<1>2. CASE Wait
  <2>1. /\ events' = [f \in Sources |-> IF f \in edge THEN Reported(f) ELSE {}]
        /\ pc = "wait" /\ pc' = "next"
        /\ UNCHANGED <<outside, backlog, socket, rcvbuf, sndbuf, interest, output_buffers,
                       cur, evs, buffer, signal>>
    BY <1>0, <1>2 DEF Wait
  <2>2. \A f \in Sources : events[f] = {}
    BY <1>0, <2>1 DEF PlaceInv
  <2>3. Listening'
    <3>1. Listener \in Sources
      BY DEF Sources
    <3>2. backlog # {} /\ ~spurned => Listener \in edge
      BY <1>0, <2>1, <2>2, <3>1 DEF AllAlert, Listening
    <3>3. Listener \in edge /\ backlog # {} => "in" \in events'[Listener]
      BY <2>1, <3>1 DEF Reported
    <3> QED
      BY <2>1, <3>2, <3>3 DEF Listening
  <2>4. ASSUME NEW f \in Fds, socket[f] # None
        PROVE  "in" \in interest'[f] /\ Heard(f)' /\ Going(f)'
    <3>1. "in" \in interest[f] /\ Heard(f) /\ Going(f) /\ f \in Sources
      BY <1>0, <2>4 DEF AllAlert, Alert, Sources
    <3>2. f # Listener /\ socket[f] \in Clients
      BY <1>0, <2>4, Sizes DEF TypeOK
    <3>3. f \in edge => events'[f] = Ready(f) \intersect (interest[f] \union {"err"})
      BY <2>1, <2>4, <3>1, <3>2 DEF Reported
    <3>4. Heard(f)'
      <4>1. rcvbuf[socket[f]] # <<>> \/ client[socket[f]] # "open" => "in" \in Ready(f)
        BY DEF Ready
      <4>2. rcvbuf[socket[f]] # <<>> \/ client[socket[f]] # "open" => f \in edge
        BY <2>1, <2>2, <3>1 DEF Heard, Handling
      <4> QED
        BY <2>1, <3>1, <3>3, <4>1, <4>2 DEF Heard
    <3>5. Going(f)'
      <4>1. Len(sndbuf[socket[f]]) # SndCap => "out" \in Ready(f)
        BY <1>0, <3>2, Sizes DEF Ready
      <4>2. output_buffers[f] # <<>> =>
              "out" \in interest[f] /\ (Len(sndbuf[socket[f]]) = SndCap \/ f \in edge)
        BY <2>1, <2>2, <3>1 DEF Going, Handling
      <4> QED
        BY <2>1, <3>3, <4>1, <4>2 DEF Going
    <3> QED
      BY <2>1, <3>1, <3>4, <3>5
  <2> QED
    BY <2>1, <2>3, <2>4 DEF AllAlert, Alert
<1>3. ASSUME NEW g \in Sources, NextEvent(g)
      PROVE  AllAlert'
  <2>1. /\ events' = [events EXCEPT ![g] = {}]
        /\ pc = "next" /\ pc' = IF g = Listener THEN "accept" ELSE "recv"
        /\ cur' = g /\ evs' = events[g]
        /\ UNCHANGED <<outside, kernel, output_buffers, buffer, signal>>
    BY <1>3 DEF NextEvent
  <2>2. Listening'
    BY <1>0, <2>1 DEF AllAlert, Listening, TypeOK, Sources
  <2>3. ASSUME NEW f \in Fds, socket[f] # None
        PROVE  "in" \in interest'[f] /\ Heard(f)' /\ Going(f)'
    <3>1. "in" \in interest[f] /\ Heard(f) /\ Going(f) /\ f \in Sources /\ f # Listener
      BY <1>0, <2>3, Sizes DEF AllAlert, Alert, Sources
    <3>2. CASE f = g
      BY <2>1, <3>1, <3>2 DEF Heard, Going, Handling
    <3>3. CASE f # g
      <4>1. events'[f] = events[f]
        BY <1>0, <2>1, <3>1, <3>3 DEF TypeOK
      <4> QED
        BY <2>1, <3>1, <4>1 DEF Heard, Going, Handling
    <3> QED
      BY <3>2, <3>3
  <2> QED
    BY <2>1, <2>2, <2>3 DEF AllAlert, Alert
<1> QED
  BY <1>1, <1>2, <1>3

\* The accept loop goes on to EAGAIN, or accept has failed; EPOLL_CTL_ADD looks.
LEMMA AlertAccept ==
  ASSUME EdgeInv, Awake, Awake',
         \/ EndAccept \/ AcceptFails
         \/ \E c \in Clients : AcceptAndDrop(c) \/ \E f \in Fds : Accept(c, f)
  PROVE  AllAlert'
<1>0. TypeOK /\ PlaceInv /\ PeopleInv /\ AllAlert /\ EdgeTriggered
  BY DEF EdgeInv, TypeInv, Awake
<1>1. CASE EndAccept \/ AcceptFails
  <2>1. /\ pc = "accept" /\ pc' = "next"
        /\ UNCHANGED <<outside, kernel, output_buffers, locals>>
        /\ backlog = {} \/ spurned'
    BY <1>1 DEF EndAccept, AcceptFails, Looping, Awake
  <2>2. Listening'
    BY <2>1 DEF Listening
  <2>3. \A f \in Fds : Alert(f)'
    BY <1>0, <2>1 DEF AllAlert, Alert, Heard, Going, Handling
  <2> QED
    BY <2>2, <2>3 DEF AllAlert
<1>2. ASSUME NEW c \in Clients, AcceptAndDrop(c)
      PROVE  AllAlert'
  <2>1. /\ pc = "accept" /\ pc' = "accept" /\ c \in backlog
        /\ client' = [client EXCEPT ![c] = "gone"]
        /\ UNCHANGED <<program, sent, received, socket, rcvbuf, sndbuf, interest, edge,
                       output_buffers, locals, signal>>
    BY <1>0, <1>2 DEF AcceptAndDrop, AfterAccept
  <2>2. ASSUME NEW f \in Fds, socket[f] # None
        PROVE  "in" \in interest'[f] /\ Heard(f)' /\ Going(f)'
    <3>1. socket[f] # c
      BY <1>0, <2>1 DEF PeopleInv, FdOf
    <3>2. client'[socket[f]] = client[socket[f]]
      BY <1>0, <2>1, <2>2, <3>1 DEF TypeOK
    <3> QED
      BY <1>0, <2>1, <2>2, <3>2 DEF AllAlert, Alert, Heard, Going, Handling
  <2> QED
    BY <2>1, <2>2 DEF AllAlert, Alert, Listening
<1>3. ASSUME NEW c \in Clients, NEW g \in Fds, Accept(c, g)
      PROVE  AllAlert'
  <2>1. /\ pc = "accept" /\ pc' = "accept" /\ socket[g] = None
        /\ socket' = [socket EXCEPT ![g] = c]
        /\ interest' = [interest EXCEPT ![g] = {"in"}]
        /\ edge' = edge \union (IF rcvbuf[c] # <<>> \/ client[c] # "open" THEN {g} ELSE {})
        /\ UNCHANGED <<outside, rcvbuf, sndbuf, output_buffers, locals, signal>>
    BY <1>0, <1>3 DEF Accept, AfterAccept, Notify
  <2>2. ASSUME NEW f \in Fds, socket'[f] # None
        PROVE  "in" \in interest'[f] /\ Heard(f)' /\ Going(f)'
    <3>1. CASE f = g
      <4>1. socket'[f] = c /\ interest'[f] = {"in"} /\ output_buffers[f] = <<>>
        BY <1>0, <2>1, <3>1 DEF TypeOK, PlaceInv
      <4> QED
        BY <2>1, <3>1, <4>1 DEF Heard, Going
    <3>2. CASE f # g
      <4>1. socket'[f] = socket[f] /\ interest'[f] = interest[f] /\ (f \in edge => f \in edge')
        BY <1>0, <2>1, <3>2 DEF TypeOK
      <4> QED
        BY <1>0, <2>1, <2>2, <4>1 DEF AllAlert, Alert, Heard, Going, Handling
    <3> QED
      BY <3>1, <3>2
  <2> QED
    BY <2>1, <2>2 DEF AllAlert, Alert, Listening
<1> QED
  BY <1>1, <1>2, <1>3

\* The server handles a client: what has been said of the others holds on.
LEMMA ListeningKept ==
  ASSUME AllAlert, pc # "accept", UNCHANGED <<backlog, spurned, events>>,
         Listener \in edge => Listener \in edge'
  PROVE  Listening'
BY DEF AllAlert, Listening

LEMMA OtherIsAlert ==
  ASSUME AllAlert, NEW f \in Fds, f # cur, cur' = cur, UNCHANGED <<client, events>>,
         socket'[f] = socket[f], interest'[f] = interest[f],
         output_buffers'[f] = output_buffers[f], f \in edge => f \in edge',
         rcvbuf'[socket[f]] # <<>> => rcvbuf[socket[f]] # <<>>,
         Len(sndbuf[socket[f]]) = SndCap => Len(sndbuf'[socket[f]]) = SndCap
  PROVE  Alert(f)'
BY DEF AllAlert, Alert, Heard, Going, Handling

LEMMA AlertClosing ==
  ASSUME TypeInv, AllAlert, CloseCurrent, cur \in Fds, pc # "accept",
         UNCHANGED <<outside, backlog, rcvbuf, sndbuf, events, cur, evs, signal>>
  PROVE  AllAlert'
<1>0. TypeOK
  BY DEF TypeInv
<1>1. Listening'
  BY <1>0, Sizes, ListeningKept DEF CloseCurrent
<1>2. ASSUME NEW f \in Fds
      PROVE  Alert(f)'
  <2>1. CASE f = cur
    BY <2>1, CloseCurrentTypes DEF Alert
  <2>2. CASE f # cur
    <3>1. f \in edge => f \in edge'
      BY <2>2 DEF CloseCurrent
    <3> QED
      BY <2>2, <3>1, OtherIsAlert, CloseCurrentTypes
  <2> QED
    BY <2>1, <2>2
<1> QED
  BY <1>1, <1>2 DEF AllAlert

\* The recv loop goes on to EAGAIN.
LEMMA AlertReceive ==
  ASSUME EdgeInv, Awake, Awake', Recv \/ RecvEnd \/ RecvOver \/ EchoDone
  PROVE  AllAlert'
<1>0. TypeInv /\ TypeOK /\ PlaceInv /\ AllAlert /\ EdgeTriggered
  BY DEF EdgeInv, TypeInv, Awake
<1>1. CASE Recv
  <2>1. /\ pc = "recv" /\ pc' = "echo" /\ Peer # None /\ rcvbuf[Peer] # <<>>
        /\ rcvbuf' = [rcvbuf EXCEPT ![Peer] = Drop(@, Least(Len(rcvbuf[Peer]), ReadSize))]
        /\ UNCHANGED <<outside, backlog, socket, sndbuf, interest, edge, output_buffers,
                       events, cur, evs, signal>>
    BY <1>1 DEF Recv
  <2>2. \A c \in Clients : rcvbuf'[c] # <<>> => rcvbuf[c] # <<>>
    BY <1>0, <2>1 DEF TypeOK
  <2>3. Listening'
    BY <1>0, <2>1, ListeningKept
  <2>4. ASSUME NEW f \in Fds, socket[f] # None
        PROVE  Alert(f)'
    <3>1. socket[f] \in Clients
      BY <1>0, <2>4 DEF TypeOK
    <3> QED
      BY <1>0, <2>1, <2>2, <2>4, <3>1 DEF AllAlert, Alert, Heard, Going, Handling
  <2>5. \A f \in Fds : socket[f] = None => Alert(f)'
    BY <2>1 DEF Alert
  <2> QED
    BY <2>3, <2>4, <2>5 DEF AllAlert
<1>2. CASE RecvEnd
  BY <1>0, <1>2, AlertClosing DEF RecvEnd, PlaceInv
<1>3. CASE RecvOver
  <2>1. /\ pc = "recv" /\ pc' = AfterRecv
        /\ Peer # None => rcvbuf[Peer] = <<>> /\ client[Peer] = "open"
        /\ UNCHANGED <<outside, kernel, output_buffers, locals, signal>>
    BY <1>0, <1>3 DEF RecvOver, Looping, Awake
  <2>2. Listening'
    BY <1>0, <2>1, ListeningKept
  <2>3. ASSUME NEW f \in Fds, f = cur
        PROVE  Alert(f)'
    <3>1. Alert(f) /\ (pc' = "out" \/ output_buffers[f] = <<>>)
      BY <1>0, <2>1 DEF AllAlert, AfterRecv, PlaceInv
    <3> QED
      BY <2>1, <2>3, <3>1 DEF Alert, Heard, Going, Handling, Peer
  <2>4. ASSUME NEW f \in Fds, f # cur
        PROVE  Alert(f)'
    BY <1>0, <2>1, <2>4, OtherIsAlert
  <2> QED
    BY <2>2, <2>3, <2>4 DEF AllAlert
<1>4. CASE EchoDone
  <2>1. /\ pc = "echo" /\ pc' = "recv"
        /\ UNCHANGED <<outside, kernel, output_buffers, locals, signal>>
    BY <1>0, <1>4 DEF EchoDone, AfterEcho
  <2>2. Listening'
    BY <1>0, <2>1, ListeningKept
  <2> QED
    BY <1>0, <2>1, <2>2 DEF AllAlert, Alert, Heard, Going, Handling
<1> QED
  BY <1>1, <1>2, <1>3, <1>4

\* What the kernel does not take stays, and EPOLLOUT is asked for.
LEMMA AlertEcho ==
  ASSUME EdgeInv, Awake, Awake', EchoSome \/ EchoAgain \/ EchoDrops \/ AskForOut \/ EchoFails
  PROVE  AllAlert'
<1>0. /\ TypeInv /\ TypeOK /\ PlaceInv /\ AllAlert /\ EdgeTriggered
      /\ cur \in Fds /\ Peer \in Clients /\ cur # Listener
  BY Sizes DEF EdgeInv, TypeInv, Awake, PlaceInv, TypeOK, Peer, EchoSome, EchoAgain,
               EchoDrops, AskForOut, EchoFails
<1>1. CASE EchoSome
  <2>1. /\ pc = "echo" /\ pc' = "echo" /\ Len(sndbuf[Peer]) < SndCap
        /\ \A c \in Clients : c # Peer => sndbuf'[c] = sndbuf[c]
        /\ UNCHANGED <<outside, backlog, socket, rcvbuf, interest, edge, output_buffers,
                       events, cur, evs, signal>>
    BY <1>0, <1>1 DEF EchoSome, TypeOK
  <2>2. \A c \in Clients : Len(sndbuf[c]) = SndCap => Len(sndbuf'[c]) = SndCap
    <3>1. Len(sndbuf[Peer]) # SndCap
      <4>1. Len(sndbuf[Peer]) \in Nat /\ SndCap \in Nat
        BY <1>0, Sizes
      <4> QED
        BY <2>1, <4>1
    <3> QED
      BY <2>1, <3>1
  <2>3. Listening'
    BY <1>0, <2>1, ListeningKept
  <2>4. ASSUME NEW f \in Fds, socket[f] # None
        PROVE  Alert(f)'
    <3>1. socket[f] \in Clients
      BY <1>0, <2>4 DEF TypeOK
    <3> QED
      BY <1>0, <2>1, <2>2, <2>4, <3>1 DEF AllAlert, Alert, Heard, Going, Handling
  <2>5. \A f \in Fds : socket[f] = None => Alert(f)'
    BY <2>1 DEF Alert
  <2> QED
    BY <2>3, <2>4, <2>5 DEF AllAlert
<1>2. CASE EchoAgain
  <2>1. /\ pc = "echo" /\ pc' = "ask"
        /\ \A f \in Fds : f # cur => output_buffers'[f] = output_buffers[f]
        /\ UNCHANGED <<outside, kernel, events, cur, evs, signal>>
    BY <1>0, <1>2 DEF EchoAgain, TypeOK
  <2>2. Listening'
    BY <1>0, <2>1, ListeningKept
  <2>3. Alert(cur)'
    BY <1>0, <2>1 DEF AllAlert, Alert, Heard, Going, Handling
  <2>4. \A f \in Fds : f # cur => Alert(f)'
    BY <1>0, <2>1, OtherIsAlert
  <2> QED
    BY <2>1, <2>2, <2>3, <2>4 DEF AllAlert
<1>3. CASE EchoDrops
  <2>1. /\ pc = "echo" /\ pc' = "recv"
        /\ UNCHANGED <<outside, kernel, output_buffers, events, cur, evs, signal>>
    BY <1>0, <1>3 DEF EchoDrops, AfterEcho
  <2>2. Listening'
    BY <1>0, <2>1, ListeningKept
  <2> QED
    BY <1>0, <2>1, <2>2 DEF AllAlert, Alert, Heard, Going, Handling
<1>4. CASE AskForOut
  <2>1. /\ pc = "ask" /\ pc' = "recv"
        /\ interest' = [interest EXCEPT ![cur] = {"in", "out"}]
        /\ edge' = edge \union (IF Ready(cur) \intersect {"in", "out", "err"} # {} THEN {cur}
                                ELSE {})
        /\ UNCHANGED <<outside, backlog, socket, rcvbuf, sndbuf, output_buffers, locals,
                       signal>>
    <3>1. {"in", "out"} \union {"err"} = {"in", "out", "err"}
      OBVIOUS
    <3> QED
      BY <1>0, <1>4, <3>1 DEF AskForOut, SetInterest, Notify
  <2>2. Listening'
    BY <1>0, <2>1, ListeningKept
  <2>3. Alert(cur)'
    <3>1. interest'[cur] = {"in", "out"}
      BY <1>0, <2>1 DEF TypeOK
    <3>2. Len(sndbuf[Peer]) # SndCap => cur \in edge'
      <4>1. Len(sndbuf[Peer]) # SndCap => "out" \in Ready(cur)
        BY <1>0, Sizes DEF Ready, Peer
      <4> QED
        BY <2>1, <4>1
    <3> QED
      BY <1>0, <2>1, <3>1, <3>2 DEF Alert, Heard, Going, Handling, Peer
  <2>4. \A f \in Fds : f # cur => Alert(f)'
    <3>1. \A f \in Fds : f # cur => interest'[f] = interest[f]
      BY <1>0, <2>1 DEF TypeOK
    <3> QED
      BY <1>0, <2>1, <3>1, OtherIsAlert
  <2> QED
    BY <2>1, <2>2, <2>3, <2>4 DEF AllAlert
<1>5. CASE EchoFails
  <2>1. CloseCurrent
    BY <1>5 DEF EchoFails, Awake
  <2> QED
    BY <1>0, <1>5, <2>1, AlertClosing DEF EchoFails
<1> QED
  BY <1>1, <1>2, <1>3, <1>4, <1>5

\* The EPOLLOUT branch sends all, or fills the send buffer.
LEMMA AlertWrite ==
  ASSUME EdgeInv, Awake, Awake', NothingToWrite \/ Write \/ WriteFails
  PROVE  AllAlert'
<1>0. /\ TypeInv /\ TypeOK /\ PlaceInv /\ AllAlert /\ EdgeTriggered
      /\ cur \in Fds /\ cur # Listener /\ Alert(cur)
  BY Sizes DEF EdgeInv, TypeInv, Awake, PlaceInv, AllAlert, NothingToWrite, Write, WriteFails
<1>1. ASSUME SetInterest(cur, {"in"})
      PROVE  /\ \A f \in Sources : f \in edge => f \in edge'
             /\ interest'[cur] = {"in"}
             /\ \A f \in Fds : f # cur => interest'[f] = interest[f]
  BY <1>0, <1>1 DEF SetInterest, Notify, TypeOK
<1>2. \A f \in Fds : f \in Sources
  BY DEF Sources
<1>3. Listener \in Sources
  BY DEF Sources
<1>4. CASE NothingToWrite
  <2>1. /\ pc = "out" /\ pc' = "next"
        /\ "out" \notin evs \/ output_buffers[cur] = <<>>
        /\ UNCHANGED <<outside, backlog, socket, rcvbuf, sndbuf, output_buffers, locals,
                       signal>>
    BY <1>4 DEF NothingToWrite
  <2>2. \/ UNCHANGED <<interest, edge>>
        \/ SetInterest(cur, {"in"}) /\ output_buffers[cur] = <<>>
    BY <1>4 DEF NothingToWrite
  <2>3. CASE UNCHANGED <<interest, edge>>
    <3>1. Listening'
      BY <1>0, <2>1, <2>3, ListeningKept
    <3>2. \A f \in Fds : f # cur => Alert(f)'
      BY <1>0, <2>1, <2>3, OtherIsAlert
    <3>3. Alert(cur)'
      BY <1>0, <2>1, <2>3 DEF Alert, Heard, Going, Handling
    <3> QED
      BY <2>1, <3>1, <3>2, <3>3 DEF AllAlert
  <2>4. CASE SetInterest(cur, {"in"}) /\ output_buffers[cur] = <<>>
    <3>1. Listening'
      BY <1>0, <1>1, <1>3, <2>1, <2>4, ListeningKept
    <3>2. \A f \in Fds : f # cur => Alert(f)'
      BY <1>0, <1>1, <1>2, <2>1, <2>4, OtherIsAlert
    <3>3. Alert(cur)'
      BY <1>0, <1>1, <1>2, <2>1, <2>4 DEF Alert, Heard, Going, Handling
    <3> QED
      BY <2>1, <3>1, <3>2, <3>3 DEF AllAlert
  <2> QED
    BY <2>2, <2>3, <2>4
<1>5. CASE Write
  <2>1. /\ pc = "out" /\ pc' = "next" /\ output_buffers[cur] # <<>>
        /\ UNCHANGED <<outside, backlog, socket, rcvbuf, locals, signal>>
        /\ \/ output_buffers'[cur] = <<>> /\ SetInterest(cur, {"in"})
           \/ output_buffers'[cur] # <<>> /\ UNCHANGED <<interest, edge>>
    BY <1>5 DEF Write
  <2>2. PICK n \in Nat :
          /\ n <= Len(output_buffers[cur]) /\ n <= SndCap - Len(sndbuf[Peer])
          /\ n = Len(output_buffers[cur]) \/ n = SndCap - Len(sndbuf[Peer])
          /\ sndbuf' = [sndbuf EXCEPT ![Peer] =
                          sndbuf[Peer] \o Take(output_buffers[cur], n)]
          /\ output_buffers' = [output_buffers EXCEPT ![cur] = Drop(output_buffers[cur], n)]
          /\ Take(output_buffers[cur], n) \in Seq(Bytes)
          /\ Drop(output_buffers[cur], n) \in Seq(Bytes)
          /\ Len(Take(output_buffers[cur], n)) = n
          /\ Len(Drop(output_buffers[cur], n)) = Len(output_buffers[cur]) - n
          /\ Peer \in Clients
    BY <1>0, <1>5, WriteEffect
  <2>3. sndbuf'[Peer] = sndbuf[Peer] \o Take(output_buffers[cur], n)
        /\ \A c \in Clients : c # Peer => sndbuf'[c] = sndbuf[c]
    BY <1>0, <2>2 DEF TypeOK
  <2>4. Len(sndbuf'[Peer]) = Len(sndbuf[Peer]) + n
    <3>1. sndbuf[Peer] \in Seq(Bytes)
      BY <1>0, <2>2, Sizes
    <3>2. PICK u \in Seq(Bytes), v \in Seq(Bytes) :
            u = sndbuf[Peer] /\ v = Take(output_buffers[cur], n)
      BY <2>2, <3>1
    <3>3. Len(u \o v) = Len(u) + Len(v)
      BY ConcatProperties
    <3> QED
      BY <2>2, <2>3, <3>2, <3>3
  <2>5. \A c \in Clients : Len(sndbuf[c]) = SndCap => Len(sndbuf'[c]) = SndCap
    <3>1. Len(sndbuf[Peer]) = SndCap => Len(sndbuf'[Peer]) = SndCap
      BY <1>0, <2>2, <2>4, Sizes
    <3> QED
      BY <2>3, <3>1
  <2>6. output_buffers'[cur] = <<>> \/ Len(sndbuf'[Peer]) = SndCap
    <3>1. output_buffers'[cur] = Drop(output_buffers[cur], n)
      BY <1>0, <2>2 DEF TypeOK
    <3>2. CASE n = Len(output_buffers[cur])
      <4>1. Len(Drop(output_buffers[cur], n)) = 0
        BY <2>2, <3>2
      <4> QED
        BY <2>2, <3>1, <4>1, EmptySeq
    <3>3. CASE n = SndCap - Len(sndbuf[Peer])
      BY <1>0, <2>2, <2>4, <3>3, Sizes
    <3> QED
      BY <2>2, <3>2, <3>3
  <2>7. /\ \A f \in Sources : f \in edge => f \in edge'
        /\ \A f \in Fds : f # cur => interest'[f] = interest[f]
        /\ \A f \in Fds : f # cur => output_buffers'[f] = output_buffers[f]
    BY <1>0, <1>1, <2>1, <2>2 DEF TypeOK
  <2>8. Listening'
    BY <1>0, <1>3, <2>1, <2>7, ListeningKept
  <2>9. ASSUME NEW f \in Fds, f # cur
        PROVE  Alert(f)'
    <3>1. CASE socket[f] = None
      BY <2>1, <3>1 DEF Alert
    <3>2. CASE socket[f] # None
      <4>1. socket[f] \in Clients
        BY <1>0, <3>2 DEF TypeOK
      <4> QED
        BY <1>0, <1>2, <2>1, <2>5, <2>7, <2>9, <4>1, OtherIsAlert
    <3> QED
      BY <3>1, <3>2
  <2>10. Alert(cur)'
    <3>1. /\ "in" \in interest[cur] /\ Heard(cur) /\ Going(cur)
      BY <1>0, <2>2, Sizes DEF Alert, Peer
    <3>2. Heard(cur)'
      BY <1>2, <1>0, <2>1, <2>7, <3>1 DEF Heard, Handling
    <3>3. CASE output_buffers'[cur] = <<>>
      <4>1. interest'[cur] = {"in"}
        BY <1>1, <2>1, <3>3
      <4> QED
        BY <2>1, <3>2, <3>3, <4>1 DEF Alert, Going
    <3>4. CASE output_buffers'[cur] # <<>>
      <4>1. interest' = interest /\ Len(sndbuf'[Peer]) = SndCap
        BY <2>1, <2>6, <3>4
      <4>2. "out" \in interest[cur]
        BY <2>1, <3>1 DEF Going, Handling
      <4> QED
        BY <2>1, <3>1, <3>2, <4>1, <4>2 DEF Alert, Going, Peer
    <3> QED
      BY <3>3, <3>4
  <2> QED
    BY <2>1, <2>8, <2>9, <2>10 DEF AllAlert
<1>6. CASE WriteFails
  <2>1. CloseCurrent
    BY <1>6 DEF WriteFails, Awake
  <2> QED
    BY <1>0, <1>6, <2>1, AlertClosing DEF WriteFails
<1> QED
  BY <1>4, <1>5, <1>6

LEMMA EdgeStep ==
  ASSUME EdgeInv, [Next]_vars
  PROVE  EdgeInv'
<1>1. TypeInv' /\ PeopleInv'
  BY TypeStep, PeopleStep DEF EdgeInv
<1>2. ASSUME Awake'
      PROVE  AllAlert'
  <2>1. Awake
    BY <1>2, AwakeBefore DEF EdgeInv
  <2>2. CASE UNCHANGED vars
    BY <2>1, <2>2 DEF EdgeInv, AllAlert, Listening, Alert, Heard, Going, Handling
  <2>3. CASE Next
    BY <1>2, <2>1, <2>3, AlertClient, AlertBatch, AlertAccept, AlertReceive, AlertEcho,
       AlertWrite DEF Next, Server
  <2> QED
    BY <2>2, <2>3
<1> QED
  BY <1>1, <1>2 DEF EdgeInv

LEMMA EdgeInit ==
  ASSUME Init
  PROVE  EdgeInv
<1>1. TypeInv
  BY TypeInit
<1>2. PeopleInv
  BY SizesAssumption DEF Init, PeopleInv, FdOf
<1>3. AllAlert
  BY DEF Init, AllAlert, Listening, Alert
<1> QED
  BY <1>1, <1>2, <1>3 DEF EdgeInv

\* When an edge-triggered server goes to sleep, everything it would have to be woken
\* for is on the kernel's ready list: input, a client that has left, room for output
\* that waits, and a client to be accepted unless an accept has failed before.
THEOREM NoEdgeIsMissed == SafeSpec => []NoEdgeMissed
<1>1. Init => EdgeInv
  BY EdgeInit
<1>2. EdgeInv /\ [Next]_vars => EdgeInv'
  BY EdgeStep
<1>3. ASSUME EdgeInv
      PROVE  NoEdgeMissed
  <2>1. SUFFICES ASSUME pc = "wait", EdgeTriggered
                 PROVE  /\ backlog # {} /\ ~spurned => Listener \in edge
                        /\ \A f \in Fds : socket[f] # None =>
                             /\ rcvbuf[socket[f]] # <<>> \/ client[socket[f]] # "open" =>
                                  f \in edge
                             /\ output_buffers[f] # <<>> =>
                                  /\ "out" \in interest[f]
                                  /\ Len(sndbuf[socket[f]]) = SndCap \/ f \in edge
    BY DEF NoEdgeMissed
  <2>2. AllAlert /\ \A f \in Sources : events[f] = {}
    BY <1>3, <2>1 DEF EdgeInv, TypeInv, PlaceInv, Awake
  <2>3. \A f \in Fds : events[f] = {}
    BY <2>2 DEF Sources
  <2>4. events[Listener] = {}
    BY <2>2 DEF Sources
  <2> QED
    BY <2>1, <2>2, <2>3, <2>4 DEF AllAlert, Listening, Alert, Heard, Going, Handling
<1> QED
  BY <1>1, <1>2, <1>3, PTL DEF SafeSpec


-----------------------------------------------------------------------------
(* The bytes of a client. *)

Elements(s) == {s[i] : i \in DOMAIN s}

\* What is there of the first n bytes of c: all, but in any order, with output_buffers;
\* without them some, in order.
Whole(prog, c, n, s) ==
  IF prog = "buffer"
  THEN Len(s) = n /\ Elements(s) = {Byte(c, k) : k \in 1 .. n}
  ELSE \A i \in DOMAIN s :
         /\ s[i][1] = c /\ s[i][2] <= n
         /\ \A j \in 1 .. (i - 1) : s[j][2] < s[i][2]

LEMMA ElementsOfTwo ==
  ASSUME NEW S, NEW s \in Seq(S), NEW u \in Seq(S)
  PROVE  Elements(s \o u) = Elements(s) \union Elements(u)
<1>1. /\ Len(s) \in Nat /\ Len(u) \in Nat
      /\ DOMAIN s = 1 .. Len(s) /\ DOMAIN u = 1 .. Len(u)
      /\ DOMAIN (s \o u) = 1 .. Len(s) + Len(u)
      /\ \A i \in 1 .. Len(s) + Len(u) :
           (s \o u)[i] = IF i <= Len(s) THEN s[i] ELSE u[i - Len(s)]
  BY ConcatProperties, LenProperties
<1>2. ASSUME NEW e \in Elements(s \o u)
      PROVE  e \in Elements(s) \union Elements(u)
  <2>1. PICK i \in 1 .. Len(s) + Len(u) : e = (s \o u)[i]
    BY <1>1 DEF Elements
  <2>2. CASE i <= Len(s)
    BY <1>1, <2>1, <2>2 DEF Elements
  <2>3. CASE i > Len(s)
    <3>1. i - Len(s) \in DOMAIN u /\ e = u[i - Len(s)]
      BY <1>1, <2>1, <2>3
    <3> QED
      BY <3>1 DEF Elements
  <2> QED
    BY <1>1, <2>1, <2>2, <2>3
<1>3. ASSUME NEW i \in DOMAIN s
      PROVE  s[i] \in Elements(s \o u)
  <2>1. i \in DOMAIN (s \o u) /\ (s \o u)[i] = s[i]
    BY <1>1
  <2> QED
    BY <2>1 DEF Elements
<1>4. ASSUME NEW i \in DOMAIN u
      PROVE  u[i] \in Elements(s \o u)
  <2>1. Len(s) + i \in DOMAIN (s \o u) /\ (s \o u)[Len(s) + i] = u[i]
    BY <1>1
  <2> QED
    BY <2>1 DEF Elements
<1> QED
  BY <1>2, <1>3, <1>4 DEF Elements

LEMMA PartsJoin ==
  ASSUME NEW S, NEW s \in Seq(S), NEW n \in 0 .. Len(s)
  PROVE  \E t \in Seq(S), l \in Seq(S) : t = Take(s, n) /\ l = Drop(s, n) /\ t \o l = s
<1>1. Take(s, n) \o Drop(s, n) = s
  <2>1. Len(s) \in Nat /\ 1 \in 1 .. Len(s) + 1 /\ n \in 1 - 1 .. Len(s) /\ Len(s) \in n .. Len(s)
    BY LenProperties
  <2>2. SubSeq(s, 1, n) \o SubSeq(s, n + 1, Len(s)) = SubSeq(s, 1, Len(s))
    BY <2>1, ConcatAdjacentSubSeq
  <2> QED
    BY <2>2, SubSeqFull DEF Take, Drop
<1> QED
  BY <1>1, TakeDrop

LEMMA NothingIsWhole ==
  ASSUME NEW prog, NEW c
  PROVE  Whole(prog, c, 0, <<>>)
<1>1. /\ Len(<<>>) = 0
      /\ DOMAIN <<>> = {}
  <2>1. <<>> \in Seq({}) /\ Len(<<>>) = 0
    BY EmptySeq
  <2>2. DOMAIN <<>> = 1 .. 0
    BY <2>1, LenProperties
  <2> QED
    BY <2>1, <2>2
<1>2. Elements(<<>>) = {}
  BY <1>1 DEF Elements
<1>3. {Byte(c, k) : k \in 1 .. 0} = {}
  OBVIOUS
<1> QED
  BY <1>1, <1>2, <1>3 DEF Whole

\* The next byte is written.
LEMMA WholeGrows ==
  ASSUME NEW prog, NEW c \in Clients, NEW n \in Nat, n < EchoMax[c],
         NEW s \in Seq(Bytes), Whole(prog, c, n, s)
  PROVE  Whole(prog, c, n + 1, Append(s, Byte(c, n + 1)))
<1> DEFINE b == Byte(c, n + 1)
           t == Append(s, b)
<1>0. EchoMax[c] \in Nat
  BY SizesAssumption
<1>1. b \in Bytes /\ b[1] = c /\ b[2] = n + 1
  BY <1>0 DEF Byte, Bytes
<1>2. /\ Len(s) \in Nat /\ DOMAIN s = 1 .. Len(s) /\ DOMAIN t = 1 .. Len(s) + 1
      /\ Len(t) = Len(s) + 1
      /\ \A i \in 1 .. Len(s) : t[i] = s[i]
      /\ t[Len(s) + 1] = b
  BY <1>1, AppendProperties, LenProperties
<1>3. CASE prog = "buffer"
  <2>1. Elements(t) = Elements(s) \union {b}
    BY <1>2 DEF Elements
  <2>2. {Byte(c, k) : k \in 1 .. (n + 1)} = {Byte(c, k) : k \in 1 .. n} \union {b}
    OBVIOUS
  <2> QED
    BY <1>2, <1>3, <2>1, <2>2 DEF Whole
<1>4. CASE prog # "buffer"
  <2> SUFFICES ASSUME NEW i \in DOMAIN t
               PROVE  /\ t[i][1] = c /\ t[i][2] <= n + 1
                      /\ \A j \in 1 .. (i - 1) : t[j][2] < t[i][2]
    BY <1>4 DEF Whole
  <2>0. \A j \in 1 .. Len(s) : s[j][2] \in Nat
    <3>1. \A j \in 1 .. Len(s) : s[j] \in Bytes
      BY ElementOfSeq
    <3> QED
      BY <3>1, SizesAssumption, SMTT(30) DEF Bytes
  <2>1. CASE i <= Len(s)
    BY <1>2, <1>4, <2>0, <2>1 DEF Whole
  <2>2. CASE i = Len(s) + 1
    BY <1>1, <1>2, <1>4, <2>0, <2>2, SMTT(30) DEF Whole
  <2> QED
    BY <1>2, <2>1, <2>2
<1> QED
  BY <1>3, <1>4

\* What is in hand is lost.
LEMMA WholeWithout ==
  ASSUME NEW prog, prog # "buffer", NEW c, NEW n,
         NEW s \in Seq(Bytes), NEW h \in Seq(Bytes), NEW r \in Seq(Bytes),
         Whole(prog, c, n, s \o h \o r)
  PROVE  Whole(prog, c, n, s \o r)
<1> DEFINE all == s \o h \o r
           left == s \o r
<1>1. /\ Len(s) \in Nat /\ Len(h) \in Nat /\ Len(r) \in Nat
      /\ s \o h \in Seq(Bytes) /\ Len(s \o h) = Len(s) + Len(h)
  BY ConcatProperties, LenProperties
<1>2. /\ DOMAIN left = 1 .. Len(s) + Len(r)
      /\ \A i \in 1 .. Len(s) + Len(r) :
           left[i] = IF i <= Len(s) THEN s[i] ELSE r[i - Len(s)]
  BY ConcatProperties, LenProperties
<1>3. /\ DOMAIN all = 1 .. Len(s) + Len(h) + Len(r)
      /\ \A i \in 1 .. Len(s) + Len(h) + Len(r) :
           all[i] = IF i <= Len(s) + Len(h) THEN (s \o h)[i] ELSE r[i - (Len(s) + Len(h))]
  BY <1>1, ConcatProperties, LenProperties
<1>4. \A i \in 1 .. Len(s) : (s \o h)[i] = s[i]
  BY <1>1, ConcatProperties
<1> DEFINE at(i) == IF i <= Len(s) THEN i ELSE i + Len(h)
<1>5. \A i \in DOMAIN left : at(i) \in DOMAIN all /\ left[i] = all[at(i)]
  BY <1>1, <1>2, <1>3, <1>4
<1>6. \A i \in DOMAIN left : \A j \in 1 .. (i - 1) :
        j \in DOMAIN left /\ at(j) \in 1 .. (at(i) - 1)
  BY <1>1, <1>2
<1> HIDE DEF at, all, left
<1>7. \A i \in DOMAIN all :
         /\ all[i][1] = c /\ all[i][2] <= n
         /\ \A j \in 1 .. (i - 1) : all[j][2] < all[i][2]
  BY DEF Whole, all
<1>8. Whole(prog, c, n, left)
  BY <1>5, <1>6, <1>7 DEF Whole
<1> QED
  BY <1>8 DEF left

\* One descriptor for each client; nothing of a client that has not been accepted has
\* gone further than the receive buffer; and the others' bytes are all where they belong.
DistinctInv ==
  \A f, g \in Fds : socket[f] # None /\ socket[f] = socket[g] => f = g

FreshInv ==
  \A c \in Clients :
    client[c] = "none" \/ c \in backlog =>
      /\ received[c] = <<>> /\ sndbuf[c] = <<>>
      /\ Whole(program, c, sent[c], rcvbuf[c])

Served(f) == socket[f] # None /\ client[socket[f]] # "gone"

WholeInv ==
  \A f \in Fds : Served(f) => Whole(program, socket[f], sent[socket[f]], Trail(f))

ByteInv == TypeInv /\ PeopleInv /\ DistinctInv /\ FreshInv /\ WholeInv

Hand(f) == IF cur = f THEN buffer ELSE <<>>

LEMMA TrailType ==
  ASSUME TypeOK, NEW f \in Fds, socket[f] # None
  PROVE  LET c == socket[f]
         IN /\ c \in Clients
            /\ received[c] \in Seq(Bytes) /\ sndbuf[c] \in Seq(Bytes)
            /\ output_buffers[f] \in Seq(Bytes) /\ Hand(f) \in Seq(Bytes)
            /\ rcvbuf[c] \in Seq(Bytes)
            /\ received[c] \o sndbuf[c] \in Seq(Bytes)
            /\ received[c] \o sndbuf[c] \o output_buffers[f] \in Seq(Bytes)
            /\ received[c] \o sndbuf[c] \o output_buffers[f] \o Hand(f) \in Seq(Bytes)
            /\ Trail(f) \in Seq(Bytes)
            /\ Trail(f) = received[c] \o sndbuf[c] \o output_buffers[f] \o Hand(f) \o rcvbuf[c]
<1> DEFINE c == socket[f]
<1>1. /\ c \in Clients
      /\ received[c] \in Seq(Bytes) /\ sndbuf[c] \in Seq(Bytes)
      /\ output_buffers[f] \in Seq(Bytes) /\ rcvbuf[c] \in Seq(Bytes)
      /\ buffer \in Seq(Bytes)
  BY DEF TypeOK
<1>2. Hand(f) \in Seq(Bytes)
  BY <1>1, NoBytes DEF Hand
<1>3. Trail(f) = received[c] \o sndbuf[c] \o output_buffers[f] \o Hand(f) \o rcvbuf[c]
  BY DEF Trail, Hand
<1> HIDE DEF c
<1>4. received[c] \o sndbuf[c] \in Seq(Bytes)
  BY <1>1, ConcatProperties
<1>5. received[c] \o sndbuf[c] \o output_buffers[f] \in Seq(Bytes)
  BY <1>1, <1>4, ConcatProperties
<1>6. received[c] \o sndbuf[c] \o output_buffers[f] \o Hand(f) \in Seq(Bytes)
  BY <1>1, <1>2, <1>5, ConcatProperties
<1>7. Trail(f) \in Seq(Bytes)
  BY <1>1, <1>3, <1>6, ConcatProperties
<1> QED
  BY <1>1, <1>2, <1>3, <1>4, <1>5, <1>6, <1>7 DEF c

\* Only accept gives a client a descriptor, and it takes the client from the backlog.
LEMMA DistinctKept ==
  ASSUME ByteInv, [Next]_vars
  PROVE  DistinctInv'
<1>0. TypeOK /\ PeopleInv /\ DistinctInv
  BY DEF ByteInv, TypeInv
<1>1. CASE UNCHANGED socket
  BY <1>0, <1>1 DEF DistinctInv
<1>2. ASSUME NEW c \in Clients, NEW f \in Fds, Accept(c, f)
      PROVE  DistinctInv'
  BY <1>0, <1>2, Sizes DEF Accept, DistinctInv, PeopleInv, FdOf, TypeOK
<1>3. CASE CloseCurrent
  BY <1>0, <1>3 DEF CloseCurrent, DistinctInv, TypeOK
<1>4. CASE UNCHANGED vars
  BY <1>1, <1>4
<1>5. CASE Server
  <2>1. CASE RecvEnd \/ EchoFails \/ WriteFails
    BY <1>1, <1>3, <2>1 DEF RecvEnd, EchoFails, WriteFails
  <2>2. CASE UNCHANGED socket
    BY <1>1, <2>2
  <2> QED
    BY <1>2, <1>5, <2>1, <2>2
    DEF Server, Test, Wait, EndFor, NextEvent, AcceptAndDrop, EndAccept, AcceptFails, Recv,
        RecvOver, EchoSome, EchoDone, EchoAgain, EchoDrops, AskForOut, NothingToWrite, Write
<1>6. CASE \/ Interrupt
           \/ \E c \in Clients :
                \/ ClientConnects(c) \/ ClientWrites(c) \/ ClientReads(c)
                \/ \E how \in {"finished", "gone"} : ClientLeaves(c, how)
  <2>1. UNCHANGED socket
    BY <1>6 DEF Interrupt, ClientConnects, ClientWrites, ClientReads, ClientLeaves
  <2> QED
    BY <1>1, <2>1
<1> QED
  BY <1>4, <1>5, <1>6 DEF Next

\* The server deals with clients who have a descriptor.
LEMMA PeerIsNotFresh ==
  ASSUME ByteInv, cur \in Fds, socket[cur] # None
  PROVE  /\ socket[cur] \in Clients
         /\ client[socket[cur]] # "none" /\ socket[cur] \notin backlog
<1>1. TypeOK /\ PeopleInv
  BY DEF ByteInv, TypeInv
<1> QED
  BY <1>1 DEF TypeOK, PeopleInv, FdOf

LEMMA FreshKept ==
  ASSUME ByteInv, [Next]_vars
  PROVE  FreshInv'
<1>0. TypeOK /\ PlaceInv /\ FreshInv /\ PeopleInv
  BY DEF ByteInv, TypeInv
<1> SUFFICES ASSUME NEW c \in Clients, client'[c] = "none" \/ c \in backlog'
             PROVE  /\ received'[c] = <<>> /\ sndbuf'[c] = <<>>
                    /\ Whole(program', c, sent'[c], rcvbuf'[c])
  BY DEF FreshInv
<1>1. ASSUME client[c] = "none" \/ c \in backlog,
             received'[c] = received[c], sndbuf'[c] = sndbuf[c], program' = program,
             sent'[c] = sent[c], rcvbuf'[c] = rcvbuf[c]
      PROVE  /\ received'[c] = <<>> /\ sndbuf'[c] = <<>>
             /\ Whole(program', c, sent'[c], rcvbuf'[c])
  BY <1>0, <1>1 DEF FreshInv
<1>2. ASSUME UNCHANGED <<program, client, sent, received, backlog>>,
             cur \in Fds, socket[cur] # None,
             \A d \in Clients \ {Peer} : rcvbuf'[d] = rcvbuf[d] /\ sndbuf'[d] = sndbuf[d]
      PROVE  /\ received'[c] = <<>> /\ sndbuf'[c] = <<>>
             /\ Whole(program', c, sent'[c], rcvbuf'[c])
  BY <1>1, <1>2, PeerIsNotFresh DEF Peer
<1>3. CASE UNCHANGED vars
  BY <1>1, <1>3
<1>4. ASSUME NEW d \in Clients, ClientConnects(d)
      PROVE  /\ received'[c] = <<>> /\ sndbuf'[c] = <<>>
             /\ Whole(program', c, sent'[c], rcvbuf'[c])
  BY <1>0, <1>1, <1>4 DEF ClientConnects, TypeOK
<1>5. ASSUME NEW d \in Clients, ClientWrites(d)
      PROVE  /\ received'[c] = <<>> /\ sndbuf'[c] = <<>>
             /\ Whole(program', c, sent'[c], rcvbuf'[c])
  <2>1. /\ c \in backlog \/ client[c] = "none"
        /\ received[c] = <<>> /\ sndbuf[c] = <<>> /\ Whole(program, c, sent[c], rcvbuf[c])
    BY <1>0, <1>5 DEF ClientWrites, FreshInv
  <2>2. CASE d # c
    BY <1>0, <1>1, <1>5, <2>1, <2>2 DEF ClientWrites, TypeOK
  <2>3. CASE d = c
    <3>1. /\ sent[c] \in Nat /\ sent[c] < EchoMax[c] /\ rcvbuf[c] \in Seq(Bytes)
          /\ sent'[c] = sent[c] + 1 /\ rcvbuf'[c] = Append(rcvbuf[c], Byte(c, sent[c] + 1))
          /\ UNCHANGED <<program, received, sndbuf>>
      BY <1>0, <1>5, <2>3 DEF ClientWrites, TypeOK
    <3>2. Whole(program, c, sent[c] + 1, Append(rcvbuf[c], Byte(c, sent[c] + 1)))
      BY <2>1, <3>1, WholeGrows
    <3> QED
      BY <2>1, <3>1, <3>2
  <2> QED
    BY <2>2, <2>3
<1>6. ASSUME NEW d \in Clients, ClientReads(d)
      PROVE  /\ received'[c] = <<>> /\ sndbuf'[c] = <<>>
             /\ Whole(program', c, sent'[c], rcvbuf'[c])
  <2>1. c \in backlog \/ client[c] = "none"
    BY <1>6 DEF ClientReads
  <2>2. d # c
    BY <1>0, <1>6, <2>1 DEF ClientReads, FreshInv
  <2> QED
    BY <1>0, <1>1, <1>6, <2>1, <2>2 DEF ClientReads, TypeOK
<1>7. ASSUME NEW d \in Clients, NEW how \in {"finished", "gone"}, ClientLeaves(d, how)
      PROVE  /\ received'[c] = <<>> /\ sndbuf'[c] = <<>>
             /\ Whole(program', c, sent'[c], rcvbuf'[c])
  <2>1. c \in backlog \/ client[c] = "none"
    BY <1>0, <1>7 DEF ClientLeaves, TypeOK
  <2>2. sndbuf'[c] = sndbuf[c]
    BY <1>0, <1>7, <2>1 DEF ClientLeaves, FreshInv, TypeOK
  <2> QED
    BY <1>1, <1>7, <2>1, <2>2 DEF ClientLeaves
<1>8. CASE Recv \/ EchoSome \/ Write
  <2>1. cur \in Fds /\ socket[cur] # None
    BY <1>0, <1>8 DEF Recv, EchoSome, Write, PlaceInv, Peer
  <2>2. /\ UNCHANGED <<program, client, sent, received, backlog>>
        /\ \A d \in Clients \ {Peer} : rcvbuf'[d] = rcvbuf[d] /\ sndbuf'[d] = sndbuf[d]
    BY <1>0, <1>8 DEF Recv, EchoSome, Write, TypeOK
  <2> QED
    BY <1>2, <2>1, <2>2
<1>9. CASE \/ Interrupt \/ Test \/ Wait \/ EndFor
           \/ \E f \in Sources : NextEvent(f)
           \/ \E d \in Clients : AcceptAndDrop(d) \/ \E f \in Fds : Accept(d, f)
           \/ EndAccept \/ AcceptFails \/ RecvEnd \/ RecvOver \/ EchoDone \/ EchoAgain
           \/ EchoDrops \/ AskForOut \/ EchoFails \/ NothingToWrite \/ WriteFails
  <2>1. /\ UNCHANGED <<program, sent, received, rcvbuf, sndbuf>>
        /\ backlog' \subseteq backlog
        /\ client'[c] = "none" => client[c] = "none"
    BY <1>0, <1>9
    DEF Interrupt, Test, Wait, EndFor, NextEvent, AcceptAndDrop, Accept, EndAccept,
        AcceptFails, RecvEnd, RecvOver, EchoDone, EchoAgain, EchoDrops, AskForOut, EchoFails,
        NothingToWrite, WriteFails, TypeOK
  <2> QED
    BY <1>1, <2>1
<1> QED
  BY <1>3, <1>4, <1>5, <1>6, <1>7, <1>8, <1>9 DEF Next, Server


\* Where neither the client's bytes nor their number change.
LEMMA StillWhole ==
  ASSUME ByteInv, NEW f \in Fds, Served(f), socket'[f] = socket[f], program' = program,
         sent'[socket[f]] = sent[socket[f]], Trail(f)' = Trail(f)
  PROVE  Whole(program', socket'[f], sent'[socket'[f]], Trail(f)')
BY DEF ByteInv, WholeInv

LEMMA SameTrail ==
  ASSUME NEW f \in Fds, socket'[f] = socket[f],
         received'[socket[f]] = received[socket[f]], sndbuf'[socket[f]] = sndbuf[socket[f]],
         output_buffers'[f] = output_buffers[f], Hand(f)' = Hand(f),
         rcvbuf'[socket[f]] = rcvbuf[socket[f]]
  PROVE  Trail(f)' = Trail(f)
BY DEF Trail, Hand

\* Of the clients, one that writes adds its next byte, and one that reads moves a byte
\* from its socket.
LEMMA WholeClient ==
  ASSUME ByteInv, NEW c \in Clients, NEW how \in {"finished", "gone"},
         \/ ClientConnects(c) \/ ClientWrites(c) \/ ClientReads(c) \/ ClientLeaves(c, how)
  PROVE  WholeInv'
<1>0. TypeOK /\ WholeInv /\ PeopleInv
  BY DEF ByteInv, TypeInv
<1>1. UNCHANGED <<program, socket, output_buffers, cur, buffer>>
  BY DEF ClientConnects, ClientWrites, ClientReads, ClientLeaves, locals
<1> SUFFICES ASSUME NEW f \in Fds, Served(f)'
             PROVE  Whole(program', socket'[f], sent'[socket'[f]], Trail(f)')
  BY DEF WholeInv
<1> DEFINE d == socket[f]
<1>2. d \in Clients /\ Hand(f)' = Hand(f) /\ d # None
  BY <1>0, <1>1 DEF Served, Hand, TypeOK
<1>3. Served(f)
  <2>1. client'[d] # "gone"
    BY <1>1 DEF Served
  <2>2. CASE client'[d] = client[d]
    BY <1>2, <2>1, <2>2 DEF Served
  <2>3. CASE ClientConnects(c)
    BY <1>0, <1>2, <2>1, <2>3 DEF ClientConnects, Served, TypeOK
  <2>4. CASE ClientLeaves(c, how)
    BY <1>0, <1>2, <2>1, <2>4 DEF ClientLeaves, Served, TypeOK
  <2> QED
    BY <2>2, <2>3, <2>4 DEF ClientWrites, ClientReads
<1>4. ASSUME received'[d] = received[d], sndbuf'[d] = sndbuf[d], rcvbuf'[d] = rcvbuf[d],
             sent'[d] = sent[d]
      PROVE  Whole(program', socket'[f], sent'[socket'[f]], Trail(f)')
  <2>1. Trail(f)' = Trail(f)
    BY <1>1, <1>2, <1>4, SameTrail
  <2> QED
    BY <1>1, <1>3, <1>4, <2>1, StillWhole
<1>5. CASE ClientConnects(c)
  BY <1>4, <1>5 DEF ClientConnects
<1>6. CASE ClientWrites(c)
  <2>1. CASE c # d
    BY <1>0, <1>2, <1>4, <1>6, <2>1 DEF ClientWrites, TypeOK
  <2>2. CASE c = d
    <3>1. /\ sent[d] \in Nat /\ sent[d] < EchoMax[d] /\ sent'[d] = sent[d] + 1
          /\ rcvbuf'[d] = Append(rcvbuf[d], Byte(d, sent[d] + 1))
          /\ UNCHANGED <<received, sndbuf>>
          /\ EchoMax[d] \in Nat
      BY <1>0, <1>6, <2>2, SizesAssumption DEF ClientWrites, TypeOK
    <3>2. PICK x \in Seq(Bytes), r \in Seq(Bytes) :
            /\ x = received[d] \o sndbuf[d] \o output_buffers[f] \o Hand(f)
            /\ r = rcvbuf[d] /\ Trail(f) = x \o r
      <4>1. /\ received[d] \o sndbuf[d] \o output_buffers[f] \o Hand(f) \in Seq(Bytes)
            /\ rcvbuf[d] \in Seq(Bytes)
            /\ Trail(f) = received[d] \o sndbuf[d] \o output_buffers[f] \o Hand(f) \o rcvbuf[d]
        BY <1>0, <1>2, TrailType
      <4> QED
        BY <4>1
    <3>3. PICK b \in Bytes : b = Byte(d, sent[d] + 1)
      <4>1. sent[d] + 1 \in 1 .. EchoMax[d]
        BY <3>1
      <4>2. <<d, sent[d] + 1>> \in {d} \X (1 .. EchoMax[d])
        BY <4>1
      <4> QED
        BY <1>2, <4>2 DEF Byte, Bytes
    <3>4. Trail(f)' = x \o Append(r, b)
      BY <1>1, <1>2, <3>1, <3>2, <3>3 DEF Trail, Hand
    <3>5. x \o Append(r, b) = Append(x \o r, b)
      BY AppendToConcat
    <3>6. Whole(program, d, sent[d], x \o r)
      BY <1>0, <1>3, <3>2 DEF WholeInv
    <3>7. x \o r \in Seq(Bytes)
      BY ConcatProperties
    <3>8. Whole(program, d, sent[d] + 1, Append(x \o r, Byte(d, sent[d] + 1)))
      BY <1>2, <3>1, <3>6, <3>7, WholeGrows
    <3> QED
      BY <1>1, <3>1, <3>3, <3>4, <3>5, <3>8
  <2> QED
    BY <2>1, <2>2
<1>7. CASE ClientReads(c)
  <2>1. CASE c # d
    BY <1>0, <1>2, <1>4, <1>7, <2>1 DEF ClientReads, TypeOK
  <2>2. CASE c = d
    <3>1. /\ sndbuf[d] # <<>> /\ received'[d] = Append(received[d], Head(sndbuf[d]))
          /\ sndbuf'[d] = Tail(sndbuf[d]) /\ UNCHANGED <<sent, rcvbuf>>
      BY <1>0, <1>7, <2>2 DEF ClientReads, TypeOK
    <3>2. PICK a \in Seq(Bytes), b \in Seq(Bytes) : a = received[d] /\ b = sndbuf[d]
      BY <1>0, <1>2, TrailType
    <3>3. Append(a, Head(b)) \o Tail(b) = a \o b
      BY <3>1, <3>2, MoveHead
    <3>4. Trail(f)' = Trail(f)
      BY <1>1, <1>2, <3>1, <3>2, <3>3 DEF Trail, Hand
    <3> QED
      BY <1>1, <1>3, <3>1, <3>4, StillWhole
  <2> QED
    BY <2>1, <2>2
<1>8. CASE ClientLeaves(c, how)
  <2>1. sndbuf'[d] = sndbuf[d]
    BY <1>0, <1>1, <1>2, <1>8 DEF ClientLeaves, Served, TypeOK
  <2> QED
    BY <1>4, <1>8, <2>1 DEF ClientLeaves
<1> QED
  BY <1>5, <1>6, <1>7, <1>8

\* Steps that touch no bytes.
LEMMA WholeQuiet ==
  ASSUME ByteInv,
         \/ UNCHANGED vars
         \/ Interrupt \/ Test \/ Wait \/ EndFor
         \/ \E f \in Sources : NextEvent(f)
         \/ \E d \in Clients : AcceptAndDrop(d)
         \/ EndAccept \/ AcceptFails \/ RecvOver \/ EchoDone \/ AskForOut \/ NothingToWrite
  PROVE  WholeInv'
<1>0. TypeOK
  BY DEF ByteInv, TypeInv
<1>1. /\ UNCHANGED <<program, sent, received, socket, rcvbuf, sndbuf, output_buffers, buffer>>
      /\ cur' = cur \/ buffer = <<>>
      /\ \A d \in Clients : client'[d] = client[d] \/ client'[d] = "gone"
  BY <1>0
  DEF Interrupt, Test, Wait, EndFor, NextEvent, AcceptAndDrop, EndAccept, AcceptFails, RecvOver,
      EchoDone, AskForOut, NothingToWrite, TypeOK
<1> SUFFICES ASSUME NEW f \in Fds, Served(f)'
             PROVE  Whole(program', socket'[f], sent'[socket'[f]], Trail(f)')
  BY DEF WholeInv
<1>2. Served(f)
  BY <1>0, <1>1 DEF Served, TypeOK
<1>3. Hand(f)' = Hand(f)
  BY <1>1 DEF Hand
<1>4. Trail(f)' = Trail(f)
  BY <1>1, <1>3, SameTrail
<1> QED
  BY <1>1, <1>2, <1>4, StillWhole

\* Whoever is accepted has sent what is in the receive buffer.
LEMMA WholeAccept ==
  ASSUME ByteInv, NEW c \in Clients, NEW g \in Fds, Accept(c, g)
  PROVE  WholeInv'
<1>0. TypeOK /\ PlaceInv /\ PeopleInv /\ FreshInv
  BY DEF ByteInv, TypeInv
<1>1. /\ UNCHANGED <<program, client, sent, received, rcvbuf, sndbuf, output_buffers, cur, buffer>>
      /\ c \in backlog /\ socket[g] = None /\ socket' = [socket EXCEPT ![g] = c]
      /\ buffer = <<>>
  BY <1>0 DEF Accept, TypeOK
<1> SUFFICES ASSUME NEW f \in Fds, Served(f)'
             PROVE  Whole(program', socket'[f], sent'[socket'[f]], Trail(f)')
  BY DEF WholeInv
<1>2. Hand(f)' = Hand(f) /\ Hand(f) = <<>>
  BY <1>1 DEF Hand
<1>3. CASE f # g
  <2>1. socket'[f] = socket[f] /\ Served(f)
    BY <1>0, <1>1, <1>3 DEF Served, TypeOK
  <2>2. Trail(f)' = Trail(f)
    BY <1>1, <1>2, <2>1, SameTrail
  <2> QED
    BY <1>1, <2>1, <2>2, StillWhole
<1>4. CASE f = g
  <2>1. /\ socket'[f] = c
        /\ received[c] = <<>> /\ sndbuf[c] = <<>> /\ Whole(program, c, sent[c], rcvbuf[c])
        /\ output_buffers[f] = <<>>
    BY <1>0, <1>1, <1>4 DEF FreshInv, PlaceInv, TypeOK
  <2>2. Trail(f)' = <<>> \o <<>> \o <<>> \o <<>> \o rcvbuf[c]
    BY <1>1, <1>2, <2>1 DEF Trail, Hand
  <2>3. PICK r \in Seq(Bytes) : r = rcvbuf[c]
    BY <1>0 DEF TypeOK
  <2>4. <<>> \o <<>> \o <<>> \o <<>> \o r = r
    BY ConcatEmptySeq, NoBytes
  <2> QED
    BY <1>1, <2>1, <2>2, <2>3, <2>4
<1> QED
  BY <1>3, <1>4


\* Where only the bytes of the client at hand move.
LEMMA WholeOthers ==
  ASSUME ByteInv, NEW f \in Fds, f # cur, Served(f)', cur \in Fds,
         UNCHANGED <<program, client, sent, received, cur>>,
         socket'[f] = socket[f], output_buffers'[f] = output_buffers[f],
         \A d \in Clients \ {Peer} : rcvbuf'[d] = rcvbuf[d] /\ sndbuf'[d] = sndbuf[d]
  PROVE  Whole(program', socket'[f], sent'[socket'[f]], Trail(f)')
<1>1. Served(f) /\ socket[f] \in Clients
  BY DEF Served, ByteInv, TypeInv, TypeOK
<1>2. socket[f] # Peer
  BY <1>1 DEF Served, ByteInv, DistinctInv, Peer
<1>3. Hand(f)' = Hand(f)
  BY DEF Hand
<1>4. Trail(f)' = Trail(f)
  BY <1>1, <1>2, <1>3, SameTrail
<1> QED
  BY <1>1, <1>4, StillWhole

\* The steps of the server with the descriptor at hand, where it stays open.
Serving == Recv \/ EchoSome \/ EchoAgain \/ EchoDrops \/ Write

LEMMA ServingEffect ==
  ASSUME TypeInv, Serving
  PROVE  /\ UNCHANGED <<program, client, sent, received, cur, socket>>
         /\ cur \in Fds /\ Peer \in Clients /\ Peer # None /\ socket[cur] = Peer
         /\ \A f \in Fds \ {cur} : output_buffers'[f] = output_buffers[f]
         /\ \A d \in Clients \ {Peer} : rcvbuf'[d] = rcvbuf[d] /\ sndbuf'[d] = sndbuf[d]
<1>0. TypeOK /\ PlaceInv
  BY DEF TypeInv
<1>1. pc \in {"recv", "echo", "out"} /\ cur \in Fds
  BY <1>0 DEF Serving, Recv, EchoSome, EchoAgain, EchoDrops, Write, PlaceInv
<1>2. Peer # None
  BY <1>0, <1>1 DEF Serving, Recv, EchoSome, EchoAgain, EchoDrops, Write, PlaceInv, Peer
<1>3. Peer \in Clients /\ socket[cur] = Peer
  BY <1>0, <1>1, <1>2 DEF TypeOK, Peer
<1>4. UNCHANGED <<program, client, sent, received, cur, socket>>
  BY DEF Serving, Recv, EchoSome, EchoAgain, EchoDrops, Write
<1>5. \A f \in Fds \ {cur} : output_buffers'[f] = output_buffers[f]
  BY <1>0 DEF Serving, Recv, EchoSome, EchoAgain, EchoDrops, Write, TypeOK
<1>6. \A d \in Clients \ {Peer} : rcvbuf'[d] = rcvbuf[d] /\ sndbuf'[d] = sndbuf[d]
  BY <1>0 DEF Serving, Recv, EchoSome, EchoAgain, EchoDrops, Write, TypeOK
<1> QED
  BY <1>1, <1>2, <1>3, <1>4, <1>5, <1>6

\* recv takes bytes where there are none in hand, and they come back to their place.
LEMMA TrailRecv ==
  ASSUME TypeInv, Recv
  PROVE  Trail(cur)' = Trail(cur)
<1>0. TypeOK /\ PlaceInv /\ Serving
  BY DEF TypeInv, Serving
<1> DEFINE d == Peer
<1>1. /\ UNCHANGED <<received, cur, socket, sndbuf, output_buffers>>
      /\ cur \in Fds /\ d \in Clients /\ socket[cur] = d /\ d # None
  BY <1>0, ServingEffect DEF Recv
<1>2. PICK n \in 0 .. Len(rcvbuf[d]) :
        /\ buffer' = Take(rcvbuf[d], n)
        /\ rcvbuf' = [rcvbuf EXCEPT ![d] = Drop(rcvbuf[d], n)]
  <2>1. Least(Len(rcvbuf[d]), ReadSize) \in 0 .. Len(rcvbuf[d])
    BY <1>0, <1>1, Sizes DEF Least
  <2> QED
    BY <2>1 DEF Recv
<1>3. buffer = <<>>
  BY <1>0 DEF Recv, TypeOK
<1>4. PICK x \in Seq(Bytes), r \in Seq(Bytes) :
        /\ x = received[d] \o sndbuf[d] \o output_buffers[cur]
        /\ r = rcvbuf[d]
  <2>1. /\ received[d] \o sndbuf[d] \o output_buffers[cur] \in Seq(Bytes)
        /\ rcvbuf[d] \in Seq(Bytes)
    BY <1>0, <1>1, TrailType
  <2> QED
    BY <2>1
<1>5. rcvbuf'[d] = Drop(r, n)
  BY <1>0, <1>1, <1>2, <1>4 DEF TypeOK
<1>6. PICK t \in Seq(Bytes), l \in Seq(Bytes) : t = Take(r, n) /\ l = Drop(r, n) /\ t \o l = r
  <2>1. n \in 0 .. Len(r)
    BY <1>2, <1>4
  <2> QED
    BY <2>1, PartsJoin
<1>7. Trail(cur)' = (x \o t) \o l
  BY <1>1, <1>2, <1>4, <1>5, <1>6 DEF Trail
<1>8. Trail(cur) = (x \o <<>>) \o r
  BY <1>1, <1>3, <1>4 DEF Trail
<1>9. (x \o t) \o l = x \o (t \o l) /\ x \o <<>> = x
  BY ConcatAssociative, ConcatEmptySeq, SMTT(30)
<1> QED
  BY <1>6, <1>7, <1>8, <1>9

\* What EAGAIN leaves is put behind what waits.
LEMMA TrailAgain ==
  ASSUME TypeInv, EchoAgain
  PROVE  Trail(cur)' = Trail(cur)
<1>0. TypeOK /\ PlaceInv /\ Serving
  BY DEF TypeInv, Serving
<1> DEFINE d == Peer
<1>1. /\ UNCHANGED <<received, cur, socket, sndbuf, rcvbuf>>
      /\ cur \in Fds /\ d \in Clients /\ socket[cur] = d /\ d # None
      /\ output_buffers'[cur] = output_buffers[cur] \o buffer /\ buffer' = <<>>
  BY <1>0, ServingEffect DEF EchoAgain, TypeOK
<1>2. PICK x \in Seq(Bytes), o \in Seq(Bytes), h \in Seq(Bytes) :
        x = received[d] \o sndbuf[d] /\ o = output_buffers[cur] /\ h = buffer
  <2>1. /\ received[d] \o sndbuf[d] \in Seq(Bytes) /\ output_buffers[cur] \in Seq(Bytes)
        /\ buffer \in Seq(Bytes)
    BY <1>0, <1>1, TrailType DEF TypeOK
  <2> QED
    BY <2>1
<1>3. (x \o (o \o h)) \o <<>> = x \o o \o h
  <2>1. PICK y \in Seq(Bytes) : y = x \o (o \o h)
    BY ConcatProperties
  <2>2. y \o <<>> = y
    BY ConcatEmptySeq
  <2>3. (x \o o) \o h = x \o (o \o h)
    BY ConcatAssociative, SMTT(60)
  <2> QED
    BY <2>1, <2>2, <2>3
<1> QED
  BY <1>1, <1>2, <1>3 DEF Trail

\* Without output_buffers send takes the bytes from the hand to where they come next.
LEMMA TrailEcho ==
  ASSUME TypeInv, EchoSome, program # "buffer"
  PROVE  Trail(cur)' = Trail(cur)
<1>0. TypeOK /\ PlaceInv /\ Serving
  BY DEF TypeInv, Serving
<1> DEFINE d == Peer
<1>1. /\ UNCHANGED <<received, cur, socket, rcvbuf, output_buffers>>
      /\ cur \in Fds /\ d \in Clients /\ socket[cur] = d /\ d # None
      /\ output_buffers[cur] = <<>>
  BY <1>0, ServingEffect DEF EchoSome, PlaceInv
<1>2. PICK n \in 0 .. Len(buffer) :
        /\ sndbuf' = [sndbuf EXCEPT ![d] = sndbuf[d] \o Take(buffer, n)]
        /\ buffer' = Drop(buffer, n)
  <2>1. Least(Len(buffer), SndCap - Len(sndbuf[d])) \in 0 .. Len(buffer)
    BY <1>0, <1>1, Sizes DEF Least, EchoSome
  <2> QED
    BY <2>1 DEF EchoSome
<1>3. PICK a \in Seq(Bytes), b \in Seq(Bytes), h \in Seq(Bytes) :
        a = received[d] /\ b = sndbuf[d] /\ h = buffer
  BY <1>0, <1>1 DEF TypeOK
<1>4. PICK t \in Seq(Bytes), l \in Seq(Bytes) :
        t = Take(h, n) /\ l = Drop(h, n) /\ t \o l = h
  <2>1. n \in 0 .. Len(h)
    BY <1>2, <1>3
  <2> QED
    BY <2>1, PartsJoin
<1>5. sndbuf'[d] = b \o t
  BY <1>0, <1>1, <1>2, <1>3, <1>4 DEF TypeOK
<1>6. Trail(cur)' = a \o (b \o t) \o <<>> \o l \o rcvbuf[d]
  BY <1>1, <1>2, <1>3, <1>4, <1>5 DEF Trail
<1>7. Trail(cur) = a \o b \o <<>> \o h \o rcvbuf[d]
  BY <1>1, <1>3 DEF Trail
<1>8. a \o (b \o t) \o <<>> = a \o (b \o t) /\ a \o b \o <<>> = a \o b
  <2>1. PICK u \in Seq(Bytes), v \in Seq(Bytes) : u = a \o (b \o t) /\ v = a \o b
    BY ConcatProperties
  <2> QED
    BY <2>1, ConcatEmptySeq
<1>9. (a \o (b \o t)) \o l = (a \o b) \o (t \o l)
  <2>1. (a \o b) \o t = a \o (b \o t)
    BY ConcatAssociative, SMTT(60)
  <2>2. PICK w \in Seq(Bytes) : w = a \o b
    BY ConcatProperties
  <2>3. (w \o t) \o l = w \o (t \o l)
    BY ConcatAssociative, SMTT(60)
  <2> QED
    BY <2>1, <2>2, <2>3
<1> QED
  BY <1>4, <1>6, <1>7, <1>8, <1>9


\* The EPOLLOUT branch takes the bytes from output_buffers to where they come next.
LEMMA TrailWrite ==
  ASSUME TypeInv, Write
  PROVE  Trail(cur)' = Trail(cur)
<1>0. TypeOK /\ Serving
  BY DEF TypeInv, Serving
<1> DEFINE d == Peer
<1>1. /\ UNCHANGED <<received, cur, socket, rcvbuf, buffer>>
      /\ cur \in Fds /\ d \in Clients /\ socket[cur] = d /\ d # None
  BY <1>0, ServingEffect DEF Write, locals
<1>2. PICK n \in Nat :
        /\ n <= Len(output_buffers[cur])
        /\ sndbuf' = [sndbuf EXCEPT ![d] = sndbuf[d] \o Take(output_buffers[cur], n)]
        /\ output_buffers' = [output_buffers EXCEPT ![cur] = Drop(output_buffers[cur], n)]
  BY WriteEffect
<1>3. PICK a \in Seq(Bytes), b \in Seq(Bytes), o \in Seq(Bytes) :
        a = received[d] /\ b = sndbuf[d] /\ o = output_buffers[cur]
  BY <1>0, <1>1 DEF TypeOK
<1>4. PICK t \in Seq(Bytes), l \in Seq(Bytes) :
        t = Take(o, n) /\ l = Drop(o, n) /\ t \o l = o
  <2>1. n \in 0 .. Len(o)
    BY <1>2, <1>3, LenProperties
  <2> QED
    BY <2>1, PartsJoin
<1>5. sndbuf'[d] = b \o t /\ output_buffers'[cur] = l
  BY <1>0, <1>1, <1>2, <1>3, <1>4 DEF TypeOK
<1>6. Trail(cur)' = a \o (b \o t) \o l \o buffer \o rcvbuf[d]
  BY <1>1, <1>3, <1>5 DEF Trail
<1>7. Trail(cur) = a \o b \o o \o buffer \o rcvbuf[d]
  BY <1>1, <1>3 DEF Trail
<1>8. (a \o (b \o t)) \o l = (a \o b) \o (t \o l)
  <2>1. (a \o b) \o t = a \o (b \o t)
    BY ConcatAssociative, SMTT(60)
  <2>2. PICK w \in Seq(Bytes) : w = a \o b
    BY ConcatProperties
  <2>3. (w \o t) \o l = w \o (t \o l)
    BY ConcatAssociative, SMTT(60)
  <2> QED
    BY <2>1, <2>2, <2>3
<1> QED
  BY <1>4, <1>6, <1>7, <1>8

\* What send takes overtakes what waits in output_buffers; nothing is lost or doubled.
LEMMA OvertakenIsWhole ==
  ASSUME ByteInv, EchoSome, program = "buffer", Served(cur)
  PROVE  Whole(program', socket'[cur], sent'[socket'[cur]], Trail(cur)')
<1>0. TypeInv /\ TypeOK /\ PlaceInv /\ Serving /\ WholeInv
  BY DEF ByteInv, TypeInv, Serving
<1> DEFINE d == Peer
<1>1. /\ UNCHANGED <<program, sent, received, cur, socket, rcvbuf, output_buffers>>
      /\ cur \in Fds /\ d \in Clients /\ socket[cur] = d /\ d # None
  BY <1>0, ServingEffect DEF EchoSome, outside
<1>2. PICK n \in 0 .. Len(buffer) :
        /\ sndbuf' = [sndbuf EXCEPT ![d] = sndbuf[d] \o Take(buffer, n)]
        /\ buffer' = Drop(buffer, n)
  <2>1. Least(Len(buffer), SndCap - Len(sndbuf[d])) \in 0 .. Len(buffer)
    BY <1>0, <1>1, Sizes DEF Least, EchoSome
  <2> QED
    BY <2>1 DEF EchoSome
<1>3. PICK a \in Seq(Bytes), b \in Seq(Bytes), o \in Seq(Bytes), h \in Seq(Bytes),
           r \in Seq(Bytes) :
        a = received[d] /\ b = sndbuf[d] /\ o = output_buffers[cur] /\ h = buffer
        /\ r = rcvbuf[d]
  BY <1>0, <1>1 DEF TypeOK
<1>4. PICK t \in Seq(Bytes), l \in Seq(Bytes) :
        t = Take(h, n) /\ l = Drop(h, n) /\ t \o l = h
  <2>1. n \in 0 .. Len(h)
    BY <1>2, <1>3
  <2> QED
    BY <2>1, PartsJoin
<1>5. sndbuf'[d] = b \o t
  BY <1>0, <1>1, <1>2, <1>3, <1>4 DEF TypeOK
<1>6. PICK x \in Seq(Bytes) : x = a \o b /\ x \o t = a \o (b \o t)
  <2>1. a \o b \in Seq(Bytes)
    BY ConcatProperties
  <2>2. (a \o b) \o t = a \o (b \o t)
    BY ConcatAssociative, SMTT(60)
  <2> QED
    BY <2>1, <2>2
<1>7. PICK p1 \in Seq(Bytes), p2 \in Seq(Bytes), p3 \in Seq(Bytes), q1 \in Seq(Bytes),
           q2 \in Seq(Bytes) :
        /\ p1 = x \o t /\ p2 = p1 \o o /\ p3 = p2 \o l
        /\ q1 = x \o o /\ q2 = q1 \o h
  <2>1. \A s, u \in Seq(Bytes) : s \o u \in Seq(Bytes)
    BY ConcatProperties
  <2> QED
    BY <2>1
<1>8. Trail(cur)' = p3 \o r /\ Trail(cur) = q2 \o r
  BY <1>1, <1>2, <1>3, <1>4, <1>5, <1>6, <1>7 DEF Trail
<1>9. Len(p3 \o r) = Len(q2 \o r)
  <2>1. \A s, u \in Seq(Bytes) :
          Len(s \o u) = Len(s) + Len(u) /\ Len(s) \in Nat /\ Len(u) \in Nat
    BY ConcatProperties, LenProperties
  <2>2. /\ Len(x) \in Nat /\ Len(t) \in Nat /\ Len(o) \in Nat /\ Len(l) \in Nat
        /\ Len(r) \in Nat
    BY <2>1
  <2>3. Len(p3 \o r) = Len(x) + Len(t) + Len(o) + Len(l) + Len(r)
    <3>1. Len(p1) = Len(x) + Len(t) /\ Len(p2) = Len(p1) + Len(o)
      BY <1>7, <2>1
    <3>2. Len(p3) = Len(p2) + Len(l) /\ Len(p3 \o r) = Len(p3) + Len(r)
      BY <1>7, <2>1
    <3> QED
      BY <2>2, <3>1, <3>2
  <2>4. Len(q2 \o r) = Len(x) + Len(o) + (Len(t) + Len(l)) + Len(r)
    <3>1. Len(q1) = Len(x) + Len(o) /\ Len(q2) = Len(q1) + Len(h)
      BY <1>7, <2>1
    <3>2. Len(h) = Len(t) + Len(l) /\ Len(q2 \o r) = Len(q2) + Len(r)
      BY <1>4, <2>1
    <3> QED
      BY <2>2, <3>1, <3>2
  <2> QED
    BY <2>2, <2>3, <2>4
<1>10. Elements(p3 \o r) = Elements(q2 \o r)
  <2>1. \A s, u \in Seq(Bytes) : Elements(s \o u) = Elements(s) \union Elements(u)
    BY ElementsOfTwo
  <2>2. Elements(p3 \o r) = Elements(x) \union Elements(t) \union Elements(o)
                              \union Elements(l) \union Elements(r)
    <3>1. Elements(p1) = Elements(x) \union Elements(t)
      BY <1>7, <2>1
    <3>2. Elements(p2) = Elements(p1) \union Elements(o)
      BY <1>7, <2>1
    <3>3. Elements(p3) = Elements(p2) \union Elements(l)
      BY <1>7, <2>1
    <3>4. Elements(p3 \o r) = Elements(p3) \union Elements(r)
      BY <2>1
    <3> QED
      BY <3>1, <3>2, <3>3, <3>4
  <2>3. Elements(q2 \o r) = Elements(x) \union Elements(o)
                              \union (Elements(t) \union Elements(l)) \union Elements(r)
    <3>1. Elements(q1) = Elements(x) \union Elements(o)
      BY <1>7, <2>1
    <3>2. Elements(q2) = Elements(q1) \union Elements(h)
      BY <1>7, <2>1
    <3>3. Elements(h) = Elements(t) \union Elements(l)
      BY <1>4, <2>1
    <3>4. Elements(q2 \o r) = Elements(q2) \union Elements(r)
      BY <2>1
    <3> QED
      BY <3>1, <3>2, <3>3, <3>4
  <2> QED
    BY <2>2, <2>3
<1>11. Whole("buffer", d, sent[d], q2 \o r)
  BY <1>0, <1>1, <1>8 DEF WholeInv
<1>12. Whole("buffer", d, sent[d], p3 \o r)
  BY <1>9, <1>10, <1>11 DEF Whole
<1> QED
  BY <1>1, <1>8, <1>12

\* Without output_buffers the rest of the bytes in hand is lost, and what is left is in order.
LEMMA DroppedIsWhole ==
  ASSUME ByteInv, EchoDrops, Served(cur)
  PROVE  Whole(program', socket'[cur], sent'[socket'[cur]], Trail(cur)')
<1>0. TypeInv /\ TypeOK /\ Serving /\ WholeInv
  BY DEF ByteInv, TypeInv, Serving
<1> DEFINE d == Peer
<1>1. /\ UNCHANGED <<program, sent, received, cur, socket, rcvbuf, sndbuf, output_buffers>>
      /\ cur \in Fds /\ d \in Clients /\ socket[cur] = d /\ d # None
      /\ buffer' = <<>> /\ program # "buffer"
  BY <1>0, ServingEffect DEF EchoDrops, outside, kernel
<1>2. PICK x \in Seq(Bytes), h \in Seq(Bytes), r \in Seq(Bytes) :
        /\ x = received[d] \o sndbuf[d] \o output_buffers[cur]
        /\ h = buffer /\ r = rcvbuf[d]
  <2>1. /\ received[d] \o sndbuf[d] \o output_buffers[cur] \in Seq(Bytes)
        /\ rcvbuf[d] \in Seq(Bytes) /\ buffer \in Seq(Bytes)
    BY <1>0, <1>1, TrailType DEF TypeOK
  <2> QED
    BY <2>1
<1>3. Trail(cur) = x \o h \o r /\ Trail(cur)' = x \o <<>> \o r
  BY <1>1, <1>2 DEF Trail
<1>4. Trail(cur)' = x \o r
  BY <1>3, ConcatEmptySeq
<1>5. Whole(program, d, sent[d], x \o h \o r)
  BY <1>0, <1>1, <1>3 DEF WholeInv
<1>6. Whole(program, d, sent[d], x \o r)
  BY <1>1, <1>5, WholeWithout
<1> QED
  BY <1>1, <1>4, <1>6

LEMMA WholeServing ==
  ASSUME ByteInv, Serving
  PROVE  WholeInv'
<1>0. TypeInv
  BY DEF ByteInv
<1>1. /\ UNCHANGED <<program, client, sent, received, cur, socket>>
      /\ cur \in Fds /\ Peer \in Clients
      /\ \A f \in Fds \ {cur} : output_buffers'[f] = output_buffers[f]
      /\ \A d \in Clients \ {Peer} : rcvbuf'[d] = rcvbuf[d] /\ sndbuf'[d] = sndbuf[d]
  BY <1>0, ServingEffect
<1> SUFFICES ASSUME NEW f \in Fds, Served(f)'
             PROVE  Whole(program', socket'[f], sent'[socket'[f]], Trail(f)')
  BY DEF WholeInv
<1>2. Served(f)
  BY <1>1 DEF Served
<1>3. CASE f # cur
  BY <1>1, <1>3, WholeOthers
<1>4. CASE f = cur
  <2>1. CASE Trail(cur)' = Trail(cur)
    <3>1. Trail(f)' = Trail(f)
      BY <1>1, <1>4, <2>1 DEF Trail
    <3> QED
      BY <1>1, <1>2, <3>1, StillWhole
  <2>2. CASE EchoSome /\ program = "buffer"
    BY <1>1, <1>2, <1>4, <2>2, OvertakenIsWhole DEF Trail
  <2>3. CASE EchoDrops
    BY <1>1, <1>2, <1>4, <2>3, DroppedIsWhole DEF Trail
  <2> QED
    BY <1>0, <2>1, <2>2, <2>3, TrailRecv, TrailAgain, TrailEcho, TrailWrite DEF Serving
<1> QED
  BY <1>3, <1>4

\* A descriptor is closed, or the process ends.
LEMMA WholeClosing ==
  ASSUME ByteInv, RecvEnd \/ EchoFails \/ WriteFails
  PROVE  WholeInv'
<1>0. TypeOK /\ PlaceInv
  BY DEF ByteInv, TypeInv
<1>1. /\ UNCHANGED <<program, client, sent, received, cur, rcvbuf, sndbuf>>
      /\ cur \in Fds
      /\ \A f \in Fds \ {cur} :
           socket'[f] = socket[f] /\ output_buffers'[f] = output_buffers[f]
  BY <1>0 DEF RecvEnd, EchoFails, WriteFails, CloseCurrent, PlaceInv, TypeOK
<1>2. ~Served(cur)'
  <2>1. CASE CloseCurrent
    BY <1>0, <1>1, <2>1 DEF CloseCurrent, Served, TypeOK
  <2>2. CASE UNCHANGED socket /\ client[Peer] = "gone"
    BY <1>1, <2>2 DEF Served, Peer
  <2> QED
    BY <2>1, <2>2 DEF RecvEnd, EchoFails, WriteFails
<1> SUFFICES ASSUME NEW f \in Fds, Served(f)'
             PROVE  Whole(program', socket'[f], sent'[socket'[f]], Trail(f)')
  BY DEF WholeInv
<1> QED
  BY <1>1, <1>2, WholeOthers

LEMMA ByteStep ==
  ASSUME ByteInv, [Next]_vars
  PROVE  ByteInv'
<1>1. TypeInv' /\ PeopleInv' /\ DistinctInv' /\ FreshInv'
  BY TypeStep, PeopleStep, DistinctKept, FreshKept DEF ByteInv
<1>2. WholeInv'
  BY WholeClient, WholeQuiet, WholeAccept, WholeServing, WholeClosing
  DEF Next, Server, Serving
<1> QED
  BY <1>1, <1>2 DEF ByteInv

LEMMA ByteInit ==
  ASSUME Init
  PROVE  ByteInv
<1>1. TypeInv /\ PeopleInv
  BY EdgeInit DEF EdgeInv
<1>2. DistinctInv /\ WholeInv
  BY DEF Init, DistinctInv, WholeInv, Served
<1>3. FreshInv
  BY NothingIsWhole DEF Init, FreshInv
<1> QED
  BY <1>1, <1>2, <1>3 DEF ByteInv

\* While a client is connected each of its bytes is in one place, with output_buffers;
\* without them bytes may be lost, and what is there is in order.  In both cases no byte
\* is another client's, whoever had the descriptor before.
THEOREM EchoIsWhole == SafeSpec => []EchoIsComplete
<1>1. Init => ByteInv
  BY ByteInit
<1>2. ByteInv /\ [Next]_vars => ByteInv'
  BY ByteStep
<1>3. ASSUME ByteInv
      PROVE  EchoIsComplete
  BY <1>3 DEF ByteInv, WholeInv, Served, Whole, Elements, EchoIsComplete
<1> QED
  BY <1>1, <1>2, <1>3, PTL DEF SafeSpec
=============================================================================
