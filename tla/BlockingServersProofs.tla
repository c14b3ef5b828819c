----------------------- MODULE BlockingServersProofs -----------------------
(***************************************************************************)
(* Proofs about the blocking servers, for any number of clients and any    *)
(* sizes of buffers.                                                       *)
(***************************************************************************)
EXTENDS BlockingServers, SequenceTheorems, TLAPS

-----------------------------------------------------------------------------
(* Facts about buffers. *)

\* A buffer is cut in two; the two parts are the buffer.
LEMMA PartsOfBuffer ==
  ASSUME NEW S, NEW s \in Seq(S), NEW n \in 0 .. Len(s)
  PROVE  /\ Take(s, n) \in Seq(S) /\ Len(Take(s, n)) = n
         /\ Drop(s, n) \in Seq(S) /\ Len(Drop(s, n)) = Len(s) - n
         /\ Take(s, n) \o Drop(s, n) = s
<1>1. Len(s) \in Nat /\ \A i \in 1 .. Len(s) : s[i] \in S
  BY LenProperties, ElementOfSeq
<1>2. Take(s, n) \in Seq(S) /\ Len(Take(s, n)) = n
  BY <1>1, SubSeqProperties DEF Take
<1>3. Drop(s, n) \in Seq(S) /\ Len(Drop(s, n)) = Len(s) - n
  BY <1>1, SubSeqProperties DEF Drop
<1>4. 1 \in 1 .. Len(s) + 1 /\ n \in 1 - 1 .. Len(s) /\ Len(s) \in n .. Len(s)
  BY <1>1
<1>5. SubSeq(s, 1, n) \o SubSeq(s, n + 1, Len(s)) = SubSeq(s, 1, Len(s))
  BY <1>4, ConcatAdjacentSubSeq
<1> QED
  BY <1>2, <1>3, <1>5, SubSeqFull DEF Take, Drop

\* Reading a byte moves it from what waits to what was read.
LEMMA MoveHead ==
  ASSUME NEW S, NEW d \in Seq(S), NEW s \in Seq(S), s # <<>>
  PROVE  Append(d, Head(s)) \o Tail(s) = d \o s
<1>1. Head(s) \in S /\ Tail(s) \in Seq(S) /\ Len(s) \in Nat \ {0}
  BY HeadTailProperties, EmptySeq
<1>2. s = <<Head(s)>> \o Tail(s)
  <2>1. SubSeq(s, 1, Len(s)) = <<s[1]>> \o SubSeq(s, 1 + 1, Len(s))
    BY <1>1, SubSeqRecursiveFirst
  <2>2. Head(s) = s[1] /\ Tail(s) = SubSeq(s, 1 + 1, Len(s))
    BY <1>1, TailIsSubSeq
  <2> QED
    BY <2>1, <2>2, SubSeqFull
<1>3. <<Head(s)>> \in Seq(S)
  BY <1>1
<1>4. Append(d, Head(s)) = d \o <<Head(s)>>
  BY <1>1, AppendIsConcat
<1>5. (d \o <<Head(s)>>) \o Tail(s) = d \o (<<Head(s)>> \o Tail(s))
  BY <1>1, <1>3, ConcatAssociative
<1> QED
  BY <1>2, <1>4, <1>5

\* What is put at the end of the last part is put at the end of the whole.
LEMMA AppendToConcat ==
  ASSUME NEW S, NEW d \in Seq(S), NEW s \in Seq(S), NEW e \in S
  PROVE  d \o Append(s, e) = Append(d \o s, e)
<1>1. <<e>> \in Seq(S)
  OBVIOUS
<1>2. d \o Append(s, e) = d \o (s \o <<e>>)
  BY AppendIsConcat
<1>3. Append(d \o s, e) = (d \o s) \o <<e>>
  BY ConcatProperties, AppendIsConcat
<1> QED
  BY <1>1, <1>2, <1>3, ConcatAssociative

-----------------------------------------------------------------------------
(* Where everybody is. *)

Waiters == {backlog[i] : i \in DOMAIN backlog}

\* A client waits in the backlog once and until main takes it; then it has a handler of
\* its own, which serves no other.
PlaceInv ==
  /\ \A i, j \in DOMAIN backlog : i # j => backlog[i] # backlog[j]
  /\ \A c \in Clients :
       /\ client[c] = "none" => handler[c] = "none" /\ c \notin Waiters
       /\ handler[c] # "none" => c \notin Waiters
       /\ serves[c] \in {None, c}
       /\ handler[c] \in {"recv", "send", "sending", "closing"} => serves[c] = c
  /\ pc \in {"create", "parent", "serve"} => cur \in Clients
  /\ pc = "create" => client[cur] # "none" /\ handler[cur] = "none" /\ cur \notin Waiters

TypeInv == TypeOK /\ PlaceInv

\* What closing a socket does to the types, and what it leaves alone.
LEMMA CloseEffect ==
  ASSUME TypeOK, NEW p, NEW cs, NEW l, Close(p, cs, l)
  PROVE  /\ client' \in [Clients -> {"none", "open", "finished", "gone"}]
         /\ holders' \in [Clients -> SUBSET (Clients \union {Main})]
         /\ listening' \in SUBSET (Clients \union {Main})
         /\ backlog' \in Seq(Clients)
         /\ backlog' = backlog \/ backlog' = <<>>
         /\ \A c \in Clients : client'[c] = client[c] \/ (client[c] = "open" /\ client'[c] = "gone")
<1>1. client' \in [Clients -> {"none", "open", "finished", "gone"}]
  BY DEF TypeOK, Close
<1>2. holders' \in [Clients -> SUBSET (Clients \union {Main})]
  BY DEF TypeOK, Close
<1>3. listening' \in SUBSET (Clients \union {Main})
  BY DEF TypeOK, Close
<1>4. backlog' \in Seq(Clients) /\ (backlog' = backlog \/ backlog' = <<>>)
  BY EmptySeq DEF TypeOK, Close
<1>5. \A c \in Clients : client'[c] = client[c] \/ (client[c] = "open" /\ client'[c] = "gone")
  BY DEF TypeOK, Close
<1> QED
  BY <1>1, <1>2, <1>3, <1>4, <1>5

\* The same of the end of a process, and what becomes of its handlers.
LEMMA ExitEffect ==
  ASSUME TypeOK, NEW p, Exit(p)
  PROVE  /\ handler' \in [Clients -> Places]
         /\ buffer' \in [Clients -> Seq(Bytes)]
         /\ \A h \in Clients :
              /\ handler'[h] = handler[h] \/ (handler[h] # "none" /\ handler'[h] = "ended")
              /\ buffer'[h] = buffer[h] \/ buffer'[h] = <<>>
              /\ buffer'[h] # <<>> => handler'[h] = handler[h]
<1>1. handler' \in [Clients -> Places]
  BY DEF TypeOK, Exit, Places
<1>2. buffer' \in [Clients -> Seq(Bytes)]
  <2>1. <<>> \in Seq(Bytes)
    BY EmptySeq
  <2> QED
    BY <2>1 DEF TypeOK, Exit
<1>3. ASSUME NEW h \in Clients
      PROVE  /\ handler'[h] = handler[h] \/ (handler[h] # "none" /\ handler'[h] = "ended")
             /\ buffer'[h] = buffer[h] \/ buffer'[h] = <<>>
             /\ buffer'[h] # <<>> => handler'[h] = handler[h]
  BY DEF TypeOK, Exit
<1> QED
  BY <1>1, <1>2, <1>3

\* What stays of the types and places when sockets are closed and processes end.
LEMMA ClosedKeepsTypes ==
  ASSUME TypeInv, NEW p, NEW cs, NEW l, Close(p, cs, l),
         UNCHANGED <<program, sent, received, sockets, cur, running, heeded>>,
         pc' \in {"test", "accept", "create", "parent", "serve", "returned", "killed"},
         pc' \in {"create", "parent", "serve"} => pc' = pc,
         serves' \in [Clients -> Clients \union {None}],
         handler' \in [Clients -> Places],
         buffer' \in [Clients -> Seq(Bytes)],
         \A h \in Clients :
           /\ serves'[h] \in {serves[h], h}
           /\ handler'[h] = "none" <=> handler[h] = "none"
           /\ \/ handler'[h] = handler[h] /\ serves'[h] = serves[h]
              \/ handler'[h] = "recv" /\ serves'[h] = h /\ buffer'[h] = <<>>
              \/ handler'[h] = "ended" /\ serves'[h] = serves[h] /\ buffer'[h] = <<>>
           /\ buffer'[h] = buffer[h] \/ buffer'[h] = <<>>
  PROVE  TypeInv'
<1> USE DEF TypeInv
<1>1. /\ client' \in [Clients -> {"none", "open", "finished", "gone"}]
      /\ holders' \in [Clients -> SUBSET (Clients \union {Main})]
      /\ listening' \in SUBSET (Clients \union {Main})
      /\ backlog' \in Seq(Clients)
      /\ backlog' = backlog \/ backlog' = <<>>
      /\ \A c \in Clients : client'[c] = client[c] \/ (client[c] = "open" /\ client'[c] = "gone")
  BY CloseEffect
<1>2. ASSUME NEW h \in Clients
      PROVE  /\ Len(buffer'[h]) <= ReadSize
             /\ buffer'[h] # <<>> => handler'[h] \in {"send", "sending"}
  <2>1. ReadSize \in Nat /\ Len(<<>>) = 0
    BY ProgramsAssumption, EmptySeq
  <2> QED
    BY <2>1 DEF TypeOK
<1>3. TypeOK'
  BY <1>1, <1>2 DEF TypeOK, sockets
<1>4. DOMAIN <<>> = {}
  <2>1. <<>> \in Seq(Clients) /\ Len(<<>>) = 0
    BY EmptySeq
  <2>2. DOMAIN <<>> = 1 .. 0
    BY <2>1, LenProperties
  <2> QED
    BY <2>2
<1>5. Waiters' \subseteq Waiters
  BY <1>1, <1>4 DEF Waiters
<1>6. PlaceInv'
  <2>1. \A i, j \in DOMAIN backlog' : i # j => backlog'[i] # backlog'[j]
    BY <1>1, <1>4 DEF PlaceInv
  <2>2. ASSUME NEW c \in Clients
        PROVE  /\ client'[c] = "none" => handler'[c] = "none" /\ c \notin Waiters'
               /\ handler'[c] # "none" => c \notin Waiters'
               /\ serves'[c] \in {None, c}
               /\ handler'[c] \in {"recv", "send", "sending", "closing"} => serves'[c] = c
    BY <1>1, <1>5 DEF PlaceInv
  <2>3. pc' \in {"create", "parent", "serve"} => cur' \in Clients
    BY DEF PlaceInv
  <2>4. pc' = "create" => client'[cur'] # "none" /\ handler'[cur'] = "none" /\ cur' \notin Waiters'
    BY <1>1, <1>5 DEF PlaceInv
  <2> QED
    BY <2>1, <2>2, <2>3, <2>4 DEF PlaceInv
<1> QED
  BY <1>3, <1>6

LEMMA ClientsKeepTypes ==
  ASSUME TypeInv, NEW c \in Clients,
         \/ ClientConnects(c) \/ ClientWrites(c) \/ ClientReads(c)
         \/ \E how \in {"finished", "gone"} : ClientLeaves(c, how)
  PROVE  TypeInv'
<1> USE DEF TypeInv
<1>1. CASE ClientConnects(c)
  <2>1. /\ backlog' \in Seq(Clients)
        /\ DOMAIN backlog' = 1 .. Len(backlog) + 1
        /\ DOMAIN backlog = 1 .. Len(backlog) /\ Len(backlog) \in Nat
        /\ \A i \in 1 .. Len(backlog) : backlog'[i] = backlog[i]
        /\ backlog'[Len(backlog) + 1] = c
    BY <1>1, AppendProperties, LenProperties DEF ClientConnects, TypeOK
  <2>2. TypeOK'
    BY <1>1, <2>1 DEF ClientConnects, TypeOK, sockets, hands, signal
  <2>3. Waiters' = Waiters \union {c}
    BY <2>1 DEF Waiters
  <2>4. c \notin Waiters
    BY <1>1 DEF ClientConnects, PlaceInv
  <2>5. \A i, j \in DOMAIN backlog' : i # j => backlog'[i] # backlog'[j]
    BY <2>1, <2>4 DEF PlaceInv, Waiters
  <2>6. PlaceInv'
    BY <1>1, <2>3, <2>5 DEF ClientConnects, PlaceInv, TypeOK, hands
  <2> QED
    BY <2>2, <2>6
<1>2. CASE ClientWrites(c)
  <2>0. /\ sent[c] + 1 \in 1 .. EchoMax[c] /\ sent' = [sent EXCEPT ![c] = sent[c] + 1]
        /\ sent \in [Clients -> Nat] /\ \A d \in Clients : sent[d] <= EchoMax[d]
        /\ EchoMax[c] \in Nat
    <3>1. EchoMax[c] \in Nat
      BY ProgramsAssumption
    <3>2. sent \in [Clients -> Nat] /\ \A d \in Clients : sent[d] <= EchoMax[d]
      BY DEF TypeOK
    <3>3. sent[c] < EchoMax[c] /\ sent' = [sent EXCEPT ![c] = sent[c] + 1]
      BY <1>2 DEF ClientWrites
    <3> QED
      BY <3>1, <3>2, <3>3
  <2>1. <<c, sent[c] + 1>> \in Bytes
    BY <2>0 DEF Bytes
  <2>2. rcvbuf' \in [Clients -> Seq(Bytes)]
    BY <1>2, <2>1, AppendProperties DEF ClientWrites, TypeOK
  <2>3. sent' \in [Clients -> Nat] /\ \A d \in Clients : sent'[d] <= EchoMax[d]
    BY <2>0
  <2>4. TypeOK'
    BY <1>2, <2>2, <2>3 DEF ClientWrites, TypeOK, open, hands, signal
  <2>5. PlaceInv'
    BY <1>2 DEF ClientWrites, PlaceInv, Waiters, open, hands
  <2> QED
    BY <2>4, <2>5
<1>3. CASE ClientReads(c)
  <2>1. /\ Head(sndbuf[c]) \in Bytes /\ Tail(sndbuf[c]) \in Seq(Bytes)
        /\ Len(Tail(sndbuf[c])) = Len(sndbuf[c]) - 1
        /\ Len(sndbuf[c]) \in Nat /\ Len(sndbuf[c]) <= SndCap /\ SndCap \in Nat
    BY <1>3, HeadTailProperties, LenProperties, ProgramsAssumption DEF ClientReads, TypeOK
  <2>2. received' \in [Clients -> Seq(Bytes)]
    BY <1>3, <2>1, AppendProperties DEF ClientReads, TypeOK
  <2>3. sndbuf' \in [Clients -> Seq(Bytes)] /\ \A d \in Clients : Len(sndbuf'[d]) <= SndCap
    BY <1>3, <2>1 DEF ClientReads, TypeOK
  <2>4. TypeOK'
    BY <1>3, <2>2, <2>3 DEF ClientReads, TypeOK, open, hands, signal
  <2>5. PlaceInv'
    BY <1>3 DEF ClientReads, PlaceInv, Waiters, open, hands
  <2> QED
    BY <2>4, <2>5
<1>4. ASSUME NEW how \in {"finished", "gone"}, ClientLeaves(c, how)
      PROVE  TypeInv'
  <2>1. sndbuf' \in [Clients -> Seq(Bytes)] /\ \A d \in Clients : Len(sndbuf'[d]) <= SndCap
    <3>1. <<>> \in Seq(Bytes) /\ Len(<<>>) = 0 /\ SndCap \in Nat
      BY EmptySeq, ProgramsAssumption
    <3> QED
      BY <1>4, <3>1 DEF ClientLeaves, TypeOK
  <2>2. client' \in [Clients -> {"none", "open", "finished", "gone"}]
    BY <1>4 DEF ClientLeaves, TypeOK
  <2>3. TypeOK'
    BY <1>4, <2>1, <2>2 DEF ClientLeaves, TypeOK, hands, signal
  <2>4. PlaceInv'
    BY <1>4 DEF ClientLeaves, PlaceInv, TypeOK, Waiters, hands
  <2> QED
    BY <2>3, <2>4
<1> QED
  BY <1>1, <1>2, <1>3, <1>4

LEMMA MainKeepsTypes ==
  ASSUME TypeInv, MainLoop
  PROVE  TypeInv'
<1> USE DEF TypeInv
<1>1. CASE Test
  <2>1. CASE running
    <3>1. TypeOK'
      BY <1>1, <2>1 DEF Test, TypeOK, open, sockets, signal
    <3>2. PlaceInv'
      BY <1>1, <2>1 DEF Test, PlaceInv, Waiters, open
    <3> QED
      BY <3>1, <3>2
  <2>2. CASE ~running
    <3>1. Exit(Main) /\ Close(Main, Clients, {Main}) /\ pc' = "returned" /\ serves' = serves
      BY <1>1, <2>2 DEF Test, Exit
    <3>2. \A h \in Clients : handler'[h] = handler[h] \/ buffer'[h] = <<>>
      BY <3>1, ExitEffect
    <3> QED
      BY <1>1, <3>1, <3>2, ExitEffect, ClosedKeepsTypes DEF Test, TypeOK, signal
  <2> QED
    BY <2>1, <2>2
<1>2. CASE AcceptFails
  <2>1. TypeOK'
    BY <1>2 DEF AcceptFails, TypeOK, outside, sockets, hands, signal
  <2>2. PlaceInv'
    BY <1>2 DEF AcceptFails, PlaceInv, Waiters, outside, hands
  <2> QED
    BY <2>1, <2>2
<1>3. CASE Accept
  <2> DEFINE c == Head(backlog)
  <2>1. /\ c \in Clients
        /\ backlog' \in Seq(Clients)
        /\ Len(backlog) \in Nat \ {0}
        /\ c = backlog[1]
        /\ DOMAIN backlog = 1 .. Len(backlog)
        /\ DOMAIN backlog' = 1 .. Len(backlog) - 1
        /\ \A i \in 1 .. Len(backlog) - 1 : backlog'[i] = backlog[i + 1]
    <3>1. /\ backlog' = Tail(backlog) /\ backlog # <<>> /\ backlog \in Seq(Clients)
      BY <1>3 DEF Accept, TypeOK
    <3>2. /\ c \in Clients /\ backlog' \in Seq(Clients) /\ Len(backlog) \in Nat \ {0}
          /\ Len(backlog') = Len(backlog) - 1
          /\ \A i \in 1 .. Len(backlog') : backlog'[i] = backlog[i + 1]
      BY <3>1, HeadTailProperties, EmptySeq
    <3>3. DOMAIN backlog = 1 .. Len(backlog) /\ DOMAIN backlog' = 1 .. Len(backlog')
      BY <3>1, <3>2, LenProperties
    <3>4. c = backlog[1]
      BY <3>1
    <3> QED
      BY <3>2, <3>3, <3>4
  <2> HIDE DEF c
  <2>2. c \in Waiters /\ handler[c] = "none" /\ client[c] # "none"
    BY <2>1 DEF PlaceInv, Waiters
  <2>3. /\ Waiters' \subseteq Waiters /\ c \notin Waiters'
        /\ \A i, j \in DOMAIN backlog' : i # j => backlog'[i] # backlog'[j]
    <3>1. \A i \in DOMAIN backlog' : /\ i + 1 \in DOMAIN backlog /\ i + 1 # 1
                                     /\ backlog'[i] = backlog[i + 1]
      BY <2>1
    <3>2. \A i, j \in DOMAIN backlog' : i # j => i + 1 # j + 1
      BY <2>1
    <3>3. 1 \in DOMAIN backlog /\ \A i, j \in DOMAIN backlog : i # j => backlog[i] # backlog[j]
      BY <2>1 DEF PlaceInv
    <3>4. \A i, j \in DOMAIN backlog' : i # j => backlog'[i] # backlog'[j]
      BY <3>1, <3>2, <3>3
    <3>5. \A i \in DOMAIN backlog' : backlog'[i] \in Waiters /\ backlog'[i] # c
      BY <2>1, <3>1, <3>3 DEF Waiters
    <3> QED
      BY <3>4, <3>5 DEF Waiters
  <2>5. /\ cur' = c /\ client' = client /\ buffer' = buffer
        /\ holders' = [holders EXCEPT ![c] = {Main}]
        /\ \/ /\ pc' = "serve"
              /\ handler' = [handler EXCEPT ![c] = "recv"]
              /\ serves' = [serves EXCEPT ![c] = c]
           \/ pc' = "create" /\ handler' = handler /\ serves' = serves
    BY <1>3, <2>1 DEF Accept, outside, c
  <2>6. \A h \in Clients : buffer'[h] # <<>> => handler'[h] \in {"send", "sending"}
    BY <2>1, <2>2, <2>5 DEF TypeOK
  <2>7. TypeOK'
    <3>1. UNCHANGED <<program, outside, sockets, listening, buffer, signal>>
      BY <1>3 DEF Accept
    <3>2. /\ pc' \in {"serve", "create"} /\ cur' \in Clients
          /\ holders' \in [Clients -> SUBSET (Clients \union {Main})]
          /\ handler' \in [Clients -> Places]
          /\ serves' \in [Clients -> Clients \union {None}]
      BY <2>1, <2>5 DEF TypeOK, Places
    <3> QED
      BY <2>1, <2>6, <3>1, <3>2 DEF TypeOK, outside, sockets, signal
  <2>8. PlaceInv'
    <3>1. ASSUME NEW d \in Clients
          PROVE  /\ client'[d] = "none" => handler'[d] = "none" /\ d \notin Waiters'
                 /\ handler'[d] # "none" => d \notin Waiters'
                 /\ serves'[d] \in {None, d}
                 /\ handler'[d] \in {"recv", "send", "sending", "closing"} => serves'[d] = d
      <4>1. /\ client'[d] = client[d]
            /\ d # c => handler'[d] = handler[d] /\ serves'[d] = serves[d]
            /\ d = c => \/ handler'[d] = "recv" /\ serves'[d] = d
                        \/ handler'[d] = handler[d] /\ serves'[d] = serves[d]
        BY <2>1, <2>5, ZenonT(30) DEF TypeOK
      <4> QED
        BY <2>1, <2>2, <2>3, <4>1 DEF PlaceInv
    <3>2. /\ pc' \in {"create", "parent", "serve"} => cur' \in Clients
          /\ pc' = "create" => client'[cur'] # "none" /\ handler'[cur'] = "none" /\ cur' \notin Waiters'
      BY <2>1, <2>2, <2>3, <2>5
    <3> QED
      BY <2>3, <3>1, <3>2 DEF PlaceInv
  <2> QED
    BY <2>7, <2>8
<1>4. CASE Fork
  <2>1. cur \in Clients /\ handler[cur] = "none"
    BY <1>4 DEF Fork, PlaceInv
  <2>2. /\ holders' \in [Clients -> SUBSET (Clients \union {Main})]
        /\ listening' \in SUBSET (Clients \union {Main})
        /\ handler' \in [Clients -> Places]
    BY <1>4, <2>1 DEF Fork, TypeOK, Places
  <2>3. \A h \in Clients : buffer'[h] # <<>> => handler'[h] \in {"send", "sending"}
    BY <1>4, <2>1 DEF Fork, TypeOK
  <2>4. TypeOK'
    BY <1>4, <2>2, <2>3 DEF Fork, TypeOK, outside, sockets, signal
  <2>5. PlaceInv'
    BY <1>4, <2>1 DEF Fork, PlaceInv, TypeOK, Waiters, outside
  <2> QED
    BY <2>4, <2>5
<1>5. CASE CloseInParent
  BY <1>5, ClosedKeepsTypes DEF CloseInParent, TypeOK, hands, signal
<1>6. CASE PthreadCreate
  <2>1. cur \in Clients /\ handler[cur] = "none"
    BY <1>6 DEF PthreadCreate, PlaceInv
  <2>2. handler' \in [Clients -> Places]
    BY <1>6, <2>1 DEF PthreadCreate, TypeOK, Places
  <2>3. \A h \in Clients : buffer'[h] # <<>> => handler'[h] \in {"send", "sending"}
    BY <1>6, <2>1 DEF PthreadCreate, TypeOK
  <2>4. TypeOK'
    BY <1>6, <2>2, <2>3 DEF PthreadCreate, TypeOK, outside, sockets, signal
  <2>5. PlaceInv'
    BY <1>6, <2>1 DEF PthreadCreate, PlaceInv, TypeOK, Waiters, outside
  <2> QED
    BY <2>4, <2>5
<1>7. CASE CreateFails
  BY <1>7, ClosedKeepsTypes DEF CreateFails, TypeOK, hands, signal
<1> QED
  BY <1>1, <1>2, <1>3, <1>4, <1>5, <1>6, <1>7 DEF MainLoop, MainGoesOn

\* The end of a process, whatever main does then.
LEMMA ExitKeepsTypes ==
  ASSUME TypeInv, NEW p, Exit(p),
         UNCHANGED <<program, sent, received, sockets, cur, serves, signal>>,
         pc' \in {"test", "returned", "killed"} \/ pc' = pc
  PROVE  TypeInv'
<1>1. Close(p, Clients, {p})
  BY DEF Exit
<1>2. \A h \in Clients : handler'[h] = handler[h] \/ buffer'[h] = <<>>
  BY ExitEffect DEF Exit, TypeInv, TypeOK
<1> QED
  BY <1>1, <1>2, ExitEffect, ClosedKeepsTypes DEF TypeInv, TypeOK, signal

LEMMA EndKeepsTypes ==
  ASSUME TypeInv, NEW h \in Clients, At(h, "recv") \/ At(h, "closing"), End(h),
         UNCHANGED <<program, sent, received, sockets, cur, serves, signal>>
  PROVE  TypeInv'
<1>1. CASE program = "fork"
  <2>1. Exit(h)
    BY <1>1 DEF End
  <2> QED
    BY <1>1, <2>1, ExitKeepsTypes DEF End
<1>2. CASE program # "fork"
  <2>1. /\ Close(Main, {serves[h]}, {})
        /\ handler' = [handler EXCEPT ![h] = "ended"]
        /\ buffer' = buffer
        /\ pc' = "test" \/ pc' = pc
        /\ serves' = serves
    BY <1>2 DEF End, Goto
  <2>2. handler' \in [Clients -> Places]
    BY <2>1 DEF TypeInv, TypeOK, Places
  <2>3. handler[h] \in {"recv", "closing"} /\ buffer[h] = <<>>
    BY DEF At, TypeInv, TypeOK
  <2>4. \A g \in Clients : handler'[g] = IF g = h THEN "ended" ELSE handler[g]
    BY <2>1 DEF TypeInv, TypeOK
  <2> QED
    BY <2>1, <2>2, <2>3, <2>4, ClosedKeepsTypes DEF TypeInv, TypeOK, signal
<1> QED
  BY <1>1, <1>2

\* The places stay when handlers only go round in their loop.
LEMMA PlacesStay ==
  ASSUME PlaceInv, UNCHANGED <<client, backlog, pc, cur, serves>>,
         \A h \in Clients :
           /\ handler'[h] = "none" <=> handler[h] = "none"
           /\ handler'[h] \in {"recv", "send", "sending", "closing"} =>
                handler[h] \in {"recv", "send", "sending", "closing"}
  PROVE  PlaceInv'
<1>1. Waiters' = Waiters
  BY DEF Waiters
<1>2. \A i, j \in DOMAIN backlog' : i # j => backlog'[i] # backlog'[j]
  BY DEF PlaceInv
<1>3. ASSUME NEW c \in Clients
      PROVE  /\ client'[c] = "none" => handler'[c] = "none" /\ c \notin Waiters'
             /\ handler'[c] # "none" => c \notin Waiters'
             /\ serves'[c] \in {None, c}
             /\ handler'[c] \in {"recv", "send", "sending", "closing"} => serves'[c] = c
  BY <1>1 DEF PlaceInv
<1>4. pc' \in {"create", "parent", "serve"} => cur' \in Clients
  BY DEF PlaceInv
<1>5. pc' = "create" => client'[cur'] # "none" /\ handler'[cur'] = "none" /\ cur' \notin Waiters'
  BY <1>1 DEF PlaceInv
<1> QED
  BY <1>2, <1>3, <1>4, <1>5 DEF PlaceInv

LEMMA HandlersKeepTypes ==
  ASSUME TypeInv, NEW h \in Clients, Handle(h)
  PROVE  TypeInv'
<1> USE DEF TypeInv
<1>1. CASE Begin(h)
  <2>1. /\ handler[h] = "start" /\ buffer[h] = <<>>
        /\ handler' = [handler EXCEPT ![h] = "recv"]
        /\ serves' = [serves EXCEPT ![h] = h]
        /\ buffer' = buffer /\ pc' = pc
        /\ Close(Process(h), {}, {Process(h)} \ {Main})
        /\ UNCHANGED <<program, sent, received, sockets, cur, running, heeded>>
    BY <1>1 DEF Begin, At, Goto, TypeOK, signal
  <2>2. /\ handler' \in [Clients -> Places]
        /\ serves' \in [Clients -> Clients \union {None}]
        /\ \A g \in Clients : /\ handler'[g] = IF g = h THEN "recv" ELSE handler[g]
                              /\ serves'[g] = IF g = h THEN h ELSE serves[g]
    BY <2>1 DEF TypeOK, Places
  <2> QED
    BY <2>1, <2>2, ClosedKeepsTypes DEF TypeOK
<1>2. CASE Recv(h)
  <2> DEFINE n == Least(Len(rcvbuf[h]), ReadSize)
  <2>1. serves[h] = h /\ handler[h] = "recv"
    BY <1>2 DEF Recv, At, PlaceInv
  <2>2. /\ rcvbuf[h] \in Seq(Bytes) /\ Len(rcvbuf[h]) \in Nat
        /\ ReadSize \in Nat
    BY LenProperties, ProgramsAssumption DEF TypeOK
  <2>3. n \in 0 .. Len(rcvbuf[h]) /\ n <= ReadSize
    BY <2>2 DEF Least
  <2>4. /\ buffer' = [buffer EXCEPT ![h] = Take(rcvbuf[h], n)]
        /\ rcvbuf' = [rcvbuf EXCEPT ![h] = Drop(rcvbuf[h], n)]
        /\ handler' = [handler EXCEPT ![h] = "send"]
        /\ UNCHANGED <<program, outside, sndbuf, holders, listening, backlog, pc, cur, serves,
                       signal>>
    BY <1>2, <2>1 DEF Recv, Goto
  <2> HIDE DEF n
  <2>5. /\ Take(rcvbuf[h], n) \in Seq(Bytes) /\ Len(Take(rcvbuf[h], n)) = n
        /\ Drop(rcvbuf[h], n) \in Seq(Bytes)
    BY <2>2, <2>3, PartsOfBuffer
  <2>6. /\ buffer' \in [Clients -> Seq(Bytes)] /\ rcvbuf' \in [Clients -> Seq(Bytes)]
        /\ handler' \in [Clients -> Places]
    BY <2>4, <2>5 DEF TypeOK, Places
  <2>7. \A g \in Clients : /\ Len(buffer'[g]) <= ReadSize
                           /\ buffer'[g] # <<>> => handler'[g] \in {"send", "sending"}
    BY <2>3, <2>4, <2>5 DEF TypeOK
  <2>8. TypeOK'
    BY <2>4, <2>6, <2>7 DEF TypeOK, outside, signal
  <2>9. PlaceInv'
    BY <2>1, <2>4, PlacesStay DEF TypeOK, outside
  <2> QED
    BY <2>8, <2>9
<1>3. CASE RecvEnds(h)
  BY <1>3, EndKeepsTypes DEF RecvEnds
<1>4. CASE Send(h)
  <2>1. serves[h] = h /\ handler[h] \in {"send", "sending"}
    BY <1>4 DEF Send, At, PlaceInv
  <2>2. PICK n \in 1 .. Least(Len(buffer[h]), SndCap - Len(sndbuf[h])) :
          /\ sndbuf' = [sndbuf EXCEPT ![h] = sndbuf[h] \o Take(buffer[h], n)]
          /\ buffer' = [buffer EXCEPT ![h] = Drop(buffer[h], n)]
          /\ handler' = [handler EXCEPT ![h] = IF n = Len(buffer[h]) THEN "recv" ELSE "sending"]
    BY <1>4, <2>1 DEF Send, Goto
  <2>3. UNCHANGED <<program, outside, rcvbuf, holders, listening, backlog, pc, cur, serves,
                    signal>>
    BY <1>4 DEF Send
  <2>4. /\ buffer[h] \in Seq(Bytes) /\ Len(buffer[h]) \in Nat /\ Len(buffer[h]) <= ReadSize
        /\ sndbuf[h] \in Seq(Bytes) /\ Len(sndbuf[h]) \in Nat /\ Len(sndbuf[h]) <= SndCap
        /\ SndCap \in Nat /\ ReadSize \in Nat
    BY LenProperties, ProgramsAssumption DEF TypeOK
  <2>5. n \in 0 .. Len(buffer[h]) /\ n <= SndCap - Len(sndbuf[h])
    BY <2>4 DEF Least
  <2>6. /\ Take(buffer[h], n) \in Seq(Bytes) /\ Len(Take(buffer[h], n)) = n
        /\ Drop(buffer[h], n) \in Seq(Bytes) /\ Len(Drop(buffer[h], n)) = Len(buffer[h]) - n
    BY <2>4, <2>5, PartsOfBuffer
  <2>7. /\ sndbuf[h] \o Take(buffer[h], n) \in Seq(Bytes)
        /\ Len(sndbuf[h] \o Take(buffer[h], n)) <= SndCap
    <3>1. /\ sndbuf[h] \o Take(buffer[h], n) \in Seq(Bytes)
          /\ Len(sndbuf[h] \o Take(buffer[h], n)) = Len(sndbuf[h]) + Len(Take(buffer[h], n))
      BY <2>4, <2>6, ConcatProperties
    <3> QED
      BY <2>4, <2>5, <2>6, <3>1
  <2>8. /\ sndbuf' \in [Clients -> Seq(Bytes)] /\ \A c \in Clients : Len(sndbuf'[c]) <= SndCap
        /\ buffer' \in [Clients -> Seq(Bytes)]
        /\ handler' \in [Clients -> Places]
    BY <2>2, <2>6, <2>7 DEF TypeOK, Places
  <2>9. n = Len(buffer[h]) => Drop(buffer[h], n) = <<>>
    BY <2>4, <2>6, EmptySeq
  <2>10. \A g \in Clients : /\ Len(buffer'[g]) <= ReadSize
                            /\ buffer'[g] # <<>> => handler'[g] \in {"send", "sending"}
    BY <2>2, <2>4, <2>5, <2>6, <2>9 DEF TypeOK
  <2>11. TypeOK'
    BY <2>3, <2>8, <2>10 DEF TypeOK, outside, signal
  <2>12. PlaceInv'
    <3>1. \A g \in Clients : g # h => handler'[g] = handler[g]
      BY <2>2 DEF TypeOK
    <3>2. handler'[h] \in {"recv", "sending"}
      BY <2>2 DEF TypeOK
    <3> QED
      BY <2>1, <2>3, <3>1, <3>2, PlacesStay DEF outside
  <2> QED
    BY <2>11, <2>12
<1>5. CASE SendFails(h)
  <2>1. CASE Exit(Process(h)) /\ pc' = IF Process(h) = Main THEN "killed" ELSE pc
    BY <1>5, <2>1, ExitKeepsTypes DEF SendFails
  <2>2. CASE /\ buffer' = [buffer EXCEPT ![h] = <<>>]
             /\ Goto(h, "recv")
             /\ UNCHANGED <<open, pc>>
    <3>1. serves[h] = h /\ handler[h] \in {"send", "sending"}
      BY <1>5 DEF SendFails, At, PlaceInv
    <3>2. <<>> \in Seq(Bytes) /\ Len(<<>>) = 0 /\ ReadSize \in Nat
      BY EmptySeq, ProgramsAssumption
    <3>3. /\ handler' = [handler EXCEPT ![h] = "recv"]
          /\ UNCHANGED <<open, pc, program, sent, received, sockets, cur, serves, signal>>
      BY <1>5, <2>2 DEF SendFails, Goto
    <3>4. /\ buffer' \in [Clients -> Seq(Bytes)] /\ handler' \in [Clients -> Places]
          /\ \A g \in Clients : /\ Len(buffer'[g]) <= ReadSize
                                /\ buffer'[g] # <<>> => handler'[g] \in {"send", "sending"}
      BY <2>2, <3>2, <3>3 DEF TypeOK, Places
    <3>5. TypeOK'
      BY <3>3, <3>4 DEF TypeOK, open, sockets, signal
    <3>6. PlaceInv'
      BY <3>1, <3>3, PlacesStay DEF TypeOK, open
    <3> QED
      BY <3>5, <3>6
  <2> QED
    BY <1>5, <2>1, <2>2 DEF SendFails
<1>6. CASE CloseInterrupted(h)
  BY <1>6, EndKeepsTypes DEF CloseInterrupted
<1> QED
  BY <1>1, <1>2, <1>3, <1>4, <1>5, <1>6 DEF Handle

\* SIGINT only takes handlers back to recv, or out of it, and empties buffers.
LEMMA InterruptEffect ==
  ASSUME TypeOK, Interrupt
  PROVE  /\ UNCHANGED <<program, outside, sockets, holders, listening, backlog, cur, serves>>
         /\ running' = FALSE /\ heeded' \in BOOLEAN
         /\ pc' = pc \/ (pc = "accept" /\ pc' = "test")
         /\ handler' \in [Clients -> Places]
         /\ buffer' \in [Clients -> Seq(Bytes)]
         /\ \A h \in Clients :
              \/ handler'[h] = handler[h] /\ buffer'[h] = buffer[h]
              \/ handler[h] = "recv" /\ handler'[h] = "closing" /\ buffer'[h] = buffer[h]
              \/ handler[h] = "send" /\ handler'[h] = "recv" /\ buffer'[h] = <<>>
<1>1. PICK asleep :
        LET hit == {h \in Clients : Runs(h) \subseteq asleep}
            cut == {h \in hit : Stuffed(h)}
        IN /\ heeded' = (Main \in asleep /\ (Idle \/ (pc = "serve" /\ Starved(cur))))
           /\ pc' = IF Main \in asleep /\ Idle THEN "test" ELSE pc
           /\ handler' = [h \in Clients |->
                CASE h \in hit /\ Starved(h) -> "closing"
                  [] h \in cut -> "recv"
                  [] OTHER -> handler[h]]
           /\ buffer' = [h \in Clients |-> IF h \in cut THEN <<>> ELSE buffer[h]]
  BY DEF Interrupt
<1>2. UNCHANGED <<program, outside, sockets, holders, listening, backlog, cur, serves>>
  BY DEF Interrupt
<1>3. running' = FALSE /\ heeded' \in BOOLEAN
  BY <1>1 DEF Interrupt
<1>4. pc' = pc \/ (pc = "accept" /\ pc' = "test")
  BY <1>1 DEF Idle
<1> DEFINE hit == {h \in Clients : Runs(h) \subseteq asleep}
           cut == {h \in hit : Stuffed(h)}
           where(h) == CASE h \in hit /\ Starved(h) -> "closing"
                         [] h \in cut -> "recv"
                         [] OTHER -> handler[h]
<1>5. handler' = [h \in Clients |-> where(h)]
  BY <1>1
<1>6. buffer' = [h \in Clients |-> IF h \in cut THEN <<>> ELSE buffer[h]]
  BY <1>1
<1>7. ASSUME NEW h \in Clients
      PROVE  \/ h \notin cut /\ where(h) = handler[h]
             \/ h \notin cut /\ handler[h] = "recv" /\ where(h) = "closing"
             \/ h \in cut /\ handler[h] = "send" /\ where(h) = "recv"
  <2>1. Starved(h) => handler[h] = "recv"
    BY DEF Starved, At
  <2>2. h \in cut => handler[h] = "send"
    BY DEF Stuffed, At
  <2>3. CASE h \in hit /\ Starved(h)
    BY <2>1, <2>2, <2>3
  <2>4. CASE h \in cut
    BY <2>1, <2>2, <2>4
  <2>5. CASE ~(h \in hit /\ Starved(h)) /\ h \notin cut
    BY <2>5
  <2> QED
    BY <2>3, <2>4, <2>5
<1> HIDE DEF hit, cut, where
<1>8. ASSUME NEW h \in Clients
      PROVE  /\ handler'[h] = where(h) /\ where(h) \in Places
             /\ buffer'[h] = IF h \in cut THEN <<>> ELSE buffer[h]
  BY <1>5, <1>6, <1>7 DEF TypeOK, Places
<1>9. handler' \in [Clients -> Places]
  BY <1>5, <1>8
<1>10. buffer' \in [Clients -> Seq(Bytes)]
  <2>1. <<>> \in Seq(Bytes)
    BY EmptySeq
  <2> QED
    BY <1>6, <2>1 DEF TypeOK
<1> QED
  BY <1>2, <1>3, <1>4, <1>7, <1>8, <1>9, <1>10

LEMMA InterruptKeepsTypes ==
  ASSUME TypeInv, Interrupt
  PROVE  TypeInv'
<1> USE DEF TypeInv
<1>1. /\ UNCHANGED <<program, outside, sockets, holders, listening, backlog, cur, serves>>
      /\ running' = FALSE /\ heeded' \in BOOLEAN
      /\ pc' = pc \/ (pc = "accept" /\ pc' = "test")
      /\ handler' \in [Clients -> Places]
      /\ buffer' \in [Clients -> Seq(Bytes)]
      /\ \A h \in Clients :
           \/ handler'[h] = handler[h] /\ buffer'[h] = buffer[h]
           \/ handler[h] = "recv" /\ handler'[h] = "closing" /\ buffer'[h] = buffer[h]
           \/ handler[h] = "send" /\ handler'[h] = "recv" /\ buffer'[h] = <<>>
  BY InterruptEffect
<1>2. Len(<<>>) = 0 /\ ReadSize \in Nat
  BY EmptySeq, ProgramsAssumption
<1>3. \A h \in Clients : /\ Len(buffer'[h]) <= ReadSize
                         /\ buffer'[h] # <<>> => handler'[h] \in {"send", "sending"}
  <2> TAKE h \in Clients
  <2>1. CASE buffer'[h] = <<>>
    BY <1>2, <2>1
  <2>2. CASE buffer'[h] # <<>>
    BY <1>1, <2>2 DEF TypeOK
  <2> QED
    BY <2>1, <2>2
<1>4. TypeOK'
  BY <1>1, <1>3 DEF TypeOK, outside, sockets
<1>5. PlaceInv'
  BY <1>1 DEF PlaceInv, Waiters, outside
<1> QED
  BY <1>4, <1>5

LEMMA TypesAlways == SafeSpec => []TypeInv
<1>1. Init => TypeInv
  <2> SUFFICES ASSUME Init PROVE TypeInv
    OBVIOUS
  <2>1. <<>> \in Seq(Bytes) /\ <<>> \in Seq(Clients) /\ Len(<<>>) = 0 /\ DOMAIN <<>> = {}
    <3>1. <<>> \in Seq(Bytes) /\ <<>> \in Seq(Clients) /\ Len(<<>>) = 0
      BY EmptySeq
    <3>2. DOMAIN <<>> = 1 .. 0
      BY <3>1, LenProperties
    <3> QED
      BY <3>1, <3>2
  <2>2. TypeOK
    <3>1. /\ sent \in [Clients -> Nat] /\ \A c \in Clients : sent[c] <= EchoMax[c]
          /\ {SndCap, ReadSize} \subseteq Nat
      BY ProgramsAssumption DEF Init
    <3>2. /\ client \in [Clients -> {"none", "open", "finished", "gone"}]
          /\ {received, rcvbuf, sndbuf, buffer} \subseteq [Clients -> Seq(Bytes)]
          /\ holders \in [Clients -> SUBSET (Clients \union {Main})]
          /\ handler \in [Clients -> Places]
          /\ serves \in [Clients -> Clients \union {None}]
      BY <2>1 DEF Init, Places
    <3>3. \A c \in Clients : sndbuf[c] = <<>> /\ buffer[c] = <<>>
      BY DEF Init
    <3>4. \A c \in Clients : Len(sndbuf[c]) <= SndCap /\ Len(buffer[c]) <= ReadSize
      BY <2>1, <3>1, <3>3
    <3> QED
      BY <2>1, <3>1, <3>2, <3>3, <3>4 DEF Init, TypeOK
  <2>3. PlaceInv
    BY <2>1 DEF Init, PlaceInv, Waiters
  <2> QED
    BY <2>2, <2>3 DEF TypeInv
<1>2. TypeInv /\ [Next]_vars => TypeInv'
  <2> SUFFICES ASSUME TypeInv, [Next]_vars PROVE TypeInv'
    OBVIOUS
  <2>1. CASE UNCHANGED vars
    BY <2>1 DEF vars, sockets, hands, signal, TypeInv, TypeOK, PlaceInv, Waiters
  <2>2. CASE MainLoop
    BY <2>2, MainKeepsTypes
  <2>3. ASSUME NEW h \in Clients, Handle(h)
        PROVE  TypeInv'
    BY <2>3, HandlersKeepTypes
  <2>4. ASSUME NEW c \in Clients,
               \/ ClientConnects(c) \/ ClientWrites(c) \/ ClientReads(c)
               \/ \E how \in {"finished", "gone"} : ClientLeaves(c, how)
        PROVE  TypeInv'
    BY <2>4, ClientsKeepTypes
  <2>5. CASE Interrupt
    BY <2>5, InterruptKeepsTypes
  <2> QED
    BY <2>1, <2>2, <2>3, <2>4, <2>5 DEF Next
<1> QED
  BY <1>1, <1>2, PTL DEF SafeSpec

\* Type correctness: every variable has its type at all times, in each of the three
\* programs.
THEOREM TypeCorrect == SafeSpec => []TypeOK
<1>1. TypeInv => TypeOK
  BY DEF TypeInv
<1> QED
  BY <1>1, TypesAlways, PTL
-----------------------------------------------------------------------------
(* Who has a client's socket open. *)

Busy == {h \in Clients : handler[h] \notin {"none", "ended"}}

\* The client main has in its hands.
InHand == IF pc \in {"create", "parent", "serve"} THEN {cur} ELSE {}

\* Who will close the socket of c: main, as long as it has it in its hands, and the
\* process of the handler.
Owners(c) ==
  (IF c \in InHand THEN {Main} ELSE {}) \union (IF c \in Busy THEN {Process(c)} ELSE {})

\* Main listens until it ends, a child until it begins.
Listeners ==
  (IF Over THEN {} ELSE {Main})
    \union (IF program = "fork" THEN {h \in Clients : handler[h] = "start"} ELSE {})

OwnerInv ==
  /\ pc \in {"create", "parent"} => program # "single"
  /\ pc = "parent" => program = "fork"
  /\ pc = "serve" => program = "single"
  /\ program = "single" => \A h \in Busy : pc = "serve" /\ cur = h
  /\ program # "fork" /\ Over => Busy = {}
  /\ \A c \in Clients : holders[c] = Owners(c)
  /\ listening = Listeners

LEMMA ClientsKeepOwners ==
  ASSUME OwnerInv, NEW c \in Clients,
         \/ ClientConnects(c) \/ ClientWrites(c) \/ ClientReads(c)
         \/ \E how \in {"finished", "gone"} : ClientLeaves(c, how)
  PROVE  OwnerInv'
<1>1. UNCHANGED <<program, holders, listening, pc, cur, handler>>
  BY DEF ClientConnects, ClientWrites, ClientReads, ClientLeaves, open, hands
<1> QED
  BY <1>1 DEF OwnerInv, Over, Busy, InHand, Owners, Process, Listeners

\* The end of a process closes what it has, and nothing else.
LEMMA ExitKeepsOwners ==
  ASSUME TypeInv, OwnerInv, NEW p, Exit(p), UNCHANGED <<program, cur>>,
         \/ p = Main /\ pc' \in {"returned", "killed"}
         \/ p \in Clients /\ program = "fork" /\ pc' = pc
  PROVE  OwnerInv'
<1>1. /\ \A c \in Clients : holders'[c] = holders[c] \ {p}
      /\ listening' = listening \ {p}
      /\ \A h \in Clients : handler'[h] = IF handler[h] # "none" /\ Process(h) = p
                                          THEN "ended" ELSE handler[h]
  BY DEF Exit, Close
<1>2. Main \notin Clients
  BY ProgramsAssumption
<1>3. \A c \in Clients : c \in Busy' <=> c \in Busy /\ Process(c) # p
  BY <1>1 DEF Busy
<1>4. \A c \in Clients : c \in InHand' <=> c \in InHand /\ p # Main
  BY <1>2 DEF InHand
<1>5. ASSUME NEW c \in Clients
      PROVE  holders'[c] = Owners(c)'
  <2>1. /\ holders'[c] = holders[c] \ {p} /\ holders[c] = Owners(c)
        /\ c \in Busy' <=> c \in Busy /\ Process(c) # p
        /\ c \in InHand' <=> c \in InHand /\ p # Main
    BY <1>1, <1>3, <1>4 DEF OwnerInv
  <2>2. Process(c)' = Process(c)
    BY DEF Process
  <2>3. Owners(c)' = (IF c \in InHand' THEN {Main} ELSE {})
                       \union (IF c \in Busy' THEN {Process(c)} ELSE {})
    BY <2>2 DEF Owners
  <2> QED
    BY <2>1, <2>3 DEF Owners
<1>6. listening' = Listeners'
  <2>1. Over' <=> Over \/ p = Main
    BY <1>2 DEF Over
  <2>2. program = "fork" =>
          \A h \in Clients : handler'[h] = "start" <=> handler[h] = "start" /\ h # p
    BY <1>1 DEF Process
  <2>3. listening = Listeners /\ (p = Main \/ program = "fork")
    BY DEF OwnerInv
  <2> QED
    BY <1>1, <1>2, <2>1, <2>2, <2>3 DEF Listeners
<1>7. /\ program' = "single" => \A h \in Busy' : pc' = "serve" /\ cur' = h
      /\ program' # "fork" /\ Over' => Busy' = {}
  <2>1. CASE program = "fork"
    BY <2>1
  <2>2. CASE program # "fork"
    <3>1. p = Main /\ \A c \in Clients : Process(c) = Main
      BY <2>2 DEF Process
    <3>2. Busy' \subseteq Clients
      BY DEF Busy
    <3> QED
      BY <1>3, <3>1, <3>2
  <2> QED
    BY <2>1, <2>2
<1> QED
  BY <1>5, <1>6, <1>7 DEF OwnerInv

\* Steps that leave everybody at work.
LEMMA WorkersKeepOwners ==
  ASSUME OwnerInv, UNCHANGED <<program, holders, listening, cur>>,
         pc' = pc \/ (pc \in {"test", "accept"} /\ pc' \in {"test", "accept"}),
         \A h \in Clients :
           \/ handler'[h] = handler[h]
           \/ /\ handler[h] \in {"recv", "send", "sending"}
              /\ handler'[h] \in {"recv", "send", "sending", "closing"}
  PROVE  OwnerInv'
<1>1. Busy' = Busy
  BY DEF Busy
<1>2. InHand' = InHand /\ (Over' <=> Over) /\ (pc' \in {"create", "parent", "serve"} => pc' = pc)
  BY DEF InHand, Over
<1>3. \A c \in Clients : Owners(c)' = Owners(c)
  BY <1>1, <1>2 DEF Owners, Process
<1>4. Listeners' = Listeners
  <2>1. \A h \in Clients : handler'[h] = "start" <=> handler[h] = "start"
    OBVIOUS
  <2> QED
    BY <1>2, <2>1 DEF Listeners
<1>5. program = "single" => \A h \in Busy : pc' = "serve" /\ cur' = h
  BY <1>2 DEF OwnerInv
<1> QED
  BY <1>1, <1>2, <1>3, <1>4, <1>5 DEF OwnerInv

LEMMA MainKeepsOwners ==
  ASSUME TypeInv, OwnerInv, MainLoop
  PROVE  OwnerInv'
<1>0. Main \notin Clients
  BY ProgramsAssumption
<1>1. CASE Test
  <2>1. CASE running
    BY <1>1, <2>1, WorkersKeepOwners DEF Test, open
  <2>2. CASE ~running
    BY <1>1, <2>2, ExitKeepsOwners DEF Test
  <2> QED
    BY <2>1, <2>2
<1>2. CASE AcceptFails
  BY <1>2, WorkersKeepOwners DEF AcceptFails, hands
<1>3. CASE Accept
  <2> DEFINE c == Head(backlog)
  <2>1. /\ pc = "accept" /\ UNCHANGED <<program, listening>> /\ cur' = c
        /\ holders' = [holders EXCEPT ![c] = {Main}]
        /\ \/ program = "single" /\ pc' = "serve" /\ handler' = [handler EXCEPT ![c] = "recv"]
           \/ program # "single" /\ pc' = "create" /\ handler' = handler
    BY <1>3 DEF Accept
  <2>2. c \in Clients /\ c \notin Busy
    <3>1. backlog \in Seq(Clients) /\ backlog # <<>>
      BY <1>3 DEF Accept, TypeInv, TypeOK
    <3>2. c \in Clients /\ c = backlog[1] /\ 1 \in DOMAIN backlog
      BY <3>1, HeadTailProperties, EmptySeq, LenProperties
    <3> QED
      BY <3>2 DEF Busy, TypeInv, PlaceInv, Waiters
  <2> HIDE DEF c
  <2>3. /\ InHand' = {c} /\ InHand = {} /\ ~Over /\ ~Over'
        /\ IF program = "single" THEN Busy' = Busy \union {c} ELSE Busy' = Busy
    BY <2>1, <2>2 DEF InHand, Over, Busy, TypeInv, TypeOK
  <2>4. ASSUME NEW d \in Clients
        PROVE  holders'[d] = Owners(d)'
    <3>1. holders[d] = Owners(d) /\ holders'[d] = IF d = c THEN {Main} ELSE holders[d]
      BY <2>1 DEF OwnerInv, TypeInv, TypeOK
    <3>2. Process(d)' = Process(d) /\ (program = "single" => Process(d) = Main)
      BY <2>1 DEF Process
    <3>3. Owners(d)' = (IF d \in InHand' THEN {Main} ELSE {})
                         \union (IF d \in Busy' THEN {Process(d)} ELSE {})
      BY <3>2 DEF Owners
    <3> QED
      BY <2>2, <2>3, <3>1, <3>2, <3>3 DEF Owners
  <2>5. listening' = Listeners'
    <3>1. \A h \in Clients : handler'[h] = "start" <=> handler[h] = "start"
      <4>1. handler[c] # "start"
        BY <2>2 DEF Busy
      <4> QED
        BY <2>1, <4>1 DEF TypeInv, TypeOK
    <3> QED
      BY <2>1, <2>3, <3>1 DEF OwnerInv, Listeners
  <2>6. program = "single" => Busy = {}
    BY <2>1 DEF OwnerInv
  <2> QED
    BY <2>1, <2>3, <2>4, <2>5, <2>6 DEF OwnerInv
<1>4. CASE Fork
  <2>1. /\ program = "fork" /\ pc = "create" /\ pc' = "parent" /\ cur \in Clients
        /\ handler[cur] = "none" /\ handler' = [handler EXCEPT ![cur] = "start"]
        /\ \A c \in Clients : holders'[c] = IF Main \in holders[c] THEN holders[c] \union {cur}
                                            ELSE holders[c]
        /\ listening' = listening \union {cur}
        /\ UNCHANGED <<program, cur>>
    BY <1>4 DEF Fork, TypeInv, PlaceInv
  <2>2. /\ InHand' = {cur} /\ InHand = {cur} /\ ~Over /\ ~Over'
        /\ Busy' = Busy \union {cur} /\ cur \notin Busy
    BY <2>1 DEF InHand, Over, Busy, TypeInv, TypeOK
  <2>3. ASSUME NEW d \in Clients
        PROVE  holders'[d] = Owners(d)'
    <3>1. /\ Process(d)' = d /\ Process(d) = d /\ d # Main
      BY <1>0, <2>1 DEF Process
    <3>2. holders[d] = Owners(d) /\ (Main \in holders[d] <=> d = cur)
      BY <2>2, <3>1 DEF OwnerInv, Owners
    <3>3. Owners(d)' = (IF d \in InHand' THEN {Main} ELSE {})
                         \union (IF d \in Busy' THEN {d} ELSE {})
      BY <3>1 DEF Owners
    <3> QED
      BY <2>1, <2>2, <3>1, <3>2, <3>3 DEF Owners
  <2>4. listening' = Listeners'
    <3>1. \A h \in Clients : handler'[h] = "start" <=> handler[h] = "start" \/ h = cur
      BY <2>1 DEF TypeInv, TypeOK
    <3> QED
      BY <2>1, <2>2, <3>1 DEF OwnerInv, Listeners
  <2> QED
    BY <2>1, <2>2, <2>3, <2>4 DEF OwnerInv
<1>5. CASE CloseInParent \/ CreateFails
  <2>1. /\ pc \in {"create", "parent"} /\ pc' = "test" /\ cur \in Clients
        /\ pc = "parent" => program = "fork"
        /\ pc = "create" => handler[cur] = "none"
        /\ \A c \in Clients : holders'[c] = IF c = cur THEN holders[c] \ {Main} ELSE holders[c]
        /\ UNCHANGED <<listening, program, cur, handler>>
    BY <1>5 DEF CloseInParent, CreateFails, Close, TypeInv, PlaceInv, OwnerInv, hands
  <2>2. /\ InHand' = {} /\ InHand = {cur} /\ ~Over /\ ~Over' /\ Busy' = Busy
        /\ cur \in Busy => program = "fork"
    BY <2>1 DEF InHand, Over, Busy
  <2>3. ASSUME NEW d \in Clients
        PROVE  holders'[d] = Owners(d)'
    <3>1. /\ Process(d)' = Process(d) /\ (program = "fork" => Process(d) = d) /\ d # Main
      BY <1>0, <2>1 DEF Process
    <3>2. holders[d] = Owners(d)
      BY DEF OwnerInv
    <3>3. Owners(d)' = IF d \in Busy THEN {Process(d)} ELSE {}
      BY <2>2, <3>1 DEF Owners
    <3> QED
      BY <2>1, <2>2, <3>1, <3>2, <3>3 DEF Owners
  <2>4. listening' = Listeners'
    BY <2>1, <2>2 DEF OwnerInv, Listeners
  <2>5. program = "single" => Busy = {}
    BY <2>1 DEF OwnerInv
  <2> QED
    BY <2>1, <2>2, <2>3, <2>4, <2>5 DEF OwnerInv
<1>6. CASE PthreadCreate
  <2>1. /\ program = "pthread" /\ pc = "create" /\ pc' = "test" /\ cur \in Clients
        /\ handler[cur] = "none" /\ handler' = [handler EXCEPT ![cur] = "start"]
        /\ UNCHANGED <<program, cur, holders, listening>>
    BY <1>6 DEF PthreadCreate, TypeInv, PlaceInv
  <2>2. /\ InHand' = {} /\ InHand = {cur} /\ ~Over /\ ~Over'
        /\ Busy' = Busy \union {cur} /\ cur \notin Busy
    BY <2>1 DEF InHand, Over, Busy, TypeInv, TypeOK
  <2>3. ASSUME NEW d \in Clients
        PROVE  holders'[d] = Owners(d)'
    <3>1. Process(d)' = Main /\ Process(d) = Main
      BY <2>1 DEF Process
    <3>2. Owners(d)' = IF d \in Busy' THEN {Main} ELSE {}
      BY <2>2, <3>1 DEF Owners
    <3> QED
      BY <2>1, <2>2, <3>1, <3>2 DEF OwnerInv, Owners
  <2>4. listening' = Listeners'
    BY <2>1, <2>2 DEF OwnerInv, Listeners
  <2> QED
    BY <2>1, <2>2, <2>3, <2>4 DEF OwnerInv
<1> QED
  BY <1>1, <1>2, <1>3, <1>4, <1>5, <1>6 DEF MainLoop, MainGoesOn

LEMMA EndKeepsOwners ==
  ASSUME TypeInv, OwnerInv, NEW h \in Clients, At(h, "recv") \/ At(h, "closing"), End(h),
         UNCHANGED <<program, cur, serves>>
  PROVE  OwnerInv'
<1>0. Main \notin Clients
  BY ProgramsAssumption
<1>1. CASE program = "fork"
  BY <1>1, ExitKeepsOwners DEF End
<1>2. CASE program # "fork"
  <2>1. serves[h] = h /\ h \in Busy /\ handler[h] # "start"
    BY DEF At, TypeInv, PlaceInv, Busy
  <2>2. /\ \A c \in Clients : holders'[c] = IF c = h THEN holders[c] \ {Main} ELSE holders[c]
        /\ listening' = listening
        /\ handler' = [handler EXCEPT ![h] = "ended"]
        /\ pc' = IF program = "single" THEN "test" ELSE pc
    BY <1>2, <2>1 DEF End, Close, Goto
  <2>3. /\ h \in InHand => program = "single"
        /\ program = "single" => InHand = {h} /\ InHand' = {} /\ Busy = {h}
        /\ program # "single" => InHand' = InHand
        /\ ~Over /\ ~Over'
    BY <1>2, <2>1, <2>2 DEF InHand, OwnerInv, Over, TypeInv, PlaceInv, Busy
  <2>4. Busy' = Busy \ {h}
    BY <2>1, <2>2 DEF Busy, TypeInv, TypeOK
  <2>5. ASSUME NEW d \in Clients
        PROVE  holders'[d] = Owners(d)'
    <3>1. Process(d)' = Main /\ Process(d) = Main
      BY <1>2 DEF Process
    <3>2. Owners(d)' = (IF d \in InHand' THEN {Main} ELSE {})
                         \union (IF d \in Busy' THEN {Main} ELSE {})
      BY <3>1 DEF Owners
    <3>3. holders[d] = Owners(d)
      BY DEF OwnerInv
    <3> QED
      BY <2>1, <2>2, <2>3, <2>4, <3>1, <3>2, <3>3 DEF Owners
  <2>6. listening' = Listeners'
    BY <1>2, <2>2, <2>3 DEF OwnerInv, Listeners
  <2>7. /\ pc' \in {"create", "parent"} => program # "single"
        /\ pc' = "parent" => program = "fork"
        /\ pc' = "serve" => program = "single"
        /\ program = "single" => Busy' = {}
    BY <1>2, <2>2, <2>3, <2>4 DEF OwnerInv
  <2> QED
    BY <2>3, <2>5, <2>6, <2>7 DEF OwnerInv
<1> QED
  BY <1>1, <1>2

LEMMA HandlersKeepOwners ==
  ASSUME TypeInv, OwnerInv, NEW h \in Clients, Handle(h)
  PROVE  OwnerInv'
<1>0. Main \notin Clients
  BY ProgramsAssumption
<1>1. CASE Begin(h)
  <2>1. /\ handler[h] = "start" /\ handler' = [handler EXCEPT ![h] = "recv"]
        /\ \A c \in Clients : holders'[c] = holders[c]
        /\ listening' = listening \ ({Process(h)} \ {Main})
        /\ UNCHANGED <<program, pc, cur>>
    BY <1>1 DEF Begin, At, Goto, Close
  <2>2. Busy' = Busy /\ InHand' = InHand /\ (Over' <=> Over)
    BY <2>1 DEF Busy, InHand, Over, TypeInv, TypeOK
  <2>3. \A c \in Clients : Owners(c)' = Owners(c)
    BY <2>1, <2>2 DEF Owners, Process
  <2>4. listening' = Listeners'
    <3>1. \A g \in Clients : handler'[g] = "start" <=> handler[g] = "start" /\ g # h
      BY <2>1 DEF TypeInv, TypeOK
    <3>2. /\ program = "fork" => Process(h) = h
          /\ program # "fork" => Process(h) = Main
      BY DEF Process
    <3> QED
      BY <1>0, <2>1, <2>2, <3>1, <3>2 DEF OwnerInv, Listeners
  <2> QED
    BY <2>1, <2>2, <2>3, <2>4 DEF OwnerInv
<1>2. CASE Recv(h)
  BY <1>2, WorkersKeepOwners DEF Recv, At, Goto, TypeInv, TypeOK
<1>3. CASE RecvEnds(h)
  BY <1>3, EndKeepsOwners DEF RecvEnds
<1>4. CASE Send(h)
  BY <1>4, WorkersKeepOwners DEF Send, At, Goto, TypeInv, TypeOK
<1>5. CASE SendFails(h)
  <2>1. CASE Exit(Process(h)) /\ pc' = IF Process(h) = Main THEN "killed" ELSE pc
    BY <1>0, <1>5, <2>1, ExitKeepsOwners DEF SendFails, Process
  <2>2. CASE Goto(h, "recv") /\ UNCHANGED <<open, pc>>
    BY <1>5, <2>2, WorkersKeepOwners DEF SendFails, At, Goto, open, TypeInv, TypeOK
  <2> QED
    BY <1>5, <2>1, <2>2 DEF SendFails
<1>6. CASE CloseInterrupted(h)
  BY <1>6, EndKeepsOwners DEF CloseInterrupted
<1> QED
  BY <1>1, <1>2, <1>3, <1>4, <1>5, <1>6 DEF Handle

LEMMA OwnersAlways == SafeSpec => []OwnerInv
<1>1. Init => OwnerInv
  BY ProgramsAssumption DEF Init, OwnerInv, Busy, InHand, Owners, Listeners, Over
<1>2. TypeInv /\ OwnerInv /\ [Next]_vars => OwnerInv'
  <2> SUFFICES ASSUME TypeInv, OwnerInv, [Next]_vars PROVE OwnerInv'
    OBVIOUS
  <2>1. CASE UNCHANGED vars
    BY <2>1, WorkersKeepOwners DEF vars, hands
  <2>2. CASE MainLoop
    BY <2>2, MainKeepsOwners
  <2>3. ASSUME NEW h \in Clients, Handle(h)
        PROVE  OwnerInv'
    BY <2>3, HandlersKeepOwners
  <2>4. ASSUME NEW c \in Clients,
               \/ ClientConnects(c) \/ ClientWrites(c) \/ ClientReads(c)
               \/ \E how \in {"finished", "gone"} : ClientLeaves(c, how)
        PROVE  OwnerInv'
    BY <2>4, ClientsKeepOwners
  <2>5. CASE Interrupt
    BY <2>5, InterruptEffect, WorkersKeepOwners DEF TypeInv
  <2> QED
    BY <2>1, <2>2, <2>3, <2>4, <2>5 DEF Next
<1> QED
  BY <1>1, <1>2, TypesAlways, PTL DEF SafeSpec

-----------------------------------------------------------------------------
(* Nobody is forgotten. *)

\* A client that is connected waits in a backlog, which exists as long as somebody
\* listens, or a process has its socket.
AttendInv ==
  /\ listening = {} => backlog = <<>>
  /\ \A c \in Clients : client[c] = "open" => holders[c] # {} \/ c \in Waiters

\* Who loses the last process that has its socket, or its place in the backlog, is cut
\* off by that.
LEMMA CloseKeepsAttended ==
  ASSUME AttendInv, NEW p, NEW cs, NEW l, Close(p, cs, l)
  PROVE  AttendInv'
<1>1. listening' = {} => backlog' = <<>>
  BY DEF Close
<1>2. ASSUME NEW c \in Clients, client'[c] = "open"
      PROVE  holders'[c] # {} \/ c \in Waiters'
  <2>1. /\ client[c] = "open"
        /\ ~(c \in cs /\ holders[c] = {p})
        /\ listening \subseteq l => c \notin Waiters
        /\ holders'[c] = IF c \in cs THEN holders[c] \ {p} ELSE holders[c]
        /\ ~(listening \subseteq l) => backlog' = backlog
    BY <1>2 DEF Close, Waiters
  <2>2. CASE holders[c] # {}
    BY <2>1, <2>2
  <2>3. CASE c \in Waiters
    BY <2>1, <2>3 DEF Waiters
  <2> QED
    BY <2>1, <2>2, <2>3 DEF AttendInv
<1> QED
  BY <1>1, <1>2 DEF AttendInv

\* Steps that neither close a socket nor take a client out of the backlog.
LEMMA StayingKeepsAttended ==
  ASSUME AttendInv, UNCHANGED <<listening, backlog>>,
         \A c \in Clients : /\ client'[c] = "open" => client[c] = "open"
                            /\ holders[c] \subseteq holders'[c]
  PROVE  AttendInv'
<1>1. Waiters' = Waiters
  BY DEF Waiters
<1>2. \A c \in Clients : client'[c] = "open" => holders'[c] # {} \/ c \in Waiters'
  <2> TAKE c \in Clients
  <2> QED
    BY <1>1 DEF AttendInv
<1> QED
  BY <1>2 DEF AttendInv

LEMMA AttendedAlways == SafeSpec => []AttendInv
<1>1. Init => AttendInv
  BY DEF Init, AttendInv
<1>2. TypeInv /\ AttendInv /\ [Next]_vars => AttendInv'
  <2> SUFFICES ASSUME TypeInv, AttendInv, [Next]_vars PROVE AttendInv'
    OBVIOUS
  <2> USE DEF TypeInv
  <2>1. CASE UNCHANGED vars
    BY <2>1, StayingKeepsAttended DEF vars
  <2>2. CASE Test
    BY <2>2, StayingKeepsAttended, CloseKeepsAttended DEF Test, Exit, open
  <2>3. CASE AcceptFails
    BY <2>3, StayingKeepsAttended DEF AcceptFails, outside
  <2>4. CASE Accept
    <3>1. /\ backlog # <<>> /\ backlog \in Seq(Clients) /\ backlog' = Tail(backlog)
          /\ client' = client /\ listening' = listening
          /\ holders' = [holders EXCEPT ![Head(backlog)] = {Main}]
      BY <2>4 DEF Accept, TypeOK, outside
    <3>2. /\ Len(backlog) \in Nat \ {0} /\ DOMAIN backlog = 1 .. Len(backlog)
          /\ DOMAIN backlog' = 1 .. Len(backlog) - 1
          /\ \A i \in 1 .. Len(backlog) - 1 : backlog'[i] = backlog[i + 1]
          /\ Head(backlog) = backlog[1]
      BY <3>1, HeadTailProperties, EmptySeq, LenProperties
    <3>3. Waiters \subseteq Waiters' \union {Head(backlog)}
      <4>1. ASSUME NEW i \in DOMAIN backlog, i # 1
            PROVE  backlog[i] \in Waiters'
        <5>1. i - 1 \in DOMAIN backlog' /\ backlog'[i - 1] = backlog[i]
          BY <3>2, <4>1
        <5> QED
          BY <5>1 DEF Waiters
      <4> QED
        BY <3>2, <4>1 DEF Waiters
    <3>4. \A c \in Clients : holders'[c] = IF c = Head(backlog) THEN {Main} ELSE holders[c]
      BY <3>1 DEF TypeOK
    <3>5. listening # {}
      BY <3>1 DEF AttendInv
    <3>6. \A c \in Clients : client'[c] = "open" => holders'[c] # {} \/ c \in Waiters'
      <4> TAKE c \in Clients
      <4>1. holders'[c] = IF c = Head(backlog) THEN {Main} ELSE holders[c]
        BY <3>4
      <4>2. client[c] = "open" => holders[c] # {} \/ c \in Waiters
        BY DEF AttendInv
      <4> QED
        BY <3>1, <3>3, <4>1, <4>2
    <3> QED
      BY <3>1, <3>5, <3>6 DEF AttendInv
  <2>5. CASE Fork
    <3>1. /\ client' = client /\ backlog' = backlog /\ listening' # {}
          /\ \A c \in Clients : holders[c] \subseteq holders'[c]
      BY <2>5 DEF Fork, outside
    <3>2. \A c \in Clients : client'[c] = "open" => holders'[c] # {} \/ c \in Waiters'
      <4>1. Waiters' = Waiters
        BY <3>1 DEF Waiters
      <4> TAKE c \in Clients
      <4> QED
        BY <3>1, <4>1 DEF AttendInv
    <3> QED
      BY <3>1, <3>2 DEF AttendInv
  <2>6. CASE CloseInParent
    BY <2>6, CloseKeepsAttended DEF CloseInParent
  <2>7. CASE PthreadCreate
    BY <2>7, StayingKeepsAttended DEF PthreadCreate, outside
  <2>8. CASE CreateFails
    BY <2>8, CloseKeepsAttended DEF CreateFails
  <2>9. ASSUME NEW h \in Clients, Handle(h)
        PROVE  AttendInv'
    <3>1. CASE Begin(h)
      BY <3>1, CloseKeepsAttended DEF Begin
    <3>2. CASE Recv(h)
      BY <3>2, StayingKeepsAttended DEF Recv, outside
    <3>3. CASE Send(h)
      BY <3>3, StayingKeepsAttended DEF Send, outside
    <3>4. CASE SendFails(h)
      BY <3>4, StayingKeepsAttended, CloseKeepsAttended DEF SendFails, Exit, open
    <3>5. CASE RecvEnds(h) \/ CloseInterrupted(h)
      BY <3>5, CloseKeepsAttended DEF RecvEnds, CloseInterrupted, End, Exit
    <3> QED
      BY <2>9, <3>1, <3>2, <3>3, <3>4, <3>5 DEF Handle
  <2>10. ASSUME NEW c \in Clients, ClientConnects(c)
         PROVE  AttendInv'
    <3>1. /\ listening' = listening /\ listening # {} /\ holders' = holders
          /\ \A d \in Clients : client'[d] = IF d = c THEN "open" ELSE client[d]
          /\ backlog' = Append(backlog, c) /\ backlog \in Seq(Clients)
      BY <2>10 DEF ClientConnects, TypeOK
    <3>2. Waiters' = Waiters \union {c}
      <4>1. /\ DOMAIN backlog' = 1 .. Len(backlog) + 1
            /\ DOMAIN backlog = 1 .. Len(backlog) /\ Len(backlog) \in Nat
            /\ \A i \in 1 .. Len(backlog) : backlog'[i] = backlog[i]
            /\ backlog'[Len(backlog) + 1] = c
        BY <3>1, AppendProperties, LenProperties
      <4> QED
        BY <4>1 DEF Waiters
    <3> QED
      BY <3>1, <3>2 DEF AttendInv
  <2>11. ASSUME NEW c \in Clients,
                \/ ClientWrites(c) \/ ClientReads(c)
                \/ \E how \in {"finished", "gone"} : ClientLeaves(c, how)
         PROVE  AttendInv'
    BY <2>11, StayingKeepsAttended DEF ClientWrites, ClientReads, ClientLeaves, open, TypeOK
  <2>12. CASE Interrupt
    BY <2>12, StayingKeepsAttended DEF Interrupt, outside
  <2> QED
    BY <2>1, <2>2, <2>3, <2>4, <2>5, <2>6, <2>7, <2>8, <2>9, <2>10, <2>11, <2>12
    DEF Next, MainLoop, MainGoesOn
<1> QED
  BY <1>1, <1>2, TypesAlways, PTL DEF SafeSpec

\* A socket is open in exactly the processes that are still to close it: in main while
\* it has the client in its hands, and in the process of the client's handler while
\* that is at work.  So no descriptor leaks, also none that a child inherits, none is
\* closed while it is used, and listen_fd is open in main and in children that begin.
THEOREM DescriptorsAreOwned ==
  SafeSpec => []((\A c \in Clients : holders[c] = Owners(c)) /\ listening = Listeners)
<1>1. OwnerInv => (\A c \in Clients : holders[c] = Owners(c)) /\ listening = Listeners
  BY DEF OwnerInv
<1> QED
  BY <1>1, OwnersAlways, PTL

\* A connected client always has somebody: it waits where somebody listens, main is
\* about to have it served, or it has a handler at work.
THEOREM NobodyIsForgotten ==
  SafeSpec => [](\A c \in Clients : client[c] = "open" =>
                   \/ c \in Waiters /\ listening # {}
                   \/ c \in InHand \union Busy)
<1>1. OwnerInv /\ AttendInv => \A c \in Clients : client[c] = "open" =>
                                 \/ c \in Waiters /\ listening # {}
                                 \/ c \in InHand \union Busy
  <2> SUFFICES ASSUME OwnerInv, AttendInv, NEW c \in Clients, client[c] = "open"
               PROVE  \/ c \in Waiters /\ listening # {}
                      \/ c \in InHand \union Busy
    OBVIOUS
  <2>1. holders[c] # {} => c \in InHand \union Busy
    BY DEF OwnerInv, Owners
  <2>2. c \in Waiters => listening # {}
    <3>1. backlog = <<>> => Waiters = {}
      <4>1. <<>> \in Seq(Clients) /\ Len(<<>>) = 0
        BY EmptySeq
      <4>2. DOMAIN <<>> = 1 .. 0
        BY <4>1, LenProperties
      <4> QED
        BY <4>2 DEF Waiters
    <3> QED
      BY <3>1 DEF AttendInv
  <2> QED
    BY <2>1, <2>2 DEF AttendInv
<1> QED
  BY <1>1, OwnersAlways, AttendedAlways, PTL

\* When main has ended and no child is left, nothing is open any more and nobody is
\* left behind in the backlog or with a connection.
THEOREM EndIsComplete ==
  SafeSpec => [](Over /\ Busy = {} =>
                   /\ listening = {} /\ backlog = <<>>
                   /\ \A c \in Clients : holders[c] = {} /\ client[c] # "open")
<1>1. OwnerInv /\ AttendInv /\ Over /\ Busy = {} =>
        /\ listening = {} /\ backlog = <<>>
        /\ \A c \in Clients : holders[c] = {} /\ client[c] # "open"
  <2> SUFFICES ASSUME OwnerInv, AttendInv, Over, Busy = {}
               PROVE  /\ listening = {} /\ backlog = <<>>
                      /\ \A c \in Clients : holders[c] = {} /\ client[c] # "open"
    OBVIOUS
  <2>1. listening = {}
    BY DEF OwnerInv, Listeners, Busy
  <2>2. backlog = <<>>
    BY <2>1 DEF AttendInv
  <2>3. InHand = {}
    BY DEF InHand, Over
  <2>4. \A c \in Clients : holders[c] = {}
    BY <2>3 DEF OwnerInv, Owners
  <2>5. Waiters = {}
    <3>1. <<>> \in Seq(Clients) /\ Len(<<>>) = 0
      BY EmptySeq
    <3>2. DOMAIN <<>> = 1 .. 0
      BY <3>1, LenProperties
    <3> QED
      BY <2>2, <3>2 DEF Waiters
  <2> QED
    BY <2>1, <2>2, <2>4, <2>5 DEF AttendInv
<1> QED
  BY <1>1, OwnersAlways, AttendedAlways, PTL
-----------------------------------------------------------------------------
(* The bytes of a client. *)

\* All of a client's bytes that are somewhere, in the order in which they come back.
Trail(c) == received[c] \o sndbuf[c] \o buffer[c] \o rcvbuf[c]

\* Bytes of c in the order in which it wrote them, maybe not all, up to the nth.
InOrder(s, c, n) ==
  \A i, j \in DOMAIN s : /\ s[i][1] = c /\ s[i][2] <= n
                         /\ i < j => s[i][2] < s[j][2]

\* All bytes of c up to the nth.
Complete(s, c, n) == Len(s) = n /\ \A i \in DOMAIN s : s[i] = <<c, i>>

\* Nothing comes that the client did not write, doubled or out of order; and nothing is
\* missing while the server runs and the client is there.
ByteInv ==
  \A c \in Clients :
    /\ InOrder(Trail(c), c, sent[c])
    /\ client[c] = "none" => sent[c] = 0
    /\ running /\ ~Over /\ client[c] # "gone" => Complete(Trail(c), c, sent[c])

LEMMA BytesAreTuples ==
  ASSUME NEW b \in Bytes
  PROVE  b[2] \in Nat
<1>1. PICK c \in Clients : b \in {c} \X (1 .. EchoMax[c])
  BY DEF Bytes
<1>2. EchoMax[c] \in Nat
  BY ProgramsAssumption
<1> QED
  BY <1>1, <1>2

\* A part that is lost leaves the rest in order.
LEMMA LossKeepsOrder ==
  ASSUME NEW c, NEW n, NEW S, NEW s \in Seq(S), NEW t \in Seq(S), NEW u \in Seq(S),
         InOrder(s \o (t \o u), c, n)
  PROVE  InOrder(s \o u, c, n)
<1>1. Len(s) \in Nat /\ Len(t) \in Nat /\ Len(u) \in Nat
  BY LenProperties
<1>2. /\ t \o u \in Seq(S) /\ Len(t \o u) = Len(t) + Len(u)
      /\ \A i \in 1 .. Len(t) + Len(u) : (t \o u)[i] = IF i <= Len(t) THEN t[i] ELSE u[i - Len(t)]
  BY ConcatProperties
<1> DEFINE w == s \o (t \o u)
           v == s \o u
           at(i) == IF i <= Len(s) THEN i ELSE i + Len(t)
<1>3. /\ w \in Seq(S) /\ Len(w) = Len(s) + (Len(t) + Len(u))
      /\ \A i \in 1 .. Len(s) + (Len(t) + Len(u)) :
           w[i] = IF i <= Len(s) THEN s[i] ELSE (t \o u)[i - Len(s)]
  <2>1. Len(s) + Len(t \o u) = Len(s) + (Len(t) + Len(u))
    BY <1>2
  <2> QED
    BY <1>2, <2>1, ConcatProperties
<1>4. /\ v \in Seq(S) /\ Len(v) = Len(s) + Len(u)
      /\ \A i \in 1 .. Len(s) + Len(u) : v[i] = IF i <= Len(s) THEN s[i] ELSE u[i - Len(s)]
  BY ConcatProperties
<1>5. DOMAIN w = 1 .. Len(s) + (Len(t) + Len(u)) /\ DOMAIN v = 1 .. Len(s) + Len(u)
  BY <1>3, <1>4, LenProperties
<1> HIDE DEF w, v
<1>6. ASSUME NEW i \in DOMAIN v
      PROVE  at(i) \in DOMAIN w /\ v[i] = w[at(i)]
  <2>1. CASE i <= Len(s)
    BY <1>1, <1>3, <1>4, <1>5, <2>1, SMTT(30)
  <2>2. CASE ~(i <= Len(s))
    <3>1. at(i) = i + Len(t) /\ at(i) \in 1 .. Len(s) + (Len(t) + Len(u)) /\ ~(at(i) <= Len(s))
      BY <1>1, <1>5, <2>2
    <3>2. w[at(i)] = (t \o u)[at(i) - Len(s)]
      BY <1>3, <3>1
    <3>3. /\ at(i) - Len(s) \in 1 .. Len(t) + Len(u)
          /\ ~(at(i) - Len(s) <= Len(t))
          /\ (at(i) - Len(s)) - Len(t) = i - Len(s)
      BY <1>1, <1>5, <2>2
    <3>4. w[at(i)] = u[i - Len(s)]
      BY <1>2, <3>2, <3>3
    <3> QED
      BY <1>1, <1>4, <1>5, <2>2, <3>1, <3>4
  <2> QED
    BY <2>1, <2>2
<1>7. \A i, j \in DOMAIN v : i < j => at(i) < at(j)
  BY <1>1, <1>5
<1>8. InOrder(w, c, n)
  BY DEF w
<1>9. InOrder(v, c, n)
  <2> HIDE DEF at
  <2> QED
    BY <1>6, <1>7, <1>8 DEF InOrder
<1> QED
  BY <1>9 DEF v

\* The next byte keeps order and completeness.
LEMMA NextByte ==
  ASSUME NEW c \in Clients, NEW n \in Nat, NEW s \in Seq(Bytes),
         <<c, n + 1>> \in Bytes
  PROVE  /\ InOrder(s, c, n) => InOrder(Append(s, <<c, n + 1>>), c, n + 1)
         /\ Complete(s, c, n) => Complete(Append(s, <<c, n + 1>>), c, n + 1)
<1> DEFINE e == <<c, n + 1>>
           t == Append(s, e)
<1>1. e[1] = c /\ e[2] = n + 1
  OBVIOUS
<1>2. Len(s) \in Nat /\ DOMAIN s = 1 .. Len(s) /\ \A i \in DOMAIN s : s[i][2] \in Nat
  BY LenProperties, ElementOfSeq, BytesAreTuples
<1>3. /\ t \in Seq(Bytes) /\ Len(t) = Len(s) + 1
      /\ \A i \in 1 .. Len(s) : t[i] = s[i]
      /\ t[Len(s) + 1] = e
  BY AppendProperties
<1>4. DOMAIN t = 1 .. Len(s) + 1
  BY <1>3, LenProperties
<1> HIDE DEF e, t
<1>5. ASSUME InOrder(s, c, n)
      PROVE  InOrder(t, c, n + 1)
  <2>1. ASSUME NEW i \in DOMAIN t
        PROVE  t[i][1] = c /\ t[i][2] <= n + 1
    <3>1. CASE i \in 1 .. Len(s)
      BY <1>2, <1>3, <1>5, <3>1 DEF InOrder
    <3>2. CASE i = Len(s) + 1
      BY <1>1, <1>3, <3>2
    <3> QED
      BY <1>2, <1>4, <3>1, <3>2
  <2>2. ASSUME NEW i \in DOMAIN t, NEW j \in DOMAIN t, i < j
        PROVE  t[i][2] < t[j][2]
    <3>1. i \in 1 .. Len(s) /\ t[i] = s[i] /\ s[i][2] <= n /\ s[i][2] \in Nat
      BY <1>2, <1>3, <1>4, <1>5, <2>2 DEF InOrder
    <3>2. CASE j \in 1 .. Len(s)
      BY <1>2, <1>3, <1>5, <2>2, <3>1, <3>2 DEF InOrder
    <3>3. CASE j = Len(s) + 1
      BY <1>1, <1>3, <3>1, <3>3
    <3> QED
      BY <1>2, <1>4, <3>2, <3>3
  <2> QED
    BY <2>1, <2>2 DEF InOrder
<1>6. ASSUME Complete(s, c, n)
      PROVE  Complete(t, c, n + 1)
  BY <1>2, <1>3, <1>4, <1>6 DEF Complete, e
<1> QED
  BY <1>5, <1>6 DEF e, t

LEMMA TrailIsSeq ==
  ASSUME TypeOK, NEW c \in Clients
  PROVE  /\ {received[c], sndbuf[c], buffer[c], rcvbuf[c]} \subseteq Seq(Bytes)
         /\ received[c] \o sndbuf[c] \in Seq(Bytes)
         /\ received[c] \o sndbuf[c] \o buffer[c] \in Seq(Bytes)
         /\ Trail(c) \in Seq(Bytes)
<1>1. {received[c], sndbuf[c], buffer[c], rcvbuf[c]} \subseteq Seq(Bytes)
  BY DEF TypeOK
<1>2. received[c] \o sndbuf[c] \in Seq(Bytes)
  BY <1>1, ConcatProperties
<1>3. (received[c] \o sndbuf[c]) \o buffer[c] \in Seq(Bytes)
  BY <1>1, <1>2, ConcatProperties
<1>4. Trail(c) \in Seq(Bytes)
  BY <1>1, <1>3, ConcatProperties DEF Trail
<1> QED
  BY <1>1, <1>2, <1>3, <1>4

\* Bytes that are with nobody any more leave the others in order: those of a socket ...
LEMMA SocketLossKeepsOrder ==
  ASSUME NEW c, NEW n, NEW S,
         NEW r \in Seq(S), NEW s \in Seq(S), NEW b \in Seq(S), NEW q \in Seq(S),
         InOrder(((r \o s) \o b) \o q, c, n)
  PROVE  InOrder(((r \o <<>>) \o b) \o q, c, n)
<1>1. b \o q \in Seq(S) /\ r \o s \in Seq(S)
  BY ConcatProperties
<1>2. ((r \o s) \o b) \o q = (r \o s) \o (b \o q)
  BY <1>1, ConcatAssociative, SMTT(60)
<1>3. (r \o s) \o (b \o q) = r \o (s \o (b \o q))
  <2>1. PICK w \in Seq(S) : w = b \o q
    BY <1>1
  <2>2. (r \o s) \o w = r \o (s \o w)
    BY ConcatAssociative, SMTT(60)
  <2> QED
    BY <2>1, <2>2
<1>4. (r \o b) \o q = r \o (b \o q)
  BY ConcatAssociative
<1>5. r \o <<>> = r
  BY ConcatEmptySeq
<1>6. InOrder(r \o (b \o q), c, n)
  BY <1>1, <1>2, <1>3, LossKeepsOrder
<1> QED
  BY <1>4, <1>5, <1>6

\* ... and those in the buffer of a handler.
LEMMA BufferLossKeepsOrder ==
  ASSUME NEW c, NEW n, NEW S,
         NEW r \in Seq(S), NEW s \in Seq(S), NEW b \in Seq(S), NEW q \in Seq(S),
         InOrder(((r \o s) \o b) \o q, c, n)
  PROVE  InOrder(((r \o s) \o <<>>) \o q, c, n)
<1>1. r \o s \in Seq(S)
  BY ConcatProperties
<1>2. ((r \o s) \o b) \o q = (r \o s) \o (b \o q)
  BY <1>1, ConcatAssociative, SMTT(60)
<1>3. (r \o s) \o <<>> = r \o s
  BY <1>1, ConcatEmptySeq
<1> QED
  BY <1>1, <1>2, <1>3, LossKeepsOrder

\* A step that moves no bytes, at most drops some, and those of a client that is still
\* there only once the server is over or told to stop.
LEMMA DroppingKeepsBytes ==
  ASSUME TypeInv, ByteInv, UNCHANGED <<sent, received, rcvbuf>>,
         running' /\ ~Over' => running /\ ~Over,
         \A c \in Clients :
           /\ sndbuf'[c] = sndbuf[c] \/ sndbuf'[c] = <<>>
           /\ buffer'[c] = buffer[c] \/ buffer'[c] = <<>>
           /\ client[c] = "gone" => client'[c] = "gone"
           /\ client'[c] = "none" => client[c] = "none"
           /\ \/ sndbuf'[c] = sndbuf[c] /\ buffer'[c] = buffer[c]
              \/ ~(running' /\ ~Over') \/ client'[c] = "gone"
  PROVE  ByteInv'
<1> SUFFICES ASSUME NEW c \in Clients
             PROVE  /\ InOrder(Trail(c)', c, sent'[c])
                    /\ client'[c] = "none" => sent'[c] = 0
                    /\ running' /\ ~Over' /\ client'[c] # "gone" => Complete(Trail(c)', c, sent'[c])
  BY DEF ByteInv
<1>1. /\ received[c] \in Seq(Bytes) /\ sndbuf[c] \in Seq(Bytes)
      /\ buffer[c] \in Seq(Bytes) /\ rcvbuf[c] \in Seq(Bytes)
  BY TrailIsSeq DEF TypeInv
<1>2. Trail(c)' = ((received[c] \o sndbuf'[c]) \o buffer'[c]) \o rcvbuf[c]
  BY DEF Trail
<1>3. InOrder(((received[c] \o sndbuf[c]) \o buffer[c]) \o rcvbuf[c], c, sent[c])
  BY DEF ByteInv, Trail
<1>4. InOrder(((received[c] \o sndbuf'[c]) \o buffer[c]) \o rcvbuf[c], c, sent[c])
  BY <1>1, <1>3, SocketLossKeepsOrder
<1>5. sndbuf'[c] \in Seq(Bytes)
  BY <1>1, EmptySeq
<1>6. InOrder(Trail(c)', c, sent[c])
  BY <1>1, <1>2, <1>4, <1>5, BufferLossKeepsOrder
<1>7. sndbuf'[c] = sndbuf[c] /\ buffer'[c] = buffer[c] => Trail(c)' = Trail(c)
  BY <1>2 DEF Trail
<1> QED
  BY <1>6, <1>7 DEF ByteInv

\* A step that moves bytes along the trail of one client.
LEMMA MovingKeepsBytes ==
  ASSUME ByteInv, UNCHANGED <<client, sent, pc, running>>,
         \A c \in Clients : Trail(c)' = Trail(c)
  PROVE  ByteInv'
<1>1. ASSUME NEW c \in Clients
      PROVE  /\ InOrder(Trail(c)', c, sent'[c])
             /\ client'[c] = "none" => sent'[c] = 0
             /\ running' /\ ~Over' /\ client'[c] # "gone" => Complete(Trail(c)', c, sent'[c])
  <2>1. Trail(c)' = Trail(c) /\ Over' = Over
    BY DEF Over
  <2> QED
    BY <2>1 DEF ByteInv
<1> QED
  BY <1>1 DEF ByteInv

LEMMA ClientsKeepBytes ==
  ASSUME TypeInv, ByteInv, NEW c \in Clients,
         \/ ClientConnects(c) \/ ClientWrites(c) \/ ClientReads(c)
         \/ \E how \in {"finished", "gone"} : ClientLeaves(c, how)
  PROVE  ByteInv'
<1>1. CASE ClientConnects(c)
  BY <1>1, DroppingKeepsBytes DEF ClientConnects, TypeInv, TypeOK, sockets, hands, signal, Over
<1>2. CASE ClientWrites(c)
  <2>1. /\ client[c] = "open" /\ sent[c] \in Nat /\ sent[c] < EchoMax[c]
        /\ \A d \in Clients : sent'[d] = IF d = c THEN sent[c] + 1 ELSE sent[d]
        /\ \A d \in Clients : rcvbuf'[d] = IF d = c THEN Append(rcvbuf[c], <<c, sent[c] + 1>>)
                                           ELSE rcvbuf[d]
        /\ UNCHANGED <<client, received, sndbuf, buffer, pc, running>>
    BY <1>2 DEF ClientWrites, TypeInv, TypeOK, open, hands, signal
  <2>2. <<c, sent[c] + 1>> \in Bytes
    <3>1. EchoMax[c] \in Nat
      BY ProgramsAssumption
    <3>2. sent[c] + 1 \in 1 .. EchoMax[c]
      BY <2>1, <3>1
    <3> QED
      BY <3>2 DEF Bytes
  <2>3. /\ received[c] \o sndbuf[c] \o buffer[c] \in Seq(Bytes)
        /\ rcvbuf[c] \in Seq(Bytes) /\ Trail(c) \in Seq(Bytes)
    BY TrailIsSeq DEF TypeInv
  <2>4. Trail(c)' = Append(Trail(c), <<c, sent[c] + 1>>)
    <3>1. PICK w \in Seq(Bytes) : w = received[c] \o sndbuf[c] \o buffer[c]
      BY <2>3
    <3>2. Trail(c)' = w \o Append(rcvbuf[c], <<c, sent[c] + 1>>) /\ Trail(c) = w \o rcvbuf[c]
      BY <2>1, <3>1 DEF Trail
    <3> QED
      BY <2>2, <2>3, <3>2, AppendToConcat, SMTT(30)
  <2>5. ASSUME NEW d \in Clients
        PROVE  /\ InOrder(Trail(d)', d, sent'[d])
               /\ client'[d] = "none" => sent'[d] = 0
               /\ running' /\ ~Over' /\ client'[d] # "gone" => Complete(Trail(d)', d, sent'[d])
    <3>1. CASE d = c
      <4>1. /\ InOrder(Trail(c), c, sent[c])
            /\ running /\ ~Over => Complete(Trail(c), c, sent[c])
        BY <2>1 DEF ByteInv
      <4>2. /\ InOrder(Trail(c)', c, sent[c] + 1)
            /\ running /\ ~Over => Complete(Trail(c)', c, sent[c] + 1)
        BY <2>1, <2>2, <2>3, <2>4, <4>1, NextByte
      <4> QED
        BY <2>1, <3>1, <4>2 DEF Over
    <3>2. CASE d # c
      <4>1. Trail(d)' = Trail(d)
        BY <2>1, <3>2 DEF Trail
      <4> QED
        BY <2>1, <3>2, <4>1 DEF ByteInv, Over
    <3> QED
      BY <3>1, <3>2
  <2> QED
    BY <2>5 DEF ByteInv
<1>3. CASE ClientReads(c)
  <2>1. /\ UNCHANGED <<client, sent, pc, running, rcvbuf, buffer>>
        /\ sndbuf[c] # <<>>
        /\ \A d \in Clients :
             /\ received'[d] = IF d = c THEN Append(received[c], Head(sndbuf[c])) ELSE received[d]
             /\ sndbuf'[d] = IF d = c THEN Tail(sndbuf[c]) ELSE sndbuf[d]
    BY <1>3 DEF ClientReads, TypeInv, TypeOK, open, hands, signal
  <2>2. received'[c] \o sndbuf'[c] = received[c] \o sndbuf[c]
    <3>1. received[c] \in Seq(Bytes) /\ sndbuf[c] \in Seq(Bytes)
      BY TrailIsSeq DEF TypeInv
    <3>2. Append(received[c], Head(sndbuf[c])) \o Tail(sndbuf[c]) = received[c] \o sndbuf[c]
      BY <2>1, <3>1, MoveHead
    <3> QED
      BY <2>1, <3>2
  <2>3. \A d \in Clients : Trail(d)' = Trail(d)
    BY <2>1, <2>2 DEF Trail
  <2> QED
    BY <2>1, <2>3, MovingKeepsBytes
<1>4. ASSUME NEW how \in {"finished", "gone"}, ClientLeaves(c, how)
      PROVE  ByteInv'
  <2>1. /\ UNCHANGED <<sent, received, rcvbuf, buffer, pc, running>>
        /\ \A d \in Clients :
             /\ client'[d] = IF d = c THEN how ELSE client[d]
             /\ sndbuf'[d] = IF d = c /\ how = "gone" THEN <<>> ELSE sndbuf[d]
        /\ client[c] # "gone"
    BY <1>4 DEF ClientLeaves, TypeInv, TypeOK, hands, signal
  <2> QED
    BY <2>1, DroppingKeepsBytes DEF Over
<1> QED
  BY <1>1, <1>2, <1>3, <1>4

\* What the end of a process does to the bytes: its handlers lose their buffers.
LEMMA ExitKeepsBytes ==
  ASSUME TypeInv, ByteInv, NEW p, Exit(p),
         UNCHANGED <<program, sent, received, sockets, signal>>,
         Over => Over',
         ~Over' => \A h \in Clients : Process(h) = p => buffer[h] = <<>> \/ client[h] = "gone"
  PROVE  ByteInv'
<1>1. TypeOK /\ Close(p, Clients, {p})
  BY DEF TypeInv, Exit
<1>2. \A c \in Clients : client'[c] = client[c] \/ (client[c] = "open" /\ client'[c] = "gone")
  BY <1>1, CloseEffect
<1>3. \A h \in Clients : buffer'[h] = IF Process(h) = p THEN <<>> ELSE buffer[h]
  BY DEF Exit
<1> QED
  BY <1>2, <1>3, DroppingKeepsBytes DEF sockets, signal

\* A socket closed by a process that goes on.
LEMMA CloseKeepsBytes ==
  ASSUME TypeInv, ByteInv, NEW p, NEW cs, NEW l, Close(p, cs, l),
         UNCHANGED <<sent, received, sockets, buffer, running>>,
         Over => Over'
  PROVE  ByteInv'
<1>1. TypeOK
  BY DEF TypeInv
<1>2. \A c \in Clients : client'[c] = client[c] \/ (client[c] = "open" /\ client'[c] = "gone")
  BY <1>1, CloseEffect
<1> QED
  BY <1>2, DroppingKeepsBytes DEF sockets

LEMMA MainKeepsBytes ==
  ASSUME TypeInv, ByteInv, MainLoop
  PROVE  ByteInv'
<1>1. CASE Test
  <2>1. CASE running
    BY <1>1, <2>1, DroppingKeepsBytes DEF Test, open, sockets, signal, Over
  <2>2. CASE ~running
    BY <1>1, <2>2, ExitKeepsBytes DEF Test, Over
  <2> QED
    BY <2>1, <2>2
<1>2. CASE AcceptFails
  BY <1>2, DroppingKeepsBytes DEF AcceptFails, outside, sockets, hands, signal, Over
<1>3. CASE Accept
  BY <1>3, DroppingKeepsBytes DEF Accept, outside, sockets, signal, Over
<1>4. CASE Fork
  BY <1>4, DroppingKeepsBytes DEF Fork, outside, sockets, signal, Over
<1>5. CASE CloseInParent
  BY <1>5, CloseKeepsBytes DEF CloseInParent, hands, signal, Over
<1>6. CASE PthreadCreate
  BY <1>6, DroppingKeepsBytes DEF PthreadCreate, outside, sockets, signal, Over
<1>7. CASE CreateFails
  BY <1>7, CloseKeepsBytes DEF CreateFails, hands, signal, Over
<1> QED
  BY <1>1, <1>2, <1>3, <1>4, <1>5, <1>6, <1>7 DEF MainLoop, MainGoesOn

\* A handler that ends has nothing in its buffer.
LEMMA EndKeepsBytes ==
  ASSUME TypeInv, OwnerInv, ByteInv, NEW h \in Clients, At(h, "recv") \/ At(h, "closing"), End(h),
         UNCHANGED <<program, sent, received, sockets, cur, serves, signal>>
  PROVE  ByteInv'
<1>1. buffer[h] = <<>>
  BY DEF At, TypeInv, TypeOK
<1>2. Over => Over'
  <2>1. pc' = pc \/ (program = "single" /\ h \in Busy)
    BY DEF End, At, Busy
  <2> QED
    BY <2>1 DEF OwnerInv, Over
<1>3. CASE program = "fork"
  BY <1>1, <1>2, <1>3, ExitKeepsBytes DEF End, Process
<1>4. CASE program # "fork"
  BY <1>2, <1>4, CloseKeepsBytes DEF End, signal
<1> QED
  BY <1>3, <1>4

LEMMA HandlersKeepBytes ==
  ASSUME TypeInv, OwnerInv, ByteInv, NEW h \in Clients, Handle(h)
  PROVE  ByteInv'
<1>0. TypeOK
  BY DEF TypeInv
<1>1. CASE Begin(h)
  BY <1>1, CloseKeepsBytes DEF Begin, signal, Over
<1>2. CASE Recv(h)
  <2> DEFINE n == Least(Len(rcvbuf[h]), ReadSize)
  <2>1. serves[h] = h /\ buffer[h] = <<>>
    BY <1>2 DEF Recv, At, TypeInv, TypeOK, PlaceInv
  <2>2. /\ \A c \in Clients :
             /\ buffer'[c] = IF c = h THEN Take(rcvbuf[h], n) ELSE buffer[c]
             /\ rcvbuf'[c] = IF c = h THEN Drop(rcvbuf[h], n) ELSE rcvbuf[c]
        /\ UNCHANGED <<client, sent, received, sndbuf, pc, running>>
    BY <1>0, <1>2, <2>1 DEF Recv, TypeOK, outside, signal
  <2>3. n \in 0 .. Len(rcvbuf[h])
    <3>1. Len(rcvbuf[h]) \in Nat /\ ReadSize \in Nat
      BY <1>0, LenProperties, ProgramsAssumption DEF TypeOK
    <3> QED
      BY <3>1 DEF Least
  <2> HIDE DEF n
  <2>4. /\ Take(rcvbuf[h], n) \in Seq(Bytes) /\ Drop(rcvbuf[h], n) \in Seq(Bytes)
        /\ Take(rcvbuf[h], n) \o Drop(rcvbuf[h], n) = rcvbuf[h]
    BY <1>0, <2>3, PartsOfBuffer, SMTT(30) DEF TypeOK
  <2>5. PICK w \in Seq(Bytes) : w = received[h] \o sndbuf[h]
    BY <1>0, TrailIsSeq
  <2>6. PICK t \in Seq(Bytes), d \in Seq(Bytes) :
          t = Take(rcvbuf[h], n) /\ d = Drop(rcvbuf[h], n)
    BY <2>4
  <2>7. Trail(h)' = (w \o t) \o d
    BY <2>2, <2>5, <2>6 DEF Trail
  <2>8. Trail(h) = w \o (t \o d)
    <3>1. w \o <<>> = w
      BY ConcatEmptySeq
    <3> QED
      BY <2>1, <2>4, <2>5, <2>6, <3>1 DEF Trail
  <2>9. \A c \in Clients : Trail(c)' = Trail(c)
    <3>1. Trail(h)' = Trail(h)
      BY <2>7, <2>8, ConcatAssociative, SMTT(30)
    <3>2. \A c \in Clients \ {h} : Trail(c)' = Trail(c)
      BY <2>2 DEF Trail
    <3> QED
      BY <3>1, <3>2
  <2> QED
    BY <2>2, <2>9, MovingKeepsBytes
<1>3. CASE RecvEnds(h)
  BY <1>3, EndKeepsBytes DEF RecvEnds
<1>4. CASE Send(h)
  <2>1. serves[h] = h
    BY <1>4 DEF Send, At, TypeInv, PlaceInv
  <2>2. PICK n \in 1 .. Least(Len(buffer[h]), SndCap - Len(sndbuf[h])) :
          /\ sndbuf' = [sndbuf EXCEPT ![h] = sndbuf[h] \o Take(buffer[h], n)]
          /\ buffer' = [buffer EXCEPT ![h] = Drop(buffer[h], n)]
    BY <1>4, <2>1 DEF Send
  <2>3. UNCHANGED <<client, sent, received, rcvbuf, pc, running>>
    BY <1>4 DEF Send, outside, signal
  <2>4. n \in 0 .. Len(buffer[h])
    <3>1. Len(buffer[h]) \in Nat /\ Len(sndbuf[h]) \in Nat /\ SndCap \in Nat
      BY <1>0, LenProperties, ProgramsAssumption DEF TypeOK
    <3> QED
      BY <3>1 DEF Least
  <2>5. /\ Take(buffer[h], n) \in Seq(Bytes) /\ Drop(buffer[h], n) \in Seq(Bytes)
        /\ Take(buffer[h], n) \o Drop(buffer[h], n) = buffer[h]
    BY <1>0, <2>4, PartsOfBuffer, SMTT(30) DEF TypeOK
  <2>6. PICK r \in Seq(Bytes), q \in Seq(Bytes), t \in Seq(Bytes), d \in Seq(Bytes) :
          r = received[h] /\ q = sndbuf[h] /\ t = Take(buffer[h], n) /\ d = Drop(buffer[h], n)
    BY <1>0, <2>5 DEF TypeOK
  <2>7. sndbuf'[h] = q \o t /\ buffer'[h] = d /\ buffer[h] = t \o d
    BY <1>0, <2>2, <2>5, <2>6 DEF TypeOK
  <2>8. (r \o (q \o t)) \o d = (r \o q) \o (t \o d)
    <3>1. PICK w \in Seq(Bytes) : w = r \o q
      BY ConcatProperties
    <3>2. r \o (q \o t) = w \o t
      BY <3>1, ConcatAssociative, SMTT(60)
    <3>3. (w \o t) \o d = w \o (t \o d)
      BY ConcatAssociative, SMTT(60)
    <3> QED
      BY <3>1, <3>2, <3>3
  <2>9. Trail(h)' = Trail(h)
    BY <2>3, <2>6, <2>7, <2>8 DEF Trail
  <2>10. \A c \in Clients \ {h} : Trail(c)' = Trail(c)
    BY <1>0, <2>2, <2>3 DEF Trail, TypeOK
  <2> QED
    BY <2>3, <2>9, <2>10, MovingKeepsBytes
<1>5. CASE SendFails(h)
  <2>1. serves[h] = h /\ client[h] = "gone" /\ h \in Busy
    BY <1>5 DEF SendFails, At, TypeInv, PlaceInv, Busy
  <2>2. CASE Exit(Process(h)) /\ pc' = IF Process(h) = Main THEN "killed" ELSE pc
    <3>1. Over => Over'
      BY <2>2 DEF Over
    <3>2. ~Over' => \A g \in Clients : Process(g) = Process(h) => client[g] = "gone"
      <4>1. Process(h) = Main => Over'
        BY <2>2 DEF Over
      <4>2. CASE program = "fork"
        BY <2>1, <4>2 DEF Process
      <4>3. CASE program # "fork"
        BY <4>1, <4>3 DEF Process
      <4> QED
        BY <4>2, <4>3
    <3> QED
      BY <1>5, <2>2, <3>1, <3>2, ExitKeepsBytes DEF SendFails
  <2>3. CASE buffer' = [buffer EXCEPT ![h] = <<>>] /\ UNCHANGED <<open, pc>>
    BY <1>0, <1>5, <2>1, <2>3, DroppingKeepsBytes DEF SendFails, TypeOK, open, sockets, signal, Over
  <2> QED
    BY <1>5, <2>2, <2>3 DEF SendFails
<1>6. CASE CloseInterrupted(h)
  BY <1>6, EndKeepsBytes DEF CloseInterrupted
<1> QED
  BY <1>1, <1>2, <1>3, <1>4, <1>5, <1>6 DEF Handle

LEMMA BytesAlways == SafeSpec => []ByteInv
<1>1. Init => ByteInv
  <2> SUFFICES ASSUME Init, NEW c \in Clients
               PROVE  /\ InOrder(Trail(c), c, sent[c])
                      /\ sent[c] = 0
                      /\ Complete(Trail(c), c, sent[c])
    BY DEF ByteInv
  <2>1. Trail(c) = <<>> /\ sent[c] = 0
    <3>1. <<>> \o <<>> = <<>>
      BY EmptySeq, ConcatEmptySeq
    <3> QED
      BY <3>1 DEF Init, Trail
  <2>2. Len(<<>>) = 0 /\ DOMAIN <<>> = {}
    <3>1. <<>> \in Seq(Clients) /\ Len(<<>>) = 0
      BY EmptySeq
    <3>2. DOMAIN <<>> = 1 .. 0
      BY <3>1, LenProperties
    <3> QED
      BY <3>1, <3>2
  <2> QED
    BY <2>1, <2>2 DEF InOrder, Complete
<1>2. TypeInv /\ OwnerInv /\ ByteInv /\ [Next]_vars => ByteInv'
  <2> SUFFICES ASSUME TypeInv, OwnerInv, ByteInv, [Next]_vars PROVE ByteInv'
    OBVIOUS
  <2>1. CASE UNCHANGED vars
    BY <2>1, DroppingKeepsBytes DEF vars, sockets, hands, signal, Over
  <2>2. CASE MainLoop
    BY <2>2, MainKeepsBytes
  <2>3. ASSUME NEW h \in Clients, Handle(h)
        PROVE  ByteInv'
    BY <2>3, HandlersKeepBytes
  <2>4. ASSUME NEW c \in Clients,
               \/ ClientConnects(c) \/ ClientWrites(c) \/ ClientReads(c)
               \/ \E how \in {"finished", "gone"} : ClientLeaves(c, how)
        PROVE  ByteInv'
    BY <2>4, ClientsKeepBytes
  <2>5. CASE Interrupt
    BY <2>5, InterruptEffect, DroppingKeepsBytes DEF TypeInv, outside, sockets
  <2> QED
    BY <2>1, <2>2, <2>3, <2>4, <2>5 DEF Next
<1> QED
  BY <1>1, <1>2, TypesAlways, OwnersAlways, PTL DEF SafeSpec

\* What a part of the trail has, the trail has.
LEMMA InOrderPart ==
  ASSUME NEW c, NEW n, NEW S, NEW s \in Seq(S), NEW t \in Seq(S), InOrder(s \o t, c, n)
  PROVE  InOrder(s, c, n)
<1>1. /\ s \o t \in Seq(S) /\ Len(s \o t) = Len(s) + Len(t)
      /\ \A i \in 1 .. Len(s) + Len(t) : (s \o t)[i] = IF i <= Len(s) THEN s[i] ELSE t[i - Len(s)]
  BY ConcatProperties
<1>2. /\ DOMAIN s = 1 .. Len(s) /\ DOMAIN (s \o t) = 1 .. Len(s) + Len(t)
      /\ Len(s) \in Nat /\ Len(t) \in Nat
  BY <1>1, LenProperties
<1>3. \A i \in DOMAIN s : i \in DOMAIN (s \o t) /\ (s \o t)[i] = s[i]
  BY <1>1, <1>2
<1> QED
  BY <1>3 DEF InOrder

\* A client gets exactly its own bytes back, each once and in order; and until a signal
\* comes none is missing, whoever else is served meanwhile.
THEOREM EchoIsExactAlways == SafeSpec => []EchoIsExact
<1>1. TypeInv /\ ByteInv => EchoIsExact
  <2> SUFFICES ASSUME TypeInv, ByteInv, NEW c \in Clients, client[c] \in {"open", "finished"}
               PROVE  LET back == received[c] \o sndbuf[c]
                          held == IF serves[c] = c THEN buffer[c] ELSE <<>>
                      IN /\ \A i, j \in DOMAIN back :
                              back[i][1] = c /\ (i < j => back[i][2] < back[j][2])
                         /\ running /\ ~Over =>
                              back \o held \o rcvbuf[c] = [n \in 1..sent[c] |-> <<c, n>>]
    BY DEF EchoIsExact
  <2> DEFINE back == received[c] \o sndbuf[c]
             held == IF serves[c] = c THEN buffer[c] ELSE <<>>
  <2>1. held = buffer[c]
    BY DEF TypeInv, TypeOK, PlaceInv
  <2>2. Trail(c) = (back \o held) \o rcvbuf[c]
    BY <2>1 DEF Trail
  <2>3. /\ back \in Seq(Bytes) /\ held \in Seq(Bytes) /\ back \o held \in Seq(Bytes)
        /\ rcvbuf[c] \in Seq(Bytes) /\ Trail(c) \in Seq(Bytes)
    BY <2>1, TrailIsSeq DEF TypeInv
  <2> HIDE DEF back, held
  <2>4. InOrder(Trail(c), c, sent[c])
    BY DEF ByteInv
  <2>5. InOrder(back \o held, c, sent[c])
    BY <2>2, <2>3, <2>4, InOrderPart
  <2>6. InOrder(back, c, sent[c])
    BY <2>3, <2>5, InOrderPart
  <2>7. ASSUME running, ~Over
        PROVE  Trail(c) = [n \in 1..sent[c] |-> <<c, n>>]
    <3>1. Len(Trail(c)) = sent[c] /\ \A i \in DOMAIN Trail(c) : Trail(c)[i] = <<c, i>>
      BY <2>7 DEF ByteInv, Complete
    <3>2. DOMAIN Trail(c) = 1 .. sent[c] /\ Trail(c) \in [1 .. sent[c] -> Bytes]
      BY <2>3, <3>1, LenProperties
    <3> QED
      BY <3>1, <3>2
  <2> QED
    BY <2>2, <2>6, <2>7 DEF InOrder, back, held
<1> QED
  BY <1>1, TypesAlways, BytesAlways, PTL

=============================================================================
