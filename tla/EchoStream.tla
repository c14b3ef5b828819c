----------------------------- MODULE EchoStream -----------------------------
(***************************************************************************)
(* What a connection promises to its client and to the threads that call   *)
(* send(): there is one stream of bytes to the client, which grows at its  *)
(* end only, by the echo of the bytes the client wrote, in order, and by   *)
(* the messages, in order and each in one piece.  The connection is closed *)
(* only when the client has left or forceClose was called.  Until then     *)
(* everything comes; the close cuts off an end of what was on its way.     *)
(* TcpConnection.tla is shown to implement this specification.             *)
(***************************************************************************)
EXTENDS Naturals, Sequences

CONSTANTS EchoMax, MsgMax, MsgLen

VARIABLES
  client,               \* "open", "finished", "gone"
  written,              \* how many bytes the client has written
  accepted,             \* how many messages send() has accepted
  stream,               \* what the client has read and what is on its way to it
  received,             \* what the client has read
  asked,                \* forceClose was called
  closed

vars == <<client, written, accepted, stream, received, asked, closed>>

Byte(origin, n) == <<origin, n>>
Message(m) == [i \in 1..MsgLen |-> Byte("app", (m - 1) * MsgLen + i)]

\* The numbers of the bytes of one origin in the stream.
Numbers(origin) == {stream[i][2] : i \in {j \in DOMAIN stream : stream[j][1] = origin}}

Init ==
  /\ client = "open"
  /\ written = 0
  /\ accepted = 0
  /\ stream = <<>>
  /\ received = <<>>
  /\ asked = FALSE
  /\ closed = FALSE

Write ==
  /\ client = "open"
  /\ written < EchoMax
  /\ written' = written + 1
  /\ UNCHANGED <<client, accepted, stream, received, asked, closed>>

\* A client that sends a FIN can still read; one that resets the connection cannot.
Leave ==
  \/ /\ client = "open"
     /\ client' = "finished"
     /\ UNCHANGED <<written, accepted, stream, received, asked, closed>>
  \/ /\ client # "gone"
     /\ client' = "gone"
     /\ stream' = received
     /\ UNCHANGED <<written, accepted, received, asked, closed>>

Send ==
  /\ ~closed
  /\ accepted < MsgMax
  /\ accepted' = accepted + 1
  /\ UNCHANGED <<client, written, stream, received, asked, closed>>

ForceClose ==
  /\ asked' = TRUE
  /\ UNCHANGED <<client, written, accepted, stream, received, closed>>

Up == ~closed /\ client # "gone"

\* The next bytes of the client are echoed.
Echo ==
  /\ Up
  /\ \E k, n \in 0..written :
       /\ Numbers("client") = 1..k
       /\ k < n
       /\ stream' = stream \o [i \in 1..(n - k) |-> Byte("client", k + i)]
  /\ UNCHANGED <<client, written, accepted, received, asked, closed>>

\* The next message is put on its way, all of it.
Carry ==
  /\ Up
  /\ \E m \in 1..accepted :
       /\ Numbers("app") = 1..((m - 1) * MsgLen)
       /\ stream' = stream \o Message(m)
  /\ UNCHANGED <<client, written, accepted, received, asked, closed>>

Read ==
  /\ client # "gone"
  /\ Len(received) < Len(stream)
  /\ received' = Append(received, stream[Len(received) + 1])
  /\ UNCHANGED <<client, written, accepted, stream, asked, closed>>

CutOff == \E n \in 0..Len(stream) : n >= Len(received) /\ stream' = SubSeq(stream, 1, n)

Close ==
  /\ ~closed
  /\ asked \/ client # "open"
  /\ closed' = TRUE
  /\ CutOff
  /\ UNCHANGED <<client, written, accepted, received, asked>>

Lose ==
  /\ closed
  /\ CutOff
  /\ UNCHANGED <<client, written, accepted, received, asked, closed>>

Next == Write \/ Leave \/ Send \/ ForceClose \/ Echo \/ Carry \/ Read \/ Close \/ Lose

SafeSpec == Init /\ [][Next]_vars

Spec ==
  /\ SafeSpec
  /\ WF_vars(Echo) /\ WF_vars(Carry) /\ WF_vars(Read) /\ WF_vars(Close)
=============================================================================
