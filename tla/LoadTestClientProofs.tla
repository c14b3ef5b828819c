------------------------ MODULE LoadTestClientProofs ------------------------
(***************************************************************************)
(* Theorems about the load test client, for any number of workers, any     *)
(* size of messages and any number of rounds: its types, that every        *)
(* latency it reports is the time of one request and its own answer, that  *)
(* the report adds up, and that its percentiles are what they are called.  *)
(***************************************************************************)
EXTENDS LoadTestClient, SequenceTheorems, FiniteSetTheorems, TLAPS

\* What recv() takes and what it leaves.
LEMMA TakeDrop ==
  ASSUME NEW S, NEW s \in Seq(S), NEW n \in 1 .. Len(s)
  PROVE  /\ Take(s, n) \in Seq(S) /\ Len(Take(s, n)) = n
         /\ \A i \in 1 .. n : Take(s, n)[i] = s[i]
         /\ Drop(s, n) \in Seq(S) /\ Len(Drop(s, n)) = Len(s) - n
         /\ \A i \in 1 .. Len(s) - n : Drop(s, n)[i] = s[i + n]
<1>1. Len(s) \in Nat /\ \A i \in 1 .. Len(s) : s[i] \in S
  BY LenProperties, ElementOfSeq
<1>2. /\ Take(s, n) \in Seq(S) /\ Len(Take(s, n)) = n
      /\ \A i \in 1 .. n : Take(s, n)[i] = s[i]
  BY <1>1, SubSeqProperties DEF Take
<1>3. /\ Drop(s, n) \in Seq(S) /\ Len(Drop(s, n)) = Len(s) - n
      /\ \A i \in 1 .. Len(s) - n : Drop(s, n)[i] = s[i + n]
  <2>1. CASE n = Len(s)
    BY <1>1, <2>1, SubSeqProperties DEF Drop
  <2>2. CASE n < Len(s)
    BY <1>1, <2>2, SubSeqProperties DEF Drop
  <2> QED
    BY <1>1, <2>1, <2>2
<1> QED
  BY <1>2, <1>3

\* The requests of a round are all of one byte, the number of the round.
LEMMA RepeatIsSeq ==
  ASSUME NEW S, NEW b \in S, NEW n \in Nat
  PROVE  /\ [i \in 1 .. n |-> b] \in Seq(S)
         /\ Len([i \in 1 .. n |-> b]) = n
  OBVIOUS

\* The empty sequence is one of any bytes, and the only one without any.
LEMMA NoBytes ==
  ASSUME NEW S
  PROVE  /\ <<>> \in Seq(S) /\ Len(<<>>) = 0
         /\ \A s \in Seq(S) : Len(s) \in Nat /\ (Len(s) = 0 => s = <<>>)
  OBVIOUS

USE DEF vars, control, stats, wire, locals

-----------------------------------------------------------------------------
(* Types. *)

LEMMA TypeLeave ==
  ASSUME TypeOK, NEW w \in Workers, Leave(w),
         UNCHANGED <<control, round, sent_total, samples, refused, total_requests,
                     total_bytes>>,
         total_errors' \in Nat
  PROVE  TypeOK'
<1>1. /\ outgoing' \in [Workers -> Seq(Nat)]
      /\ incoming' \in [Workers -> Seq(Nat)]
      /\ response' \in [Workers -> Seq(Nat)]
  BY NoBytes DEF TypeOK, Leave
<1>2. /\ \A v \in Workers : Len(outgoing'[v]) <= SndCap
      /\ \A v \in Workers : Len(response'[v]) <= MessageSize
  BY NoBytes, ConfigAssumption, SMTT(30) DEF TypeOK, Leave
<1>3. /\ pc' \in [Workers -> {"none", "connect", "loop", "send", "recv", "verify",
                              "ended"}]
      /\ link' \in [Workers -> {"none", "up", "fin", "reset", "pipe", "closed"}]
  BY DEF TypeOK, Leave, Goto
<1> QED
  BY <1>1, <1>2, <1>3 DEF TypeOK

LEMMA TypeFail ==
  ASSUME TypeOK, NEW w \in Workers, Fail(w)
  PROVE  TypeOK'
<1>1. total_errors' \in Nat
  BY DEF TypeOK, Fail
<1> QED
  BY <1>1, TypeLeave DEF Fail

\* What the server does.
LEMMA TypeServer ==
  ASSUME TypeOK, NEW w \in Workers, Server(w)
  PROVE  TypeOK'
<1>1. CASE Answer(w)
  <2>1. outgoing[w] \in Seq(Nat) /\ outgoing[w] # <<>> /\ incoming[w] \in Seq(Nat)
    BY <1>1 DEF TypeOK, Answer
  <2>2. /\ Head(outgoing[w]) \in Nat
        /\ Tail(outgoing[w]) \in Seq(Nat)
        /\ Len(Tail(outgoing[w])) = Len(outgoing[w]) - 1
    BY <2>1, HeadTailProperties
  <2>3. PICK b \in {Head(outgoing[w]), Wrong} :
          incoming' = [incoming EXCEPT ![w] = Append(@, b)]
    BY <1>1 DEF Answer
  <2>4. Append(incoming[w], b) \in Seq(Nat)
    BY <2>1, <2>2, AppendProperties DEF Wrong
  <2>5. incoming' \in [Workers -> Seq(Nat)]
    BY <2>3, <2>4 DEF TypeOK
  <2>6. outgoing' = [outgoing EXCEPT ![w] = Tail(@)]
    BY <1>1 DEF Answer
  <2>7. outgoing' \in [Workers -> Seq(Nat)]
    BY <2>2, <2>6 DEF TypeOK
  <2>8. \A v \in Workers : Len(outgoing'[v]) <= SndCap
    <3>1. Len(outgoing[w]) \in Nat /\ Len(outgoing[w]) <= SndCap
      BY <2>1 DEF TypeOK
    <3>2. Len(outgoing'[w]) <= SndCap
      BY <2>2, <2>6, <3>1, ConfigAssumption DEF TypeOK
    <3> QED
      BY <2>6, <3>2 DEF TypeOK
  <2> QED
    BY <1>1, <2>5, <2>7, <2>8 DEF TypeOK, Answer
<1>2. CASE Cut(w) \/ RejectLate(w)
  <2>1. outgoing' = [outgoing EXCEPT ![w] = <<>>]
    BY <1>2 DEF Cut, RejectLate
  <2>2. /\ outgoing' \in [Workers -> Seq(Nat)]
        /\ \A v \in Workers : Len(outgoing'[v]) <= SndCap
    BY <2>1, ConfigAssumption, NoBytes, SMTT(30) DEF TypeOK
  <2>3. link' \in [Workers -> {"none", "up", "fin", "reset", "pipe", "closed"}]
    BY <1>2 DEF TypeOK, Cut, RejectLate
  <2>4. UNCHANGED <<control, pc, round, incoming, locals, refused, stats>>
    BY <1>2 DEF Cut, RejectLate
  <2> QED
    BY <2>2, <2>3, <2>4 DEF TypeOK
<1> QED
  BY <1>1, <1>2 DEF Server

\* What a worker does.
LEMMA TypeWorker ==
  ASSUME TypeOK, NEW w \in Workers, Worker(w)
  PROVE  TypeOK'
<1>1. CASE Connect(w)
  BY <1>1 DEF TypeOK, Connect, Goto
<1>2. CASE ConnectFails(w)
  BY <1>2 DEF TypeOK, ConnectFails, Goto
<1>3. CASE BeginRound(w)
  <2>1. /\ round[w] < MaxRounds
        /\ round' = [round EXCEPT ![w] = @ + 1]
        /\ sent_total' = [sent_total EXCEPT ![w] = 0]
        /\ response' = [response EXCEPT ![w] = <<>>]
        /\ Goto(w, "send")
        /\ UNCHANGED <<control, wire, samples, refused, stats>>
    BY <1>3 DEF BeginRound
  <2>2. round[w] \in 0 .. MaxRounds /\ MaxRounds \in Nat /\ MessageSize \in Nat
    BY ConfigAssumption DEF TypeOK
  <2>3. round[w] + 1 \in 0 .. MaxRounds
    BY <2>1, <2>2
  <2>4. round' \in [Workers -> 0 .. MaxRounds]
    BY <2>1, <2>3 DEF TypeOK
  <2>5. sent_total' \in [Workers -> 0 .. MessageSize]
    BY <2>1, <2>2 DEF TypeOK
  <2>6. response' \in [Workers -> Seq(Nat)]
    BY <2>1, NoBytes DEF TypeOK
  <2>7. \A v \in Workers : Len(response'[v]) <= MessageSize
    <3>1. response'[w] = <<>> /\ Len(<<>>) <= MessageSize
      BY <2>1, <2>2, NoBytes DEF TypeOK
    <3> QED
      BY <2>1, <3>1 DEF TypeOK
  <2> QED
    BY <2>1, <2>4, <2>5, <2>6, <2>7 DEF TypeOK, Goto
<1>4. CASE EndLoop(w)
  BY <1>4, TypeLeave DEF EndLoop, TypeOK
<1>5. CASE Send(w)
  <2>1. PICK n \in 1 .. Least(MessageSize - sent_total[w], SndCap - Len(outgoing[w])) :
          /\ outgoing' = [outgoing EXCEPT ![w] = @ \o [i \in 1 .. n |-> round[w]]]
          /\ sent_total' = [sent_total EXCEPT ![w] = @ + n]
          /\ Goto(w, IF sent_total[w] + n = MessageSize THEN "recv" ELSE "send")
    BY <1>5 DEF Send
  <2>2. /\ round[w] \in Nat /\ outgoing[w] \in Seq(Nat) /\ Len(outgoing[w]) \in Nat
        /\ sent_total[w] \in 0 .. MessageSize
        /\ MessageSize \in Nat /\ SndCap \in Nat
    BY ConfigAssumption, LenProperties DEF TypeOK
  <2>3. n \in Nat /\ n <= MessageSize - sent_total[w] /\ n <= SndCap - Len(outgoing[w])
    BY <2>1, <2>2 DEF Least
  <2>4. /\ outgoing[w] \o [i \in 1 .. n |-> round[w]] \in Seq(Nat)
        /\ Len(outgoing[w] \o [i \in 1 .. n |-> round[w]]) = Len(outgoing[w]) + n
    BY <2>2, <2>3, RepeatIsSeq, ConcatProperties
  <2>5. outgoing' \in [Workers -> Seq(Nat)]
    BY <2>1, <2>4 DEF TypeOK
  <2>6. \A v \in Workers : Len(outgoing'[v]) <= SndCap
    <3>1. Len(outgoing'[w]) <= SndCap
      BY <2>1, <2>2, <2>3, <2>4 DEF TypeOK
    <3> QED
      BY <2>1, <3>1 DEF TypeOK
  <2>7. sent_total' \in [Workers -> 0 .. MessageSize]
    BY <2>1, <2>2, <2>3, SMTT(30) DEF TypeOK
  <2>8. UNCHANGED <<control, round, link, incoming, response, samples, refused, stats>>
    BY <1>5 DEF Send
  <2> QED
    BY <2>1, <2>5, <2>6, <2>7, <2>8 DEF TypeOK, Goto
<1>6. CASE SendTimesOut(w) \/ SendFails(w) \/ RecvFails(w)
  BY <1>6, TypeFail DEF SendTimesOut, SendFails, RecvFails
<1>7. CASE BrokenPipe(w)
  BY <1>7 DEF TypeOK, BrokenPipe
<1>8. CASE Recv(w)
  <2>1. PICK n \in 1 .. Least(MessageSize - Len(response[w]), Len(incoming[w])) :
          /\ response' = [response EXCEPT ![w] = @ \o Take(incoming[w], n)]
          /\ incoming' = [incoming EXCEPT ![w] = Drop(@, n)]
          /\ Goto(w, IF Len(response[w]) + n = MessageSize THEN "verify" ELSE "recv")
    BY <1>8 DEF Recv
  <2>2. /\ incoming[w] \in Seq(Nat) /\ response[w] \in Seq(Nat)
        /\ Len(incoming[w]) \in Nat /\ Len(response[w]) \in Nat
        /\ MessageSize \in Nat
    BY ConfigAssumption, LenProperties DEF TypeOK
  <2>3. n \in 1 .. Len(incoming[w]) /\ n <= MessageSize - Len(response[w])
    BY <2>1, <2>2 DEF Least
  <2>4. /\ Take(incoming[w], n) \in Seq(Nat) /\ Len(Take(incoming[w], n)) = n
        /\ Drop(incoming[w], n) \in Seq(Nat)
    BY <2>2, <2>3, TakeDrop
  <2>5. /\ response[w] \o Take(incoming[w], n) \in Seq(Nat)
        /\ Len(response[w] \o Take(incoming[w], n)) = Len(response[w]) + n
    <3>1. PICK r \in Seq(Nat), t \in Seq(Nat) : r = response[w] /\ t = Take(incoming[w], n)
      BY <2>2, <2>4
    <3>2. r \o t \in Seq(Nat) /\ Len(r \o t) = Len(r) + Len(t)
      BY ConcatProperties
    <3> QED
      BY <2>4, <3>1, <3>2
  <2>6. response' \in [Workers -> Seq(Nat)] /\ incoming' \in [Workers -> Seq(Nat)]
    BY <2>1, <2>4, <2>5 DEF TypeOK
  <2>7. \A v \in Workers : Len(response'[v]) <= MessageSize
    <3>1. Len(response'[w]) <= MessageSize
      BY <2>1, <2>2, <2>3, <2>5 DEF TypeOK
    <3> QED
      BY <2>1, <3>1 DEF TypeOK
  <2>8. UNCHANGED <<control, round, link, outgoing, sent_total, samples, refused, stats>>
    BY <1>8 DEF Recv
  <2> QED
    BY <2>1, <2>6, <2>7, <2>8 DEF TypeOK, Goto
<1>9. CASE Verify(w)
  <2>1. CASE Matches(w)
    <3>1. /\ total_requests' = total_requests + 1
          /\ total_bytes' = total_bytes + MessageSize + Len(response[w])
          /\ samples' = [samples EXCEPT
               ![w] = Append(@, [round |-> round[w], answer |-> response[w]])]
          /\ Goto(w, "loop")
          /\ UNCHANGED <<control, round, wire, sent_total, response, refused,
                         total_errors>>
      BY <1>9, <2>1 DEF Verify
    <3>2. /\ round[w] \in Nat /\ response[w] \in Seq(Nat)
          /\ Len(response[w]) \in Nat /\ MessageSize \in Nat
      BY ConfigAssumption, LenProperties DEF TypeOK
    <3>3. Append(samples[w], [round |-> round[w], answer |-> response[w]])
            \in Seq([round : Nat, answer : Seq(Nat)])
      BY <3>2, AppendProperties DEF TypeOK
    <3>4. samples' \in [Workers -> Seq([round : Nat, answer : Seq(Nat)])]
      BY <3>1, <3>3 DEF TypeOK
    <3>5. {total_requests', total_errors', total_bytes'} \subseteq Nat
      BY <3>1, <3>2 DEF TypeOK
    <3> QED
      BY <3>1, <3>4, <3>5 DEF TypeOK, Goto
  <2>2. CASE ~Matches(w)
    BY <1>9, <2>2, TypeFail DEF Verify
  <2> QED
    BY <2>1, <2>2
<1> QED
  BY <1>1, <1>2, <1>3, <1>4, <1>5, <1>6, <1>7, <1>8, <1>9 DEF Worker

LEMMA TypeStep ==
  ASSUME TypeOK, [Next]_vars
  PROVE  TypeOK'
<1>1. ASSUME NEW w \in Workers, Start(w)
      PROVE  TypeOK'
  BY <1>1 DEF TypeOK, Start, Goto
<1>2. CASE Stop \/ Join
  BY <1>2 DEF TypeOK, Stop, Join
<1>3. CASE UNCHANGED vars
  BY <1>3 DEF TypeOK
<1> QED
  BY <1>1, <1>2, <1>3, TypeServer, TypeWorker DEF Next, Run

LEMMA TypeInit ==
  ASSUME Init
  PROVE  TypeOK
<1>1. /\ outgoing \in [Workers -> Seq(Nat)]
      /\ incoming \in [Workers -> Seq(Nat)]
      /\ response \in [Workers -> Seq(Nat)]
  BY NoBytes DEF Init
<1>2. samples \in [Workers -> Seq([round : Nat, answer : Seq(Nat)])]
  BY NoBytes DEF Init
<1>3. /\ \A w \in Workers : Len(outgoing[w]) <= SndCap
      /\ \A w \in Workers : Len(response[w]) <= MessageSize
  BY NoBytes, ConfigAssumption DEF Init
<1>4. /\ round \in [Workers -> 0 .. MaxRounds]
      /\ sent_total \in [Workers -> 0 .. MessageSize]
  BY ConfigAssumption DEF Init
<1>5. /\ pc \in [Workers -> {"none", "connect", "loop", "send", "recv", "verify", "ended"}]
      /\ link \in [Workers -> {"none", "up", "fin", "reset", "pipe", "closed"}]
  BY DEF Init
<1>6. /\ main \in {"start", "join", "done", "killed"}
      /\ stop \in BOOLEAN
      /\ refused \in SUBSET Workers
  BY Zenon DEF Init
<1>7. {total_requests, total_errors, total_bytes} \subseteq Nat
  BY DEF Init
<1> QED
  BY <1>1, <1>2, <1>3, <1>4, <1>5, <1>6, <1>7 DEF TypeOK


\* Type correctness, for any number of workers and any sizes: no worker ever sends or
\* receives more than a message, no socket holds more than it can.
THEOREM TypeCorrect == SafeSpec => []TypeOK
<1>1. Init => TypeOK
  BY TypeInit
<1>2. TypeOK /\ [Next]_vars => TypeOK'
  BY TypeStep
<1> QED
  BY <1>1, <1>2, PTL DEF SafeSpec

-----------------------------------------------------------------------------
(* Answers. *)

InRound(w) == pc[w] \in {"send", "recv", "verify"}

\* Bytes under way and bytes received are of the round a worker is in, or wrong;
\* together they are no more than it has sent in that round; and out of a round
\* nothing is under way.  This is what makes AnswersAreOwn inductive: an answer of
\* full length leaves nothing behind that the next request could take for its own.
Own(w) ==
  /\ outgoing[w] \in Seq({round[w]})
  /\ incoming[w] \in Seq({round[w], Wrong})
  /\ response[w] \in Seq({round[w], Wrong})
  /\ InRound(w) =>
       Len(outgoing[w]) + Len(incoming[w]) + Len(response[w]) <= sent_total[w]
  /\ ~InRound(w) => outgoing[w] = <<>> /\ incoming[w] = <<>>
  /\ pc[w] = "verify" => Len(response[w]) = MessageSize

OwnSamples(w) ==
  \A i \in DOMAIN samples[w] :
    samples[w][i].answer = [j \in 1 .. MessageSize |-> samples[w][i].round]

AnswerInv == TypeOK /\ \A w \in Workers : Own(w) /\ OwnSamples(w)

\* A step of one worker leaves those of the others alone.
Untouched(v) ==
  UNCHANGED <<pc[v], round[v], outgoing[v], incoming[v], response[v], sent_total[v],
              samples[v]>>

LEMMA OwnUntouched ==
  ASSUME NEW v \in Workers, Own(v), OwnSamples(v), Untouched(v)
  PROVE  Own(v)' /\ OwnSamples(v)'
BY DEF Own, OwnSamples, Untouched, InRound

\* Neither before the step nor after it is the worker in a round.
LEMMA OwnBetweenRounds ==
  ASSUME NEW w \in Workers, Own(w), OwnSamples(w),
         UNCHANGED <<round, outgoing, incoming, locals>>, ~InRound(w), ~InRound(w)'
  PROVE  Own(w)' /\ OwnSamples(w)'
<1>1. pc'[w] # "verify"
  BY DEF InRound
<1> QED
  BY <1>1 DEF Own, OwnSamples

\* The others, in any step of w.
LEMMA OthersUntouched ==
  ASSUME TypeOK, NEW w \in Workers, Worker(w) \/ Server(w) \/ Start(w),
         NEW v \in Workers, v # w
  PROVE  Untouched(v)
<1> USE DEF Untouched, TypeOK, Goto
<1>1. CASE Leave(w) /\ UNCHANGED <<round, sent_total, samples>>
  BY <1>1 DEF Leave
<1>2. CASE Fail(w)
  BY <1>1, <1>2 DEF Fail
<1>3. CASE Connect(w) \/ ConnectFails(w)
  BY <1>3 DEF Connect, ConnectFails
<1>4. CASE BeginRound(w)
  BY <1>4 DEF BeginRound
<1>5. CASE EndLoop(w)
  BY <1>5, <1>1 DEF EndLoop
<1>6. CASE Send(w)
  BY <1>6 DEF Send
<1>7. CASE SendTimesOut(w) \/ SendFails(w) \/ RecvFails(w)
  BY <1>7, <1>2 DEF SendTimesOut, SendFails, RecvFails
<1>8. CASE BrokenPipe(w)
  BY <1>8 DEF BrokenPipe
<1>9. CASE Recv(w)
  BY <1>9 DEF Recv
<1>10. CASE Verify(w)
  BY <1>10, <1>2 DEF Verify
<1>11. CASE Server(w)
  BY <1>11 DEF Server, Answer, Cut, RejectLate
<1>12. CASE Start(w)
  BY <1>12 DEF Start
<1> QED
  BY <1>3, <1>4, <1>5, <1>6, <1>7, <1>8, <1>9, <1>10, <1>11, <1>12 DEF Worker

\* The connection is closed: nothing is under way any more.
LEMMA OwnLeave ==
  ASSUME TypeOK, NEW w \in Workers, OwnSamples(w), Leave(w),
         UNCHANGED <<round, sent_total, samples>>
  PROVE  Own(w)' /\ OwnSamples(w)'
<1>1. /\ outgoing'[w] = <<>> /\ incoming'[w] = <<>> /\ response'[w] = <<>>
      /\ pc'[w] = "ended"
  BY DEF TypeOK, Leave, Goto
<1> QED
  BY <1>1, NoBytes DEF Own, OwnSamples, InRound

\* What the server does to the bytes of w.
LEMMA OwnServer ==
  ASSUME TypeOK, NEW w \in Workers, Own(w), OwnSamples(w), Server(w)
  PROVE  Own(w)' /\ OwnSamples(w)'
<1> DEFINE B == {round[w], Wrong}
<1>1. UNCHANGED <<pc, round, sent_total, response, samples>>
  BY DEF Server, Answer, Cut, RejectLate
<1>2. /\ outgoing[w] \in Seq({round[w]}) /\ incoming[w] \in Seq(B) /\ response[w] \in Seq(B)
  BY DEF Own
<1> DEFINE o == Len(outgoing[w])
           i == Len(incoming[w])
           r == Len(response[w])
<1>3. o \in Nat /\ i \in Nat /\ r \in Nat /\ sent_total[w] \in Nat
  BY <1>2, LenProperties, ConfigAssumption DEF TypeOK
<1>4. InRound(w) => o + i + r <= sent_total[w]
  BY DEF Own
<1>5. CASE Answer(w)
  <2>1. PICK b \in {Head(outgoing[w]), Wrong} :
          incoming' = [incoming EXCEPT ![w] = Append(@, b)]
    BY <1>5 DEF Answer
  <2>2. /\ outgoing[w] # <<>>
        /\ outgoing' = [outgoing EXCEPT ![w] = Tail(@)]
    BY <1>5 DEF Answer
  <2>3. /\ Head(outgoing[w]) \in {round[w]}
        /\ Tail(outgoing[w]) \in Seq({round[w]})
        /\ Len(Tail(outgoing[w])) = Len(outgoing[w]) - 1
    BY <1>2, <2>2, HeadTailProperties
  <2>4. b \in B
    BY <2>3
  <2>5. Append(incoming[w], b) \in Seq(B) /\ Len(Append(incoming[w], b)) = Len(incoming[w]) + 1
    BY <1>2, <2>4, AppendProperties
  <2>6. outgoing'[w] = Tail(outgoing[w]) /\ incoming'[w] = Append(incoming[w], b)
    BY <2>1, <2>2 DEF TypeOK
  <2>7. Len(outgoing'[w]) = o - 1 /\ Len(incoming'[w]) = i + 1
    BY <2>3, <2>5, <2>6
  <2>8. InRound(w)
    BY <2>2 DEF Own
  <2>9. Len(outgoing'[w]) + Len(incoming'[w]) + r <= sent_total[w]
    <3> HIDE DEF o, i, r
    <3> QED
      BY <1>3, <1>4, <2>7, <2>8
  <2> QED
    BY <1>1, <1>2, <2>3, <2>5, <2>6, <2>8, <2>9 DEF Own, OwnSamples, InRound
<1>6. CASE Cut(w) \/ RejectLate(w)
  <2>1. outgoing'[w] = <<>> /\ incoming' = incoming
    BY <1>6 DEF Cut, RejectLate, TypeOK
  <2>2. <<>> \in Seq({round[w]}) /\ Len(<<>>) = 0
    BY NoBytes
  <2>3. InRound(w) =>
          Len(outgoing'[w]) + i + r <= sent_total[w]
    <3>1. Len(outgoing'[w]) = 0
      BY <2>1, <2>2
    <3> HIDE DEF o, i, r
    <3> QED
      BY <1>3, <1>4, <3>1
  <2> QED
    BY <1>1, <2>1, <2>2, <2>3, ZenonT(30) DEF Own, OwnSamples, InRound
<1> QED
  BY <1>5, <1>6 DEF Server

\* send() takes bytes of the worker's own round.
LEMMA OwnSend ==
  ASSUME TypeOK, NEW w \in Workers, Own(w), OwnSamples(w), Send(w)
  PROVE  Own(w)' /\ OwnSamples(w)'
<1> DEFINE o == Len(outgoing[w])
           i == Len(incoming[w])
           r == Len(response[w])
           t == sent_total[w]
<1>1. PICK n \in 1 .. Least(MessageSize - sent_total[w], SndCap - Len(outgoing[w])) :
        /\ outgoing' = [outgoing EXCEPT ![w] = @ \o [j \in 1 .. n |-> round[w]]]
        /\ sent_total' = [sent_total EXCEPT ![w] = @ + n]
        /\ Goto(w, IF sent_total[w] + n = MessageSize THEN "recv" ELSE "send")
  BY DEF Send
<1>2. /\ UNCHANGED <<round, incoming, response, samples>>
      /\ pc[w] = "send" /\ InRound(w)
  BY DEF Send, At, InRound
<1>3. /\ outgoing[w] \in Seq({round[w]})
      /\ o + i + r <= t
  BY <1>2 DEF Own
<1>4. /\ o \in Nat /\ i \in Nat /\ r \in Nat /\ t \in Nat
      /\ MessageSize \in Nat /\ SndCap \in Nat
  BY LenProperties, ConfigAssumption DEF TypeOK
<1>5. n \in Nat
  BY <1>1, <1>4 DEF Least
<1>6. /\ [j \in 1 .. n |-> round[w]] \in Seq({round[w]})
      /\ Len([j \in 1 .. n |-> round[w]]) = n
  BY <1>5, RepeatIsSeq
<1>7. /\ outgoing'[w] = outgoing[w] \o [j \in 1 .. n |-> round[w]]
      /\ sent_total'[w] = t + n
      /\ pc'[w] \in {"recv", "send"}
  BY <1>1 DEF TypeOK, Goto
<1>8. outgoing'[w] \in Seq({round[w]}) /\ Len(outgoing'[w]) = o + n
  BY <1>3, <1>6, <1>7, ConcatProperties
<1>9. Len(outgoing'[w]) + i + r <= sent_total'[w]
  <2> HIDE DEF o, i, r, t
  <2> QED
    BY <1>3, <1>4, <1>5, <1>7, <1>8
<1> QED
  BY <1>2, <1>7, <1>8, <1>9 DEF Own, OwnSamples, InRound

\* recv() moves bytes from the socket to the answer.
LEMMA OwnRecv ==
  ASSUME TypeOK, NEW w \in Workers, Own(w), OwnSamples(w), Recv(w)
  PROVE  Own(w)' /\ OwnSamples(w)'
<1> DEFINE B == {round[w], Wrong}
           o == Len(outgoing[w])
           i == Len(incoming[w])
           r == Len(response[w])
           t == sent_total[w]
<1>1. PICK n \in 1 .. Least(MessageSize - Len(response[w]), Len(incoming[w])) :
        /\ response' = [response EXCEPT ![w] = @ \o Take(incoming[w], n)]
        /\ incoming' = [incoming EXCEPT ![w] = Drop(@, n)]
        /\ Goto(w, IF Len(response[w]) + n = MessageSize THEN "verify" ELSE "recv")
  BY DEF Recv
<1>2. /\ UNCHANGED <<round, outgoing, sent_total, samples>>
      /\ InRound(w)
  BY DEF Recv, At, InRound
<1>3. /\ outgoing[w] \in Seq({round[w]}) /\ incoming[w] \in Seq(B) /\ response[w] \in Seq(B)
  BY DEF Own
<1>4. o + i + r <= t
  BY <1>2 DEF Own
<1>5. o \in Nat /\ i \in Nat /\ r \in Nat /\ t \in Nat /\ MessageSize \in Nat
  BY LenProperties, ConfigAssumption DEF TypeOK
<1>6. n \in 1 .. i
  BY <1>1, <1>5 DEF Least
<1>7. /\ Take(incoming[w], n) \in Seq(B) /\ Len(Take(incoming[w], n)) = n
      /\ Drop(incoming[w], n) \in Seq(B) /\ Len(Drop(incoming[w], n)) = i - n
  <2> HIDE DEF B
  <2> QED
    BY <1>3, <1>6, TakeDrop, ZenonT(60)
<1>8. /\ response'[w] = response[w] \o Take(incoming[w], n)
      /\ incoming'[w] = Drop(incoming[w], n)
      /\ pc'[w] = IF r + n = MessageSize THEN "verify" ELSE "recv"
  BY <1>1 DEF TypeOK, Goto
<1>9. /\ response'[w] \in Seq(B) /\ Len(response'[w]) = r + n
      /\ incoming'[w] \in Seq(B) /\ Len(incoming'[w]) = i - n
  <2> HIDE DEF B
  <2>1. \A p, q \in Seq(B) : p \o q \in Seq(B) /\ Len(p \o q) = Len(p) + Len(q)
    BY ConcatProperties
  <2>2. /\ response'[w] \in Seq(B)
        /\ Len(response'[w]) = Len(response[w]) + Len(Take(incoming[w], n))
    BY <1>3, <1>7, <1>8, <2>1
  <2> QED
    BY <1>7, <1>8, <2>2
<1>10. o + Len(incoming'[w]) + Len(response'[w]) <= t
  <2> HIDE DEF o, i, r, t
  <2> QED
    BY <1>4, <1>5, <1>6, <1>9
<1>11. /\ pc'[w] \in {"recv", "verify"}
       /\ pc'[w] = "verify" => Len(response'[w]) = MessageSize
  <2>1. Len(response'[w]) = r + n
    BY <1>9
  <2> HIDE DEF r
  <2> QED
    BY <1>8, <2>1
<1>12. /\ outgoing'[w] \in Seq({round'[w]})
       /\ incoming'[w] \in Seq({round'[w], Wrong})
       /\ response'[w] \in Seq({round'[w], Wrong})
       /\ Len(outgoing'[w]) + Len(incoming'[w]) + Len(response'[w]) <= sent_total'[w]
  BY <1>2, <1>3, <1>9, <1>10
<1>13. Own(w)'
  BY <1>11, <1>12 DEF Own, InRound
<1> QED
  BY <1>2, <1>13 DEF OwnSamples

\* A complete answer without a wrong byte is that of the worker's round, and there
\* is nothing left in the connection.
LEMMA OwnVerify ==
  ASSUME TypeOK, NEW w \in Workers, Own(w), OwnSamples(w), Verify(w), Matches(w)
  PROVE  Own(w)' /\ OwnSamples(w)'
<1> DEFINE s == [round |-> round[w], answer |-> response[w]]
           S == [round : Nat, answer : Seq(Nat)]
           k == Len(samples[w])
<1>1. /\ samples' = [samples EXCEPT ![w] = Append(@, s)]
      /\ Goto(w, "loop")
      /\ UNCHANGED <<round, outgoing, incoming, response, sent_total>>
      /\ pc[w] = "verify" /\ InRound(w)
  BY DEF Verify, At, InRound
<1>2. /\ response[w] \in Seq({round[w], Wrong}) /\ Len(response[w]) = MessageSize
      /\ Len(outgoing[w]) + Len(incoming[w]) + Len(response[w]) <= sent_total[w]
      /\ outgoing[w] \in Seq({round[w]}) /\ incoming[w] \in Seq({round[w], Wrong})
  BY <1>1 DEF Own
<1>3. outgoing[w] = <<>> /\ incoming[w] = <<>>
  <2>1. /\ Len(outgoing[w]) \in Nat /\ Len(incoming[w]) \in Nat
        /\ sent_total[w] \in 0 .. MessageSize /\ MessageSize \in Nat
    BY LenProperties, ConfigAssumption DEF TypeOK
  <2>2. Len(outgoing[w]) + Len(incoming[w]) + MessageSize <= sent_total[w]
    BY <1>2
  <2>3. Len(outgoing[w]) = 0 /\ Len(incoming[w]) = 0
    <3> DEFINE o == Len(outgoing[w])
               i == Len(incoming[w])
               t == sent_total[w]
    <3>1. /\ o \in Nat /\ i \in Nat /\ t \in 0 .. MessageSize /\ MessageSize \in Nat
          /\ o + i + MessageSize <= t
      BY <2>1, <2>2
    <3> HIDE DEF o, i, t
    <3>2. o = 0 /\ i = 0
      BY <3>1
    <3> QED
      BY <3>2 DEF o, i
  <2> QED
    BY <1>2, <2>3, NoBytes
<1>4. response[w] = [j \in 1 .. MessageSize |-> round[w]]
  <2>1. \A j \in 1 .. Len(response[w]) : response[w][j] = round[w]
    BY <1>2, ElementOfSeq, LenProperties DEF Matches
  <2>2. response[w] = [j \in 1 .. Len(response[w]) |-> response[w][j]]
    BY <1>2, LenProperties
  <2> QED
    BY <1>2, <2>1, <2>2
<1>5. s \in S /\ samples[w] \in Seq(S)
  BY DEF TypeOK
<1>6. /\ k \in Nat /\ DOMAIN samples[w] = 1 .. k
      /\ DOMAIN Append(samples[w], s) = 1 .. k + 1
      /\ \A j \in 1 .. k : Append(samples[w], s)[j] = samples[w][j]
      /\ Append(samples[w], s)[k + 1] = s
  BY <1>5, AppendProperties, LenProperties
<1>7. samples'[w] = Append(samples[w], s) /\ pc'[w] = "loop"
  BY <1>1 DEF TypeOK, Goto
<1>8. ASSUME NEW j \in 1 .. k + 1
      PROVE  samples'[w][j].answer = [m \in 1 .. MessageSize |-> samples'[w][j].round]
  <2>1. CASE j = k + 1
    <3>1. samples'[w][j] = s
      BY <1>6, <1>7, <2>1
    <3>2. s.round = round[w] /\ s.answer = response[w]
      OBVIOUS
    <3> HIDE DEF s
    <3> QED
      BY <1>4, <3>1, <3>2
  <2>2. CASE j \in 1 .. k
    <3>1. samples'[w][j] = samples[w][j]
      BY <1>6, <1>7, <2>2
    <3>2. samples[w][j].answer = [m \in 1 .. MessageSize |-> samples[w][j].round]
      BY <1>6, <2>2 DEF OwnSamples
    <3> QED
      BY <3>1, <3>2
  <2> HIDE DEF k
  <2> QED
    BY <1>6, <2>1, <2>2
<1>9. OwnSamples(w)'
  <2> HIDE DEF k, s
  <2> QED
    BY <1>6, <1>7, <1>8 DEF OwnSamples
<1>10. Own(w)'
  BY <1>1, <1>2, <1>3, <1>7 DEF Own, InRound
<1> QED
  BY <1>9, <1>10

LEMMA OwnWorker ==
  ASSUME TypeOK, NEW w \in Workers, Own(w), OwnSamples(w), Worker(w)
  PROVE  Own(w)' /\ OwnSamples(w)'
<1>1. CASE Connect(w) \/ ConnectFails(w)
  <2>1. /\ UNCHANGED <<round, outgoing, incoming, locals>>
        /\ pc[w] = "connect"
    BY <1>1 DEF Connect, ConnectFails, At
  <2>2. pc'[w] \in {"loop", "ended"}
    BY <1>1 DEF Connect, ConnectFails, Goto, TypeOK
  <2> QED
    BY <2>1, <2>2, OwnBetweenRounds DEF InRound
<1>2. CASE BeginRound(w)
  <2>1. outgoing[w] = <<>> /\ incoming[w] = <<>>
    BY <1>2 DEF BeginRound, At, Own, InRound
  <2>2. /\ response'[w] = <<>> /\ sent_total'[w] = 0 /\ pc'[w] = "send"
        /\ UNCHANGED <<outgoing, incoming, samples>>
    BY <1>2 DEF BeginRound, Goto, TypeOK
  <2>3. outgoing'[w] = <<>> /\ incoming'[w] = <<>>
    BY <2>1, <2>2
  <2>4. /\ outgoing'[w] \in Seq({round'[w]})
        /\ incoming'[w] \in Seq({round'[w], Wrong})
        /\ response'[w] \in Seq({round'[w], Wrong})
        /\ Len(outgoing'[w]) = 0 /\ Len(incoming'[w]) = 0 /\ Len(response'[w]) = 0
    BY <2>2, <2>3, NoBytes
  <2>5. Len(outgoing'[w]) + Len(incoming'[w]) + Len(response'[w]) <= sent_total'[w]
    BY <2>2, <2>4
  <2>6. Own(w)'
    BY <2>2, <2>4, <2>5 DEF Own, InRound
  <2> QED
    BY <2>2, <2>6 DEF OwnSamples
<1>3. CASE EndLoop(w)
  BY <1>3, OwnLeave DEF EndLoop
<1>4. CASE Fail(w)
  BY <1>4, OwnLeave DEF Fail
<1>5. CASE SendTimesOut(w) \/ SendFails(w) \/ RecvFails(w)
  BY <1>4, <1>5 DEF SendTimesOut, SendFails, RecvFails
<1>6. CASE BrokenPipe(w)
  BY <1>6, OwnUntouched DEF BrokenPipe, Untouched
<1>7. CASE Verify(w)
  BY <1>4, <1>7, OwnVerify DEF Verify
<1> QED
  BY <1>1, <1>2, <1>3, <1>5, <1>6, <1>7, OwnSend, OwnRecv DEF Worker

LEMMA AnswerStep ==
  ASSUME AnswerInv, [Next]_vars
  PROVE  AnswerInv'
<1>1. TypeOK'
  BY TypeStep DEF AnswerInv
<1>2. ASSUME NEW w \in Workers, Worker(w) \/ Server(w) \/ Start(w), NEW v \in Workers
      PROVE  Own(v)' /\ OwnSamples(v)'
  <2>1. CASE v # w
    BY <1>2, <2>1, OthersUntouched, OwnUntouched DEF AnswerInv
  <2>2. CASE v = w /\ Start(w)
    <3>1. /\ UNCHANGED <<round, outgoing, incoming, locals>>
          /\ pc[w] = "none"
      BY <2>2 DEF Start
    <3>2. pc'[w] = "connect"
      BY <2>2 DEF AnswerInv, Start, Goto, TypeOK
    <3> QED
      BY <2>2, <3>1, <3>2, OwnBetweenRounds DEF AnswerInv, InRound
  <2>3. CASE v = w /\ ~Start(w)
    BY <1>2, <2>3, OwnWorker, OwnServer DEF AnswerInv
  <2> QED
    BY <2>1, <2>2, <2>3
<1>3. CASE Stop \/ Join \/ UNCHANGED vars
  <2>1. UNCHANGED <<pc, round, outgoing, incoming, locals>>
    BY <1>3 DEF Stop, Join
  <2>2. \A v \in Workers : Own(v)' /\ OwnSamples(v)'
    BY <2>1, OwnUntouched DEF AnswerInv, Untouched
  <2> QED
    BY <1>1, <2>2 DEF AnswerInv
<1>4. CASE \E w \in Workers : Worker(w) \/ Server(w) \/ Start(w)
  <2>1. \A v \in Workers : Own(v)' /\ OwnSamples(v)'
    BY <1>2, <1>4
  <2> QED
    BY <1>1, <2>1 DEF AnswerInv
<1> QED
  BY <1>3, <1>4 DEF Next, Run

LEMMA AnswerInit ==
  ASSUME Init
  PROVE  AnswerInv
<1>1. ASSUME NEW w \in Workers
      PROVE  Own(w) /\ OwnSamples(w)
  BY NoBytes DEF Init, Own, OwnSamples, InRound
<1> QED
  BY <1>1, TypeInit DEF AnswerInv

\* Every latency is that of an exchange, for any number of workers, any size of the
\* messages, however late or wrong the answers are.
THEOREM LatenciesAreOfExchanges == SafeSpec => []AnswersAreOwn
<1>1. Init => AnswerInv
  BY AnswerInit
<1>2. AnswerInv /\ [Next]_vars => AnswerInv'
  BY AnswerStep
<1>3. AnswerInv => AnswersAreOwn
  BY DEF AnswerInv, OwnSamples, AnswersAreOwn
<1> QED
  BY <1>1, <1>2, <1>3, PTL DEF SafeSpec

-----------------------------------------------------------------------------
(* The report. *)

Answered == UNION {{w} \X DOMAIN samples[w] : w \in Workers}
Begun    == UNION {{w} \X (1 .. round[w]) : w \in Workers}
InFlight == {w \in Workers : InRound(w)}
Ended    == {w \in Workers : pc[w] = "ended"}

\* The report adds up when what is in flight is added to it; a worker has made one
\* error at most when it has ended, and none before.
Tallied ==
  /\ IsFiniteSet(Answered) /\ IsFiniteSet(Begun)
  /\ total_requests = Cardinality(Answered)
  /\ total_requests + total_errors + Cardinality(InFlight) =
       Cardinality(Begun) + Cardinality(refused)
  /\ total_errors <= Cardinality(Ended)
  /\ total_bytes = 2 * MessageSize * total_requests
  /\ refused \subseteq Ended
  /\ main = "done" => Ended = Workers

TallyInv == AnswerInv /\ Tallied

LEMMA TallyTypes ==
  ASSUME TallyInv
  PROVE  /\ IsFiniteSet(Workers) /\ IsFiniteSet(InFlight) /\ IsFiniteSet(Ended) /\ IsFiniteSet(refused)
         /\ Cardinality(InFlight) \in Nat /\ Cardinality(Ended) \in Nat
         /\ Cardinality(refused) \in Nat
         /\ Cardinality(Answered) \in Nat /\ Cardinality(Begun) \in Nat
         /\ total_requests \in Nat /\ total_errors \in Nat /\ total_bytes \in Nat
         /\ MessageSize \in Nat
<1>1. IsFiniteSet(Workers) /\ MessageSize \in Nat
  BY ConfigAssumption
<1>2. InFlight \subseteq Workers /\ Ended \subseteq Workers /\ refused \subseteq Workers
  BY DEF TallyInv, AnswerInv, TypeOK, InFlight, Ended
<1>3. IsFiniteSet(InFlight) /\ IsFiniteSet(Ended) /\ IsFiniteSet(refused)
  BY <1>1, <1>2, FS_Subset
<1>4. IsFiniteSet(Answered) /\ IsFiniteSet(Begun)
  BY DEF TallyInv, Tallied
<1>5. total_requests \in Nat /\ total_errors \in Nat /\ total_bytes \in Nat
  BY DEF TallyInv, AnswerInv, TypeOK
<1> QED
  BY <1>1, <1>3, <1>4, <1>5, FS_CardinalityType

LEMMA TallySums ==
  ASSUME TallyInv
  PROVE  /\ total_requests = Cardinality(Answered)
         /\ total_requests + total_errors + Cardinality(InFlight) =
              Cardinality(Begun) + Cardinality(refused)
         /\ total_errors <= Cardinality(Ended)
BY DEF TallyInv, Tallied

\* Steps that begin, answer and end nothing.
LEMMA TallyKept ==
  ASSUME Tallied, UNCHANGED <<round, samples, refused, stats>>,
         InFlight' = InFlight, Ended' = Ended,
         main' = "done" => Ended = Workers
  PROVE  Tallied'
<1>1. Answered' = Answered /\ Begun' = Begun
  BY DEF Answered, Begun
<1> QED
  BY <1>1 DEF Tallied

\* One worker goes from one place to another.
LEMMA Moves ==
  ASSUME TypeOK, NEW w \in Workers,
         NEW to \in {"none", "connect", "loop", "send", "recv", "verify", "ended"},
         Goto(w, to), pc[w] # "ended"
  PROVE  /\ InFlight' = IF to \in {"send", "recv", "verify"} THEN InFlight \union {w}
                        ELSE InFlight \ {w}
         /\ Ended' = IF to = "ended" THEN Ended \union {w} ELSE Ended
         /\ w \notin Ended
         /\ w \in InFlight <=> InRound(w)
<1>1. /\ pc'[w] = to
      /\ \A v \in Workers \ {w} : pc'[v] = pc[v]
  BY DEF Goto, TypeOK
<1> QED
  BY <1>1 DEF InFlight, Ended, InRound

\* A request in flight, or a connection that was wanted, becomes an error.
LEMMA TallyFail ==
  ASSUME TallyInv, NEW w \in Workers, Fail(w), InRound(w)
  PROVE  Tallied'
<1>1. /\ total_errors' = total_errors + 1
      /\ Goto(w, "ended")
      /\ UNCHANGED <<main, round, samples, refused, total_requests, total_bytes>>
  BY DEF Fail, Leave
<1>2. /\ InFlight' = InFlight \ {w} /\ w \in InFlight
      /\ Ended' = Ended \union {w} /\ w \notin Ended
  BY <1>1, Moves DEF TallyInv, AnswerInv, InRound
<1>3. /\ Cardinality(InFlight') = Cardinality(InFlight) - 1
      /\ Cardinality(Ended') = Cardinality(Ended) + 1
  BY <1>2, TallyTypes, FS_AddElement, FS_RemoveElement
<1>4. Answered' = Answered /\ Begun' = Begun
  BY <1>1 DEF Answered, Begun
<1>5. /\ total_requests' + total_errors' + Cardinality(InFlight') =
           Cardinality(Begun') + Cardinality(refused')
      /\ total_errors' <= Cardinality(Ended')
  BY <1>1, <1>3, <1>4, TallyTypes, TallySums
<1>6. Ended \subseteq Workers
  BY DEF Ended
<1> QED
  BY <1>1, <1>2, <1>4, <1>5, <1>6 DEF TallyInv, Tallied

LEMMA TallyConnectFails ==
  ASSUME TallyInv, NEW w \in Workers, ConnectFails(w)
  PROVE  Tallied'
<1>1. /\ total_errors' = total_errors + 1
      /\ refused' = refused \union {w}
      /\ Goto(w, "ended")
      /\ UNCHANGED <<main, round, samples, total_requests, total_bytes>>
      /\ pc[w] = "connect"
  BY DEF ConnectFails, At
<1>2. /\ InFlight' = InFlight
      /\ Ended' = Ended \union {w} /\ w \notin Ended
  BY <1>1, Moves DEF TallyInv, AnswerInv, InRound
<1>3. w \notin refused
  BY <1>2 DEF TallyInv, Tallied
<1>4. /\ Cardinality(refused') = Cardinality(refused) + 1
      /\ Cardinality(Ended') = Cardinality(Ended) + 1
  BY <1>1, <1>2, <1>3, TallyTypes, FS_AddElement
<1>5. Answered' = Answered /\ Begun' = Begun
  BY <1>1 DEF Answered, Begun
<1>6. /\ total_requests' + total_errors' + Cardinality(InFlight') =
           Cardinality(Begun') + Cardinality(refused')
      /\ total_errors' <= Cardinality(Ended')
  BY <1>1, <1>2, <1>4, <1>5, TallyTypes, TallySums
<1>7. Ended \subseteq Workers
  BY DEF Ended
<1> QED
  BY <1>1, <1>2, <1>5, <1>6, <1>7 DEF TallyInv, Tallied

LEMMA TallyBegin ==
  ASSUME TallyInv, NEW w \in Workers, BeginRound(w)
  PROVE  Tallied'
<1>1. /\ round' = [round EXCEPT ![w] = @ + 1]
      /\ Goto(w, "send")
      /\ pc[w] = "loop"
      /\ UNCHANGED <<main, samples, refused, stats>>
  BY DEF BeginRound, At
<1>2. /\ InFlight' = InFlight \union {w} /\ w \notin InFlight
      /\ Ended' = Ended
  BY <1>1, Moves DEF TallyInv, AnswerInv, InRound
<1>3. Answered' = Answered
  BY <1>1 DEF Answered
<1> DEFINE e == <<w, round[w] + 1>>
<1>4. Begun' = Begun \union {e} /\ e \notin Begun
  <2>1. round[w] \in Nat
    BY DEF TallyInv, AnswerInv, TypeOK
  <2>2. 1 .. round[w] + 1 = (1 .. round[w]) \union {round[w] + 1}
    BY <2>1
  <2>3. round[w] + 1 \notin 1 .. round[w]
    BY <2>1
  <2>4. /\ round'[w] = round[w] + 1
        /\ \A v \in Workers \ {w} : round'[v] = round[v]
    BY <1>1 DEF TallyInv, AnswerInv, TypeOK
  <2> QED
    BY <2>2, <2>3, <2>4 DEF Begun
<1>5. /\ Cardinality(InFlight') = Cardinality(InFlight) + 1
      /\ IsFiniteSet(Begun') /\ Cardinality(Begun') = Cardinality(Begun) + 1
  BY <1>2, <1>4, TallyTypes, FS_AddElement DEF TallyInv, Tallied
<1>6. total_requests' + total_errors' + Cardinality(InFlight') =
        Cardinality(Begun') + Cardinality(refused')
  BY <1>1, <1>5, TallyTypes, TallySums
<1> QED
  BY <1>1, <1>2, <1>3, <1>5, <1>6 DEF TallyInv, Tallied

\* A request in flight becomes a success, with its bytes.
LEMMA TallyVerify ==
  ASSUME TallyInv, NEW w \in Workers, Verify(w), Matches(w)
  PROVE  Tallied'
<1>1. /\ total_requests' = total_requests + 1
      /\ total_bytes' = total_bytes + MessageSize + Len(response[w])
      /\ samples' = [samples EXCEPT
            ![w] = Append(@, [round |-> round[w], answer |-> response[w]])]
      /\ Goto(w, "loop")
      /\ pc[w] = "verify"
      /\ UNCHANGED <<main, round, refused, total_errors>>
  BY DEF Verify, At
<1>2. /\ InFlight' = InFlight \ {w} /\ w \in InFlight
      /\ Ended' = Ended
  BY <1>1, Moves DEF TallyInv, AnswerInv, InRound
<1>3. Begun' = Begun
  BY <1>1 DEF Begun
<1> DEFINE k == Len(samples[w])
           e == <<w, k + 1>>
<1>4. Answered' = Answered \union {e} /\ e \notin Answered
  <2>1. /\ k \in Nat /\ DOMAIN samples[w] = 1 .. k
        /\ DOMAIN samples'[w] = 1 .. k + 1
    <3>1. samples[w] \in Seq([round : Nat, answer : Seq(Nat)])
      BY DEF TallyInv, AnswerInv, TypeOK
    <3>2. [round |-> round[w], answer |-> response[w]] \in [round : Nat, answer : Seq(Nat)]
      BY DEF TallyInv, AnswerInv, TypeOK
    <3>3. samples'[w] = Append(samples[w], [round |-> round[w], answer |-> response[w]])
      BY <1>1 DEF TallyInv, AnswerInv, TypeOK
    <3> QED
      BY <3>1, <3>2, <3>3, AppendProperties, LenProperties
  <2>2. 1 .. k + 1 = (1 .. k) \union {k + 1} /\ k + 1 \notin 1 .. k
    <3> HIDE DEF k
    <3> QED
      BY <2>1
  <2>3. \A v \in Workers \ {w} : samples'[v] = samples[v]
    BY <1>1 DEF TallyInv, AnswerInv, TypeOK
  <2> HIDE DEF k
  <2> QED
    BY <2>1, <2>2, <2>3 DEF Answered
<1>5. /\ Cardinality(InFlight') = Cardinality(InFlight) - 1
      /\ IsFiniteSet(Answered') /\ Cardinality(Answered') = Cardinality(Answered) + 1
  <2> HIDE DEF e
  <2> QED
    BY <1>2, <1>4, TallyTypes, FS_AddElement, FS_RemoveElement DEF TallyInv, Tallied
<1>6. /\ total_requests' = Cardinality(Answered')
      /\ total_requests' + total_errors' + Cardinality(InFlight') =
           Cardinality(Begun') + Cardinality(refused')
  BY <1>1, <1>3, <1>5, TallyTypes, TallySums, SMTT(30)
<1>7. Len(response[w]) = MessageSize
  BY <1>1 DEF TallyInv, AnswerInv, Own
<1>8. total_bytes' = 2 * MessageSize * total_requests'
  <2>1. total_bytes = 2 * MessageSize * total_requests
    BY DEF TallyInv, Tallied
  <2>2. \A m, n \in Nat : 2 * m * (n + 1) = 2 * m * n + m + m
    OBVIOUS
  <2>3. MessageSize \in Nat /\ total_requests \in Nat
    BY TallyTypes
  <2>4. total_bytes' = 2 * MessageSize * total_requests + MessageSize + MessageSize
    BY <1>1, <1>7, <2>1
  <2> QED
    BY <1>1, <2>2, <2>3, <2>4
<1> QED
  BY <1>1, <1>2, <1>3, <1>5, <1>6, <1>8 DEF TallyInv, Tallied

LEMMA TallyInit ==
  ASSUME Init
  PROVE  TallyInv
<1>1. Answered = {} /\ Begun = {}
  BY DEF Init, Answered, Begun
<1>2. InFlight = {}
  BY DEF Init, InFlight, InRound
<1>3. Ended = {}
  BY DEF Init, Ended
<1>4. /\ IsFiniteSet({}) /\ Cardinality({}) = 0
  BY FS_EmptySet
<1>5. /\ refused = {} /\ total_requests = 0 /\ total_errors = 0 /\ total_bytes = 0
      /\ main # "done" /\ MessageSize \in Nat
  BY ConfigAssumption DEF Init
<1> QED
  BY <1>1, <1>2, <1>3, <1>4, <1>5, AnswerInit DEF TallyInv, Tallied

LEMMA TallyStep ==
  ASSUME TallyInv, [Next]_vars
  PROVE  Tallied'
<1>1. ASSUME NEW w \in Workers, Worker(w)
      PROVE  Tallied'
  <2>1. CASE Connect(w) \/ BrokenPipe(w)
    <3>1. /\ UNCHANGED <<round, samples, refused, stats>>
          /\ pc' = pc \/ (Goto(w, "loop") /\ pc[w] = "connect")
          /\ main' = main \/ main' = "killed"
      BY <2>1 DEF Connect, BrokenPipe, At
    <3>2. InFlight' = InFlight /\ Ended' = Ended
      BY <3>1, Moves DEF TallyInv, AnswerInv, InFlight, Ended, InRound
    <3> QED
      BY <3>1, <3>2, TallyKept DEF TallyInv, Tallied
  <2>2. CASE Send(w) \/ Recv(w)
    <3>1. /\ UNCHANGED <<main, round, samples, refused, stats>>
          /\ InRound(w)
          /\ Goto(w, "send") \/ Goto(w, "recv") \/ Goto(w, "verify")
      BY <2>2 DEF Send, Recv, At, InRound
    <3>2. InFlight' = InFlight /\ Ended' = Ended
      BY <3>1, Moves DEF TallyInv, AnswerInv, InRound
    <3> QED
      BY <3>1, <3>2, TallyKept DEF TallyInv, Tallied
  <2>3. CASE EndLoop(w)
    <3>1. /\ UNCHANGED <<main, round, samples, refused, stats>>
          /\ Goto(w, "ended") /\ pc[w] = "loop"
      BY <2>3 DEF EndLoop, Leave, At
    <3>2. InFlight' = InFlight /\ Ended' = Ended \union {w} /\ w \notin Ended
      BY <3>1, Moves DEF TallyInv, AnswerInv, InRound
    <3>3. Cardinality(Ended') = Cardinality(Ended) + 1
      BY <3>2, TallyTypes, FS_AddElement
    <3>4. total_errors' <= Cardinality(Ended')
      BY <3>1, <3>3, TallyTypes DEF TallyInv, Tallied
    <3>5. Answered' = Answered /\ Begun' = Begun
      BY <3>1 DEF Answered, Begun
    <3> QED
      BY <3>1, <3>2, <3>4, <3>5 DEF TallyInv, Tallied, Ended
  <2>4. CASE SendTimesOut(w) \/ SendFails(w) \/ RecvFails(w)
    <3>1. Fail(w) /\ InRound(w)
      BY <2>4 DEF SendTimesOut, SendFails, RecvFails, At, InRound
    <3> QED
      BY <3>1, TallyFail
  <2>5. CASE Verify(w)
    <3>1. InRound(w) /\ (~Matches(w) => Fail(w))
      BY <2>5 DEF Verify, At, InRound
    <3> QED
      BY <2>5, <3>1, TallyFail, TallyVerify
  <2> QED
    BY <1>1, <2>1, <2>2, <2>3, <2>4, <2>5, TallyConnectFails, TallyBegin DEF Worker
<1>2. ASSUME NEW w \in Workers, Server(w) \/ Start(w)
      PROVE  Tallied'
  <2>1. /\ UNCHANGED <<main, round, samples, refused, stats>>
        /\ pc' = pc \/ (Goto(w, "connect") /\ pc[w] = "none")
    BY <1>2 DEF Server, Answer, Cut, RejectLate, Start
  <2>2. InFlight' = InFlight /\ Ended' = Ended
    BY <2>1, Moves DEF TallyInv, AnswerInv, InFlight, Ended, InRound
  <2> QED
    BY <2>1, <2>2, TallyKept DEF TallyInv, Tallied
<1>3. CASE Stop \/ Join \/ UNCHANGED vars
  <2>1. /\ UNCHANGED <<pc, round, samples, refused, stats>>
        /\ main' = "done" => main = "done" \/ \A w \in Workers : pc[w] = "ended"
    BY <1>3 DEF Stop, Join
  <2>2. InFlight' = InFlight /\ Ended' = Ended
    BY <2>1 DEF InFlight, Ended, InRound
  <2>3. main' = "done" => Ended = Workers
    BY <2>1 DEF TallyInv, Tallied, Ended
  <2> QED
    BY <2>1, <2>2, <2>3, TallyKept DEF TallyInv
<1> QED
  BY <1>1, <1>2, <1>3 DEF Next, Run

\* When run() reports nothing is in flight, and no worker has erred twice.
LEMMA TallyReports ==
  ASSUME TallyInv
  PROVE  ReportAddsUp
<1> SUFFICES ASSUME main = "done"
             PROVE  /\ total_requests = Cardinality(Answered)
                    /\ total_requests + total_errors = Cardinality(Begun) + Cardinality(refused)
                    /\ total_errors <= Cardinality(Workers)
                    /\ total_bytes = 2 * MessageSize * total_requests
  BY DEF ReportAddsUp, Answered, Begun
<1>1. Ended = Workers
  BY DEF TallyInv, Tallied
<1>2. InFlight = {}
  BY <1>1 DEF InFlight, Ended, InRound
<1>3. Cardinality(InFlight) = 0
  BY <1>2, FS_EmptySet
<1> QED
  BY <1>1, <1>3, TallyTypes DEF TallyInv, Tallied

\* The report adds up, for any number of workers and any length of the test.
THEOREM ReportIsComplete == SafeSpec => []ReportAddsUp
<1>1. Init => TallyInv
  BY TallyInit
<1>2. TallyInv /\ [Next]_vars => TallyInv'
  BY AnswerStep, TallyStep DEF TallyInv
<1>3. TallyInv => ReportAddsUp
  BY TallyReports
<1> QED
  BY <1>1, <1>2, <1>3, PTL DEF SafeSpec

-----------------------------------------------------------------------------
(* The percentiles of the report. *)

\* printReport reads latencies at an index that exists, and the latencies up to it
\* are p per cent of all, at least; those before it are no more than p per cent.
THEOREM PercentileIsRight ==
  ASSUME NEW n \in Nat \ {0}, NEW p \in 0 .. 100
  PROVE  /\ Percentile(n, p) \in 0 .. n - 1
         /\ 100 * Percentile(n, p) <= n * p
         /\ n * p <= 100 * (Percentile(n, p) + 1)
<1> DEFINE m == n * p
           q == m \div 100
<1>1. m \in Nat /\ m <= 100 * n
  <2>1. n * p + n * (100 - p) = 100 * n
    OBVIOUS
  <2>2. n * p \in Nat /\ n * (100 - p) \in Nat
    <3>1. \A a, b \in Nat : a * b \in Nat
      OBVIOUS
    <3> QED
      BY <3>1
  <2> QED
    BY <2>1, <2>2
<1> HIDE DEF m
<1>2. q \in Nat /\ 100 * q <= m /\ m < 100 * (q + 1)
  BY <1>1
<1>3. Percentile(n, p) = IF q < n - 1 THEN q ELSE n - 1
  BY DEF Percentile, Least, m
<1> HIDE DEF q
<1>4. /\ Percentile(n, p) \in 0 .. n - 1
      /\ 100 * Percentile(n, p) <= m
      /\ m <= 100 * (Percentile(n, p) + 1)
  BY <1>1, <1>2, <1>3
<1> QED
  BY <1>4 DEF m
=============================================================================
