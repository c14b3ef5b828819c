--------------------------- MODULE LoadTestClient ---------------------------
(***************************************************************************)
(* The load test client (tools/load_test_client.cpp): run() starts one     *)
(* thread per connection, lets them exchange messages with an echo server  *)
(* for a while, stops and joins them, and reports what they counted.       *)
(*                                                                         *)
(* A byte on its way is the number of the round it belongs to, or Wrong    *)
(* when the server has changed it.  All requests are the same string, so   *)
(* the program cannot see that number.  The server may be slow, cut a      *)
(* connection at any time, or change bytes; it does not add or drop any.   *)
(***************************************************************************)
EXTENDS Naturals, Sequences, FiniteSets

CONSTANTS
  Workers,      \* cfg_.concurrency threads
  MessageSize,  \* cfg_.message_size
  SndCap,       \* bytes a connection takes before the server reads them
  MaxRounds     \* bound: requests of a worker in cfg_.duration_seconds

ASSUME ConfigAssumption ==
  /\ IsFiniteSet(Workers) /\ Workers # {}
  /\ {MessageSize, SndCap} \subseteq Nat \ {0}
  /\ MaxRounds \in Nat

VARIABLES
  main,         \* where run() is: "start", "join", "done"; "killed" by SIGPIPE
  stop,         \* stop_
  pc,           \* per worker: where its thread is
  round,        \* per worker: requests begun
  link,         \* per worker: its connection; the server may have cut it: "fin",
                \* "reset", or "pipe" when a reset followed a FIN
  outgoing,     \* per worker: bytes sent that the server has not answered
  incoming,     \* per worker: bytes answered and not read
  sent_total,   \* per worker: of sendFull
  response,     \* per worker: what recvFull has received
  samples,      \* per worker: local_latencies; per request its round and its answer
  refused,      \* history: workers that got no connection
  total_requests, total_errors, total_bytes   \* stats_

stats   == <<total_requests, total_errors, total_bytes>>
wire    == <<link, outgoing, incoming>>
locals  == <<sent_total, response, samples>>
control == <<main, stop>>
vars    == <<control, pc, round, wire, locals, refused, stats>>

Wrong == 0

Take(s, n) == SubSeq(s, 1, n)
Drop(s, n) == SubSeq(s, n + 1, Len(s))
Least(a, b) == IF a < b THEN a ELSE b

Init ==
  /\ main = "start"
  /\ stop = FALSE
  /\ pc = [w \in Workers |-> "none"]
  /\ round = [w \in Workers |-> 0]
  /\ link = [w \in Workers |-> "none"]
  /\ outgoing = [w \in Workers |-> <<>>]
  /\ incoming = [w \in Workers |-> <<>>]
  /\ sent_total = [w \in Workers |-> 0]
  /\ response = [w \in Workers |-> <<>>]
  /\ samples = [w \in Workers |-> <<>>]
  /\ refused = {}
  /\ total_requests = 0 /\ total_errors = 0 /\ total_bytes = 0

Goto(w, where) == pc' = [pc EXCEPT ![w] = where]

At(w, where) == main # "killed" /\ pc[w] = where
-----------------------------------------------------------------------------
(* The server at the other end. *)

Answer(w) ==
  /\ link[w] = "up"
  /\ outgoing[w] # <<>>
  /\ \E b \in {Head(outgoing[w]), Wrong} :
       incoming' = [incoming EXCEPT ![w] = Append(@, b)]
  /\ outgoing' = [outgoing EXCEPT ![w] = Tail(@)]
  /\ UNCHANGED <<control, pc, round, link, locals, refused, stats>>

\* The server closes its end: a FIN, or a reset when it has bytes unread.
Cut(w) ==
  /\ link[w] = "up"
  /\ link' = [link EXCEPT ![w] = IF outgoing[w] = <<>> THEN "fin" ELSE "reset"]
  /\ outgoing' = [outgoing EXCEPT ![w] = <<>>]
  /\ UNCHANGED <<control, pc, round, incoming, locals, refused, stats>>

\* Bytes that arrive after the FIN are answered by a reset.
RejectLate(w) ==
  /\ link[w] = "fin"
  /\ outgoing[w] # <<>>
  /\ link' = [link EXCEPT ![w] = "pipe"]
  /\ outgoing' = [outgoing EXCEPT ![w] = <<>>]
  /\ UNCHANGED <<control, pc, round, incoming, locals, refused, stats>>
-----------------------------------------------------------------------------
(* worker *)

\* The loop is left: close(fd), and the thread ends.
Leave(w) ==
  /\ Goto(w, "ended")
  /\ link' = [link EXCEPT ![w] = "closed"]
  /\ outgoing' = [outgoing EXCEPT ![w] = <<>>]
  /\ incoming' = [incoming EXCEPT ![w] = <<>>]
  /\ response' = [response EXCEPT ![w] = <<>>]

\* Slip: an answer that takes too long is an error, and the worker goes on.
SlipFail(w) ==
  /\ total_errors' = total_errors + 1
  /\ Goto(w, "loop")
  /\ UNCHANGED <<wire, response, control, round, sent_total, samples, refused,
                 total_requests, total_bytes>>

\* stats_.total_errors++ and break
Fail(w) ==
  /\ total_errors' = total_errors + 1
  /\ Leave(w)
  /\ UNCHANGED <<control, round, sent_total, samples, refused, total_requests,
                 total_bytes>>

Connect(w) ==
  /\ At(w, "connect")
  /\ link' = [link EXCEPT ![w] = "up"]
  /\ Goto(w, "loop")
  /\ UNCHANGED <<control, round, outgoing, incoming, locals, refused, stats>>

\* connectToServer returns -1.
ConnectFails(w) ==
  /\ At(w, "connect")
  /\ refused' = refused \union {w}
  /\ total_errors' = total_errors + 1
  /\ Goto(w, "ended")
  /\ UNCHANGED <<control, round, wire, locals, total_requests, total_bytes>>

\* while(!stop_.load())
BeginRound(w) ==
  /\ At(w, "loop")
  /\ ~stop
  /\ round[w] < MaxRounds
  /\ round' = [round EXCEPT ![w] = @ + 1]
  /\ sent_total' = [sent_total EXCEPT ![w] = 0]
  /\ response' = [response EXCEPT ![w] = <<>>]
  /\ Goto(w, "send")
  /\ UNCHANGED <<control, wire, samples, refused, stats>>

EndLoop(w) ==
  /\ At(w, "loop")
  /\ stop
  /\ Leave(w)
  /\ UNCHANGED <<control, round, sent_total, samples, refused, stats>>

\* Slip: every send() is given the whole length again.
SlipSend(w) ==
  /\ At(w, "send")
  /\ link[w] \in {"up", "fin"}
  /\ \E n \in 1..Least(MessageSize, SndCap - Len(outgoing[w])) :
       /\ outgoing' = [outgoing EXCEPT ![w] = @ \o [i \in 1..n |-> round[w]]]
       /\ sent_total' = [sent_total EXCEPT ![w] = @ + n]
       /\ Goto(w, IF sent_total[w] + n = MessageSize THEN "recv" ELSE "send")
  /\ UNCHANGED <<control, round, link, incoming, response, samples, refused, stats>>

\* sendFull: send() takes some of the rest, the loop goes on until all is sent.
Send(w) ==
  /\ At(w, "send")
  /\ link[w] \in {"up", "fin"}
  /\ \E n \in 1..Least(MessageSize - sent_total[w], SndCap - Len(outgoing[w])) :
       /\ outgoing' = [outgoing EXCEPT ![w] = @ \o [i \in 1..n |-> round[w]]]
       /\ sent_total' = [sent_total EXCEPT ![w] = @ + n]
       /\ Goto(w, IF sent_total[w] + n = MessageSize THEN "recv" ELSE "send")
  /\ UNCHANGED <<control, round, link, incoming, response, samples, refused, stats>>

\* SO_SNDTIMEO: send() has waited for room too long.
SendTimesOut(w) ==
  /\ At(w, "send")
  /\ link[w] \in {"up", "fin"} /\ Len(outgoing[w]) = SndCap
  /\ Fail(w)

\* send() fails with ECONNRESET.
SendFails(w) ==
  /\ At(w, "send")
  /\ link[w] = "reset"
  /\ Fail(w)

\* send() fails with EPIPE and, without MSG_NOSIGNAL, SIGPIPE ends the process.
BrokenPipe(w) ==
  /\ At(w, "send")
  /\ link[w] = "pipe"
  /\ main' = "killed"
  /\ UNCHANGED <<stop, pc, round, wire, locals, refused, stats>>

\* recvFull: recv() gives some of the rest.
Recv(w) ==
  /\ At(w, "recv")
  /\ \E n \in 1..Least(MessageSize - Len(response[w]), Len(incoming[w])) :
       /\ response' = [response EXCEPT ![w] = @ \o Take(incoming[w], n)]
       /\ incoming' = [incoming EXCEPT ![w] = Drop(@, n)]
       /\ Goto(w, IF Len(response[w]) + n = MessageSize THEN "verify" ELSE "recv")
  /\ UNCHANGED <<control, round, link, outgoing, sent_total, samples, refused, stats>>

\* Slip: a cut connection is noticed, a silent one is waited for.
SlipRecvTimesOut(w) ==
  /\ At(w, "recv")
  /\ incoming[w] = <<>> /\ link[w] # "up"
  /\ Fail(w)

\* recv() gives 0 or an error because the connection is cut; or nothing has come for
\* the time of SO_RCVTIMEO.
RecvFails(w) ==
  /\ At(w, "recv")
  /\ incoming[w] = <<>>
  /\ Fail(w)

\* response == request
Matches(w) == \A i \in DOMAIN response[w] : response[w][i] # Wrong

\* The answer is complete: count it, or give up on this server.
Verify(w) ==
  /\ At(w, "verify")
  /\ IF Matches(w)
     THEN /\ total_requests' = total_requests + 1
          /\ total_bytes' = total_bytes + MessageSize + Len(response[w])
          /\ samples' = [samples EXCEPT
               ![w] = Append(@, [round |-> round[w], answer |-> response[w]])]
          /\ Goto(w, "loop")
          /\ UNCHANGED <<control, round, wire, sent_total, response, refused,
                         total_errors>>
     ELSE Fail(w)
-----------------------------------------------------------------------------
(* run *)

Start(w) ==
  /\ main = "start"
  /\ pc[w] = "none"
  /\ Goto(w, "connect")
  /\ UNCHANGED <<control, round, wire, locals, refused, stats>>

\* sleep_for returns, sooner or later: stop_.store(true)
Stop ==
  /\ main = "start"
  /\ \A w \in Workers : pc[w] # "none"
  /\ stop' = TRUE
  /\ main' = "join"
  /\ UNCHANGED <<pc, round, wire, locals, refused, stats>>

\* Slip: whoever is still busy is not waited for.
SlipJoin ==
  /\ main = "join"
  /\ \A w \in Workers : pc[w] \in {"ended", "recv"}
  /\ main' = "done"
  /\ UNCHANGED <<stop, pc, round, wire, locals, refused, stats>>

\* All threads are joined; now the counters are read and the report is printed.
Join ==
  /\ main = "join"
  /\ \A w \in Workers : pc[w] = "ended"
  /\ main' = "done"
  /\ UNCHANGED <<stop, pc, round, wire, locals, refused, stats>>
-----------------------------------------------------------------------------
Worker(w) ==
  \/ Connect(w) \/ ConnectFails(w)
  \/ BeginRound(w) \/ EndLoop(w)
  \/ Send(w) \/ SendTimesOut(w) \/ SendFails(w) \/ BrokenPipe(w)
  \/ Recv(w) \/ RecvFails(w)
  \/ Verify(w)

Run == (\E w \in Workers : Start(w)) \/ Stop \/ Join

Server(w) == Answer(w) \/ Cut(w) \/ RejectLate(w)

Next == Run \/ \E w \in Workers : Worker(w) \/ Server(w)

SafeSpec == Init /\ [][Next]_vars

\* Threads go on when they can, and time passes.  The server owes nothing.
Spec == SafeSpec /\ WF_vars(Run) /\ \A w \in Workers : WF_vars(Worker(w))
-----------------------------------------------------------------------------
(* printReport *)

\* The index in the n sorted latencies of the one reported for p per cent:
\* static_cast<size_t>(n * p / 100.0), and for P99 not more than the last.
Percentile(n, p) == Least((n * p) \div 100, n - 1)
-----------------------------------------------------------------------------
TypeOK ==
  /\ main \in {"start", "join", "done", "killed"}
  /\ stop \in BOOLEAN
  /\ pc \in [Workers -> {"none", "connect", "loop", "send", "recv", "verify", "ended"}]
  /\ round \in [Workers -> 0..MaxRounds]
  /\ link \in [Workers -> {"none", "up", "fin", "reset", "pipe", "closed"}]
  /\ outgoing \in [Workers -> Seq(Nat)] /\ \A w \in Workers : Len(outgoing[w]) <= SndCap
  /\ incoming \in [Workers -> Seq(Nat)]
  /\ sent_total \in [Workers -> 0..MessageSize]
  /\ response \in [Workers -> Seq(Nat)]
  /\ \A w \in Workers : Len(response[w]) <= MessageSize
  /\ samples \in [Workers -> Seq([round : Nat, answer : Seq(Nat)])]
  /\ refused \in SUBSET Workers
  /\ {total_requests, total_errors, total_bytes} \subseteq Nat

\* A latency is that of an exchange: the answer that ends it consists of the bytes
\* of its own request.  The program cannot tell one answer from another, so this
\* rests on its never using a connection again after a timeout.
AnswersAreOwn ==
  \A w \in Workers : \A i \in DOMAIN samples[w] :
    LET s == samples[w][i] IN s.answer = [j \in 1..MessageSize |-> s.round]

\* The report adds up: every request that was begun, also one in flight when the
\* time was over, and every refused connection is counted once, as a success with
\* its latency and its bytes or as an error, and no worker as more than one error.
ReportAddsUp ==
  main = "done" =>
    /\ total_requests = Cardinality(UNION {{w} \X DOMAIN samples[w] : w \in Workers})
    /\ total_requests + total_errors =
         Cardinality(UNION {{w} \X (1..round[w]) : w \in Workers}) + Cardinality(refused)
    /\ total_errors <= Cardinality(Workers)
    /\ total_bytes = 2 * MessageSize * total_requests

\* run() returns after the time is over, however long the server keeps silent.
RunReturns == stop ~> main \in {"done", "killed"}
=============================================================================
