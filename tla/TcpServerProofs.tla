-------------------------- MODULE TcpServerProofs --------------------------
(***************************************************************************)
(* Theorems about the life of connections across threads, for any number   *)
(* of connections, descriptors and sub reactors, of which there is one at  *)
(* least: the types, that no thread touches a connection that is gone      *)
(* before ~TcpServer has cleared connections_, that the server knows what  *)
(* is in service, and that nothing is left at the end.                     *)
(***************************************************************************)
EXTENDS TcpServer, SequenceTheorems, TLAPS

USE DEF vars, net, conn, server, queues, where

-----------------------------------------------------------------------------
(* The invariant, part by part, for a server with sub reactors. *)

Established(c) == state[c] \in {"kConnected", "kDisconnecting", "kDisconnected"}

\* handleClose or forceClose has begun.
Down(c) == state[c] \in {"kDisconnecting", "kDisconnected"}

Known(c) == \E f \in Fds : connections[f] = c

\* Its last shared_ptr is on the way to loop l.
HandedTo(c, l) == \E i \in DOMAIN pending[l] : pending[l][i] = Functor("destroy", c)

\* What waits in the backlog has no TcpConnection yet, and who has one has a loop and
\* a descriptor, under which it is entered.
BirthInv ==
  /\ \A c \in backlog : state[c] = "unborn" /\ peer[c] # "none"
  /\ \A c \in Conns : peer[c] = "none" => state[c] = "unborn"
  /\ \A c \in Conns : state[c] # "unborn" => owner[c] \in Subs /\ fd[c] \in Fds
  /\ \A f \in Fds : \A c \in Conns :
       connections[f] = c => state[c] # "unborn" /\ fd[c] = f
  /\ \A l \in Loops : \A c \in Held(pending[l]) \union Held(batch[l]) :
       state[c] # "unborn"

\* Which functors may be on their way to which loop, in each state of the connection.
Fits(x, l) ==
  /\ x.run = "establish" => l = owner[x.conn] /\ state[x.conn] = "kConnecting"
  /\ x.run = "remove" =>
       l = MainLoop /\ Down(x.conn) /\ x.conn \notin registered
  /\ x.run \in {"destroy", "forceClose"} => l = owner[x.conn] /\ Down(x.conn)

FunctorInv ==
  \A l \in Loops :
    /\ \A i \in DOMAIN pending[l] : Fits(pending[l][i], l)
    /\ \A i \in DOMAIN batch[l] : i > ran[l] => Fits(batch[l][i], l)

\* A connection is established once.
Establishes(x, c) == x.run = "establish" /\ x.conn = c

OnceInv ==
  \A l \in Loops, c \in Conns :
    /\ \A i, j \in DOMAIN pending[l] :
         Establishes(pending[l][i], c) /\ Establishes(pending[l][j], c) => i = j
    /\ \A i, j \in DOMAIN batch[l] :
         (i > ran[l] /\ j > ran[l] /\ Establishes(batch[l][i], c)
            /\ Establishes(batch[l][j], c)) => i = j
    /\ \A i \in DOMAIN batch[l], j \in DOMAIN pending[l] :
         i > ran[l] /\ Establishes(batch[l][i], c) => ~Establishes(pending[l][j], c)

\* What a thread has in its hands, wherever it is.
ThreadOK(l) ==
  /\ batch[l] # <<>> => at[l] = "functors"
  /\ at[l] = "functors" => EventFd \notin ready[l]
  /\ cur[l] # None => \/ at[l] = "event"
                      \/ at[l] = "functors" /\ cur[l] \in Held(batch[l])
                      \/ l = MainLoop /\ at[l] = "closing"
  /\ at[l] = "event" => /\ l \in Subs /\ cur[l] \in Conns /\ owner[cur[l]] = l
                        /\ Established(cur[l]) /\ cur[l] \notin ready[l]
  /\ closing[l] => /\ l \in Subs /\ at[l] \in {"event", "functors"}
                   /\ cur[l] \in Conns /\ Down(cur[l]) /\ owner[cur[l]] = l
  /\ \A c \in ready[l] \intersect Conns :
       l \in Subs /\ owner[c] = l /\ Established(c)
  /\ l \in Subs => at[l] \in {"poll", "dispatch", "event", "functors", "stopped"}

ThreadInv == \A l \in Loops : ThreadOK(l)

RegisteredInv ==
  \A c \in registered :
    \/ state[c] \in {"kConnected", "kDisconnecting"}
    \/ state[c] = "kDisconnected" /\ \E l \in Loops : closing[l] /\ cur[l] = c

\* Until connections_ is cleared a connection leaves it last of all: what is in service,
\* watched, reported or handled is there, or its last shared_ptr waits behind what
\* its loop is doing.
KnownInv ==
  Serving =>
    /\ \A c \in Conns : state[c] \in {"kConnecting", "kConnected"} => Known(c)
    /\ \A c \in registered : Known(c)
    /\ \A l \in Loops : \A c \in ready[l] \intersect Conns : Known(c) \/ HandedTo(c, l)
    /\ \A l \in Loops : EventFd \in ready[l] => ready[l] \intersect Conns \subseteq registered
    /\ \A l \in Loops : at[l] = "event" => Known(cur[l]) \/ HandedTo(cur[l], l)

ClosingInv ==
  at[MainLoop] = "closing" =>
    /\ \A c \in todo : Known(c)
    /\ cur[MainLoop] # None => Known(cur[MainLoop]) /\ Established(cur[MainLoop])

\* Descriptors are taken again only when their connections are gone.
FdInv == \A c, d \in Conns : Alive(c) /\ Alive(d) /\ fd[c] = fd[d] => c = d

\* What the end of the server brings about, and only the end.
PhaseInv ==
  /\ at[MainLoop] \notin {"closing", "joining", "exited"} =>
       \A c \in Conns : state[c] # "kDisconnecting"
  /\ at[MainLoop] \in {"joining", "exited"} => \A f \in Fds : connections[f] = None
  /\ \A l \in Subs : quit[l] \/ at[l] = "stopped" => at[MainLoop] \in {"joining", "exited"}
  /\ \A l \in Subs : at[l] = "stopped" => pending[l] = <<>>
  /\ at[MainLoop] = "exited" => pending[MainLoop] = <<>> /\ \A l \in Subs : at[l] = "stopped"

Inv ==
  /\ SubLoops # <<>>
  /\ TypeOK
  /\ BirthInv /\ FunctorInv /\ OnceInv
  /\ ThreadInv /\ RegisteredInv /\ KnownInv /\ ClosingInv /\ FdInv /\ PhaseInv

-----------------------------------------------------------------------------
(* Types. *)

LEMMA NextLoopType ==
  ASSUME TypeOK
  PROVE  /\ NextLoop \in Loops
         /\ SubLoops # <<>> => NextLoop \in Subs
         /\ NextIndex \in Nat /\ (SubLoops # <<>> => NextIndex < Len(SubLoops))
<1>1. SubLoops \in Seq(Subs) /\ Len(SubLoops) \in Nat
  BY LoopsAssumption, LenProperties
<1>2. CASE SubLoops = <<>>
  BY <1>2 DEF NextLoop, NextIndex, Loops, TypeOK
<1>3. CASE SubLoops # <<>>
  <2>1. next \in Nat /\ next < Len(SubLoops) /\ Len(SubLoops) > 0
    BY <1>1, <1>3, EmptySeq DEF TypeOK
  <2>2. next + 1 \in 1 .. Len(SubLoops)
    BY <1>1, <2>1
  <2>3. SubLoops[next + 1] \in Subs
    BY <1>1, <2>2, ElementOfSeq
  <2>4. (next + 1) % Len(SubLoops) \in 0 .. Len(SubLoops) - 1
    BY <1>1, <2>1
  <2> QED
    BY <1>1, <1>3, <2>3, <2>4 DEF NextLoop, NextIndex, Loops
<1> QED
  BY <1>2, <1>3

\* Queueing a functor.
LEMMA PushType ==
  ASSUME NEW q \in [Loops -> Seq(Functors)], NEW l \in Loops, NEW c \in Conns,
         NEW run \in {"establish", "remove", "destroy", "forceClose"}
  PROVE  [q EXCEPT ![l] = Append(@, Functor(run, c))] \in [Loops -> Seq(Functors)]
<1>1. Functor(run, c) \in Functors
  BY DEF Functor, Functors
<1>2. l \in Loops => Append(q[l], Functor(run, c)) \in Seq(Functors)
  BY <1>1, AppendProperties
<1> QED
  BY <1>2

LEMMA TypeInit == Init => TypeOK
<1> SUFFICES ASSUME Init
             PROVE  TypeOK
  OBVIOUS
<1>1. <<>> \in Seq(Functors) /\ Len(<<>>) = 0
  OBVIOUS
<1>2. SubLoops # <<>> => 0 < Len(SubLoops)
  BY LoopsAssumption, EmptySeq, LenProperties
<1> QED
  BY <1>1, <1>2 DEF Init, TypeOK

-----------------------------------------------------------------------------
(* What the steps do when there are sub reactors. *)

LEMMA HandlingEffect ==
  ASSUME Inv, NEW l \in Loops, HandleError(l) \/ HandleRead(l) \/ HandleWrite(l)
  PROVE  /\ l \in Subs /\ at[l] = "event" /\ ~closing[l] /\ cur[l] \in Conns
         /\ Established(cur[l])
         /\ revents' \in [Conns -> SUBSET {"err", "in", "out"}]
         /\ \/ UNCHANGED <<state, closing>>
            \/ /\ state' = [state EXCEPT ![cur[l]] = "kDisconnected"]
               /\ closing' = [closing EXCEPT ![l] = TRUE]
         /\ UNCHANGED <<net, fd, owner, registered, server, queues, ready, at, cur, quit,
                        todo>>
<1>1. PICK e \in {"err", "in", "out"} : Handling(l, e)
  BY DEF HandleError, HandleRead, HandleWrite
<1>2. /\ at[l] = "event" /\ ~closing[l]
      /\ UNCHANGED <<net, fd, owner, registered, server, queues, ready, at, cur, quit, todo>>
  BY <1>1 DEF Handling
<1>3. l \in Subs /\ cur[l] \in Conns /\ Established(cur[l])
  BY <1>2 DEF Inv, ThreadInv, ThreadOK
<1>4. revents' \in [Conns -> SUBSET {"err", "in", "out"}]
  BY <1>1, <1>3 DEF Handling, Inv, TypeOK
<1>5. \/ UNCHANGED <<state, closing>>
      \/ /\ state' = [state EXCEPT ![cur[l]] = "kDisconnected"]
         /\ closing' = [closing EXCEPT ![l] = TRUE]
  BY DEF HandleError, HandleRead, HandleWrite, BeginClose
<1> QED
  BY <1>2, <1>3, <1>4, <1>5

LEMMA FinishCloseEffect ==
  ASSUME Inv, NEW l \in Loops, FinishClose(l)
  PROVE  /\ l \in Subs /\ closing[l] /\ at[l] \in {"event", "functors"}
         /\ cur[l] \in Conns /\ Down(cur[l]) /\ Alive(cur[l])
         /\ registered' = registered \ {cur[l]}
         /\ closing' = [closing EXCEPT ![l] = FALSE]
         /\ pending' = [pending EXCEPT ![MainLoop] = Append(@, Functor("remove", cur[l]))]
         /\ UNCHANGED <<net, state, fd, owner, revents, server, batch, ran, ready, at, cur,
                        quit, todo>>
<1>1. /\ closing[l] /\ Alive(cur[l])
      /\ l \in Subs /\ at[l] \in {"event", "functors"}
      /\ cur[l] \in Conns /\ Down(cur[l])
  BY DEF FinishClose, Inv, ThreadInv, ThreadOK
<1>2. l # MainLoop /\ at[l] # "closing"
  BY <1>1, LoopsAssumption
<1> QED
  BY <1>1, <1>2 DEF FinishClose

\* The functor that is called is one that is still to run.
LEMMA CallingEffect ==
  ASSUME Inv, NEW l \in Loops, NEW c \in Conns, NEW run, Calling(l, run, c)
  PROVE  /\ at[l] = "functors" /\ ~closing[l]
         /\ ran[l] \in Nat /\ ran[l] + 1 \in DOMAIN batch[l]
         /\ batch[l][ran[l] + 1] = Functor(run, c)
         /\ Fits(Functor(run, c), l) /\ Alive(c) /\ c \in Held(batch[l])
         /\ state[c] # "unborn" /\ owner[c] \in Subs /\ fd[c] \in Fds
         /\ ran' = [ran EXCEPT ![l] = @ + 1]
         /\ cur' = [cur EXCEPT ![l] = c]
         /\ UNCHANGED <<net, fd, owner, revents, next, batch, ready, at, quit, todo>>
<1>1. /\ at[l] = "functors" /\ ~closing[l] /\ ran[l] < Len(batch[l])
      /\ batch[l][ran[l] + 1] = Functor(run, c)
      /\ ran' = [ran EXCEPT ![l] = @ + 1]
      /\ cur' = [cur EXCEPT ![l] = c]
      /\ UNCHANGED <<net, fd, owner, revents, next, batch, ready, at, quit, todo>>
  BY DEF Calling
<1>2. ran[l] \in Nat /\ batch[l] \in Seq(Functors)
  BY DEF Inv, TypeOK
<1>3. ran[l] + 1 \in DOMAIN batch[l]
  BY <1>1, <1>2
<1>4. Fits(Functor(run, c), l)
  BY <1>1, <1>2, <1>3 DEF Inv, FunctorInv
<1>5. batch[l][ran[l] + 1].conn = c
  BY <1>1 DEF Functor
<1>6. c \in Held(batch[l])
  BY <1>3, <1>5 DEF Held
<1>7. Alive(c) /\ state[c] # "unborn" /\ owner[c] \in Subs /\ fd[c] \in Fds
  BY <1>6 DEF Alive, Inv, BirthInv
<1> QED
  BY <1>1, <1>2, <1>3, <1>4, <1>6, <1>7

LEMMA AliveIsBorn ==
  ASSUME Inv, NEW c \in Conns, Alive(c)
  PROVE  state[c] # "unborn" /\ owner[c] \in Subs /\ fd[c] \in Fds
<1>1. CASE \E f \in Fds : connections[f] = c
  BY <1>1 DEF Inv, BirthInv
<1>2. CASE \E l \in Loops : c \in Held(pending[l]) \union Held(batch[l])
  BY <1>2 DEF Inv, BirthInv
<1>3. CASE at[MainLoop] = "closing" /\ cur[MainLoop] = c
  <2>1. cur[MainLoop] # None
    BY <1>3, LoopsAssumption
  <2> QED
    BY <1>3, <2>1 DEF Inv, ClosingInv, Known, BirthInv
<1> QED
  BY <1>1, <1>2, <1>3 DEF Alive

LEMMA EstablishEffect ==
  ASSUME Inv, NEW l \in Loops, NEW c \in Conns, Establish(l, c)
  PROVE  /\ l \in Subs /\ owner[c] = l /\ state[c] = "kConnecting"
         /\ state' = [state EXCEPT ![c] = "kConnected"]
         /\ registered' = registered \union {c} \/ registered' = registered
         /\ UNCHANGED <<connections, pending, closing>>
<1>1. /\ Calling(l, "establish", c)
      /\ state' = [state EXCEPT ![c] = "kConnected"]
      /\ registered' = registered \union {c} \/ registered' = registered
      /\ UNCHANGED <<connections, pending, closing>>
  BY DEF Establish, EnableReading
<1>2. Fits(Functor("establish", c), l) /\ owner[c] \in Subs
  BY <1>1, CallingEffect
<1>3. owner[c] = l /\ state[c] = "kConnecting"
  BY <1>2 DEF Fits, Functor
<1> QED
  BY <1>1, <1>2, <1>3

\* An entry that is removed is the connection's own.
LEMMA RemoveEffect ==
  ASSUME Inv, NEW l \in Loops, NEW c \in Conns, Remove(l, c)
  PROVE  /\ l = MainLoop /\ Down(c) /\ c \notin registered
         /\ UNCHANGED <<state, registered, closing>>
         /\ \/ UNCHANGED <<connections, pending>>
            \/ /\ connections[fd[c]] = c
               /\ connections' = [connections EXCEPT ![fd[c]] = None]
               /\ pending' = [pending EXCEPT ![owner[c]] = Append(@, Functor("destroy", c))]
<1>1. /\ Calling(l, "remove", c)
      /\ RemoveConnectionInLoop(c, pending)
      /\ UNCHANGED <<state, registered, closing>>
  BY DEF Remove
<1>2. /\ Fits(Functor("remove", c), l) /\ Alive(c)
      /\ owner[c] \in Subs /\ fd[c] \in Fds
  BY <1>1, CallingEffect
<1>3. l = MainLoop /\ Down(c) /\ c \notin registered
  BY <1>2 DEF Fits, Functor
<1>4. owner[c] # MainLoop
  BY <1>2, LoopsAssumption
<1>5. connections[fd[c]] # None => connections[fd[c]] = c
  <2> SUFFICES ASSUME connections[fd[c]] # None
               PROVE  connections[fd[c]] = c
    OBVIOUS
  <2>1. connections[fd[c]] \in Conns
    BY <1>2 DEF Inv, TypeOK
  <2>2. fd[connections[fd[c]]] = fd[c] /\ Alive(connections[fd[c]])
    BY <1>2, <2>1 DEF Inv, BirthInv, Alive
  <2> QED
    BY <1>2, <2>1, <2>2 DEF Inv, FdInv
<1>6. CASE connections[fd[c]] = None
  BY <1>1, <1>3, <1>6 DEF RemoveConnectionInLoop
<1>7. CASE connections[fd[c]] # None
  BY <1>1, <1>3, <1>4, <1>5, <1>7 DEF RemoveConnectionInLoop
<1> QED
  BY <1>6, <1>7

\* connectDestroyedInLoop never finds a connection that is still connected.
LEMMA DestroyEffect ==
  ASSUME Inv, NEW l \in Loops, NEW c \in Conns, Destroy(l, c)
  PROVE  UNCHANGED <<state, registered, connections, pending, closing>>
<1>1. Fits(Functor("destroy", c), l)
  BY CallingEffect DEF Destroy
<1>2. state[c] # "kConnected"
  BY <1>1 DEF Fits, Functor, Down
<1> QED
  BY <1>2 DEF Destroy

LEMMA ForceCloseEffect ==
  ASSUME Inv, NEW l \in Loops, NEW c \in Conns, ForceClose(l, c)
  PROVE  /\ l \in Subs /\ owner[c] = l /\ Down(c)
         /\ UNCHANGED <<registered, connections, pending>>
         /\ \/ UNCHANGED <<state, closing>>
            \/ /\ state' = [state EXCEPT ![c] = "kDisconnected"]
               /\ closing' = [closing EXCEPT ![l] = TRUE]
<1>1. Fits(Functor("forceClose", c), l) /\ owner[c] \in Subs
  BY CallingEffect DEF ForceClose
<1>2. owner[c] = l /\ Down(c)
  BY <1>1 DEF Fits, Functor
<1> QED
  BY <1>1, <1>2 DEF ForceClose, BeginClose

LEMMA MarkConnectionEffect ==
  ASSUME Inv, MarkConnection
  PROVE  /\ at[MainLoop] = "closing" /\ cur[MainLoop] \in Conns
         /\ Known(cur[MainLoop]) /\ Established(cur[MainLoop])
         /\ owner[cur[MainLoop]] \in Subs
         /\ state' = [state EXCEPT ![cur[MainLoop]] = "kDisconnecting"]
         /\ pending' = [pending EXCEPT ![owner[cur[MainLoop]]] =
                          Append(@, Functor("forceClose", cur[MainLoop]))]
         /\ cur' = [cur EXCEPT ![MainLoop] = None]
         /\ UNCHANGED <<closing, net, fd, owner, registered, revents, server, batch, ran,
                        ready, at, quit, todo>>
<1>1. at[MainLoop] = "closing" /\ cur[MainLoop] # None
  BY DEF MarkConnection
<1>2. cur[MainLoop] \in Conns
  BY <1>1 DEF Inv, TypeOK, Loops
<1>3. Known(cur[MainLoop]) /\ Established(cur[MainLoop])
  BY <1>1 DEF Inv, ClosingInv
<1>4. owner[cur[MainLoop]] \in Subs
  BY <1>2, <1>3 DEF Inv, BirthInv, Established
<1>5. owner[cur[MainLoop]] # MainLoop
  BY <1>4, LoopsAssumption
<1> QED
  BY <1>1, <1>2, <1>3, <1>4, <1>5 DEF MarkConnection

\* The descriptor accept returns is entered nowhere.
LEMMA AcceptEffect ==
  ASSUME Inv, NEW c \in Conns, NEW f \in Fds, Accept(c, f)
  PROVE  /\ at[MainLoop] = "accept" /\ c \in backlog /\ state[c] = "unborn"
         /\ NextLoop \in Subs /\ NextLoop \in Loops
         /\ connections[f] = None
         /\ \A d \in Conns : Alive(d) => fd[d] # f /\ d # c
         /\ backlog' = backlog \ {c}
         /\ fd' = [fd EXCEPT ![c] = f]
         /\ owner' = [owner EXCEPT ![c] = NextLoop]
         /\ next' = NextIndex
         /\ connections' = [connections EXCEPT ![f] = c]
         /\ state' = [state EXCEPT ![c] = "kConnecting"]
         /\ pending' = [pending EXCEPT ![NextLoop] = Append(@, Functor("establish", c))]
         /\ UNCHANGED <<registered, peer, revents, batch, ran, where, quit, todo>>
<1>1. /\ at[MainLoop] = "accept" /\ c \in backlog /\ f \notin OpenFds
      /\ backlog' = backlog \ {c}
      /\ fd' = [fd EXCEPT ![c] = f]
      /\ owner' = [owner EXCEPT ![c] = NextLoop]
      /\ next' = NextIndex
      /\ connections' = [connections EXCEPT ![f] = c]
      /\ UNCHANGED <<peer, revents, batch, ran, where, quit, todo>>
  BY DEF Accept
<1>2. NextLoop \in Subs /\ NextLoop \in Loops /\ NextLoop # MainLoop
  BY NextLoopType, LoopsAssumption DEF Inv
<1>3. /\ state' = [state EXCEPT ![c] = "kConnecting"]
      /\ pending' = [pending EXCEPT ![NextLoop] = Append(@, Functor("establish", c))]
      /\ UNCHANGED registered
  BY <1>2 DEF Accept
<1>4. state[c] = "unborn"
  BY <1>1 DEF Inv, BirthInv
<1>5. ASSUME NEW d \in Conns, Alive(d)
      PROVE  fd[d] # f /\ d # c
  <2>1. fd[d] # f
    BY <1>1, <1>5 DEF OpenFds
  <2>2. state[d] # "unborn"
    BY <1>5, AliveIsBorn
  <2> QED
    BY <1>4, <2>1, <2>2
<1>6. connections[f] = None
  <2>1. ASSUME connections[f] \in Conns
        PROVE  FALSE
    <3>1. Alive(connections[f]) /\ fd[connections[f]] = f
      BY <2>1 DEF Alive, Inv, BirthInv
    <3> QED
      BY <1>5, <2>1, <3>1
  <2> QED
    BY <2>1 DEF Inv, TypeOK
<1> QED
  BY <1>1, <1>2, <1>3, <1>4, <1>5, <1>6

-----------------------------------------------------------------------------
(* Types, step by step. *)

LEMMA TypeLoopThread ==
  ASSUME Inv, NEW l \in Loops, LoopThread(l)
  PROVE  TypeOK'
<1>0. TypeOK
  BY DEF Inv
<1>. USE <1>0 DEF TypeOK
<1>1. CASE Poll(l)
  <2>1. PICK events \in [Watched(l) -> SUBSET {"err", "in", "out"}] :
          /\ revents' = [c \in Conns |-> IF c \in Watched(l) THEN events[c] ELSE revents[c]]
          /\ ready' = [ready EXCEPT ![l] =
                         AlsoReady(l) \union {c \in Watched(l) : events[c] # {}}]
    BY <1>1 DEF Poll
  <2>2. /\ Watched(l) \subseteq Conns
        /\ AlsoReady(l) \subseteq {EventFd, Listener}
    BY DEF Watched, AlsoReady
  <2>3. revents' \in [Conns -> SUBSET {"err", "in", "out"}]
    BY <2>1, <2>2
  <2>4. ready' \in [Loops -> SUBSET (Conns \union {EventFd, Listener})]
    BY <2>1, <2>2
  <2> QED
    BY <1>1, <2>3, <2>4 DEF Poll
<1>2. ASSUME NEW c \in Conns, BeginEvent(l, c)
      PROVE  TypeOK'
  BY <1>2 DEF BeginEvent
<1>3. CASE HandleError(l) \/ HandleRead(l) \/ HandleWrite(l)
  <2>1. /\ state' \in [Conns -> StateE \union {"unborn"}]
        /\ closing' \in [Loops -> BOOLEAN]
    BY <1>3, HandlingEffect, ZenonT(30) DEF StateE
  <2> QED
    BY <1>3, <2>1, HandlingEffect
<1>4. CASE EndEvent(l)
  BY <1>4 DEF EndEvent
<1>5. CASE FinishClose(l)
  <2>0. MainLoop \in Loops /\ cur[l] \in Conns
    BY <1>5, FinishCloseEffect DEF Loops
  <2>1. pending' \in [Loops -> Seq(Functors)]
    <3>1. [pending EXCEPT ![MainLoop] = Append(@, Functor("remove", cur[l]))]
            \in [Loops -> Seq(Functors)]
      BY <2>0, PushType
    <3> QED
      BY <3>1, <1>5, FinishCloseEffect
  <2>2. closing' \in [Loops -> BOOLEAN] /\ registered' \in SUBSET Conns
    BY <1>5, FinishCloseEffect, ZenonT(30)
  <2> QED
    BY <1>5, <2>1, <2>2, FinishCloseEffect
<1>6. CASE TakeFunctors(l)
  BY <1>6 DEF TakeFunctors
<1>7. CASE EndFunctors(l)
  BY <1>7 DEF EndFunctors
<1>8. CASE EndDispatch(l)
  BY <1>8 DEF EndDispatch
<1>9. ASSUME NEW c \in Conns, NEW run \in {"establish", "remove", "destroy", "forceClose"},
             Calling(l, run, c)
      PROVE  /\ ran' \in [Loops -> Nat] /\ \A k \in Loops : ran'[k] <= Len(batch'[k])
             /\ cur' \in [Loops -> Conns \union {None}]
  <2>1. /\ ran[l] \in Nat /\ ran[l] + 1 <= Len(batch[l])
        /\ ran' = [ran EXCEPT ![l] = @ + 1] /\ batch' = batch
        /\ cur' = [cur EXCEPT ![l] = c]
    BY <1>9, CallingEffect
  <2> QED
    BY <2>1
<1>10. ASSUME NEW c \in Conns, Establish(l, c)
       PROVE  TypeOK'
  <2>1. Calling(l, "establish", c)
    BY <1>10 DEF Establish
  <2>2. state' \in [Conns -> StateE \union {"unborn"}]
    <3>1. state' = [state EXCEPT ![c] = "kConnected"]
      BY <1>10, EstablishEffect
    <3> QED
      BY <3>1 DEF StateE
  <2>3. registered' \in SUBSET Conns
    <3>1. registered' = registered \union {c} \/ registered' = registered
      BY <1>10, EstablishEffect
    <3> QED
      BY <3>1
  <2> QED
    BY <1>9, <1>10, <2>1, <2>2, <2>3, EstablishEffect DEF Calling
<1>11. ASSUME NEW c \in Conns, Remove(l, c)
       PROVE  TypeOK'
  <2>1. Calling(l, "remove", c)
    BY <1>11 DEF Remove
  <2>0. owner[c] \in Loops
    BY <2>1, CallingEffect DEF Loops
  <2>2. pending' \in [Loops -> Seq(Functors)]
    <3>1. [pending EXCEPT ![owner[c]] = Append(@, Functor("destroy", c))]
            \in [Loops -> Seq(Functors)]
      BY <2>0, PushType
    <3> QED
      BY <3>1, <1>11, RemoveEffect
  <2>3. connections' \in [Fds -> Conns \union {None}]
    <3>1. \/ connections' = connections
          \/ connections' = [connections EXCEPT ![fd[c]] = None]
      BY <1>11, RemoveEffect
    <3> QED
      BY <3>1
  <2> QED
    BY <1>9, <1>11, <2>1, <2>2, <2>3, RemoveEffect, ZenonT(30) DEF Calling
<1>12. ASSUME NEW c \in Conns, Destroy(l, c)
       PROVE  TypeOK'
  <2>1. Calling(l, "destroy", c)
    BY <1>12 DEF Destroy
  <2> QED
    BY <1>9, <1>12, <2>1, DestroyEffect DEF Calling
<1>13. ASSUME NEW c \in Conns, ForceClose(l, c)
       PROVE  TypeOK'
  <2>1. Calling(l, "forceClose", c)
    BY <1>13 DEF ForceClose
  <2>2. state' \in [Conns -> StateE \union {"unborn"}]
    <3>1. state' = state \/ state' = [state EXCEPT ![c] = "kDisconnected"]
      BY <1>13, ForceCloseEffect, ZenonT(30)
    <3> QED
      BY <3>1 DEF StateE
  <2>3. closing' \in [Loops -> BOOLEAN]
    BY <1>13, ForceCloseEffect
  <2> QED
    BY <1>9, <1>13, <2>1, <2>2, <2>3, ForceCloseEffect DEF Calling
<1> QED
  BY <1>1, <1>2, <1>3, <1>4, <1>5, <1>6, <1>7, <1>8, <1>10, <1>11, <1>12, <1>13
  DEF LoopThread

LEMMA TypeMainThread ==
  ASSUME Inv, MainThread
  PROVE  TypeOK'
<1>0. TypeOK
  BY DEF Inv
<1>. USE <1>0 DEF TypeOK
<1>1. CASE BeginAccept
  BY <1>1 DEF BeginAccept
<1>8. CASE EndAccept
  BY <1>8 DEF EndAccept
<1>2. ASSUME NEW c \in Conns, AcceptAndDrop(c)
      PROVE  TypeOK'
  BY <1>2 DEF AcceptAndDrop
<1>3. ASSUME NEW c \in Conns, NEW f \in Fds, Accept(c, f)
      PROVE  TypeOK'
  <2>0. NextLoop \in Loops /\ c \in Conns
    BY <1>3, AcceptEffect
  <2>1. pending' \in [Loops -> Seq(Functors)]
    <3>1. [pending EXCEPT ![NextLoop] = Append(@, Functor("establish", c))]
            \in [Loops -> Seq(Functors)]
      BY <2>0, PushType
    <3> QED
      BY <3>1, <1>3, AcceptEffect
  <2>2. next' \in Nat /\ (SubLoops # <<>> => next' < Len(SubLoops))
    BY <1>3, AcceptEffect, NextLoopType
  <2>3. state' \in [Conns -> StateE \union {"unborn"}]
    <3>1. state' = [state EXCEPT ![c] = "kConnecting"]
      BY <1>3, AcceptEffect
    <3> QED
      BY <3>1 DEF StateE
  <2>4. fd' \in [Conns -> Fds \union {None}] /\ owner' \in [Conns -> Loops \union {None}]
    <3>1. /\ fd' = [fd EXCEPT ![c] = f]
          /\ owner' = [owner EXCEPT ![c] = NextLoop] /\ NextLoop \in Loops
      BY <1>3, AcceptEffect
    <3> QED
      BY <3>1
  <2>5. connections' \in [Fds -> Conns \union {None}] /\ backlog' \in SUBSET Conns
    <3>1. connections' = [connections EXCEPT ![f] = c] /\ backlog' = backlog \ {c}
      BY <1>3, AcceptEffect
    <3> QED
      BY <3>1
  <2> QED
    BY <1>3, <2>1, <2>2, <2>3, <2>4, <2>5, AcceptEffect
<1>4. CASE BeginTeardown
  BY <1>4 DEF BeginTeardown
<1>9. CASE ClearConnections
  BY <1>9 DEF ClearConnections
<1>10. CASE Exit
  <2>1. pending' \in [Loops -> Seq(Functors)]
    <3>1. pending' = [pending EXCEPT ![MainLoop] = <<>>]
      BY <1>10 DEF Exit
    <3>2. <<>> \in Seq(Functors)
      OBVIOUS
    <3> QED
      BY <3>1, <3>2
  <2>2. /\ ran' \in [Loops -> Nat] /\ batch' \in [Loops -> Seq(Functors)]
        /\ \A l \in Loops : ran'[l] <= Len(batch'[l])
    BY <1>10 DEF Exit
  <2> QED
    BY <1>10, <2>1, <2>2 DEF Exit
<1>5. CASE MarkConnection
  <2>0. owner[cur[MainLoop]] \in Loops /\ cur[MainLoop] \in Conns
    BY <1>5, MarkConnectionEffect DEF Loops
  <2>1. pending' \in [Loops -> Seq(Functors)]
    <3>1. [pending EXCEPT ![owner[cur[MainLoop]]] = Append(@, Functor("forceClose", cur[MainLoop]))]
            \in [Loops -> Seq(Functors)]
      BY <2>0, PushType
    <3> QED
      BY <3>1, <1>5, MarkConnectionEffect
  <2>2. state' \in [Conns -> StateE \union {"unborn"}]
    BY <1>5, MarkConnectionEffect DEF StateE
  <2>3. cur' \in [Loops -> Conns \union {None}]
    <3>1. cur' = [cur EXCEPT ![MainLoop] = None]
      BY <1>5, MarkConnectionEffect
    <3> QED
      BY <3>1
  <2> QED
    BY <1>5, <2>1, <2>2, <2>3, MarkConnectionEffect
<1>6. ASSUME NEW c \in Conns, TestConnection(c)
      PROVE  TypeOK'
  BY <1>6 DEF TestConnection
<1>7. ASSUME NEW i \in DOMAIN SubLoops, QuitSub(i)
      PROVE  TypeOK'
  BY <1>7 DEF QuitSub
<1> QED
  BY <1>1, <1>2, <1>3, <1>4, <1>5, <1>6, <1>7, <1>8, <1>9, <1>10 DEF MainThread

LEMMA TypeStep ==
  ASSUME Inv, Next
  PROVE  TypeOK'
<1>0. TypeOK
  BY DEF Inv
<1>1. ASSUME NEW c \in Conns, ClientConnects(c)
      PROVE  TypeOK'
  BY <1>0, <1>1 DEF ClientConnects, TypeOK
<1>3. ASSUME NEW c \in Conns, NEW how \in {"closed", "reset"}, ClientLeaves(c, how)
      PROVE  TypeOK'
  BY <1>0, <1>3 DEF ClientLeaves, TypeOK
<1>2. CASE Interrupt
  BY <1>0, <1>2 DEF Interrupt, TypeOK
<1> QED
  BY <1>1, <1>2, <1>3, TypeLoopThread, TypeMainThread DEF Next, Clients

-----------------------------------------------------------------------------
(* What a step may do to the state of a connection, to its watching, to an entry of  *)
(* connections_ and to the functors of a loop.                                       *)

Fixed(c) == owner'[c] = owner[c] /\ fd'[c] = fd[c]

Accepted(c) == \E f \in Fds : Accept(c, f) /\ fd'[c] = f

StateStep(c) ==
  \/ state'[c] = state[c] /\ Fixed(c)
  \/ /\ state[c] = "unborn" /\ c \in backlog /\ c \notin backlog'
     /\ state'[c] = "kConnecting" /\ owner'[c] \in Subs /\ Accepted(c)
     /\ connections'[fd'[c]] = c
  \/ /\ state[c] = "kConnecting" /\ state'[c] = "kConnected" /\ Fixed(c)
     /\ \E l \in Loops : Establish(l, c)
  \/ Established(c) /\ Down(c)' /\ Fixed(c)

WatchStep(c) ==
  c \in registered' /\ c \notin registered =>
    state[c] = "kConnecting" /\ state'[c] = "kConnected"

EntryStep(f) ==
  \/ connections'[f] = connections[f]
  \/ connections'[f] = None
  \/ \E c \in Conns : Accept(c, f) /\ fd'[c] = f /\ connections'[f] = c

Queued(x, l) ==
  /\ Fits(x, l)'
  /\ \/ x.run # "establish" /\ Alive(x.conn)
     \/ Accepted(x.conn)

PendingStep(l) ==
  \/ pending'[l] = pending[l]
  \/ pending'[l] = <<>>
  \/ \E x \in Functors : pending'[l] = Append(pending[l], x) /\ Queued(x, l)

BatchStep(l) ==
  \/ batch'[l] = batch[l] /\ ran'[l] = ran[l]
  \/ batch'[l] = <<>>
  \/ batch'[l] = pending[l] /\ pending'[l] = <<>>
  \/ batch'[l] = batch[l] /\ ran[l] \in Nat /\ ran'[l] = ran[l] + 1

Moves ==
  /\ \A c \in Conns : StateStep(c) /\ WatchStep(c)
  /\ \A f \in Fds : EntryStep(f)
  /\ \A l \in Loops : PendingStep(l) /\ BatchStep(l)

LEMMA Quiet ==
  /\ UNCHANGED <<state, owner, fd>> => \A c \in Conns : StateStep(c)
  /\ UNCHANGED registered => \A c \in Conns : WatchStep(c)
  /\ UNCHANGED connections => \A f \in Fds : EntryStep(f)
  /\ UNCHANGED pending => \A l \in Loops : PendingStep(l)
  /\ UNCHANGED <<batch, ran>> => \A l \in Loops : BatchStep(l)
<1>1. UNCHANGED <<state, owner, fd>> => \A c \in Conns : StateStep(c)
  BY DEF StateStep, Fixed
<1>2. UNCHANGED registered => \A c \in Conns : WatchStep(c)
  BY DEF WatchStep
<1>3. UNCHANGED connections => \A f \in Fds : EntryStep(f)
  BY DEF EntryStep
<1>4. UNCHANGED pending => \A l \in Loops : PendingStep(l)
  BY DEF PendingStep
<1>5. UNCHANGED <<batch, ran>> => \A l \in Loops : BatchStep(l)
  BY DEF BatchStep
<1> QED
  BY <1>1, <1>2, <1>3, <1>4, <1>5

\* One functor is queued, the other queues stay.
LEMMA OnePush ==
  ASSUME TypeOK, NEW m \in Loops, NEW x \in Functors, Queued(x, m),
         pending' = [pending EXCEPT ![m] = Append(@, x)]
  PROVE  \A l \in Loops : PendingStep(l)
BY DEF PendingStep, TypeOK

\* handleClose or forceClose stores the state of a connection that is established.
LEMMA OneDown ==
  ASSUME TypeOK, NEW d \in Conns, Established(d), NEW s \in {"kDisconnecting", "kDisconnected"},
         state' = [state EXCEPT ![d] = s], UNCHANGED <<owner, fd>>
  PROVE  \A c \in Conns : StateStep(c)
BY DEF StateStep, Fixed, Established, Down, TypeOK

LEMMA MovesOfHandlers ==
  ASSUME Inv, NEW l \in Loops,
         \/ HandleError(l) \/ HandleRead(l) \/ HandleWrite(l)
         \/ \E c \in Conns : ForceClose(l, c)
  PROVE  Moves
<1>0. TypeOK
  BY DEF Inv
<1>1. CASE HandleError(l) \/ HandleRead(l) \/ HandleWrite(l)
  <2>1. \A c \in Conns : StateStep(c)
    <3>1. CASE UNCHANGED state
      BY <1>1, <3>1, HandlingEffect, Quiet
    <3>2. CASE state' = [state EXCEPT ![cur[l]] = "kDisconnected"]
      <4>1. PICK d \in Conns : d = cur[l] /\ Established(d) /\ UNCHANGED <<owner, fd>>
        BY <1>1, HandlingEffect
      <4> QED
        BY <1>0, <3>2, <4>1, OneDown
    <3> QED
      BY <1>1, <3>1, <3>2, HandlingEffect
  <2> QED
    BY <1>1, <2>1, HandlingEffect, Quiet DEF Moves
<1>2. ASSUME NEW c \in Conns, ForceClose(l, c)
      PROVE  Moves
  <2>1. Calling(l, "forceClose", c)
    BY <1>2 DEF ForceClose
  <2>2. /\ ran[l] \in Nat /\ ran' = [ran EXCEPT ![l] = @ + 1]
        /\ UNCHANGED <<fd, owner, batch>>
    BY <2>1, CallingEffect
  <2>3. \A d \in Conns : StateStep(d)
    <3>1. CASE UNCHANGED state
      BY <2>2, <3>1, Quiet
    <3>2. CASE state' = [state EXCEPT ![c] = "kDisconnected"]
      <4>1. Established(c)
        BY <1>2, ForceCloseEffect DEF Established, Down
      <4> QED
        BY <1>0, <2>2, <3>2, <4>1, OneDown
    <3> QED
      BY <1>2, <3>1, <3>2, ForceCloseEffect
  <2>4. \A k \in Loops : BatchStep(k)
    BY <1>0, <2>2 DEF BatchStep, TypeOK
  <2> QED
    BY <1>2, <2>3, <2>4, ForceCloseEffect, Quiet DEF Moves
<1> QED
  BY <1>1, <1>2

LEMMA MovesOfFunctors ==
  ASSUME Inv, NEW l \in Loops, NEW c \in Conns,
         Establish(l, c) \/ Remove(l, c) \/ Destroy(l, c)
  PROVE  Moves
<1>0. TypeOK
  BY DEF Inv
<1>1. PICK run \in {"establish", "remove", "destroy"} : Calling(l, run, c)
  BY DEF Establish, Remove, Destroy
<1>2. /\ ran[l] \in Nat /\ ran' = [ran EXCEPT ![l] = @ + 1]
      /\ UNCHANGED <<fd, owner, batch>>
      /\ Alive(c) /\ owner[c] \in Loops /\ fd[c] \in Fds
  BY <1>1, CallingEffect DEF Loops
<1>3. \A k \in Loops : BatchStep(k)
  BY <1>0, <1>2 DEF BatchStep, TypeOK
<1>4. CASE Establish(l, c)
  <2>1. \A d \in Conns : StateStep(d)
    <3>1. state[c] = "kConnecting" /\ state' = [state EXCEPT ![c] = "kConnected"]
      BY <1>4, EstablishEffect
    <3> QED
      BY <1>0, <1>2, <1>4, <3>1 DEF StateStep, Fixed, TypeOK
  <2>2. \A d \in Conns : WatchStep(d)
    <3>1. /\ state[c] = "kConnecting" /\ state' = [state EXCEPT ![c] = "kConnected"]
      BY <1>4, EstablishEffect
    <3>2. state'[c] = "kConnected"
      BY <1>0, <3>1 DEF TypeOK
    <3>3. \A d \in registered' : d \in registered \/ d = c
      BY <1>4, EstablishEffect
    <3> QED
      BY <3>1, <3>2, <3>3 DEF WatchStep
  <2> QED
    BY <1>3, <1>4, <2>1, <2>2, EstablishEffect, Quiet DEF Moves
<1>5. CASE Remove(l, c)
  <2>1. UNCHANGED <<state, registered>>
    BY <1>5, RemoveEffect
  <2>2. CASE UNCHANGED <<connections, pending>>
    BY <1>2, <1>3, <2>1, <2>2, Quiet DEF Moves
  <2>3. CASE /\ connections' = [connections EXCEPT ![fd[c]] = None]
             /\ pending' = [pending EXCEPT ![owner[c]] = Append(@, Functor("destroy", c))]
    <3>1. PICK x \in Functors, m \in Loops : x = Functor("destroy", c) /\ m = owner[c]
      BY <1>2 DEF Functor, Functors
    <3>2. x.run = "destroy" /\ x.conn = c /\ Down(c)
      BY <1>5, <3>1, RemoveEffect DEF Functor
    <3>3. Queued(x, m)
      BY <1>2, <2>1, <3>1, <3>2 DEF Queued, Fits, Down
    <3>4. \A k \in Loops : PendingStep(k)
      BY <1>0, <2>3, <3>1, <3>3, OnePush
    <3>5. \A f \in Fds : EntryStep(f)
      BY <1>0, <2>3 DEF EntryStep, TypeOK
    <3> QED
      BY <1>2, <1>3, <2>1, <3>4, <3>5, Quiet DEF Moves
  <2> QED
    BY <1>5, <2>2, <2>3, RemoveEffect
<1>6. CASE Destroy(l, c)
  BY <1>2, <1>3, <1>6, DestroyEffect, Quiet DEF Moves
<1> QED
  BY <1>4, <1>5, <1>6

LEMMA MovesOfFinishClose ==
  ASSUME Inv, NEW l \in Loops, FinishClose(l)
  PROVE  Moves
<1>0. TypeOK
  BY DEF Inv
<1>1. PICK c \in Conns : c = cur[l]
  BY FinishCloseEffect
<1>2. /\ Down(c) /\ Alive(c)
      /\ registered' = registered \ {c}
      /\ pending' = [pending EXCEPT ![MainLoop] = Append(@, Functor("remove", c))]
      /\ UNCHANGED <<state, fd, owner, connections, batch, ran>>
  BY <1>1, FinishCloseEffect
<1>3. PICK x \in Functors : x = Functor("remove", c)
  BY DEF Functor, Functors
<1>4. x.run = "remove" /\ x.conn = c
  BY <1>3 DEF Functor
<1>5. Queued(x, MainLoop)
  BY <1>2, <1>4 DEF Queued, Fits, Down
<1>6. \A k \in Loops : PendingStep(k)
  BY <1>0, <1>2, <1>3, <1>5, OnePush DEF Loops
<1>7. \A d \in Conns : WatchStep(d)
  BY <1>2 DEF WatchStep
<1> QED
  BY <1>2, <1>6, <1>7, Quiet DEF Moves

LEMMA MovesOfLoop ==
  ASSUME Inv, NEW l \in Loops,
         \/ Poll(l) \/ EndEvent(l) \/ TakeFunctors(l) \/ EndFunctors(l) \/ EndDispatch(l)
         \/ \E c \in Conns : BeginEvent(l, c)
  PROVE  Moves
<1>0. TypeOK
  BY DEF Inv
<1>1. CASE Poll(l)
  BY <1>1, Quiet DEF Poll, Moves
<1>2. CASE EndEvent(l)
  BY <1>2, Quiet DEF EndEvent, Moves
<1>3. ASSUME NEW c \in Conns, BeginEvent(l, c)
      PROVE  Moves
  BY <1>3, Quiet DEF BeginEvent, Moves
<1>4. CASE TakeFunctors(l)
  <2>1. \A k \in Loops : PendingStep(k) /\ BatchStep(k)
    BY <1>0, <1>4 DEF TakeFunctors, PendingStep, BatchStep, TypeOK
  <2> QED
    BY <1>4, <2>1, Quiet DEF TakeFunctors, Moves
<1>5. CASE EndFunctors(l)
  <2>1. \A k \in Loops : BatchStep(k)
    BY <1>0, <1>5 DEF EndFunctors, BatchStep, TypeOK
  <2> QED
    BY <1>5, <2>1, Quiet DEF EndFunctors, Moves
<1>6. CASE EndDispatch(l)
  <2>1. \A k \in Loops : PendingStep(k)
    BY <1>0, <1>6 DEF EndDispatch, PendingStep, TypeOK
  <2> QED
    BY <1>6, <2>1, Quiet DEF EndDispatch, Moves
<1> QED
  BY <1>1, <1>2, <1>3, <1>4, <1>5, <1>6

LEMMA MovesOfAccept ==
  ASSUME Inv, NEW c \in Conns, NEW f \in Fds, Accept(c, f)
  PROVE  Moves
<1>0. TypeOK
  BY DEF Inv
<1>1. /\ c \in backlog /\ state[c] = "unborn" /\ NextLoop \in Subs /\ NextLoop \in Loops
      /\ backlog' = backlog \ {c}
      /\ fd' = [fd EXCEPT ![c] = f]
      /\ owner' = [owner EXCEPT ![c] = NextLoop]
      /\ connections' = [connections EXCEPT ![f] = c]
      /\ state' = [state EXCEPT ![c] = "kConnecting"]
      /\ pending' = [pending EXCEPT ![NextLoop] = Append(@, Functor("establish", c))]
      /\ UNCHANGED <<registered, batch, ran>>
  BY AcceptEffect
<1>2. /\ fd'[c] = f /\ owner'[c] = NextLoop /\ connections'[f] = c
      /\ state'[c] = "kConnecting" /\ c \notin backlog'
  BY <1>0, <1>1 DEF TypeOK
<1>3. Accepted(c)
  BY <1>2 DEF Accepted
<1>4. \A d \in Conns : StateStep(d)
  <2>1. StateStep(c)
    BY <1>1, <1>2, <1>3 DEF StateStep
  <2>2. ASSUME NEW d \in Conns, d # c
        PROVE  state'[d] = state[d] /\ owner'[d] = owner[d] /\ fd'[d] = fd[d]
    BY <1>0, <1>1, <2>2 DEF TypeOK
  <2> QED
    BY <2>1, <2>2 DEF StateStep, Fixed
<1>5. \A g \in Fds : EntryStep(g)
  BY <1>0, <1>1, <1>2 DEF EntryStep, TypeOK
<1>6. PICK x \in Functors, m \in Loops : x = Functor("establish", c) /\ m = NextLoop
  BY <1>1 DEF Functor, Functors
<1>7. x.run = "establish" /\ x.conn = c
  BY <1>6 DEF Functor
<1>8. Queued(x, m)
  BY <1>2, <1>3, <1>6, <1>7 DEF Queued, Fits
<1>9. \A k \in Loops : PendingStep(k)
  BY <1>0, <1>1, <1>6, <1>8, OnePush
<1> QED
  BY <1>1, <1>4, <1>5, <1>9, Quiet DEF Moves

LEMMA MovesOfMarkConnection ==
  ASSUME Inv, MarkConnection
  PROVE  Moves
<1>0. TypeOK
  BY DEF Inv
<1>1. PICK c \in Conns, m \in Loops : c = cur[MainLoop] /\ m = owner[c]
  BY MarkConnectionEffect DEF Loops
<1>2. /\ at[MainLoop] = "closing" /\ Established(c)
      /\ state' = [state EXCEPT ![c] = "kDisconnecting"]
      /\ pending' = [pending EXCEPT ![m] = Append(@, Functor("forceClose", c))]
      /\ UNCHANGED <<fd, owner, registered, connections, batch, ran>>
  BY <1>1, MarkConnectionEffect
<1>3. state'[c] = "kDisconnecting" /\ owner'[c] = m /\ Alive(c)
  BY <1>0, <1>1, <1>2 DEF TypeOK, Alive
<1>4. \A d \in Conns : StateStep(d)
  BY <1>0, <1>2, OneDown
<1>5. PICK x \in Functors : x = Functor("forceClose", c)
  BY DEF Functor, Functors
<1>6. x.run = "forceClose" /\ x.conn = c
  BY <1>5 DEF Functor
<1>7. Queued(x, m)
  BY <1>3, <1>6 DEF Queued, Fits, Down
<1>8. \A k \in Loops : PendingStep(k)
  BY <1>0, <1>2, <1>5, <1>7, OnePush
<1> QED
  BY <1>2, <1>4, <1>8, Quiet DEF Moves

LEMMA MovesOfMainThread ==
  ASSUME Inv, MainThread
  PROVE  Moves
<1>0. TypeOK
  BY DEF Inv
<1>1. CASE BeginAccept
  BY <1>1, Quiet DEF BeginAccept, Moves
<1>2. CASE EndAccept
  BY <1>2, Quiet DEF EndAccept, Moves
<1>3. ASSUME NEW c \in Conns, AcceptAndDrop(c)
      PROVE  Moves
  BY <1>3, Quiet DEF AcceptAndDrop, Moves
<1>4. CASE BeginTeardown
  BY <1>4, Quiet DEF BeginTeardown, Moves
<1>5. ASSUME NEW c \in Conns, TestConnection(c)
      PROVE  Moves
  BY <1>5, Quiet DEF TestConnection, Moves
<1>6. CASE ClearConnections
  <2>1. \A f \in Fds : EntryStep(f)
    BY <1>6 DEF ClearConnections, EntryStep
  <2> QED
    BY <1>6, <2>1, Quiet DEF ClearConnections, Moves
<1>7. ASSUME NEW i \in DOMAIN SubLoops, QuitSub(i)
      PROVE  Moves
  BY <1>7, Quiet DEF QuitSub, Moves
<1>8. CASE Exit
  <2>1. \A l \in Loops : PendingStep(l)
    BY <1>0, <1>8 DEF Exit, PendingStep, TypeOK
  <2> QED
    BY <1>8, <2>1, Quiet DEF Exit, Moves
<1> QED
  BY <1>1, <1>2, <1>3, <1>4, <1>5, <1>6, <1>7, <1>8, MovesOfAccept, MovesOfMarkConnection
  DEF MainThread

LEMMA MovesOfStep ==
  ASSUME Inv, Next
  PROVE  Moves
<1>1. ASSUME NEW c \in Conns, ClientConnects(c)
      PROVE  Moves
  BY <1>1, Quiet DEF ClientConnects, Moves
<1>2. ASSUME NEW c \in Conns, NEW how \in {"closed", "reset"}, ClientLeaves(c, how)
      PROVE  Moves
  BY <1>2, Quiet DEF ClientLeaves, Moves
<1>3. CASE Interrupt
  BY <1>3, Quiet DEF Interrupt, Moves
<1>4. ASSUME NEW l \in Loops, LoopThread(l)
      PROVE  Moves
  BY <1>4, MovesOfLoop, MovesOfHandlers, MovesOfFinishClose, MovesOfFunctors DEF LoopThread
<1> QED
  BY <1>1, <1>2, <1>3, <1>4, MovesOfMainThread DEF Next, Clients

-----------------------------------------------------------------------------
(* What follows from the moves for a connection, whatever the step. *)

\* A life has one direction.
LEMMA LifeGoesOn ==
  ASSUME Inv, Moves, NEW c \in Conns
  PROVE  /\ state[c] # "unborn" => state'[c] # "unborn" /\ Fixed(c)
         /\ Established(c) => Established(c)'
         /\ Down(c) => Down(c)'
         /\ state'[c] = "unborn" => state[c] = "unborn"
         /\ state'[c] \in {"kConnecting", "kConnected"} =>
              state[c] \in {"kConnecting", "kConnected"} \/ Accepted(c)
         /\ state[c] = "kConnecting" =>
              state'[c] = "kConnecting" \/ \E l \in Loops : Establish(l, c)
         /\ Accepted(c) => state'[c] = "kConnecting"
<1>1. StateStep(c)
  BY DEF Moves
<1>2. Accepted(c) => state'[c] = "kConnecting"
  <2>1. ASSUME NEW f \in Fds, Accept(c, f)
        PROVE  state'[c] = "kConnecting"
    BY <2>1, AcceptEffect DEF Inv, TypeOK
  <2> QED
    BY <2>1 DEF Accepted
<1> QED
  BY <1>1, <1>2 DEF StateStep, Established, Down

\* Nobody comes to life but by accept.
LEMMA HeldStep ==
  ASSUME Inv, Moves, NEW l \in Loops, NEW c, c \in Held(pending'[l]) \union Held(batch'[l])
  PROVE  Alive(c) \/ Accepted(c)
<1>1. pending[l] \in Seq(Functors)
  BY DEF Inv, TypeOK
<1>2. ASSUME c \in Held(pending[l]) \union Held(batch[l])
      PROVE  Alive(c)
  BY <1>2 DEF Alive
<1>3. CASE c \in Held(pending'[l])
  <2>1. CASE pending'[l] = pending[l]
    BY <1>2, <1>3, <2>1
  <2>2. CASE pending'[l] = <<>>
    BY <1>3, <2>2 DEF Held
  <2>3. ASSUME NEW x \in Functors, pending'[l] = Append(pending[l], x), Queued(x, l)
        PROVE  Alive(c) \/ Accepted(c)
    <3>1. c \in Held(pending[l]) \/ c = x.conn
      BY <1>1, <1>3, <2>3 DEF Held
    <3> QED
      BY <1>2, <2>3, <3>1 DEF Queued
  <2> QED
    BY <2>1, <2>2, <2>3 DEF Moves, PendingStep
<1>4. CASE c \in Held(batch'[l])
  BY <1>2, <1>4 DEF Moves, BatchStep, Held
<1> QED
  BY <1>3, <1>4

LEMMA EntryKept ==
  ASSUME Inv, Moves, NEW f \in Fds, NEW c \in Conns, connections'[f] = c
  PROVE  \/ connections[f] = c
         \/ Accept(c, f) /\ fd'[c] = f
BY LoopsAssumption DEF Moves, EntryStep

\* The net changes by clients, by accept, and when the listener is closed.
NetStep(c) ==
  /\ c \in backlog' /\ c \notin backlog => peer[c] = "none" /\ peer'[c] # "none" /\ UNCHANGED conn
  /\ peer'[c] = "none" => peer[c] = "none"

LEMMA NetMoves ==
  ASSUME Inv, Next, NEW c \in Conns
  PROVE  NetStep(c)
<1>0. TypeOK
  BY DEF Inv
<1>1. ASSUME NEW d \in Conns, ClientConnects(d)
      PROVE  NetStep(c)
  BY <1>0, <1>1 DEF ClientConnects, NetStep, TypeOK
<1>2. ASSUME NEW d \in Conns, NEW how \in {"closed", "reset"}, ClientLeaves(d, how)
      PROVE  NetStep(c)
  BY <1>0, <1>2 DEF ClientLeaves, NetStep, TypeOK
<1>3. ASSUME NEW l \in Loops, LoopThread(l)
      PROVE  UNCHANGED net
  <2>1. CASE Poll(l) \/ EndEvent(l) \/ TakeFunctors(l) \/ EndFunctors(l) \/ EndDispatch(l)
    BY <2>1 DEF Poll, EndEvent, TakeFunctors, EndFunctors, EndDispatch
  <2>2. CASE HandleError(l) \/ HandleRead(l) \/ HandleWrite(l)
    BY <2>2, HandlingEffect
  <2>3. CASE FinishClose(l)
    BY <2>3, FinishCloseEffect
  <2>4. ASSUME NEW d \in Conns, BeginEvent(l, d)
        PROVE  UNCHANGED net
    BY <2>4 DEF BeginEvent
  <2>5. ASSUME NEW d \in Conns,
               Establish(l, d) \/ Remove(l, d) \/ Destroy(l, d) \/ ForceClose(l, d)
        PROVE  UNCHANGED net
    BY <2>5 DEF Establish, Remove, Destroy, ForceClose, Calling
  <2> QED
    BY <1>3, <2>1, <2>2, <2>3, <2>4, <2>5 DEF LoopThread
<1>4. CASE MainThread
  <2>1. peer' = peer /\ backlog' \subseteq backlog
    BY <1>4 DEF MainThread, BeginAccept, EndAccept, AcceptAndDrop, Accept, BeginTeardown,
                TestConnection, MarkConnection, ClearConnections, QuitSub, Exit
  <2> QED
    BY <2>1 DEF NetStep
<1>5. CASE Interrupt
  BY <1>5 DEF Interrupt, NetStep
<1> QED
  BY <1>1, <1>2, <1>3, <1>4, <1>5 DEF Next, Clients, NetStep

LEMMA BirthKept ==
  ASSUME Inv, Next
  PROVE  BirthInv'
<1>0. TypeOK /\ BirthInv /\ Moves
  BY MovesOfStep DEF Inv
<1>1. ASSUME NEW c \in backlog'
      PROVE  state'[c] = "unborn" /\ peer'[c] # "none"
  <2>1. c \in Conns
    BY <1>1, TypeStep DEF TypeOK
  <2>2. state[c] = "unborn" /\ NetStep(c) /\ StateStep(c)
    BY <1>0, <1>1, <2>1, NetMoves DEF BirthInv, NetStep, Moves
  <2>3. peer'[c] # "none"
    BY <1>0, <1>1, <2>2 DEF BirthInv, NetStep
  <2> QED
    BY <1>1, <2>2, <2>3 DEF StateStep, Established
<1>2. ASSUME NEW c \in Conns, peer'[c] = "none"
      PROVE  state'[c] = "unborn"
  <2>1. peer[c] = "none"
    BY <1>2, NetMoves DEF NetStep
  <2>2. state[c] = "unborn" /\ c \notin backlog
    BY <1>0, <2>1 DEF BirthInv
  <2> QED
    BY <1>0, <2>2 DEF Moves, StateStep, Established
<1>3. ASSUME NEW c \in Conns, state'[c] # "unborn"
      PROVE  owner'[c] \in Subs /\ fd'[c] \in Fds
  <2>1. CASE Fixed(c) /\ state[c] # "unborn"
    BY <1>0, <2>1 DEF BirthInv, Fixed
  <2>2. CASE owner'[c] \in Subs /\ Accepted(c)
    BY <2>2 DEF Accepted
  <2> QED
    BY <1>0, <1>3, <2>1, <2>2 DEF Moves, StateStep, Established
<1>4. ASSUME NEW f \in Fds, NEW c \in Conns, connections'[f] = c
      PROVE  state'[c] # "unborn" /\ fd'[c] = f
  <2>1. CASE connections[f] = c
    BY <1>0, <2>1, LifeGoesOn DEF BirthInv, Fixed
  <2>2. CASE Accept(c, f) /\ fd'[c] = f
    BY <1>0, <2>2, LifeGoesOn DEF Accepted
  <2> QED
    BY <1>0, <1>4, <2>1, <2>2, EntryKept
<1>5. ASSUME NEW l \in Loops, NEW c \in Held(pending'[l]) \union Held(batch'[l])
      PROVE  state'[c] # "unborn"
  <2>1. c \in Conns
    <3>1. pending'[l] \in Seq(Functors) /\ batch'[l] \in Seq(Functors)
      BY TypeStep DEF TypeOK
    <3>2. PICK s \in Seq(Functors) : c \in Held(s)
      BY <1>5, <3>1
    <3>3. PICK i \in DOMAIN s : s[i] \in Functors /\ c = s[i].conn
      BY <3>2 DEF Held
    <3> QED
      BY <3>3 DEF Functors
  <2>2. Alive(c) \/ Accepted(c)
    BY <1>0, <1>5, HeldStep
  <2> QED
    BY <1>0, <2>1, <2>2, LifeGoesOn, AliveIsBorn
<1> QED
  BY <1>1, <1>2, <1>3, <1>4, <1>5 DEF BirthInv, Held

-----------------------------------------------------------------------------
(* Descriptors. *)

\* What ~TcpServer takes into its hand is in connections_.
LEMMA HandKept ==
  ASSUME Inv, Next, NEW c \in Conns, at'[MainLoop] = "closing", cur'[MainLoop] = c
  PROVE  Alive(c)
<1>0. TypeOK /\ MainLoop \in Loops /\ c # None
  BY LoopsAssumption DEF Inv, Loops
<1>1. at[MainLoop] = "closing" /\ cur[MainLoop] = c => Alive(c)
  BY DEF Alive
<1>2. ASSUME NEW l \in Loops, LoopThread(l)
      PROVE  at[MainLoop] = "closing" /\ cur[MainLoop] = c
  <2>1. CASE Poll(l)
    BY <1>0, <2>1 DEF Poll, TypeOK
  <2>2. CASE EndEvent(l)
    BY <1>0, <2>2 DEF EndEvent, TypeOK
  <2>3. CASE TakeFunctors(l)
    BY <1>0, <2>3 DEF TakeFunctors, TypeOK
  <2>4. CASE EndFunctors(l)
    BY <1>0, <2>4 DEF EndFunctors, TypeOK
  <2>5. CASE EndDispatch(l)
    BY <1>0, <2>5 DEF EndDispatch, TypeOK
  <2>6. CASE HandleError(l) \/ HandleRead(l) \/ HandleWrite(l)
    BY <2>6, HandlingEffect
  <2>7. CASE FinishClose(l)
    BY <2>7, FinishCloseEffect
  <2>8. ASSUME NEW d \in Conns, BeginEvent(l, d)
        PROVE  at[MainLoop] = "closing" /\ cur[MainLoop] = c
    BY <1>0, <2>8 DEF BeginEvent, TypeOK
  <2>9. ASSUME NEW d \in Conns,
               Establish(l, d) \/ Remove(l, d) \/ Destroy(l, d) \/ ForceClose(l, d)
        PROVE  at[MainLoop] = "closing" /\ cur[MainLoop] = c
    <3>1. PICK run : Calling(l, run, d)
      BY <2>9 DEF Establish, Remove, Destroy, ForceClose
    <3> QED
      BY <1>0, <3>1 DEF Calling, TypeOK
  <2> QED
    BY <1>2, <2>1, <2>2, <2>3, <2>4, <2>5, <2>6, <2>7, <2>8, <2>9 DEF LoopThread
<1>3. CASE BeginAccept \/ EndAccept \/ ClearConnections \/ Exit
  BY <1>0, <1>3 DEF BeginAccept, EndAccept, ClearConnections, Exit, TypeOK
<1>4. ASSUME NEW d \in Conns, AcceptAndDrop(d) \/ \E f \in Fds : Accept(d, f)
      PROVE  at[MainLoop] = "closing" /\ cur[MainLoop] = c
  BY <1>4 DEF AcceptAndDrop, Accept
<1>5. CASE BeginTeardown
  <2>1. at[MainLoop] = "stopped" /\ cur[MainLoop] = c
    BY <1>5 DEF BeginTeardown
  <2> QED
    BY <1>0, <2>1 DEF Inv, ThreadInv, ThreadOK
<1>6. ASSUME NEW d \in Conns, TestConnection(d)
      PROVE  Alive(c)
  <2>1. at[MainLoop] = "closing" /\ d \in todo
    BY <1>6 DEF TestConnection
  <2>2. cur[MainLoop] = c \/ c = d
    BY <1>0, <1>6 DEF TestConnection, TypeOK
  <2> QED
    BY <1>1, <2>1, <2>2 DEF Inv, ClosingInv, Known, Alive
<1>7. CASE MarkConnection
  <2>1. cur'[MainLoop] = None
    BY <1>0, <1>7, MarkConnectionEffect DEF TypeOK
  <2> QED
    BY <1>0, <2>1
<1>8. ASSUME NEW i \in DOMAIN SubLoops, QuitSub(i)
      PROVE  at[MainLoop] = "closing" /\ cur[MainLoop] = c
  BY <1>8 DEF QuitSub
<1>9. CASE Clients \/ Interrupt
  BY <1>1, <1>9 DEF Clients, ClientConnects, ClientLeaves, Interrupt
<1>10. CASE MainThread
  BY <1>1, <1>3, <1>4, <1>5, <1>6, <1>7, <1>8, <1>10 DEF MainThread
<1> QED
  BY <1>1, <1>2, <1>9, <1>10 DEF Next

LEMMA AliveStep ==
  ASSUME Inv, Next, NEW c \in Conns, Alive(c)'
  PROVE  Alive(c) \/ Accepted(c)
<1>0. Moves
  BY MovesOfStep
<1>1. CASE \E f \in Fds : connections'[f] = c
  BY <1>0, <1>1, EntryKept DEF Alive, Accepted
<1>2. CASE \E l \in Loops : c \in Held(pending'[l]) \union Held(batch'[l])
  BY <1>0, <1>2, HeldStep
<1>3. CASE at'[MainLoop] = "closing" /\ cur'[MainLoop] = c
  BY <1>3, HandKept
<1> QED
  BY <1>1, <1>2, <1>3 DEF Alive, Held

LEMMA FdKept ==
  ASSUME Inv, Next
  PROVE  FdInv'
<1>0. Moves
  BY MovesOfStep
<1>1. ASSUME NEW c \in Conns, NEW d \in Conns, Alive(c), Accepted(d)
      PROVE  fd'[c] # fd'[d]
  <2>1. PICK f \in Fds : Accept(d, f) /\ fd'[d] = f
    BY <1>1 DEF Accepted
  <2>2. fd[c] # f
    BY <1>1, <2>1, AcceptEffect
  <2>3. fd'[c] = fd[c]
    BY <1>0, <1>1, LifeGoesOn, AliveIsBorn DEF Fixed
  <2> QED
    BY <2>1, <2>2, <2>3
<1>2. ASSUME NEW c \in Conns, NEW d \in Conns, Accepted(c), Accepted(d)
      PROVE  c = d
  BY <1>2, AcceptEffect DEF Accepted
<1>3. ASSUME NEW c \in Conns, NEW d \in Conns, Alive(c), Alive(d), fd'[c] = fd'[d]
      PROVE  c = d
  BY <1>0, <1>3, LifeGoesOn, AliveIsBorn DEF Fixed, Inv, FdInv
<1>4. ASSUME NEW c \in Conns, NEW d \in Conns, Alive(c)', Alive(d)', fd'[c] = fd'[d]
      PROVE  c = d
  BY <1>1, <1>2, <1>3, <1>4, AliveStep
<1> QED
  BY <1>4 DEF FdInv

-----------------------------------------------------------------------------
(* Functors on their way. *)

LEMMA EstablishFirst ==
  ASSUME Inv, NEW k \in Loops, NEW c \in Conns, Establish(k, c)
  PROVE  /\ k = owner[c]
         /\ ran[k] \in Nat /\ ran[k] + 1 \in DOMAIN batch[k] /\ ran'[k] = ran[k] + 1
         /\ Establishes(batch[k][ran[k] + 1], c)
<1>1. Calling(k, "establish", c)
  BY DEF Establish
<1>2. ran'[k] = ran[k] + 1
  BY <1>1, CallingEffect DEF Inv, TypeOK
<1>3. /\ ran[k] \in Nat /\ ran[k] + 1 \in DOMAIN batch[k]
      /\ batch[k][ran[k] + 1] = Functor("establish", c)
  BY <1>1, CallingEffect
<1>4. Establishes(batch[k][ran[k] + 1], c)
  BY <1>3 DEF Establishes, Functor
<1> QED
  BY <1>2, <1>3, <1>4, EstablishEffect

LEMMA FitsKept ==
  ASSUME Inv, Moves, NEW x \in Functors, NEW l \in Loops, Fits(x, l),
         state[x.conn] # "unborn",
         x.run = "establish" => \A k \in Loops : ~Establish(k, x.conn)
  PROVE  Fits(x, l)'
<1>1. x.conn \in Conns
  BY DEF Functors
<1>2. owner'[x.conn] = owner[x.conn]
  BY <1>1, LifeGoesOn DEF Fixed
<1>3. Down(x.conn) => Down(x.conn)'
  BY <1>1, LifeGoesOn
<1>4. x.run = "establish" => state'[x.conn] = "kConnecting"
  BY <1>1, LifeGoesOn DEF Fits
<1>5. Down(x.conn) /\ x.conn \notin registered => x.conn \notin registered'
  BY <1>1 DEF Moves, WatchStep, Down
<1> QED
  BY <1>2, <1>3, <1>4, <1>5 DEF Fits

\* A functor that waits fits after the step, too.
LEMMA WaitingFits ==
  ASSUME Inv, Moves, NEW l \in Loops, NEW i \in DOMAIN pending[l],
         NEW x \in Functors, x = pending[l][i]
  PROVE  Fits(x, l)'
<1>1. Fits(x, l) /\ state[x.conn] # "unborn" /\ x.conn \in Conns
  BY DEF Inv, FunctorInv, BirthInv, Held, Functors
<1>2. ASSUME x.run = "establish", NEW k \in Loops, Establish(k, x.conn)
      PROVE  FALSE
  <2>1. k = l
    BY <1>1, <1>2, EstablishFirst DEF Fits
  <2> QED
    BY <1>1, <1>2, <2>1, EstablishFirst DEF Inv, OnceInv, Establishes
<1> QED
  BY <1>1, <1>2, FitsKept

LEMMA FunctorKept ==
  ASSUME Inv, Next
  PROVE  FunctorInv'
<1>0. Moves /\ TypeOK
  BY MovesOfStep DEF Inv
<1>1. ASSUME NEW l \in Loops, NEW i \in DOMAIN pending'[l], NEW x \in Functors, x = pending'[l][i]
      PROVE  Fits(x, l)'
  <2>1. CASE pending'[l] = pending[l]
    BY <1>0, <1>1, <2>1, WaitingFits
  <2>2. CASE pending'[l] = <<>>
    BY <1>1, <2>2
  <2>3. ASSUME NEW y \in Functors, pending'[l] = Append(pending[l], y), Queued(y, l)
        PROVE  Fits(x, l)'
    <3>1. x = y \/ (i \in DOMAIN pending[l] /\ x = pending[l][i])
      BY <1>0, <1>1, <2>3 DEF TypeOK
    <3> QED
      BY <1>0, <2>3, <3>1, WaitingFits DEF Queued
  <2> QED
    BY <1>0, <2>1, <2>2, <2>3 DEF Moves, PendingStep
<1>2. ASSUME NEW l \in Loops, NEW i \in DOMAIN batch'[l], i > ran'[l],
             NEW x \in Functors, x = batch'[l][i]
      PROVE  Fits(x, l)'
  <2>0. ran[l] \in Nat /\ batch[l] \in Seq(Functors)
    BY <1>0 DEF TypeOK
  <2>1. CASE batch'[l] = pending[l]
    BY <1>0, <1>2, <2>1, WaitingFits
  <2>2. CASE batch'[l] = <<>>
    BY <1>2, <2>2
  <2>3. CASE batch'[l] = batch[l] /\ ran'[l] \in {ran[l], ran[l] + 1}
    <3>1. i \in DOMAIN batch[l] /\ x = batch[l][i] /\ i > ran[l]
      BY <1>2, <2>0, <2>3
    <3>2. Fits(x, l) /\ state[x.conn] # "unborn" /\ x.conn \in Conns
      BY <3>1 DEF Inv, FunctorInv, BirthInv, Held, Functors
    <3>3. ASSUME x.run = "establish", NEW k \in Loops, Establish(k, x.conn)
          PROVE  FALSE
      <4>1. k = l
        BY <3>2, <3>3, EstablishFirst DEF Fits
      <4>2. i = ran[l] + 1
        BY <2>0, <3>1, <3>2, <3>3, <4>1, EstablishFirst DEF Inv, OnceInv, Establishes
      <4> QED
        BY <1>2, <2>0, <3>2, <3>3, <4>1, <4>2, EstablishFirst
    <3> QED
      BY <1>0, <3>2, <3>3, FitsKept
  <2> QED
    BY <1>0, <2>0, <2>1, <2>2, <2>3 DEF Moves, BatchStep
<1>3. pending' \in [Loops -> Seq(Functors)] /\ batch' \in [Loops -> Seq(Functors)]
  BY TypeStep DEF TypeOK
<1>4. ASSUME NEW l \in Loops, NEW i \in DOMAIN pending'[l]
      PROVE  Fits(pending[l][i], l)'
  <2>1. PICK x \in Functors : x = pending'[l][i]
    BY <1>3, <1>4
  <2>2. Fits(x, l)'
    BY <1>1, <1>4, <2>1
  <2> QED
    BY <2>1, <2>2
<1>5. ASSUME NEW l \in Loops, NEW i \in DOMAIN batch'[l], i > ran'[l]
      PROVE  Fits(batch[l][i], l)'
  <2>1. PICK x \in Functors : x = batch'[l][i]
    BY <1>3, <1>5
  <2>2. Fits(x, l)'
    BY <1>2, <1>5, <2>1
  <2> QED
    BY <2>1, <2>2
<1> QED
  BY <1>4, <1>5 DEF FunctorInv

LEMMA OnceKept ==
  ASSUME Inv, Next
  PROVE  OnceInv'
<1>0. Moves /\ TypeOK /\ OnceInv
  BY MovesOfStep DEF Inv
<1> SUFFICES ASSUME NEW l \in Loops, NEW c \in Conns
             PROVE  /\ \A i, j \in DOMAIN pending'[l] :
                         Establishes(pending'[l][i], c) /\ Establishes(pending'[l][j], c)
                           => i = j
                    /\ \A i, j \in DOMAIN batch'[l] :
                         (i > ran'[l] /\ j > ran'[l] /\ Establishes(batch'[l][i], c)
                            /\ Establishes(batch'[l][j], c)) => i = j
                    /\ \A i \in DOMAIN batch'[l], j \in DOMAIN pending'[l] :
                         i > ran'[l] /\ Establishes(batch'[l][i], c)
                           => ~Establishes(pending'[l][j], c)
  BY DEF OnceInv, Establishes
<1>1. /\ pending[l] \in Seq(Functors) /\ batch[l] \in Seq(Functors) /\ ran[l] \in Nat
      /\ pending'[l] \in Seq(Functors) /\ batch'[l] \in Seq(Functors)
  BY <1>0, TypeStep DEF TypeOK
\* Who is accepted in this step is established by nothing yet.
<1>2. ASSUME NEW x \in Functors, pending'[l] = Append(pending[l], x), Queued(x, l),
             Establishes(x, c)
      PROVE  /\ \A i \in DOMAIN pending[l] : ~Establishes(pending[l][i], c)
             /\ \A i \in DOMAIN batch[l] : ~Establishes(batch[l][i], c)
             /\ batch'[l] = batch[l]
  <2>1. PICK f \in Fds : Accept(c, f)
    BY <1>2 DEF Queued, Establishes, Accepted
  <2>2. c \notin Held(pending[l]) \union Held(batch[l])
    BY <2>1, AcceptEffect DEF Alive
  <2>3. batch'[l] = batch[l]
    BY <2>1, AcceptEffect
  <2> QED
    BY <2>2, <2>3 DEF Held, Establishes
\* The queue of the next batch.
<1>3. ASSUME NEW i \in DOMAIN pending'[l], Establishes(pending'[l][i], c)
      PROVE  \/ /\ i \in DOMAIN pending[l] /\ Establishes(pending[l][i], c)
                /\ pending'[l][i] = pending[l][i]
             \/ /\ i = Len(pending[l]) + 1 /\ batch'[l] = batch[l]
                /\ \A j \in DOMAIN pending[l] : ~Establishes(pending[l][j], c)
                /\ \A j \in DOMAIN batch[l] : ~Establishes(batch[l][j], c)
  <2>1. CASE pending'[l] = pending[l]
    BY <1>3, <2>1
  <2>2. CASE pending'[l] = <<>>
    BY <1>3, <2>2
  <2>3. ASSUME NEW x \in Functors, pending'[l] = Append(pending[l], x), Queued(x, l)
        PROVE  \/ /\ i \in DOMAIN pending[l] /\ pending'[l][i] = pending[l][i]
               \/ i = Len(pending[l]) + 1 /\ Establishes(x, c)
    BY <1>1, <1>3, <2>3
  <2> QED
    BY <1>0, <1>2, <1>3, <2>1, <2>2, <2>3 DEF Moves, PendingStep
\* The batch that is run.
<1>4. \/ /\ batch'[l] = batch[l]
         /\ \A i \in DOMAIN batch[l] : i > ran'[l] => i > ran[l]
      \/ batch'[l] = pending[l] /\ pending'[l] = <<>>
      \/ batch'[l] = <<>>
  BY <1>0, <1>1 DEF Moves, BatchStep
<1>5. ASSUME NEW i \in DOMAIN pending'[l], NEW j \in DOMAIN pending'[l],
             Establishes(pending'[l][i], c), Establishes(pending'[l][j], c)
      PROVE  i = j
  BY <1>0, <1>3, <1>5 DEF OnceInv
<1>6. ASSUME NEW i \in DOMAIN batch'[l], NEW j \in DOMAIN batch'[l], i > ran'[l], j > ran'[l],
             Establishes(batch'[l][i], c), Establishes(batch'[l][j], c)
      PROVE  i = j
  BY <1>0, <1>4, <1>6 DEF OnceInv
<1>7. ASSUME NEW i \in DOMAIN batch'[l], NEW j \in DOMAIN pending'[l], i > ran'[l],
             Establishes(batch'[l][i], c), Establishes(pending'[l][j], c)
      PROVE  FALSE
  <2>1. CASE batch'[l] = batch[l] /\ i > ran[l]
    BY <1>0, <1>3, <1>7, <2>1 DEF OnceInv
  <2> QED
    BY <1>1, <1>4, <1>7, <2>1
<1> QED
  BY <1>5, <1>6, <1>7

-----------------------------------------------------------------------------
(* Threads. *)

\* A thread that makes no step keeps what it has in its hands.
LEMMA OtherThread ==
  ASSUME Inv, Moves, NEW l \in Loops,
         batch'[l] = batch[l], ready'[l] = ready[l], at'[l] = at[l], cur'[l] = cur[l],
         closing'[l] = closing[l]
  PROVE  ThreadOK(l)'
<1>1. ThreadOK(l)
  BY DEF Inv, ThreadInv
<1>2. \A c \in Conns : Established(c) => Established(c)' /\ owner'[c] = owner[c]
  BY LifeGoesOn DEF Fixed, Established
<1>3. \A c \in Conns : Down(c) => Down(c)' /\ owner'[c] = owner[c]
  BY LifeGoesOn DEF Fixed, Down
<1>4. /\ batch'[l] # <<>> => at'[l] = "functors"
      /\ at'[l] = "functors" => EventFd \notin ready'[l]
      /\ cur'[l] # None => \/ at'[l] = "event"
                           \/ at'[l] = "functors" /\ cur'[l] \in Held(batch'[l])
                           \/ l = MainLoop /\ at'[l] = "closing"
      /\ l \in Subs => at'[l] \in {"poll", "dispatch", "event", "functors", "stopped"}
  BY <1>1 DEF ThreadOK
<1>5. ASSUME NEW c \in Conns, c = cur[l], at[l] = "event"
      PROVE  /\ l \in Subs /\ owner'[c] = l /\ Established(c)' /\ c \notin ready'[l]
             /\ cur'[l] = c
  BY <1>1, <1>2, <1>5 DEF ThreadOK
<1>6. ASSUME NEW c \in Conns, c = cur[l], closing[l]
      PROVE  /\ l \in Subs /\ at'[l] \in {"event", "functors"} /\ owner'[c] = l /\ Down(c)'
             /\ cur'[l] = c
  BY <1>1, <1>3, <1>6 DEF ThreadOK
<1>7. at[l] = "event" \/ closing[l] => cur[l] \in Conns
  BY <1>1 DEF ThreadOK
<1>8. \A c \in ready'[l] \intersect Conns : l \in Subs /\ owner'[c] = l /\ Established(c)'
  BY <1>1, <1>2 DEF ThreadOK
<1>9. at'[l] = "event" => /\ l \in Subs /\ cur'[l] \in Conns /\ owner'[cur'[l]] = l
                          /\ Established(cur[l])' /\ cur'[l] \notin ready'[l]
  BY <1>5, <1>7 DEF Established
<1>10. closing'[l] => /\ l \in Subs /\ at'[l] \in {"event", "functors"}
                      /\ cur'[l] \in Conns /\ Down(cur[l])' /\ owner'[cur'[l]] = l
  BY <1>6, <1>7 DEF Down
<1> QED
  BY <1>4, <1>8, <1>9, <1>10 DEF ThreadOK, Held

\* Between two callbacks a thread has nothing in its hands.
LEMMA IdleThread ==
  ASSUME Inv, NEW l \in Loops,
         at[l] \notin {"event", "functors", "closing"}
  PROVE  batch[l] = <<>> /\ cur[l] = None /\ ~closing[l]
BY DEF Inv, ThreadInv, ThreadOK

\* What poll reports belongs to the loop and is established.
LEMMA ThreadOfPoll ==
  ASSUME Inv, Moves, NEW l \in Loops, Poll(l)
  PROVE  ThreadOK(l)'
<1>0. TypeOK
  BY DEF Inv
<1>1. /\ at[l] = "poll" /\ at'[l] = "dispatch"
      /\ batch' = batch /\ cur' = cur /\ closing' = closing /\ UNCHANGED conn
  BY <1>0 DEF Poll, TypeOK
<1>2. batch[l] = <<>> /\ cur[l] = None /\ ~closing[l]
  BY <1>1, IdleThread
<1>3. ASSUME NEW c \in ready'[l] \intersect Conns
      PROVE  l \in Subs /\ owner[c] = l /\ Established(c)
  <2>1. c \in Watched(l)
    BY <1>0, <1>3, LoopsAssumption DEF Poll, AlsoReady, TypeOK
  <2>2. c \in registered /\ owner[c] = l /\ Alive(c)
    BY <2>1 DEF Watched
  <2> QED
    BY <2>2, AliveIsBorn DEF Inv, RegisteredInv, Established
<1> QED
  BY <1>1, <1>2, <1>3 DEF ThreadOK, Established, Down

LEMMA ThreadOfEvent ==
  ASSUME Inv, Moves, NEW l \in Loops,
         \/ HandleError(l) \/ HandleRead(l) \/ HandleWrite(l)
         \/ EndEvent(l) \/ FinishClose(l)
         \/ \E c \in Conns : BeginEvent(l, c)
  PROVE  ThreadOK(l)'
<1>0. TypeOK /\ ThreadOK(l)
  BY DEF Inv, ThreadInv
<1>1. ASSUME NEW c \in Conns, BeginEvent(l, c)
      PROVE  ThreadOK(l)'
  <2>1. /\ at[l] = "dispatch" /\ at'[l] = "event" /\ cur'[l] = c
        /\ c \in ready[l] /\ ready'[l] = ready[l] \ {c}
        /\ batch' = batch /\ closing' = closing /\ UNCHANGED conn
    BY <1>0, <1>1 DEF BeginEvent, TypeOK
  <2>2. batch[l] = <<>> /\ ~closing[l]
    BY <2>1, IdleThread
  <2> QED
    BY <1>0, <2>1, <2>2 DEF ThreadOK, Established, Down
<1>2. CASE HandleError(l) \/ HandleRead(l) \/ HandleWrite(l)
  <2>1. PICK c \in Conns : c = cur[l]
    BY <1>2, HandlingEffect
  <2>2. /\ l \in Subs /\ at[l] = "event" /\ ~closing[l]
        /\ UNCHANGED <<batch, ready, at, cur, owner>>
    BY <1>2, HandlingEffect
  <2>3. closing'[l] => state'[c] = "kDisconnected"
    BY <1>0, <1>2, <2>1, HandlingEffect, ZenonT(30) DEF TypeOK
  <2>4. Established(c) /\ c \notin ready[l] /\ owner[c] = l
    BY <1>0, <2>1, <2>2 DEF ThreadOK
  <2>5. \A d \in Conns : Established(d) => Established(d)'
    BY LifeGoesOn
  <2>6. \A d \in ready'[l] \intersect Conns : l \in Subs /\ owner'[d] = l /\ Established(d)'
    BY <1>0, <2>2, <2>5 DEF ThreadOK
  <2>7. closing'[l] => state'[cur'[l]] = "kDisconnected"
    BY <2>1, <2>2, <2>3
  <2>8. state'[cur'[l]] \in {"kConnected", "kDisconnecting", "kDisconnected"}
    BY <2>1, <2>2, <2>4, <2>5 DEF Established
  <2> QED
    BY <1>0, <2>1, <2>2, <2>4, <2>6, <2>7, <2>8 DEF ThreadOK, Established, Down
<1>3. CASE EndEvent(l)
  BY <1>0, <1>3 DEF EndEvent, TypeOK, ThreadOK, Established, Down
<1>4. CASE FinishClose(l)
  <2>1. UNCHANGED <<batch, ready, at, cur, state, owner>> /\ closing'[l] = FALSE
    BY <1>0, <1>4, FinishCloseEffect DEF TypeOK
  <2> QED
    BY <1>0, <2>1 DEF ThreadOK, Established, Down, Held
<1> QED
  BY <1>1, <1>2, <1>3, <1>4

LEMMA ThreadOfFunctors ==
  ASSUME Inv, Moves, NEW l \in Loops,
         \/ TakeFunctors(l) \/ EndFunctors(l) \/ EndDispatch(l)
         \/ \E c \in Conns :
              Establish(l, c) \/ Remove(l, c) \/ Destroy(l, c) \/ ForceClose(l, c)
  PROVE  ThreadOK(l)'
<1>0. TypeOK /\ ThreadOK(l)
  BY DEF Inv, ThreadInv
<1>1. CASE TakeFunctors(l)
  <2>1. /\ at[l] = "dispatch" /\ at'[l] = "functors" /\ cur' = cur
        /\ ready'[l] = ready[l] \ {EventFd} /\ closing' = closing /\ UNCHANGED conn
    BY <1>0, <1>1 DEF TakeFunctors, TypeOK
  <2>2. cur[l] = None /\ ~closing[l]
    BY <2>1, IdleThread
  <2> QED
    BY <1>0, <2>1, <2>2 DEF ThreadOK, Established, Down
<1>2. CASE EndFunctors(l)
  BY <1>0, <1>2 DEF EndFunctors, TypeOK, ThreadOK, Established, Down
<1>3. CASE EndDispatch(l)
  <2>1. /\ at[l] = "dispatch" /\ at'[l] \in {"stopped", "poll"}
        /\ UNCHANGED <<batch, ready, cur, closing, conn>>
    BY <1>0, <1>3 DEF EndDispatch, TypeOK
  <2>2. batch[l] = <<>> /\ cur[l] = None /\ ~closing[l]
    BY <2>1, IdleThread
  <2> QED
    BY <1>0, <2>1, <2>2 DEF ThreadOK, Established, Down
<1>4. ASSUME NEW c \in Conns,
             Establish(l, c) \/ Remove(l, c) \/ Destroy(l, c) \/ ForceClose(l, c)
      PROVE  ThreadOK(l)'
  <2>1. PICK run : Calling(l, run, c)
    BY <1>4 DEF Establish, Remove, Destroy, ForceClose
  <2>2. /\ at[l] = "functors" /\ ~closing[l] /\ cur'[l] = c /\ c \in Held(batch[l])
        /\ UNCHANGED <<batch, ready, at, owner>>
    BY <1>0, <2>1, CallingEffect DEF TypeOK
  <2>3. closing'[l] => l \in Subs /\ owner[c] = l /\ state'[c] = "kDisconnected"
    <3>1. CASE ForceClose(l, c)
      BY <1>0, <2>2, <3>1, ForceCloseEffect DEF TypeOK
    <3>2. CASE Establish(l, c) \/ Remove(l, c) \/ Destroy(l, c)
      BY <2>2, <3>2, EstablishEffect, RemoveEffect, DestroyEffect
    <3> QED
      BY <1>4, <3>1, <3>2
  <2>4. \A d \in Conns : Established(d) => Established(d)'
    BY LifeGoesOn
  <2>5. \A d \in ready'[l] \intersect Conns : l \in Subs /\ owner'[d] = l /\ Established(d)'
    BY <1>0, <2>2, <2>4 DEF ThreadOK
  <2>6. closing'[l] => Down(cur[l])'
    BY <2>2, <2>3 DEF Down
  <2> QED
    BY <1>0, <2>2, <2>3, <2>5, <2>6 DEF ThreadOK, Held
<1> QED
  BY <1>1, <1>2, <1>3, <1>4

LEMMA ThreadOfMain ==
  ASSUME Inv, Moves, MainThread
  PROVE  ThreadOK(MainLoop)'
<1>0. TypeOK /\ ThreadOK(MainLoop) /\ MainLoop \in Loops /\ MainLoop \notin Subs
  BY LoopsAssumption DEF Inv, ThreadInv, Loops
<1>1. CASE BeginAccept \/ EndAccept
  <2>1. /\ at[MainLoop] \in {"dispatch", "accept"} /\ at'[MainLoop] \in {"dispatch", "accept"}
        /\ ready'[MainLoop] \subseteq ready[MainLoop]
        /\ UNCHANGED <<batch, cur, closing, conn>>
    BY <1>0, <1>1 DEF BeginAccept, EndAccept, TypeOK
  <2>2. batch[MainLoop] = <<>> /\ cur[MainLoop] = None /\ ~closing[MainLoop]
    BY <1>0, <2>1, IdleThread
  <2> QED
    BY <1>0, <2>1, <2>2 DEF ThreadOK, Established, Down
<1>2. ASSUME NEW c \in Conns, AcceptAndDrop(c) \/ \E f \in Fds : Accept(c, f)
      PROVE  ThreadOK(MainLoop)'
  <2>1. UNCHANGED <<batch, where>>
    BY <1>2 DEF AcceptAndDrop, Accept
  <2> QED
    BY <1>0, <2>1, OtherThread
<1>3. CASE BeginTeardown \/ Exit
  <2>1. /\ at[MainLoop] \in {"stopped", "joining"}
        /\ at'[MainLoop] \in {"closing", "exited"}
        /\ UNCHANGED <<batch, ready, cur, closing, conn>>
    BY <1>0, <1>3 DEF BeginTeardown, Exit, TypeOK
  <2>2. batch[MainLoop] = <<>> /\ cur[MainLoop] = None /\ ~closing[MainLoop]
    BY <1>0, <2>1, IdleThread
  <2> QED
    BY <1>0, <2>1, <2>2 DEF ThreadOK, Established, Down
<1>4. ASSUME NEW c \in Conns, TestConnection(c)
      PROVE  ThreadOK(MainLoop)'
  <2>1. at[MainLoop] = "closing" /\ UNCHANGED <<batch, ready, at, closing, conn>>
    BY <1>4 DEF TestConnection
  <2> QED
    BY <1>0, <2>1 DEF ThreadOK, Established, Down
<1>5. CASE MarkConnection
  <2>1. /\ at[MainLoop] = "closing" /\ UNCHANGED <<batch, ready, at, closing, owner>>
        /\ cur'[MainLoop] = None
    BY <1>0, <1>5, MarkConnectionEffect DEF TypeOK
  <2> QED
    BY <1>0, <2>1 DEF ThreadOK, Established, Down
<1>6. CASE ClearConnections
  <2>1. /\ at[MainLoop] = "closing" /\ at'[MainLoop] = "joining" /\ cur[MainLoop] = None
        /\ UNCHANGED <<batch, ready, cur, closing, conn>>
    BY <1>0, <1>6 DEF ClearConnections, TypeOK
  <2> QED
    BY <1>0, <2>1 DEF ThreadOK, Established, Down
<1>7. ASSUME NEW i \in DOMAIN SubLoops, QuitSub(i)
      PROVE  ThreadOK(MainLoop)'
  <2>1. UNCHANGED <<batch, where>>
    BY <1>7 DEF QuitSub
  <2> QED
    BY <1>0, <2>1, OtherThread
<1> QED
  BY <1>1, <1>2, <1>3, <1>4, <1>5, <1>6, <1>7 DEF MainThread

\* No thread reaches into the hands of another.
LEMMA OneThreadMoves ==
  ASSUME Inv, NEW l \in Loops, NEW k \in Loops, k # l,
         LoopThread(l) \/ (MainThread /\ l = MainLoop)
  PROVE  /\ batch'[k] = batch[k] /\ ran'[k] = ran[k] /\ ready'[k] = ready[k]
         /\ at'[k] = at[k] /\ cur'[k] = cur[k] /\ closing'[k] = closing[k]
<1>0. TypeOK
  BY DEF Inv
<1>1. CASE Poll(l)
  BY <1>0, <1>1 DEF Poll, TypeOK
<1>2. CASE HandleError(l) \/ HandleRead(l) \/ HandleWrite(l)
  <2>1. closing' = closing \/ closing' = [closing EXCEPT ![l] = TRUE]
    BY <1>2, HandlingEffect
  <2>2. UNCHANGED <<batch, ran, ready, at, cur>>
    BY <1>2, HandlingEffect
  <2> QED
    BY <1>0, <2>1, <2>2 DEF TypeOK
<1>3. CASE EndEvent(l)
  BY <1>0, <1>3 DEF EndEvent, TypeOK
<1>4. CASE FinishClose(l)
  BY <1>0, <1>4, FinishCloseEffect DEF TypeOK
<1>5. CASE TakeFunctors(l)
  BY <1>0, <1>5 DEF TakeFunctors, TypeOK
<1>6. CASE EndFunctors(l)
  BY <1>0, <1>6 DEF EndFunctors, TypeOK
<1>7. CASE EndDispatch(l)
  BY <1>0, <1>7 DEF EndDispatch, TypeOK
<1>8. ASSUME NEW c \in Conns, BeginEvent(l, c)
      PROVE  /\ batch'[k] = batch[k] /\ ran'[k] = ran[k] /\ ready'[k] = ready[k]
             /\ at'[k] = at[k] /\ cur'[k] = cur[k] /\ closing'[k] = closing[k]
  BY <1>0, <1>8 DEF BeginEvent, TypeOK
<1>9. ASSUME NEW c \in Conns,
             Establish(l, c) \/ Remove(l, c) \/ Destroy(l, c) \/ ForceClose(l, c)
      PROVE  /\ batch'[k] = batch[k] /\ ran'[k] = ran[k] /\ ready'[k] = ready[k]
             /\ at'[k] = at[k] /\ cur'[k] = cur[k] /\ closing'[k] = closing[k]
  <2>1. PICK run : Calling(l, run, c)
    BY <1>9 DEF Establish, Remove, Destroy, ForceClose
  <2>2. closing'[k] = closing[k]
    BY <1>0, <1>9, EstablishEffect, RemoveEffect, DestroyEffect, ForceCloseEffect DEF TypeOK
  <2> QED
    BY <1>0, <2>1, <2>2 DEF Calling, TypeOK
<1>10. ASSUME MainThread, l = MainLoop
       PROVE  /\ batch'[k] = batch[k] /\ ran'[k] = ran[k] /\ ready'[k] = ready[k]
              /\ at'[k] = at[k] /\ cur'[k] = cur[k] /\ closing'[k] = closing[k]
  <2>1. CASE MarkConnection
    BY <1>0, <1>10, <2>1, MarkConnectionEffect DEF TypeOK
  <2>2. CASE BeginAccept \/ EndAccept
    BY <1>0, <1>10, <2>2 DEF BeginAccept, EndAccept, TypeOK
  <2>3. CASE BeginTeardown \/ ClearConnections \/ Exit
    BY <1>0, <1>10, <2>3 DEF BeginTeardown, ClearConnections, Exit, TypeOK
  <2>4. ASSUME NEW c \in Conns, AcceptAndDrop(c) \/ \E f \in Fds : Accept(c, f)
        PROVE  UNCHANGED <<batch, ran, where>>
    BY <2>4 DEF AcceptAndDrop, Accept
  <2>5. ASSUME NEW c \in Conns, TestConnection(c)
        PROVE  UNCHANGED <<batch, ran, ready, at, closing>> /\ cur'[k] = cur[k]
    BY <1>0, <1>10, <2>5 DEF TestConnection, TypeOK
  <2>6. ASSUME NEW i \in DOMAIN SubLoops, QuitSub(i)
        PROVE  UNCHANGED <<batch, ran, where>>
    BY <2>6 DEF QuitSub
  <2> QED
    BY <1>10, <2>1, <2>2, <2>3, <2>4, <2>5, <2>6 DEF MainThread
<1> QED
  BY <1>1, <1>2, <1>3, <1>4, <1>5, <1>6, <1>7, <1>8, <1>9, <1>10 DEF LoopThread

LEMMA ThreadKept ==
  ASSUME Inv, Next
  PROVE  ThreadInv'
<1>0. Moves
  BY MovesOfStep
<1>1. ASSUME NEW l \in Loops, LoopThread(l)
      PROVE  ThreadInv'
  <2>1. ThreadOK(l)'
    BY <1>0, <1>1, ThreadOfPoll, ThreadOfEvent, ThreadOfFunctors DEF LoopThread
  <2>2. ASSUME NEW k \in Loops, k # l
        PROVE  ThreadOK(k)'
    BY <1>0, <1>1, <2>2, OneThreadMoves, OtherThread
  <2> QED
    BY <2>1, <2>2 DEF ThreadInv
<1>2. CASE MainThread
  <2>1. ThreadOK(MainLoop)'
    BY <1>0, <1>2, ThreadOfMain
  <2>2. ASSUME NEW k \in Loops, k # MainLoop
        PROVE  ThreadOK(k)'
    BY <1>0, <1>2, <2>2, OneThreadMoves, OtherThread DEF Loops
  <2> QED
    BY <2>1, <2>2 DEF ThreadInv
<1>3. CASE Clients \/ Interrupt
  <2>1. UNCHANGED <<batch, where>>
    BY <1>3 DEF Clients, ClientConnects, ClientLeaves, Interrupt
  <2>2. ASSUME NEW k \in Loops
        PROVE  ThreadOK(k)'
    BY <1>0, <2>1, <2>2, OtherThread
  <2> QED
    BY <2>2 DEF ThreadInv
<1> QED
  BY <1>1, <1>2, <1>3 DEF Next

-----------------------------------------------------------------------------
(* What a thread may do to the rest. *)

Busy == {"poll", "dispatch", "event", "functors"}

LoopThreadStep(l) ==
  /\ at[l] \in Busy /\ at'[l] \in Busy \union {"stopped"}
  /\ UNCHANGED <<todo, quit>>
  /\ closing[l] => FinishClose(l)
  /\ at'[l] = "stopped" => quit[l] /\ (l # MainLoop => pending'[l] = <<>>)
  /\ ready'[l] \subseteq ready[l] \/ Poll(l)
  /\ at'[l] = "event" => \/ at[l] = "event" /\ cur'[l] = cur[l]
                         \/ \E c \in Conns : BeginEvent(l, c) /\ cur'[l] = c
  /\ connections' = connections \/ \E c \in Conns : Remove(l, c)
  /\ registered \subseteq registered' \/ FinishClose(l)
  /\ \A c \in Conns : \/ state'[c] \in {state[c], "kConnected"}
                      \/ state'[c] = "kDisconnected" /\ closing'[l] /\ cur'[l] = c
  /\ \/ pending' = pending
     \/ TakeFunctors(l) \/ FinishClose(l)
     \/ \E c \in Conns : Remove(l, c)
     \/ quit[l] /\ l # MainLoop

LEMMA LoopThreadDoes ==
  ASSUME Inv, NEW l \in Loops, LoopThread(l)
  PROVE  LoopThreadStep(l)
<1>0. TypeOK
  BY DEF Inv
<1> USE <1>0 DEF TypeOK, Busy
<1>2. at[l] \notin {"event", "functors", "closing"} => ~closing[l]
  BY IdleThread
<1>3. CASE Poll(l)
  BY <1>2, <1>3 DEF Poll, LoopThreadStep
<1>4. CASE HandleError(l) \/ HandleRead(l) \/ HandleWrite(l)
  <2>1. /\ at[l] = "event" /\ ~closing[l]
        /\ UNCHANGED <<todo, quit, ready, at, cur, connections, registered, pending>>
    BY <1>4, HandlingEffect
  <2>2. CASE UNCHANGED state
    BY <2>1, <2>2 DEF LoopThreadStep
  <2>3. CASE /\ state' = [state EXCEPT ![cur[l]] = "kDisconnected"]
             /\ closing' = [closing EXCEPT ![l] = TRUE]
    BY <2>1, <2>3 DEF LoopThreadStep
  <2> QED
    BY <1>4, <2>2, <2>3, HandlingEffect
<1>5. CASE EndEvent(l)
  BY <1>5 DEF EndEvent, LoopThreadStep
<1>6. CASE FinishClose(l)
  <2>1. /\ at[l] \in {"event", "functors"}
        /\ UNCHANGED <<todo, quit, ready, at, cur, connections, state>>
    BY <1>6, FinishCloseEffect
  <2> QED
    BY <1>6, <2>1 DEF LoopThreadStep
<1>7. CASE TakeFunctors(l)
  BY <1>2, <1>7 DEF TakeFunctors, LoopThreadStep
<1>8. CASE EndFunctors(l)
  BY <1>8 DEF EndFunctors, LoopThreadStep
<1>9. CASE EndDispatch(l)
  BY <1>2, <1>9 DEF EndDispatch, LoopThreadStep
<1>10. ASSUME NEW c \in Conns, BeginEvent(l, c)
       PROVE  LoopThreadStep(l)
  BY <1>2, <1>10 DEF BeginEvent, LoopThreadStep
<1>11. ASSUME NEW c \in Conns, NEW run, Calling(l, run, c)
       PROVE  /\ at[l] = "functors" /\ at' = at /\ ~closing[l] /\ ready' = ready
              /\ cur'[l] = c /\ UNCHANGED <<todo, quit>>
  BY <1>11, CallingEffect
<1>12. ASSUME NEW c \in Conns, Establish(l, c)
       PROVE  LoopThreadStep(l)
  <2>1. /\ at[l] = "functors" /\ at' = at /\ ~closing[l] /\ ready' = ready
        /\ UNCHANGED <<todo, quit>>
    BY <1>11, <1>12 DEF Establish
  <2>2. state' = [state EXCEPT ![c] = "kConnected"]
    BY <1>12, EstablishEffect, ZenonT(30)
  <2>3. UNCHANGED <<connections, pending>>
    BY <1>12, EstablishEffect, ZenonT(30)
  <2>4. registered \subseteq registered'
    <3>1. registered' = registered \union {c} \/ registered' = registered
      BY <1>12, EstablishEffect, ZenonT(30)
    <3> QED
      BY <3>1
  <2> QED
    BY <2>1, <2>2, <2>3, <2>4 DEF LoopThreadStep
<1>13. ASSUME NEW c \in Conns, Remove(l, c)
       PROVE  LoopThreadStep(l)
  <2>1. /\ at[l] = "functors" /\ at' = at /\ ~closing[l] /\ ready' = ready
        /\ UNCHANGED <<todo, quit>>
    BY <1>11, <1>13 DEF Remove
  <2>2. UNCHANGED <<state, registered>>
    BY <1>13, RemoveEffect
  <2> QED
    BY <1>13, <2>1, <2>2 DEF LoopThreadStep
<1>14. ASSUME NEW c \in Conns, Destroy(l, c)
       PROVE  LoopThreadStep(l)
  <2>1. /\ at[l] = "functors" /\ at' = at /\ ~closing[l] /\ ready' = ready
        /\ UNCHANGED <<todo, quit>>
    BY <1>11, <1>14 DEF Destroy
  <2> QED
    BY <1>14, <2>1, DestroyEffect DEF LoopThreadStep
<1>15. ASSUME NEW c \in Conns, ForceClose(l, c)
       PROVE  LoopThreadStep(l)
  <2>1. /\ at[l] = "functors" /\ at' = at /\ ~closing[l] /\ ready' = ready
        /\ UNCHANGED <<todo, quit>> /\ cur'[l] = c
    BY <1>11, <1>15 DEF ForceClose
  <2>2. UNCHANGED <<registered, connections, pending>>
    BY <1>15, ForceCloseEffect
  <2>3. CASE UNCHANGED state
    BY <2>1, <2>2, <2>3 DEF LoopThreadStep
  <2>4. CASE /\ state' = [state EXCEPT ![c] = "kDisconnected"]
             /\ closing' = [closing EXCEPT ![l] = TRUE]
    BY <2>1, <2>2, <2>4 DEF LoopThreadStep
  <2> QED
    BY <1>15, <2>3, <2>4, ForceCloseEffect
<1> QED
  BY <1>3, <1>4, <1>5, <1>6, <1>7, <1>8, <1>9, <1>10, <1>12, <1>13, <1>14, <1>15
  DEF LoopThread

Leaving == {"closing", "joining", "exited"}

MainThreadStep ==
  /\ at[MainLoop] \in {"dispatch", "accept", "stopped", "closing", "joining"}
  /\ at'[MainLoop] \in {"dispatch", "accept", "closing", "joining", "exited"}
  /\ at'[MainLoop] = "exited" => Exit
  /\ at'[MainLoop] = "joining" => at[MainLoop] = "joining" \/ ClearConnections
  /\ at[MainLoop] = "joining" => at'[MainLoop] \in {"joining", "exited"}
  /\ at'[MainLoop] = "closing" => at[MainLoop] = "closing" \/ BeginTeardown
  /\ at'[MainLoop] \notin Leaving => at[MainLoop] \notin Leaving
  /\ quit' = quit \/ at[MainLoop] = "joining"
  /\ \/ connections' = connections
     \/ ClearConnections
     \/ \E c \in Conns, f \in Fds : Accept(c, f)
  /\ registered' = registered
  /\ \A c \in Conns : \/ state'[c] \in {state[c], "kConnecting"}
                      \/ MarkConnection /\ state'[c] = "kDisconnecting"
  /\ \/ pending' = pending
     \/ at[MainLoop] \in {"accept", "closing"} /\ Moves
     \/ Exit
  /\ ready'[MainLoop] \subseteq ready[MainLoop]
  /\ todo' \subseteq todo \/ BeginTeardown

LEMMA MainThreadDoes ==
  ASSUME Inv, MainThread
  PROVE  MainThreadStep
<1>0. TypeOK /\ MainLoop \in Loops /\ Moves
  BY MovesOfMainThread DEF Inv, Loops
<1> USE <1>0 DEF TypeOK, Leaving
<1>1. CASE BeginAccept
  BY <1>1 DEF BeginAccept, MainThreadStep
<1>2. CASE EndAccept
  BY <1>2 DEF EndAccept, MainThreadStep
<1>3. ASSUME NEW c \in Conns, AcceptAndDrop(c)
      PROVE  MainThreadStep
  BY <1>3 DEF AcceptAndDrop, MainThreadStep
<1>4. ASSUME NEW c \in Conns, NEW f \in Fds, Accept(c, f)
      PROVE  MainThreadStep
  <2>1. /\ at[MainLoop] = "accept" /\ state' = [state EXCEPT ![c] = "kConnecting"]
        /\ UNCHANGED <<registered, where, quit, todo>>
    BY <1>4, AcceptEffect
  <2> QED
    BY <1>4, <2>1 DEF MainThreadStep
<1>5. CASE BeginTeardown
  BY <1>5 DEF BeginTeardown, MainThreadStep
<1>6. CASE MarkConnection
  <2>1. /\ at[MainLoop] = "closing"
        /\ state' = [state EXCEPT ![cur[MainLoop]] = "kDisconnecting"]
        /\ UNCHANGED <<connections, registered, ready, at, quit, todo>>
    BY <1>6, MarkConnectionEffect
  <2> QED
    BY <1>6, <2>1 DEF MainThreadStep
<1>7. CASE ClearConnections
  BY <1>7 DEF ClearConnections, MainThreadStep
<1>8. CASE Exit
  BY <1>8 DEF Exit, MainThreadStep
<1>9. ASSUME NEW c \in Conns, TestConnection(c)
      PROVE  MainThreadStep
  BY <1>9 DEF TestConnection, MainThreadStep
<1>10. ASSUME NEW i \in DOMAIN SubLoops, QuitSub(i)
       PROVE  MainThreadStep
  BY <1>10 DEF QuitSub, MainThreadStep
<1> QED
  BY <1>1, <1>2, <1>3, <1>4, <1>5, <1>6, <1>7, <1>8, <1>9, <1>10 DEF MainThread

\* Nobody but the thread itself ends its handleClose.
LEMMA ClosingGoesOn ==
  ASSUME Inv, Next, NEW k \in Loops, closing[k]
  PROVE  FinishClose(k) \/ (closing'[k] /\ cur'[k] = cur[k])
<1> SUFFICES ASSUME ~FinishClose(k)
             PROVE  closing'[k] /\ cur'[k] = cur[k]
  OBVIOUS
<1>1. k # MainLoop /\ k \in Subs
  BY LoopsAssumption DEF Inv, ThreadInv, ThreadOK
<1>2. ~LoopThread(k)
  BY LoopThreadDoes DEF LoopThreadStep
<1>3. ASSUME NEW l \in Loops, LoopThread(l), l # k
      PROVE  closing'[k] /\ cur'[k] = cur[k]
  BY <1>3, OneThreadMoves
<1>4. CASE MainThread
  BY <1>1, <1>4, OneThreadMoves DEF Loops
<1>5. CASE Clients \/ Interrupt
  BY <1>5 DEF Clients, ClientConnects, ClientLeaves, Interrupt
<1> QED
  BY <1>2, <1>3, <1>4, <1>5 DEF Next

LEMMA RegisteredKept ==
  ASSUME Inv, Next
  PROVE  RegisteredInv'
<1>0. Moves /\ TypeOK
  BY MovesOfStep DEF Inv
<1>1. ASSUME NEW c \in registered'
      PROVE  \/ state'[c] \in {"kConnected", "kDisconnecting"}
             \/ state'[c] = "kDisconnected" /\ \E l \in Loops : closing'[l] /\ cur'[l] = c
  <2>1. c \in Conns
    BY <1>1, TypeStep DEF TypeOK
  <2>2. CASE c \notin registered
    BY <1>0, <1>1, <2>1, <2>2 DEF Moves, WatchStep
  <2>3. ASSUME c \in registered, NEW k \in Loops, closing[k], cur[k] = c
        PROVE  closing'[k] /\ cur'[k] = c
    <3>1. ~FinishClose(k)
      BY <1>1, <2>3, FinishCloseEffect
    <3> QED
      BY <2>3, <3>1, ClosingGoesOn
  <2>4. ASSUME state'[c] = "kDisconnected", state[c] # "kDisconnected"
        PROVE  \E l \in Loops : closing'[l] /\ cur'[l] = c
    <3>1. ASSUME NEW l \in Loops, LoopThread(l)
          PROVE  closing'[l] /\ cur'[l] = c
      BY <2>1, <2>4, <3>1, LoopThreadDoes DEF LoopThreadStep
    <3>2. ~MainThread
      BY <2>1, <2>4, MainThreadDoes DEF MainThreadStep
    <3>3. ~Clients /\ ~Interrupt
      BY <2>4 DEF Clients, ClientConnects, ClientLeaves, Interrupt
    <3> QED
      BY <3>1, <3>2, <3>3 DEF Next
  <2>5. ASSUME c \in registered
        PROVE  /\ state'[c] \in {"kConnected", "kDisconnecting", "kDisconnected"}
               /\ state[c] = "kDisconnected" => \E l \in Loops : closing[l] /\ cur[l] = c
    BY <1>0, <2>1, <2>5, LifeGoesOn DEF Inv, RegisteredInv, Established
  <2> QED
    BY <2>2, <2>3, <2>4, <2>5
<1> QED
  BY <1>1 DEF RegisteredInv

-----------------------------------------------------------------------------
(* The end. *)

LEMMA LeavingIsFinal ==
  ASSUME Inv, Next
  PROVE  /\ at[MainLoop] \in {"joining", "exited"} => at'[MainLoop] \in {"joining", "exited"}
         /\ at'[MainLoop] \notin Leaving => at[MainLoop] \notin Leaving
         /\ at[MainLoop] \in {"joining", "exited"} =>
              /\ connections' = connections
              /\ \A l \in Subs : pending'[l] \in {pending[l], <<>>}
         /\ at'[MainLoop] \in {"joining", "exited"} =>
              at[MainLoop] \in {"joining", "exited"} \/ ClearConnections
         /\ at'[MainLoop] = "exited" => at[MainLoop] = "exited" \/ Exit
         /\ at'[MainLoop] = "closing" => at[MainLoop] = "closing" \/ BeginTeardown
<1>0. TypeOK /\ MainLoop \in Loops /\ MainLoop \notin Subs /\ Moves
  BY MovesOfStep, LoopsAssumption DEF Inv, Loops
<1>1. ASSUME NEW l \in Loops, LoopThread(l)
      PROVE  /\ at[MainLoop] \in Leaving => at'[MainLoop] = at[MainLoop]
             /\ at'[MainLoop] \in Leaving => at'[MainLoop] = at[MainLoop]
             /\ at[MainLoop] \in {"joining", "exited"} =>
                  /\ connections' = connections
                  /\ \A k \in Subs : pending'[k] \in {pending[k], <<>>}
  <2>1. CASE l = MainLoop
    BY <1>1, <2>1, LoopThreadDoes DEF LoopThreadStep, Busy, Leaving
  <2>2. CASE l # MainLoop
    <3>1. at'[MainLoop] = at[MainLoop]
      BY <1>0, <1>1, <2>2, OneThreadMoves
    <3>2. ASSUME NEW c \in Conns, Remove(l, c)
          PROVE  FALSE
      BY <2>2, <3>2, RemoveEffect
    <3>3. connections' = connections
      BY <1>1, <3>2, LoopThreadDoes DEF LoopThreadStep
    <3>4. ASSUME at[MainLoop] \in {"joining", "exited"}, NEW k \in Subs
          PROVE  pending'[k] \in {pending[k], <<>>}
      <4>1. k \in Loops /\ k # MainLoop
        BY <1>0 DEF Loops
      <4>2. CASE TakeFunctors(l)
        BY <1>0, <4>1, <4>2 DEF TakeFunctors, TypeOK
      <4>3. CASE FinishClose(l)
        BY <1>0, <4>1, <4>3, FinishCloseEffect DEF TypeOK
      <4>4. CASE EndDispatch(l)
        BY <1>0, <4>1, <4>4 DEF EndDispatch, TypeOK
      <4>5. CASE HandleError(l) \/ HandleRead(l) \/ HandleWrite(l)
        BY <4>5, HandlingEffect
      <4>6. CASE Poll(l) \/ EndEvent(l) \/ EndFunctors(l) \/ \E c \in Conns : BeginEvent(l, c)
        BY <4>6 DEF Poll, EndEvent, EndFunctors, BeginEvent
      <4>7. ASSUME NEW c \in Conns, Establish(l, c) \/ Destroy(l, c) \/ ForceClose(l, c)
            PROVE  pending' = pending
        BY <4>7, EstablishEffect, DestroyEffect, ForceCloseEffect
      <4> QED
        BY <1>1, <3>2, <4>2, <4>3, <4>4, <4>5, <4>6, <4>7 DEF LoopThread
    <3> QED
      BY <3>1, <3>3, <3>4
  <2> QED
    BY <2>1, <2>2
<1>2. CASE MainThread
  <2>1. MainThreadStep
    BY <1>2, MainThreadDoes
  <2>2. ASSUME at[MainLoop] \in {"joining", "exited"}
        PROVE  /\ connections' = connections
               /\ \A k \in Subs : pending'[k] = pending[k]
    <3>1. at[MainLoop] = "joining"
      BY <2>1, <2>2 DEF MainThreadStep
    <3>2. ~ClearConnections /\ \A c \in Conns, f \in Fds : ~Accept(c, f)
      BY <3>1 DEF ClearConnections, Accept
    <3>3. Exit => \A k \in Subs : pending'[k] = pending[k]
      BY <1>0 DEF Exit, TypeOK, Loops
    <3> QED
      BY <2>1, <3>1, <3>2, <3>3 DEF MainThreadStep
  <2>3. /\ at[MainLoop] \in {"joining", "exited"} => at'[MainLoop] \in {"joining", "exited"}
        /\ at'[MainLoop] \notin Leaving => at[MainLoop] \notin Leaving
        /\ at'[MainLoop] \in {"joining", "exited"} =>
             at[MainLoop] \in {"joining", "exited"} \/ ClearConnections \/ Exit
        /\ at'[MainLoop] = "exited" => Exit
        /\ at'[MainLoop] = "closing" => at[MainLoop] = "closing" \/ BeginTeardown
    BY <2>1 DEF MainThreadStep
  <2>4. Exit => at[MainLoop] = "joining"
    BY DEF Exit
  <2> QED
    BY <2>2, <2>3, <2>4
<1>3. CASE Clients \/ Interrupt
  BY <1>3 DEF Clients, ClientConnects, ClientLeaves, Interrupt
<1> QED
  BY <1>1, <1>2, <1>3 DEF Next, Leaving

LEMMA PhaseKept ==
  ASSUME Inv, Next
  PROVE  PhaseInv'
<1>0. TypeOK /\ PhaseInv /\ MainLoop \in Loops /\ MainLoop \notin Subs /\ Subs \subseteq Loops
  BY LoopsAssumption DEF Inv, Loops
<1>1. ASSUME at'[MainLoop] \notin Leaving, NEW c \in Conns
      PROVE  state'[c] # "kDisconnecting"
  <2>1. at[MainLoop] \notin Leaving
    BY <1>1, LeavingIsFinal
  <2>2. state[c] # "kDisconnecting" /\ ~MarkConnection
    BY <1>0, <2>1 DEF PhaseInv, MarkConnection, Leaving
  <2>3. ASSUME NEW l \in Loops, LoopThread(l)
        PROVE  state'[c] # "kDisconnecting"
    BY <2>2, <2>3, LoopThreadDoes DEF LoopThreadStep
  <2>4. MainThread => state'[c] # "kDisconnecting"
    BY <2>2, MainThreadDoes DEF MainThreadStep
  <2>5. Clients \/ Interrupt => state' = state
    BY DEF Clients, ClientConnects, ClientLeaves, Interrupt
  <2> QED
    BY <2>2, <2>3, <2>4, <2>5 DEF Next
<1>2. ASSUME at'[MainLoop] \in {"joining", "exited"}, NEW f \in Fds
      PROVE  connections'[f] = None
  <2>1. CASE ClearConnections
    BY <2>1 DEF ClearConnections
  <2>2. CASE at[MainLoop] \in {"joining", "exited"}
    BY <1>0, <2>2, LeavingIsFinal DEF PhaseInv
  <2> QED
    BY <1>2, <2>1, <2>2, LeavingIsFinal
\* Who stops a thread.
<1>3. ASSUME NEW l \in Subs, at'[l] = "stopped", at[l] # "stopped"
      PROVE  quit[l] /\ pending'[l] = <<>>
  <2>1. l \in Loops /\ l # MainLoop
    BY <1>0
  <2>2. ASSUME NEW k \in Loops, LoopThread(k)
        PROVE  k = l
    BY <1>3, <2>1, <2>2, OneThreadMoves
  <2>3. ~MainThread
    BY <1>0, <1>3, <2>1, OneThreadMoves
  <2>4. ~Clients /\ ~Interrupt
    BY <1>3 DEF Clients, ClientConnects, ClientLeaves, Interrupt
  <2>5. LoopThread(l)
    BY <2>2, <2>3, <2>4 DEF Next
  <2> QED
    BY <1>3, <2>1, <2>5, LoopThreadDoes DEF LoopThreadStep
<1>4. ASSUME NEW l \in Subs, quit'[l], ~quit[l]
      PROVE  at[MainLoop] = "joining"
  <2>1. ASSUME NEW k \in Loops, LoopThread(k)
        PROVE  FALSE
    BY <1>4, <2>1, LoopThreadDoes DEF LoopThreadStep
  <2>2. MainThread => at[MainLoop] = "joining"
    BY <1>4, MainThreadDoes DEF MainThreadStep
  <2>3. ~Clients
    BY <1>4 DEF Clients, ClientConnects, ClientLeaves
  <2>4. ~Interrupt
    BY <1>0, <1>4 DEF Interrupt, TypeOK
  <2> QED
    BY <2>1, <2>2, <2>3, <2>4 DEF Next
<1>5. ASSUME NEW l \in Subs, quit'[l] \/ at'[l] = "stopped"
      PROVE  at'[MainLoop] \in {"joining", "exited"}
  <2>1. at[MainLoop] \in {"joining", "exited"}
    BY <1>0, <1>3, <1>4, <1>5 DEF PhaseInv
  <2> QED
    BY <2>1, LeavingIsFinal
<1>6. ASSUME NEW l \in Subs, at'[l] = "stopped"
      PROVE  pending'[l] = <<>>
  <2>1. CASE at[l] = "stopped"
    BY <1>0, <2>1, LeavingIsFinal DEF PhaseInv
  <2> QED
    BY <1>3, <1>6, <2>1
<1>7. ASSUME at'[MainLoop] = "exited"
      PROVE  pending'[MainLoop] = <<>> /\ \A l \in Subs : at'[l] = "stopped"
  <2>1. CASE Exit
    <3>1. /\ pending' = [pending EXCEPT ![MainLoop] = <<>>]
          /\ at' = [at EXCEPT ![MainLoop] = "exited"] /\ \A l \in Subs : at[l] = "stopped"
      BY <2>1 DEF Exit
    <3> QED
      BY <1>0, <3>1 DEF TypeOK
  <2>2. CASE at[MainLoop] = "exited"
    <3>1. pending[MainLoop] = <<>> /\ \A l \in Subs : at[l] = "stopped"
      BY <1>0, <2>2 DEF PhaseInv
    <3>2. ASSUME NEW l \in Loops, LoopThread(l)
          PROVE  FALSE
      BY <2>2, <3>1, <3>2, LoopThreadDoes DEF LoopThreadStep, Busy, Loops
    <3>3. ~MainThread
      BY <2>2, MainThreadDoes DEF MainThreadStep
    <3>4. Clients \/ Interrupt => UNCHANGED <<pending, at>>
      BY DEF Clients, ClientConnects, ClientLeaves, Interrupt
    <3> QED
      BY <3>1, <3>2, <3>3, <3>4 DEF Next
  <2> QED
    BY <1>7, <2>1, <2>2, LeavingIsFinal
<1> QED
  BY <1>1, <1>2, <1>5, <1>6, <1>7 DEF PhaseInv, Leaving

\* An entry goes when it is removed, or when all are.
LEMMA EntryGoes ==
  ASSUME Inv, Next, NEW f \in Fds, NEW c \in Conns, connections[f] = c, connections'[f] # c,
         at'[MainLoop] \notin {"joining", "exited"}
  PROVE  /\ connections'[f] = None /\ Remove(MainLoop, c) /\ at[MainLoop] = "functors"
         /\ state[c] = "kDisconnected" /\ c \notin registered
<1>0. TypeOK /\ MainLoop \in Loops /\ c # None
  BY LoopsAssumption DEF Inv, Loops
<1>1. ASSUME NEW l \in Loops, LoopThread(l)
      PROVE  /\ connections'[f] = None /\ Remove(MainLoop, c) /\ at[MainLoop] = "functors"
             /\ state[c] = "kDisconnected" /\ c \notin registered
  <2>1. PICK d \in Conns : Remove(l, d)
    BY <1>1, LoopThreadDoes DEF LoopThreadStep
  <2>2. /\ l = MainLoop /\ Down(d) /\ d \notin registered /\ connections[fd[d]] = d
        /\ connections' = [connections EXCEPT ![fd[d]] = None]
    BY <2>1, RemoveEffect
  <2>3. f = fd[d] /\ d = c
    BY <1>0, <2>2 DEF TypeOK
  <2>4. at[MainLoop] = "functors"
    BY <2>1, <2>2 DEF Remove, Calling
  <2>5. state[c] = "kDisconnected"
    BY <2>2, <2>3, <2>4 DEF Down, Inv, PhaseInv
  <2> QED
    BY <1>0, <2>1, <2>2, <2>3, <2>4, <2>5 DEF TypeOK
<1>2. ~MainThread
  <2>1. ASSUME NEW d \in Conns, NEW g \in Fds, Accept(d, g)
        PROVE  connections'[f] = c
    BY <1>0, <2>1, AcceptEffect DEF TypeOK
  <2>2. ~ClearConnections
    BY <1>0 DEF ClearConnections, TypeOK
  <2> QED
    BY <2>1, <2>2, MainThreadDoes DEF MainThreadStep
<1>3. ~Clients /\ ~Interrupt
  BY DEF Clients, ClientConnects, ClientLeaves, Interrupt
<1> QED
  BY <1>1, <1>2, <1>3 DEF Next

LEMMA ClosingKept ==
  ASSUME Inv, Next
  PROVE  ClosingInv'
<1>0. TypeOK /\ ClosingInv /\ Moves /\ MainLoop \in Loops /\ MainLoop \notin Subs
  BY MovesOfStep, LoopsAssumption DEF Inv, Loops
<1> SUFFICES ASSUME at'[MainLoop] = "closing"
             PROVE  /\ \A c \in todo' : \E f \in Fds : connections'[f] = c
                    /\ cur'[MainLoop] # None =>
                         /\ \E f \in Fds : connections'[f] = cur'[MainLoop]
                         /\ state'[cur'[MainLoop]] \in {"kConnected", "kDisconnecting", "kDisconnected"}
  BY DEF ClosingInv, Known, Established
<1>1. CASE BeginTeardown
  <2>1. /\ at[MainLoop] = "stopped" /\ UNCHANGED <<cur, connections>>
        /\ todo' = {c \in Conns : \E f \in Fds : connections[f] = c}
    BY <1>1 DEF BeginTeardown
  <2>2. cur[MainLoop] = None
    BY <1>0, <2>1, IdleThread
  <2> QED
    BY <2>1, <2>2
<1>2. CASE at[MainLoop] = "closing"
  <2>1. ASSUME NEW c \in Conns, Known(c)
        PROVE  \E f \in Fds : connections'[f] = c
    <3>1. PICK f \in Fds : connections[f] = c
      BY <2>1 DEF Known
    <3> QED
      BY <1>2, <3>1, EntryGoes
  <2>2. ASSUME NEW c \in Conns, Known(c), Established(c)
        PROVE  /\ \E f \in Fds : connections'[f] = c
               /\ state'[c] \in {"kConnected", "kDisconnecting", "kDisconnected"}
    BY <1>0, <2>1, <2>2, LifeGoesOn DEF Established
  <2>3. /\ \A c \in todo : Known(c)
        /\ cur[MainLoop] # None => Known(cur[MainLoop]) /\ Established(cur[MainLoop])
        /\ todo \subseteq Conns /\ cur[MainLoop] \in Conns \union {None}
    BY <1>0, <1>2 DEF ClosingInv, TypeOK
  <2>4. todo' \subseteq todo
    <3>1. ASSUME NEW l \in Loops, LoopThread(l)
          PROVE  todo' = todo
      BY <3>1, LoopThreadDoes DEF LoopThreadStep
    <3>2. MainThread => todo' \subseteq todo
      BY <1>2, MainThreadDoes DEF MainThreadStep, BeginTeardown
    <3>3. Clients \/ Interrupt => todo' = todo
      BY DEF Clients, ClientConnects, ClientLeaves, Interrupt
    <3> QED
      BY <3>1, <3>2, <3>3 DEF Next
  <2>5. ASSUME cur'[MainLoop] # None, cur'[MainLoop] # cur[MainLoop]
        PROVE  /\ cur'[MainLoop] \in Conns /\ Known(cur'[MainLoop])
               /\ state[cur'[MainLoop]] \in {"kConnected", "kDisconnecting"}
    <3>1. ASSUME NEW l \in Loops, LoopThread(l)
          PROVE  FALSE
      <4>1. l = MainLoop
        BY <1>0, <2>5, <3>1, OneThreadMoves
      <4> QED
        BY <1>2, <3>1, <4>1, LoopThreadDoes DEF LoopThreadStep, Busy
    <3>2. ASSUME NEW c \in Conns, TestConnection(c)
          PROVE  c = cur'[MainLoop] /\ c \in todo /\ state[c] \in {"kConnected", "kDisconnecting"}
      BY <1>0, <2>5, <3>2 DEF TestConnection, TypeOK
    <3>3. ~MarkConnection
      BY <1>0, <2>5, MarkConnectionEffect DEF TypeOK
    <3>4. ASSUME NEW c \in Conns, AcceptAndDrop(c) \/ \E f \in Fds : Accept(c, f)
          PROVE  FALSE
      BY <1>2, <3>4 DEF AcceptAndDrop, Accept
    <3>5. ~(BeginAccept \/ EndAccept \/ BeginTeardown \/ ClearConnections \/ Exit)
      BY <2>5 DEF BeginAccept, EndAccept, BeginTeardown, ClearConnections, Exit
    <3>6. \A i \in DOMAIN SubLoops : ~QuitSub(i)
      BY <2>5 DEF QuitSub
    <3>7. ~Clients /\ ~Interrupt
      BY <2>5 DEF Clients, ClientConnects, ClientLeaves, Interrupt
    <3>8. PICK c \in Conns : TestConnection(c)
      BY <3>1, <3>3, <3>4, <3>5, <3>6, <3>7 DEF Next, MainThread
    <3> QED
      BY <2>3, <3>2, <3>8
  <2>6. \A c \in todo' : \E f \in Fds : connections'[f] = c
    BY <2>1, <2>3, <2>4
  <2>7. ASSUME cur'[MainLoop] # None
        PROVE  /\ \E f \in Fds : connections'[f] = cur'[MainLoop]
               /\ state'[cur'[MainLoop]] \in {"kConnected", "kDisconnecting", "kDisconnected"}
    <3>1. PICK c \in Conns : c = cur'[MainLoop] /\ Known(c) /\ Established(c)
      BY <2>3, <2>5, <2>7 DEF Established
    <3> QED
      BY <2>2, <3>1
  <2> QED
    BY <2>6, <2>7
<1> QED
  BY <1>1, <1>2, LeavingIsFinal

-----------------------------------------------------------------------------
(* What is in use is known, or handed over. *)

\* Nobody else takes a functor out of a queue while the server serves.
LEMMA QueueKept ==
  ASSUME Inv, Next, NEW l \in Loops, NEW x, NEW i \in DOMAIN pending[l], pending[l][i] = x,
         at'[MainLoop] \notin {"joining", "exited"}
  PROVE  (\E j \in DOMAIN pending'[l] : pending'[l][j] = x) \/ TakeFunctors(l)
<1>0. TypeOK /\ Moves /\ at[MainLoop] \notin {"joining", "exited"}
  BY MovesOfStep, LeavingIsFinal DEF Inv
<1>2. pending[l] \in Seq(Functors) /\ pending[l] # <<>>
  BY <1>0 DEF TypeOK
<1>3. CASE pending'[l] = pending[l]
  BY <1>3
<1>4. ASSUME NEW y \in Functors, pending'[l] = Append(pending[l], y)
      PROVE  \E j \in DOMAIN pending'[l] : pending'[l][j] = x
  <2>1. i \in DOMAIN pending'[l] /\ pending'[l][i] = pending[l][i]
    BY <1>2, <1>4
  <2> QED
    BY <2>1
<1>5. ASSUME pending'[l] = <<>>
      PROVE  TakeFunctors(l)
  <2>1. ASSUME NEW k \in Loops, LoopThread(k)
        PROVE  TakeFunctors(l)
    <3>1. pending' # pending
      BY <1>2, <1>5
    <3>2. ~FinishClose(k)
      BY <1>0, <1>2, <1>5, FinishCloseEffect DEF TypeOK
    <3>3. ASSUME NEW d \in Conns, Remove(k, d)
          PROVE  FALSE
      <4>1. \/ pending' = pending
            \/ pending' = [pending EXCEPT ![owner[d]] = Append(@, Functor("destroy", d))]
        BY <3>3, RemoveEffect
      <4> QED
        BY <1>0, <1>2, <1>5, <4>1 DEF TypeOK
    <3>4. ~(quit[k] /\ k # MainLoop)
      BY <1>0 DEF Inv, PhaseInv, Loops
    <3>5. TakeFunctors(k)
      BY <2>1, <3>1, <3>2, <3>3, <3>4, LoopThreadDoes DEF LoopThreadStep
    <3>6. k = l
      BY <1>0, <1>2, <1>5, <3>5 DEF TakeFunctors, TypeOK
    <3> QED
      BY <3>5, <3>6
  <2>2. ~MainThread
    <3>1. ASSUME NEW d \in Conns, NEW f \in Fds, Accept(d, f)
          PROVE  FALSE
      BY <1>0, <1>2, <1>5, <3>1, AcceptEffect DEF TypeOK
    <3>2. ~MarkConnection
      BY <1>0, <1>2, <1>5, MarkConnectionEffect DEF TypeOK
    <3>3. ~Exit
      BY <1>0 DEF Exit
    <3>4. ~(BeginAccept \/ EndAccept \/ BeginTeardown \/ ClearConnections)
      BY <1>2, <1>5 DEF BeginAccept, EndAccept, BeginTeardown, ClearConnections
    <3>5. \A d \in Conns : ~AcceptAndDrop(d) /\ ~TestConnection(d)
      BY <1>2, <1>5 DEF AcceptAndDrop, TestConnection
    <3>6. \A j \in DOMAIN SubLoops : ~QuitSub(j)
      BY <1>2, <1>5 DEF QuitSub
    <3> QED
      BY <3>1, <3>2, <3>3, <3>4, <3>5, <3>6 DEF MainThread
  <2>3. ~Clients /\ ~Interrupt
    BY <1>2, <1>5 DEF Clients, ClientConnects, ClientLeaves, Interrupt
  <2> QED
    BY <2>1, <2>2, <2>3 DEF Next
<1> QED
  BY <1>0, <1>3, <1>4, <1>5 DEF Moves, PendingStep

LEMMA HandedKept ==
  ASSUME Inv, Next, NEW l \in Loops, NEW c \in Conns, HandedTo(c, l),
         at'[MainLoop] \notin {"joining", "exited"}
  PROVE  HandedTo(c, l)' \/ TakeFunctors(l)
BY QueueKept DEF HandedTo

\* While the server serves, an entry is removed for a shared_ptr on its way.
LEMMA KnownStep ==
  ASSUME Inv, Next, NEW c \in Conns, Known(c), at'[MainLoop] \notin {"joining", "exited"}
  PROVE  \/ Known(c)'
         \/ /\ Down(c) /\ c \notin registered /\ HandedTo(c, owner[c])'
            /\ Remove(MainLoop, c)
<1>0. TypeOK
  BY DEF Inv
<1>1. PICK f \in Fds : connections[f] = c
  BY DEF Known
<1>2. CASE connections'[f] = c
  BY <1>2 DEF Known
<1>3. CASE connections'[f] # c
  <2>1. Remove(MainLoop, c)
    BY <1>1, <1>3, EntryGoes
  <2>2. Down(c) /\ c \notin registered /\ UNCHANGED owner /\ owner[c] \in Loops
    BY <2>1, RemoveEffect, CallingEffect DEF Remove, Loops
  <2>3. pending' = [pending EXCEPT ![owner[c]] = Append(@, Functor("destroy", c))]
    BY <1>1, <1>3, <2>1, RemoveEffect DEF Loops
  <2>4. PICK m \in Loops : m = owner[c] /\ m = owner'[c]
    BY <2>2
  <2>5. /\ Len(pending[m]) + 1 \in DOMAIN pending'[m]
        /\ pending'[m][Len(pending[m]) + 1] = Functor("destroy", c)
    BY <1>0, <2>3, <2>4 DEF TypeOK
  <2>6. HandedTo(c, m)'
    BY <2>5 DEF HandedTo
  <2> QED
    BY <2>1, <2>2, <2>4, <2>6
<1> QED
  BY <1>2, <1>3

LEMMA KnownKept ==
  ASSUME Inv, Next
  PROVE  KnownInv'
<1>0. /\ TypeOK /\ Moves /\ ThreadInv /\ TypeOK'
      /\ MainLoop \in Loops /\ MainLoop \notin Subs /\ EventFd \notin Conns
  BY MovesOfStep, TypeStep, LoopsAssumption DEF Inv, Loops
<1> SUFFICES ASSUME at'[MainLoop] \notin {"joining", "exited"}
             PROVE  KnownInv'
  BY DEF KnownInv, Serving
<1>1. Serving /\ KnownInv
  BY LeavingIsFinal DEF Serving, Inv
\* What was known or handed to a loop that does not take its functors now.
<1>2. ASSUME NEW l \in Loops, NEW c \in Conns, owner[c] = l, Known(c) \/ HandedTo(c, l),
             state[c] # "unborn", ~TakeFunctors(l)
      PROVE  Known(c)' \/ HandedTo(c, l)'
  <2>1. owner'[c] = l
    BY <1>0, <1>2, LifeGoesOn DEF Fixed
  <2>2. CASE Known(c)
    BY <2>1, <2>2, KnownStep DEF HandedTo
  <2>3. CASE HandedTo(c, l)
    BY <1>2, <2>3, HandedKept
  <2> QED
    BY <1>2, <2>2, <2>3
<1>3. ASSUME NEW c \in Conns, state'[c] \in {"kConnecting", "kConnected"}
      PROVE  Known(c)'
  <2>1. CASE state[c] \in {"kConnecting", "kConnected"}
    <3>1. Known(c) /\ ~Down(c)
      BY <1>1, <2>1 DEF KnownInv, Down
    <3> QED
      BY <3>1, KnownStep
  <2>2. ASSUME NEW f \in Fds, Accept(c, f)
        PROVE  Known(c)'
    <3>1. connections'[f] = c
      BY <1>0, <2>2, AcceptEffect DEF TypeOK
    <3> QED
      BY <3>1 DEF Known
  <2> QED
    BY <1>0, <1>3, <2>1, <2>2, LifeGoesOn DEF Accepted
<1>4. ASSUME NEW c \in registered'
      PROVE  Known(c)'
  <2>1. c \in Conns
    BY <1>0, <1>4 DEF TypeOK
  <2>2. CASE c \in registered
    BY <1>1, <2>1, <2>2, KnownStep DEF KnownInv
  <2>3. CASE c \notin registered
    BY <1>0, <1>3, <1>4, <2>1, <2>3 DEF Moves, WatchStep
  <2> QED
    BY <2>2, <2>3
\* What has been reported is of the loop, in service or closed.
<1>5. ASSUME NEW l \in Loops, NEW c \in ready[l] \intersect Conns
      PROVE  /\ owner[c] = l /\ state[c] # "unborn" /\ l \in Subs
             /\ Known(c) \/ HandedTo(c, l)
             /\ EventFd \in ready[l] => c \in registered /\ Known(c)
  <2>1. owner[c] = l /\ Established(c) /\ l \in Subs
    BY <1>0, <1>5 DEF ThreadInv, ThreadOK
  <2> QED
    BY <1>1, <1>5, <2>1 DEF KnownInv, Established
<1>6. ASSUME NEW l \in Loops
      PROVE  ready'[l] \subseteq ready[l] \/ Poll(l)
  <2>1. ASSUME NEW k \in Loops, LoopThread(k)
        PROVE  ready'[l] \subseteq ready[l] \/ Poll(l)
    <3>1. CASE k = l
      BY <2>1, <3>1, LoopThreadDoes DEF LoopThreadStep
    <3>2. CASE k # l
      BY <2>1, <3>2, OneThreadMoves
    <3> QED
      BY <3>1, <3>2
  <2>2. CASE MainThread
    <3>1. CASE l = MainLoop
      BY <2>2, <3>1, MainThreadDoes DEF MainThreadStep
    <3>2. CASE l # MainLoop
      BY <1>0, <2>2, <3>2, OneThreadMoves
    <3> QED
      BY <3>1, <3>2
  <2>3. Clients \/ Interrupt => ready' = ready
    BY DEF Clients, ClientConnects, ClientLeaves, Interrupt
  <2> QED
    BY <2>1, <2>2, <2>3 DEF Next
<1>7. ASSUME NEW l \in Loops, Poll(l), NEW c \in ready'[l] \intersect Conns
      PROVE  c \in registered /\ Known(c) /\ c \in registered' /\ Known(c)'
  <2>1. c \in Watched(l)
    BY <1>0, <1>7, LoopsAssumption DEF Poll, AlsoReady, TypeOK
  <2>2. c \in registered /\ UNCHANGED <<registered, connections>>
    BY <1>7, <2>1 DEF Watched, Poll
  <2> QED
    BY <1>1, <2>2 DEF KnownInv, Known
<1>8. ASSUME NEW l \in Loops, TakeFunctors(l)
      PROVE  EventFd \in ready[l] /\ UNCHANGED connections /\ at'[l] = "functors"
  BY <1>0, <1>8 DEF TakeFunctors, TypeOK
<1>9. ASSUME NEW l \in Loops, NEW c \in ready'[l] \intersect Conns
      PROVE  Known(c)' \/ HandedTo(c, l)'
  <2>1. CASE Poll(l)
    BY <1>7, <1>9, <2>1
  <2>2. CASE c \in ready[l] /\ ~TakeFunctors(l)
    BY <1>2, <1>5, <2>2
  <2>3. CASE c \in ready[l] /\ TakeFunctors(l)
    BY <1>5, <1>8, <2>3 DEF Known
  <2> QED
    BY <1>6, <1>9, <2>1, <2>2, <2>3
\* A connection that is reported with the eventfd is closed only after the functors.
<1>10. ASSUME NEW l \in Loops, EventFd \in ready'[l], NEW c \in ready'[l] \intersect Conns
       PROVE  c \in registered'
  <2>1. CASE Poll(l)
    BY <1>7, <1>10, <2>1
  <2>2. CASE ready'[l] \subseteq ready[l]
    <3>1. c \in registered /\ owner[c] = l
      BY <1>5, <1>10, <2>2
    <3>2. ASSUME NEW k \in Loops, FinishClose(k), cur[k] = c
          PROVE  FALSE
      <4>1. closing[k] /\ at[k] \in {"event", "functors"}
        BY <3>2, FinishCloseEffect
      <4>2. k = l
        BY <1>0, <3>1, <3>2, <4>1 DEF ThreadInv, ThreadOK
      <4> QED
        BY <1>0, <1>10, <2>2, <3>2, <4>1, <4>2 DEF ThreadInv, ThreadOK
    <3>3. ASSUME NEW k \in Loops, LoopThread(k)
          PROVE  c \in registered'
      BY <3>1, <3>2, <3>3, LoopThreadDoes, FinishCloseEffect DEF LoopThreadStep
    <3>4. MainThread => registered' = registered
      BY MainThreadDoes DEF MainThreadStep
    <3>5. Clients \/ Interrupt => registered' = registered
      BY DEF Clients, ClientConnects, ClientLeaves, Interrupt
    <3> QED
      BY <3>1, <3>3, <3>4, <3>5 DEF Next
  <2> QED
    BY <1>6, <2>1, <2>2
<1>11. ASSUME NEW l \in Loops, at'[l] = "event"
       PROVE  \/ at[l] = "event" /\ cur'[l] = cur[l]
              \/ \E c \in Conns : BeginEvent(l, c) /\ cur'[l] = c
  <2>1. ASSUME NEW k \in Loops, LoopThread(k)
        PROVE  \/ at[l] = "event" /\ cur'[l] = cur[l]
               \/ \E c \in Conns : BeginEvent(l, c) /\ cur'[l] = c
    <3>1. CASE k = l
      BY <1>11, <2>1, <3>1, LoopThreadDoes DEF LoopThreadStep
    <3>2. CASE k # l
      BY <1>11, <2>1, <3>2, OneThreadMoves
    <3> QED
      BY <3>1, <3>2
  <2>2. CASE MainThread
    <3>1. l # MainLoop
      BY <1>11, <2>2, MainThreadDoes DEF MainThreadStep
    <3> QED
      BY <1>0, <1>11, <2>2, <3>1, OneThreadMoves
  <2>3. Clients \/ Interrupt => UNCHANGED <<at, cur>>
    BY DEF Clients, ClientConnects, ClientLeaves, Interrupt
  <2> QED
    BY <1>11, <2>1, <2>2, <2>3 DEF Next
<1>12. ASSUME NEW l \in Loops, at'[l] = "event", NEW c \in Conns, c = cur'[l]
       PROVE  Known(c)' \/ HandedTo(c, l)'
  <2>1. CASE at[l] = "event" /\ cur'[l] = cur[l]
    <3>1. owner[c] = l /\ state[c] # "unborn" /\ (Known(c) \/ HandedTo(c, l))
      BY <1>0, <1>1, <1>12, <2>1 DEF ThreadInv, ThreadOK, KnownInv, Established
    <3>2. ~TakeFunctors(l)
      BY <2>1 DEF TakeFunctors
    <3> QED
      BY <1>2, <3>1, <3>2
  <2>2. CASE BeginEvent(l, c)
    <3>1. c \in ready[l] /\ UNCHANGED <<connections, pending>>
      BY <2>2 DEF BeginEvent
    <3> QED
      BY <1>5, <3>1 DEF Known, HandedTo
  <2> QED
    BY <1>11, <1>12, <2>1, <2>2
<1>13. ASSUME NEW l \in Loops, at'[l] = "event"
       PROVE  Known(cur[l])' \/ HandedTo(cur[l], l)'
  <2>1. PICK c \in Conns : c = cur'[l]
    BY <1>13, ThreadKept DEF ThreadInv, ThreadOK
  <2>2. Known(c)' \/ HandedTo(c, l)'
    BY <1>12, <1>13, <2>1
  <2> QED
    BY <2>1, <2>2 DEF Known, HandedTo
<1> QED
  BY <1>3, <1>4, <1>9, <1>10, <1>13 DEF KnownInv

-----------------------------------------------------------------------------
(* The invariant holds. *)

LEMMA InvInit ==
  ASSUME SubLoops # <<>>, Init
  PROVE  Inv
<1>1. TypeOK
  BY TypeInit
<1>2. \A l \in Loops : pending[l] = <<>> /\ batch[l] = <<>> /\ ready[l] = {}
                       /\ at[l] = "poll" /\ cur[l] = None /\ ~closing[l] /\ ~quit[l]
  BY DEF Init
<1>3. MainLoop \in Loops /\ None \notin Conns
  BY LoopsAssumption DEF Loops
<1>4. \A l \in Loops : DOMAIN pending[l] = {} /\ DOMAIN batch[l] = {}
  BY <1>2, EmptySeq
<1>5. \A c \in Conns : state[c] = "unborn" /\ peer[c] = "none" /\ c \notin backlog
                       /\ c \notin registered
  BY DEF Init
<1>6. \A f \in Fds : connections[f] = None
  BY DEF Init
<1>7. BirthInv
  <2>1. backlog = {}
    BY DEF Init
  <2>2. \A l \in Loops : Held(pending[l]) \union Held(batch[l]) = {}
    BY <1>4 DEF Held
  <2> QED
    BY <1>3, <1>5, <1>6, <2>1, <2>2 DEF BirthInv
<1>8. FunctorInv /\ OnceInv
  BY <1>4 DEF FunctorInv, OnceInv
<1>9. ThreadInv
  BY <1>2 DEF ThreadInv, ThreadOK
<1>10. RegisteredInv /\ registered = {}
  BY DEF RegisteredInv, Init
<1>11. KnownInv
  BY <1>2, <1>5, <1>10 DEF KnownInv
<1>12. ClosingInv
  BY <1>2, <1>3 DEF ClosingInv
<1>13. \A c \in Conns : ~Alive(c)
  <2>1. \A l \in Loops : Held(pending[l]) \union Held(batch[l]) = {}
    BY <1>4 DEF Held
  <2> QED
    BY <1>2, <1>3, <1>6, <2>1 DEF Alive
<1>14. FdInv
  BY <1>13 DEF FdInv
<1>15. PhaseInv
  BY <1>2, <1>3, <1>5 DEF PhaseInv, Loops
<1> QED
  BY <1>1, <1>7, <1>8, <1>9, <1>10, <1>11, <1>12, <1>14, <1>15 DEF Inv

LEMMA InvStutter ==
  ASSUME Inv, UNCHANGED vars
  PROVE  Inv'
<1>1. TypeOK' /\ BirthInv' /\ FunctorInv' /\ OnceInv'
  BY DEF Inv, TypeOK, BirthInv, FunctorInv, Fits, Down, OnceInv
<1>2. ThreadInv' /\ RegisteredInv' /\ KnownInv' /\ ClosingInv' /\ PhaseInv'
  BY DEF Inv, ThreadInv, ThreadOK, Established, Down, RegisteredInv, KnownInv, Serving,
         Known, HandedTo, ClosingInv, PhaseInv
<1>3. FdInv'
  BY DEF Inv, FdInv, Alive
<1> QED
  BY <1>1, <1>2, <1>3 DEF Inv

LEMMA InvStep == Inv /\ [Next]_vars => Inv'
<1>1. ASSUME Inv, Next
      PROVE  Inv'
  <2>1. TypeOK' /\ BirthInv' /\ FunctorInv' /\ OnceInv'
    BY <1>1, TypeStep, BirthKept, FunctorKept, OnceKept
  <2>2. ThreadInv' /\ RegisteredInv' /\ KnownInv' /\ ClosingInv' /\ FdInv' /\ PhaseInv'
    BY <1>1, ThreadKept, RegisteredKept, KnownKept, ClosingKept, FdKept, PhaseKept
  <2> QED
    BY <1>1, <2>1, <2>2 DEF Inv
<1> QED
  BY <1>1, InvStutter

LEMMA InvAlways ==
  ASSUME SubLoops # <<>>
  PROVE  SafeSpec => []Inv
<1>1. Init => Inv
  BY InvInit
<1> QED
  BY <1>1, InvStep, PTL DEF SafeSpec

-----------------------------------------------------------------------------
(* The theorems.  A single reactor is left out: there removeConnectionInLoop runs     *)
(* inside handleEvent and NoUseAfterFreeWhileServing fails (TcpServerSingle.cfg).     *)

\* Every variable keeps its type.
THEOREM TypeCorrect ==
  ASSUME SubLoops # <<>>
  PROVE  SafeSpec => []TypeOK
<1>1. Inv => TypeOK
  BY DEF Inv
<1> QED
  BY <1>1, InvAlways, PTL

LEMMA KnownIsAlive ==
  ASSUME NEW c, NEW l \in Loops, Known(c) \/ HandedTo(c, l)
  PROVE  Alive(c)
<1>1. CASE Known(c)
  BY <1>1 DEF Known, Alive
<1>2. CASE HandedTo(c, l)
  <2>1. PICK i \in DOMAIN pending[l] : pending[l][i] = Functor("destroy", c)
    BY <1>2 DEF HandedTo
  <2>2. pending[l][i].conn = c
    BY <2>1 DEF Functor
  <2> QED
    BY <2>2 DEF Held, Alive
<1> QED
  BY <1>1, <1>2

\* Until ~TcpServer clears connections_, no loop handles an event of a connection, runs a
\* functor on it or keeps its channel in active_channels once the object is gone.
THEOREM NoUseWhileServing ==
  ASSUME SubLoops # <<>>
  PROVE  SafeSpec => []NoUseAfterFreeWhileServing
<1>1. ASSUME Inv
      PROVE  NoUseAfterFreeWhileServing
  <2> SUFFICES ASSUME Serving, NEW l \in Loops, NEW c \in InUse(l)
               PROVE  Alive(c)
    BY DEF NoUseAfterFreeWhileServing, NoUseAfterFree
  <2>1. CASE c \in ready[l] \intersect Conns
    BY <1>1, <2>1, KnownIsAlive DEF Inv, KnownInv
  <2>2. CASE c = cur[l] /\ cur[l] # None
    <3>1. CASE at[l] = "event"
      BY <1>1, <2>2, <3>1, KnownIsAlive DEF Inv, KnownInv
    <3>2. CASE at[l] = "functors" /\ cur[l] \in Held(batch[l])
      BY <2>2, <3>2 DEF Alive
    <3>3. CASE l = MainLoop /\ at[l] = "closing"
      BY <2>2, <3>3 DEF Alive
    <3> QED
      BY <1>1, <2>2, <3>1, <3>2, <3>3 DEF Inv, ThreadInv, ThreadOK
  <2> QED
    BY <2>1, <2>2 DEF InUse
<1> QED
  BY <1>1, InvAlways, PTL

\* Until ~TcpServer clears connections_, every connection in service is entered there
\* under its descriptor, however descriptors are used again; and a channel is in an
\* epoll only while its connection is in service or being closed.
THEOREM ServedAreKnownAlways ==
  ASSUME SubLoops # <<>>
  PROVE  SafeSpec => []ServedAreKnown
<1>1. ASSUME Inv
      PROVE  ServedAreKnown
  <2>1. ASSUME NEW c \in Conns, Serving, state[c] \in {"kConnecting", "kConnected"}
        PROVE  connections[fd[c]] = c
    <3>1. PICK f \in Fds : connections[f] = c
      BY <1>1, <2>1 DEF Inv, KnownInv, Known
    <3>2. fd[c] = f
      BY <1>1, <3>1 DEF Inv, BirthInv
    <3> QED
      BY <3>1, <3>2
  <2>2. ASSUME NEW c \in Conns, c \in registered
        PROVE  \/ state[c] \in {"kConnected", "kDisconnecting"}
               \/ \E l \in Loops : closing[l] /\ cur[l] = c
    BY <1>1, <2>2 DEF Inv, RegisteredInv
  <2> QED
    BY <2>1, <2>2 DEF ServedAreKnown
<1> QED
  BY <1>1, InvAlways, PTL

\* When main() returns no shared_ptr of a connection is left in connections_, in the
\* queue of a loop or in a batch, so every destructor has closed its descriptor.
THEOREM NothingLeft ==
  ASSUME SubLoops # <<>>
  PROVE  SafeSpec => []NothingLeftAtExit
<1>1. ASSUME Inv, at[MainLoop] = "exited", NEW c \in Conns
      PROVE  ~Alive(c)
  <2>1. \A f \in Fds : connections[f] # c
    BY <1>1, LoopsAssumption DEF Inv, PhaseInv
  <2>2. ASSUME NEW l \in Loops
        PROVE  pending[l] = <<>> /\ batch[l] = <<>>
    <3>1. pending[l] = <<>>
      BY <1>1 DEF Inv, PhaseInv, Loops
    <3>2. at[l] \in {"stopped", "exited"}
      BY <1>1 DEF Inv, PhaseInv, Loops
    <3>3. batch[l] # <<>> => at[l] = "functors"
      BY <1>1 DEF Inv, ThreadInv, ThreadOK
    <3> QED
      BY <3>1, <3>2, <3>3
  <2>3. \A l \in Loops : c \notin Held(pending[l]) \union Held(batch[l])
    BY <2>2, EmptySeq DEF Held
  <2> QED
    BY <1>1, <2>1, <2>3 DEF Alive
<1>2. Inv => NothingLeftAtExit
  BY <1>1 DEF NothingLeftAtExit
<1> QED
  BY <1>2, InvAlways, PTL

\* Until ~TcpServer clears connections_, an entry goes only when its own connection is
\* kDisconnected, and is never overwritten.
THEOREM EntriesLast ==
  ASSUME SubLoops # <<>>
  PROVE  SafeSpec => EntriesOutlastService
<1>1. ASSUME Inv, Next, NEW f \in Fds,
             connections[f] # None, connections'[f] # connections[f], Serving'
      PROVE  connections'[f] = None /\ state[connections[f]] = "kDisconnected"
  <2>1. PICK c \in Conns : connections[f] = c
    BY <1>1 DEF Inv, TypeOK
  <2>2. at'[MainLoop] \notin {"joining", "exited"}
    BY <1>1 DEF Serving
  <2> QED
    BY <1>1, <2>1, <2>2, EntryGoes
<1>2. Inv /\ [Next]_vars =>
        [\A f \in Fds :
           connections[f] # None /\ connections'[f] # connections[f] /\ Serving' =>
             connections'[f] = None /\ state[connections[f]] = "kDisconnected"]_vars
  BY <1>1
<1> QED
  BY <1>2, InvAlways, PTL DEF SafeSpec, EntriesOutlastService

-----------------------------------------------------------------------------
(* What is entered is served or on its way out. *)

\* A functor of the given kind waits for loop l, or its batch has yet to come to it.
OnTheWay(run, c, l) ==
  \/ \E i \in DOMAIN pending[l] : pending[l][i] = Functor(run, c)
  \/ \E i \in DOMAIN batch[l] : i > ran[l] /\ batch[l][i] = Functor(run, c)

\* handleClose is busy with it, or its closeCallback_ has told the main loop.
BeingClosed(c) ==
  \/ \E l \in Loops : closing[l] /\ cur[l] = c
  \/ OnTheWay("remove", c, MainLoop)

\* No entry of connections_ is left to itself: a connection that is not in service yet has
\* its connectEstablished on the way to its loop, one that is told to close its
\* forceCloseInLoop, and one that is closed its removal.
NoEntryIsForgotten ==
  Serving =>
    \A c \in Conns : Known(c) =>
      /\ state[c] = "kConnecting" => OnTheWay("establish", c, owner[c])
      /\ state[c] = "kDisconnecting" => OnTheWay("forceClose", c, owner[c]) \/ BeingClosed(c)
      /\ state[c] = "kDisconnected" => BeingClosed(c)

\* A batch is run to its end, one functor after the other.
LEMMA BatchGoesOn ==
  ASSUME Inv, Next, NEW l \in Loops, NEW i \in DOMAIN batch[l], i > ran[l]
  PROVE  /\ batch'[l] = batch[l]
         /\ \/ ran'[l] = ran[l]
            \/ /\ ran'[l] = ran[l] + 1
               /\ \E c \in Conns :
                    \/ Establish(l, c) /\ batch[l][ran[l] + 1] = Functor("establish", c)
                    \/ Remove(l, c) /\ batch[l][ran[l] + 1] = Functor("remove", c)
                    \/ Destroy(l, c) /\ batch[l][ran[l] + 1] = Functor("destroy", c)
                    \/ ForceClose(l, c) /\ batch[l][ran[l] + 1] = Functor("forceClose", c)
<1>0. /\ TypeOK /\ ran[l] \in Nat /\ batch[l] \in Seq(Functors) /\ batch[l] # <<>>
      /\ ran[l] # Len(batch[l]) /\ at[l] = "functors"
  BY DEF Inv, TypeOK, ThreadInv, ThreadOK
<1>1. CASE LoopThread(l)
  <2>1. CASE Poll(l) \/ TakeFunctors(l) \/ EndDispatch(l) \/ \E c \in Conns : BeginEvent(l, c)
    BY <1>0, <2>1 DEF Poll, TakeFunctors, EndDispatch, BeginEvent
  <2>2. CASE HandleError(l) \/ HandleRead(l) \/ HandleWrite(l) \/ EndEvent(l) \/ FinishClose(l)
    BY <2>2, HandlingEffect, FinishCloseEffect DEF EndEvent
  <2>3. ~EndFunctors(l)
    BY <1>0 DEF EndFunctors
  <2>4. ASSUME NEW c \in Conns, NEW run, Calling(l, run, c)
        PROVE  /\ batch'[l] = batch[l] /\ ran'[l] = ran[l] + 1
               /\ batch[l][ran[l] + 1] = Functor(run, c)
    BY <1>0, <2>4 DEF Calling, TypeOK
  <2>5. ASSUME NEW c \in Conns,
               Establish(l, c) \/ Remove(l, c) \/ Destroy(l, c) \/ ForceClose(l, c)
        PROVE  /\ batch'[l] = batch[l] /\ ran'[l] = ran[l] + 1
               /\ \/ Establish(l, c) /\ batch[l][ran[l] + 1] = Functor("establish", c)
                  \/ Remove(l, c) /\ batch[l][ran[l] + 1] = Functor("remove", c)
                  \/ Destroy(l, c) /\ batch[l][ran[l] + 1] = Functor("destroy", c)
                  \/ ForceClose(l, c) /\ batch[l][ran[l] + 1] = Functor("forceClose", c)
    <3>1. CASE Establish(l, c)
      BY <2>4, <3>1 DEF Establish
    <3>2. CASE Remove(l, c)
      BY <2>4, <3>2 DEF Remove
    <3>3. CASE Destroy(l, c)
      BY <2>4, <3>3 DEF Destroy
    <3>4. CASE ForceClose(l, c)
      BY <2>4, <3>4 DEF ForceClose
    <3> QED
      BY <2>5, <3>1, <3>2, <3>3, <3>4
  <2> QED
    BY <1>1, <2>1, <2>2, <2>3, <2>5 DEF LoopThread
<1>2. ASSUME NEW k \in Loops, LoopThread(k), k # l
      PROVE  batch'[l] = batch[l] /\ ran'[l] = ran[l]
  BY <1>2, OneThreadMoves
<1>3. CASE MainThread
  <2>1. l # MainLoop => batch'[l] = batch[l] /\ ran'[l] = ran[l]
    BY <1>3, OneThreadMoves DEF Loops
  <2>2. l # MainLoop
    BY <1>0, <1>3, MainThreadDoes DEF MainThreadStep
  <2> QED
    BY <2>1, <2>2
<1>4. CASE Clients \/ Interrupt
  BY <1>4 DEF Clients, ClientConnects, ClientLeaves, Interrupt
<1> QED
  BY <1>1, <1>2, <1>3, <1>4 DEF Next

\* While the server serves, a functor stays on its way until it is called.
LEMMA OnTheWayKept ==
  ASSUME Inv, Next, NEW l \in Loops, NEW c \in Conns,
         NEW run \in {"establish", "remove", "forceClose"}, OnTheWay(run, c, l),
         at'[MainLoop] \notin {"joining", "exited"}
  PROVE  \/ OnTheWay(run, c, l)'
         \/ run = "establish" /\ Establish(l, c)
         \/ run = "remove" /\ Remove(l, c)
         \/ run = "forceClose" /\ ForceClose(l, c)
<1> DEFINE x == Functor(run, c)
<1>0. TypeOK
  BY DEF Inv
<1>1. ASSUME NEW i \in DOMAIN pending[l], pending[l][i] = x
      PROVE  OnTheWay(run, c, l)'
  <2>1. CASE \E j \in DOMAIN pending'[l] : pending'[l][j] = x
    BY <2>1 DEF OnTheWay
  <2>2. CASE TakeFunctors(l)
    <3>1. batch'[l] = pending[l] /\ ran'[l] = 0
      BY <1>0, <2>2 DEF TakeFunctors, TypeOK
    <3>2. pending[l] \in Seq(Functors)
      BY <1>0 DEF TypeOK
    <3>3. i \in DOMAIN batch'[l] /\ i > ran'[l] /\ batch'[l][i] = x
      BY <1>1, <3>1, <3>2
    <3> QED
      BY <3>3 DEF OnTheWay
  <2> QED
    BY <1>1, <2>1, <2>2, QueueKept
<1>2. ASSUME NEW i \in DOMAIN batch[l], i > ran[l], batch[l][i] = x,
             ~(run = "establish" /\ Establish(l, c)),
             ~(run = "remove" /\ Remove(l, c)),
             ~(run = "forceClose" /\ ForceClose(l, c))
      PROVE  OnTheWay(run, c, l)'
  <2>0. ran[l] \in Nat /\ i \in Nat
    BY <1>0 DEF TypeOK
  <2>1. batch'[l] = batch[l] /\ (ran'[l] = ran[l] \/ ran'[l] = ran[l] + 1)
    BY <1>2, BatchGoesOn
  <2>2. ASSUME ran'[l] = ran[l] + 1
        PROVE  i # ran[l] + 1
    <3>1. \A r, d : x = Functor(r, d) => r = run /\ d = c
      BY DEF Functor
    <3> HIDE DEF x
    <3> QED
      BY <1>2, <2>0, <2>2, <3>1, BatchGoesOn
  <2>3. i \in DOMAIN batch'[l] /\ i > ran'[l] /\ batch'[l][i] = x
    BY <1>2, <2>0, <2>1, <2>2
  <2> QED
    BY <2>3 DEF OnTheWay
<1> QED
  BY <1>1, <1>2 DEF OnTheWay

\* What is queued last is on its way.
LEMMA JustQueued ==
  ASSUME TypeOK, NEW l \in Loops, NEW run, NEW c,
         pending' = [pending EXCEPT ![l] = Append(@, Functor(run, c))]
  PROVE  OnTheWay(run, c, l)'
<1>1. pending[l] \in Seq(Functors)
  BY DEF TypeOK
<1>2. pending'[l] = Append(pending[l], Functor(run, c))
  BY DEF TypeOK
<1>3. /\ Len(pending[l]) + 1 \in DOMAIN pending'[l]
      /\ pending'[l][Len(pending[l]) + 1] = Functor(run, c)
  BY <1>1, <1>2
<1> QED
  BY <1>3 DEF OnTheWay

\* Removing a connection takes its entry away.
LEMMA RemovedIsUnknown ==
  ASSUME Inv, NEW c \in Conns, Remove(MainLoop, c)
  PROVE  ~Known(c)'
<1>1. TypeOK /\ \A f \in Fds : connections[f] = c => f = fd[c]
  BY DEF Inv, BirthInv
<1>2. fd[c] \in Fds
  BY CallingEffect DEF Remove, Loops
<1>3. CASE connections[fd[c]] = None
  <2>1. connections' = connections /\ c # None
    BY <1>3, LoopsAssumption DEF Remove, RemoveConnectionInLoop
  <2> QED
    BY <1>1, <1>3, <2>1 DEF Known
<1>4. CASE connections[fd[c]] # None
  <2>1. connections' = [connections EXCEPT ![fd[c]] = None] /\ c # None
    BY <1>4, LoopsAssumption DEF Remove, RemoveConnectionInLoop
  <2> QED
    BY <1>1, <1>2, <2>1 DEF Known, TypeOK
<1> QED
  BY <1>3, <1>4

LEMMA BeingClosedKept ==
  ASSUME Inv, Next, NEW c \in Conns, BeingClosed(c), Known(c)',
         at'[MainLoop] \notin {"joining", "exited"}
  PROVE  BeingClosed(c)'
<1>0. TypeOK /\ MainLoop \in Loops
  BY DEF Inv, Loops
<1>1. ASSUME NEW l \in Loops, closing[l], cur[l] = c
      PROVE  BeingClosed(c)'
  <2>1. CASE closing'[l] /\ cur'[l] = cur[l]
    BY <1>1, <2>1 DEF BeingClosed
  <2>2. CASE FinishClose(l)
    BY <1>0, <1>1, <2>2, FinishCloseEffect, JustQueued DEF BeingClosed
  <2> QED
    BY <1>1, <2>1, <2>2, ClosingGoesOn
<1>2. CASE OnTheWay("remove", c, MainLoop)
  <2>1. ~Remove(MainLoop, c)
    BY RemovedIsUnknown
  <2>2. OnTheWay("remove", c, MainLoop)'
    BY <1>0, <1>2, <2>1, OnTheWayKept
  <2> QED
    BY <2>2 DEF BeingClosed
<1> QED
  BY <1>1, <1>2 DEF BeingClosed

\* Only forceClose in ~TcpServer makes a connection kDisconnecting, only handleClose
\* makes it kDisconnected.
LEMMA HowItCloses ==
  ASSUME Inv, Next, NEW c \in Conns, state'[c] # state[c]
  PROVE  /\ state'[c] = "kDisconnecting" => OnTheWay("forceClose", c, owner[c])'
         /\ state'[c] = "kDisconnected" => \E l \in Loops : closing'[l] /\ cur'[l] = c
<1>0. TypeOK
  BY DEF Inv
<1>1. ASSUME NEW l \in Loops, LoopThread(l)
      PROVE  /\ state'[c] # "kDisconnecting"
             /\ state'[c] = "kDisconnected" => closing'[l] /\ cur'[l] = c
  BY <1>1, LoopThreadDoes DEF LoopThreadStep
<1>2. CASE MainThread
  <2>1. state'[c] = "kConnecting" \/ (MarkConnection /\ state'[c] = "kDisconnecting")
    BY <1>2, MainThreadDoes DEF MainThreadStep
  <2>2. ASSUME MarkConnection
        PROVE  OnTheWay("forceClose", c, owner[c])'
    <3>1. c = cur[MainLoop] /\ UNCHANGED owner
      BY <1>0, <2>2, MarkConnectionEffect DEF TypeOK
    <3>2. PICK m \in Loops : m = owner[c] /\ m = owner'[c]
      BY <2>2, <3>1, MarkConnectionEffect DEF Loops
    <3>3. pending' = [pending EXCEPT ![m] = Append(@, Functor("forceClose", c))]
      BY <2>2, <3>1, <3>2, MarkConnectionEffect
    <3>4. OnTheWay("forceClose", c, m)'
      BY <1>0, <3>3, JustQueued
    <3> QED
      BY <3>2, <3>4 DEF OnTheWay
  <2> QED
    BY <2>1, <2>2
<1>3. ~Clients /\ ~Interrupt
  BY DEF Clients, ClientConnects, ClientLeaves, Interrupt
<1> QED
  BY <1>1, <1>2, <1>3 DEF Next

\* forceCloseInLoop begins handleClose unless the connection is closed already.
LEMMA ForcedIsClosed ==
  ASSUME Inv, NEW l \in Loops, NEW c \in Conns, ForceClose(l, c)
  PROVE  state'[c] # "kDisconnecting"
BY DEF ForceClose, BeginClose, Inv, TypeOK

LEMMA NoEntryIsForgottenStep ==
  ASSUME Inv, Next, NoEntryIsForgotten
  PROVE  NoEntryIsForgotten'
<1>0. /\ TypeOK /\ Moves /\ MainLoop \in Loops
      /\ at'[MainLoop] \notin {"joining", "exited"} => Serving
  BY MovesOfStep, LeavingIsFinal DEF Inv, Loops, Serving
<1> SUFFICES ASSUME at'[MainLoop] \notin {"joining", "exited"}, NEW c \in Conns, Known(c)'
             PROVE  /\ state'[c] = "kConnecting" => OnTheWay("establish", c, owner[c])'
                    /\ state'[c] = "kDisconnecting" =>
                         OnTheWay("forceClose", c, owner[c])' \/ BeingClosed(c)'
                    /\ state'[c] = "kDisconnected" => BeingClosed(c)'
  BY DEF NoEntryIsForgotten, Serving
<1>1. CASE ~Known(c)
  <2>1. PICK f \in Fds : Accept(c, f)
    BY <1>0, <1>1, EntryKept DEF Known
  <2>2. /\ state'[c] = "kConnecting" /\ owner'[c] = NextLoop /\ NextLoop \in Loops
        /\ pending' = [pending EXCEPT ![NextLoop] = Append(@, Functor("establish", c))]
    BY <1>0, <2>1, AcceptEffect DEF Inv, TypeOK
  <2>3. PICK m \in Loops : m = NextLoop
    BY <2>2
  <2>4. OnTheWay("establish", c, m)'
    BY <1>0, <2>2, <2>3, JustQueued
  <2>5. OnTheWay("establish", c, owner[c])'
    BY <2>2, <2>3, <2>4 DEF OnTheWay
  <2> QED
    BY <2>2, <2>5
<1>2. CASE Known(c)
  <2>1. state[c] # "unborn" /\ owner[c] \in Loops
    BY <1>2 DEF Known, Inv, BirthInv, Loops
  <2>2. owner'[c] = owner[c] /\ state'[c] # "unborn"
    BY <1>0, <2>1, LifeGoesOn DEF Fixed
  <2>3. PICK m \in Loops : m = owner[c] /\ m = owner'[c]
    BY <2>1, <2>2
  <2>4. \A run : OnTheWay(run, c, m)' => OnTheWay(run, c, owner[c])'
    BY <2>3 DEF OnTheWay
  <2>5. /\ state[c] = "kConnecting" => OnTheWay("establish", c, m)
        /\ state[c] = "kDisconnecting" => OnTheWay("forceClose", c, m) \/ BeingClosed(c)
        /\ state[c] = "kDisconnected" => BeingClosed(c)
    BY <1>0, <1>2, <2>3 DEF NoEntryIsForgotten
  <2>6. ASSUME state'[c] = "kConnecting"
        PROVE  OnTheWay("establish", c, owner[c])'
    <3>1. state[c] = "kConnecting"
      BY <1>0, <2>1, <2>6 DEF Moves, StateStep, Down
    <3>2. ~Establish(m, c)
      BY <1>0, <2>6, EstablishEffect DEF TypeOK
    <3> QED
      BY <2>4, <2>5, <3>1, <3>2, OnTheWayKept
  <2>7. ASSUME state'[c] = "kDisconnecting"
        PROVE  OnTheWay("forceClose", c, owner[c])' \/ BeingClosed(c)'
    <3>1. CASE state[c] # "kDisconnecting"
      BY <2>7, <3>1, HowItCloses
    <3>2. CASE OnTheWay("forceClose", c, m)
      <4>1. ~ForceClose(m, c)
        BY <2>7, ForcedIsClosed
      <4> QED
        BY <2>4, <3>2, <4>1, OnTheWayKept
    <3>3. CASE BeingClosed(c)
      BY <3>3, BeingClosedKept
    <3> QED
      BY <2>5, <3>1, <3>2, <3>3
  <2>8. ASSUME state'[c] = "kDisconnected"
        PROVE  BeingClosed(c)'
    <3>1. CASE state[c] = "kDisconnected"
      BY <2>5, <3>1, BeingClosedKept
    <3>2. CASE state[c] # "kDisconnected"
      BY <2>8, <3>2, HowItCloses DEF BeingClosed
    <3> QED
      BY <3>1, <3>2
  <2> QED
    BY <2>6, <2>7, <2>8
<1> QED
  BY <1>1, <1>2

\* The safety that LeaversAreReleased rests on: however accepts, events, functors and
\* closes interleave, a connection that stays in connections_ is in service, or somebody
\* is about to establish, close or remove it.
THEOREM EntriesAreAttended ==
  ASSUME SubLoops # <<>>
  PROVE  SafeSpec => []NoEntryIsForgotten
<1>1. Init => NoEntryIsForgotten
  BY LoopsAssumption DEF Init, NoEntryIsForgotten, Known
<1>2. Inv /\ NoEntryIsForgotten /\ [Next]_vars => NoEntryIsForgotten'
  <2>1. ASSUME Inv, NoEntryIsForgotten, UNCHANGED vars
        PROVE  NoEntryIsForgotten'
    BY <2>1 DEF NoEntryIsForgotten, Serving, Known, OnTheWay, BeingClosed
  <2> QED
    BY <2>1, NoEntryIsForgottenStep
<1> QED
  BY <1>1, <1>2, InvAlways, PTL DEF SafeSpec
=============================================================================
