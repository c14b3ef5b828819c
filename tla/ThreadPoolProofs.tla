-------------------------- MODULE ThreadPoolProofs --------------------------
(***************************************************************************)
(* Theorems about the general thread pool, for any number of workers and   *)
(* of tasks: its types, that tasks are taken in the order in which they    *)
(* were added and each by one worker, and that every accepted task has run *)
(* when the destructor returns, although it sets stop_ without the mutex.  *)
(***************************************************************************)
EXTENDS ThreadPool, SequenceTheorems, FiniteSetTheorems, TLAPS

\* Taking the first task moves it from one end of the account to the other and leaves
\* the account as it is.
LEMMA MoveHead ==
  ASSUME NEW S, NEW d \in Seq(S), NEW s \in Seq(S), s # <<>>
  PROVE  Append(d, Head(s)) \o Tail(s) = d \o s
<1>1. Head(s) \in S /\ Tail(s) \in Seq(S) /\ Len(s) \in Nat \ {0}
  BY HeadTailProperties, EmptySeq
<1>2. s = <<Head(s)>> \o Tail(s)
  <2>1. SubSeq(s, 1, Len(s)) = <<s[1]>> \o SubSeq(s, 1 + 1, Len(s))
    BY <1>1, SubSeqRecursiveFirst
  <2>2. Head(s) = s[1] /\ Tail(s) = SubSeq(s, 1 + 1, Len(s))
    BY <1>1, TailIsSubSeq
  <2> QED
    BY <2>1, <2>2, SubSeqFull
<1>3. <<Head(s)>> \in Seq(S)
  BY <1>1
<1>4. Append(d, Head(s)) = d \o <<Head(s)>>
  BY <1>1, AppendIsConcat
<1>5. (d \o <<Head(s)>>) \o Tail(s) = d \o (<<Head(s)>> \o Tail(s))
  BY <1>1, <1>3, ConcatAssociative
<1> QED
  BY <1>2, <1>4, <1>5

\* Queueing at the back of the last part queues at the back of the whole.
LEMMA AppendToConcat ==
  ASSUME NEW S, NEW d \in Seq(S), NEW s \in Seq(S), NEW e \in S
  PROVE  d \o Append(s, e) = Append(d \o s, e)
<1>1. <<e>> \in Seq(S)
  OBVIOUS
<1>2. d \o Append(s, e) = d \o (s \o <<e>>)
  BY AppendIsConcat
<1>3. Append(d \o s, e) = (d \o s) \o <<e>>
  BY ConcatProperties, AppendIsConcat
<1> QED
  BY <1>1, <1>2, <1>3, ConcatAssociative

USE DEF vars, history, Threads

-----------------------------------------------------------------------------
(* Types, and what a thread's place in the program says about it. *)

\* The workers and the owner keep to their own parts of the program.
Places ==
  /\ pc[Owner] \in {"user", "add", "notify", "notifyAll", "join", "gone"}
  /\ \A w \in Workers :
       pc[w] \in {"loop", "lock", "test", "sleep", "take", "run", "add", "notify", "ended"}

\* Between lock and unlock the mutex is the worker's own, and what made the predicate
\* of wait() true stays true until the worker has taken its task.
Locked ==
  \A w \in Workers :
    /\ pc[w] \in {"test", "sleep", "take"} => mutex = w
    /\ pc[w] = "take" => stop \/ tasks # <<>>

\* Who is in addTask has a task to add, and who runs a task has that task.
Holding ==
  /\ \A p \in Threads : adding[p] # None <=> pc[p] \in {"add", "notify"}
  /\ \A w \in Workers : task[w] # None <=> pc[w] \in {"run", "add", "notify"}
  /\ task[Owner] = None

PlaceInv == TypeOK /\ Places /\ Locked /\ Holding

LEMMA PlaceInit == Init => PlaceInv
<1> SUFFICES ASSUME Init
             PROVE  PlaceInv
  OBVIOUS
<1>1. <<>> \in Seq(Tasks)
  BY EmptySeq
<1>2. TypeOK
  BY <1>1 DEF Init, TypeOK
<1> QED
  BY <1>2, WorkersAssumption DEF Init, PlaceInv, Places, Locked, Holding

LEMMA PlaceStep ==
  ASSUME PlaceInv, [Next]_vars
  PROVE  PlaceInv'
<1> USE WorkersAssumption DEF PlaceInv, Places, Locked, Holding, TypeOK, Goto
<1>1. ASSUME NEW p \in Threads, NEW t \in Tasks, AddTask(p, t)
      PROVE  PlaceInv'
  <2>1. CASE stop
    BY <1>1, <2>1 DEF AddTask
  <2>2. CASE ~stop
    <3>1. /\ adding' = [adding EXCEPT ![p] = t]
          /\ pc' = [pc EXCEPT ![p] = "add"]
          /\ pc[p] \in {"user", "run"}
          /\ UNCHANGED <<tasks, stop, mutex, waiting, task, history>>
      BY <1>1, <2>2 DEF AddTask
    <3>2. TypeOK' /\ Locked'
      BY <3>1
    <3>3. Places'
      BY <3>1
    <3>4. Holding'
      BY <3>1
    <3> QED
      BY <3>2, <3>3, <3>4
  <2> QED
    BY <2>1, <2>2
<1>2. ASSUME NEW p \in Threads, Enqueue(p)
      PROVE  PlaceInv'
  <2>1. adding[p] \in Tasks
    BY <1>2 DEF Enqueue
  <2>2. /\ tasks' \in Seq(Tasks) /\ tasks' # <<>>
        /\ added' \in Seq(Tasks)
    BY <1>2, <2>1, AppendProperties DEF Enqueue
  <2> QED
    BY <1>2, <2>2 DEF Enqueue
<1>3. ASSUME NEW p \in Threads, NotifyOne(p)
      PROVE  PlaceInv'
  BY <1>3 DEF NotifyOne
<1>4. ASSUME NEW w \in Workers, Loop(w)
      PROVE  PlaceInv'
  BY <1>4 DEF Loop
<1>5. ASSUME NEW w \in Workers, Lock(w)
      PROVE  PlaceInv'
  BY <1>5 DEF Lock
<1>6. ASSUME NEW w \in Workers, Test(w)
      PROVE  PlaceInv'
  BY <1>6 DEF Test
<1>7. ASSUME NEW w \in Workers, Sleep(w)
      PROVE  PlaceInv'
  BY <1>7 DEF Sleep
<1>8. ASSUME NEW w \in Workers, SpuriousWakeup(w)
      PROVE  PlaceInv'
  BY <1>8 DEF SpuriousWakeup
<1>9. ASSUME NEW w \in Workers, Take(w)
      PROVE  PlaceInv'
  <2>1. CASE stop /\ tasks = <<>>
    BY <1>9, <2>1 DEF Take
  <2>2. CASE ~(stop /\ tasks = <<>>)
    <3>1. tasks # <<>>
      BY <1>9, <2>2 DEF Take
    <3>2. Head(tasks) \in Tasks /\ Tail(tasks) \in Seq(Tasks)
      BY <3>1, HeadTailProperties
    <3>3. /\ mutex' = None
          /\ task' = [task EXCEPT ![w] = Head(tasks)]
          /\ begun' = Append(begun, Head(tasks))
          /\ tasks' = Tail(tasks)
          /\ pc' = [pc EXCEPT ![w] = "run"]
          /\ UNCHANGED <<stop, waiting, adding, added, refused, done>>
          /\ pc[w] = "take"
      BY <1>9, <2>2 DEF Take
    <3>4. begun \in Seq(Tasks)
      OBVIOUS
    <3>5. begun' \in Seq(Tasks)
      BY <3>2, <3>3, <3>4, AppendProperties
    <3>6. TypeOK'
      BY <3>2, <3>3, <3>5
    <3>7. Places' /\ Locked'
      BY <3>3
    <3>8. Holding'
      BY <3>2, <3>3
    <3> QED
      BY <3>6, <3>7, <3>8
  <2> QED
    BY <2>1, <2>2
<1>10. ASSUME NEW w \in Workers, TaskReturns(w)
       PROVE  PlaceInv'
  BY <1>10 DEF TaskReturns
<1>11. CASE Stop
  BY <1>11 DEF Stop
<1>12. CASE Destructor
  BY <1>12 DEF Destructor, NotifyAll, Join
<1>13. CASE UNCHANGED vars
  BY <1>13
<1> QED
  BY <1>1, <1>2, <1>3, <1>4, <1>5, <1>6, <1>7, <1>8, <1>9, <1>10, <1>11, <1>12, <1>13
  DEF Next, Worker, Adding

\* Every variable keeps its type: only tasks travel through the queue, and only
\* workers hold the mutex or sleep.
THEOREM TypeCorrect == SafeSpec => []TypeOK
<1>1. Init => PlaceInv
  BY PlaceInit
<1>2. PlaceInv /\ [Next]_vars => PlaceInv'
  BY PlaceStep
<1>3. PlaceInv => TypeOK
  BY DEF PlaceInv
<1> QED
  BY <1>1, <1>2, <1>3, PTL DEF SafeSpec

-----------------------------------------------------------------------------
(* Order. *)

\* Putting a task in puts nothing else in.
LEMMA ElementsOfAppend ==
  ASSUME NEW S, NEW s \in Seq(S), NEW e \in S
  PROVE  Elements(Append(s, e)) = Elements(s) \union {e}
<1>1. /\ Len(s) \in Nat /\ DOMAIN s = 1 .. Len(s)
      /\ DOMAIN Append(s, e) = 1 .. Len(s) + 1
      /\ \A i \in 1 .. Len(s) : Append(s, e)[i] = s[i]
      /\ Append(s, e)[Len(s) + 1] = e
  BY AppendProperties, LenProperties
<1>2. 1 .. Len(s) + 1 = (1 .. Len(s)) \union {Len(s) + 1}
  BY <1>1
<1> QED
  BY <1>1, <1>2 DEF Elements

Once(s) == \A i, j \in DOMAIN s : s[i] = s[j] => i = j

LEMMA OnceAppend ==
  ASSUME NEW S, NEW s \in Seq(S), NEW e \in S, Once(s), e \notin Elements(s)
  PROVE  Once(Append(s, e))
<1>1. /\ Len(s) \in Nat /\ DOMAIN s = 1 .. Len(s)
      /\ DOMAIN Append(s, e) = 1 .. Len(s) + 1
      /\ \A i \in 1 .. Len(s) : Append(s, e)[i] = s[i]
      /\ Append(s, e)[Len(s) + 1] = e
  BY AppendProperties, LenProperties
<1>2. \A i \in 1 .. Len(s) : s[i] # e
  BY <1>1 DEF Elements
<1>3. \A i \in 1 .. Len(s) + 1 : i \in 1 .. Len(s) \/ i = Len(s) + 1
  BY <1>1
<1> QED
  BY <1>1, <1>2, <1>3 DEF Once

\* What waits has not been taken.
LEMMA HeadIsNew ==
  ASSUME NEW S, NEW d \in Seq(S), NEW s \in Seq(S), s # <<>>, Once(d \o s)
  PROVE  Head(s) \notin Elements(d)
<1>1. /\ Len(d) \in Nat /\ DOMAIN d = 1 .. Len(d)
      /\ Len(s) \in Nat /\ Len(s) > 0 /\ Head(s) = s[1]
  BY LenProperties, EmptySeq
<1>2. /\ DOMAIN (d \o s) = 1 .. Len(d) + Len(s)
      /\ \A i \in 1 .. Len(d) + Len(s) : (d \o s)[i] = IF i <= Len(d) THEN d[i] ELSE s[i - Len(d)]
  BY ConcatProperties, LenProperties
<1>3. /\ Len(d) + 1 \in DOMAIN (d \o s)
      /\ (d \o s)[Len(d) + 1] = Head(s)
  BY <1>1, <1>2
<1>4. ASSUME NEW i \in 1 .. Len(d)
      PROVE  d[i] # Head(s)
  <2>1. /\ i \in DOMAIN (d \o s) /\ (d \o s)[i] = d[i]
        /\ i # Len(d) + 1
    BY <1>1, <1>2
  <2> QED
    BY <1>3, <2>1 DEF Once
<1> QED
  BY <1>1, <1>4 DEF Elements

\* Tasks are put in once each, and nobody adds or runs what another one does.
Ordered ==
  /\ begun \o tasks = added
  /\ Once(added)
  /\ \A p \in Threads : pc[p] = "add" => adding[p] \notin Elements(added)
  /\ \A p, q \in Threads : p # q /\ adding[p] # None => adding[p] # adding[q]
  /\ \A w \in Workers : task[w] # None => task[w] \in Elements(begun)
  /\ \A v, w \in Workers : v # w /\ task[v] # None => task[v] # task[w]

OrderInv == PlaceInv /\ Ordered

\* Steps that leave the queue alone and give nobody a task.
LEMMA OrderKept ==
  ASSUME Ordered, UNCHANGED <<begun, tasks, added>>,
         \A p \in Threads :
           /\ adding'[p] \in {adding[p], None}
           /\ task'[p] \in {task[p], None}
           /\ pc'[p] = "add" => pc[p] = "add" /\ adding'[p] = adding[p]
  PROVE  Ordered'
BY DEF Ordered

LEMMA OrderInit == Init => OrderInv
<1> SUFFICES ASSUME Init
             PROVE  OrderInv
  OBVIOUS
<1>1. /\ <<>> \o <<>> = <<>>
      /\ DOMAIN <<>> = {}
  OBVIOUS
<1> QED
  BY <1>1, PlaceInit, WorkersAssumption DEF Init, OrderInv, Ordered, Once

LEMMA OrderStep ==
  ASSUME OrderInv, [Next]_vars
  PROVE  Ordered'
<1> USE WorkersAssumption DEF OrderInv
<1>1. ASSUME NEW p \in Threads, NEW t \in Tasks, AddTask(p, t)
      PROVE  Ordered'
  <2>1. CASE stop
    BY <1>1, <2>1, OrderKept DEF AddTask
  <2>2. CASE ~stop
    <3>1. /\ adding' = [adding EXCEPT ![p] = t]
          /\ pc' = [pc EXCEPT ![p] = "add"]
          /\ UNCHANGED <<tasks, task, added, begun>>
      BY <1>1, <2>2 DEF AddTask, Goto
    <3>2. /\ t # None /\ t \notin Elements(added)
          /\ \A q \in Threads : t # adding[q]
      BY <1>1 DEF AddTask, New
    <3>3. /\ adding'[p] = t /\ pc'[p] = "add"
          /\ \A q \in Threads \ {p} : adding'[q] = adding[q] /\ pc'[q] = pc[q]
      BY <3>1 DEF PlaceInv, TypeOK
    <3> QED
      BY <3>1, <3>2, <3>3 DEF Ordered
  <2> QED
    BY <2>1, <2>2
<1>2. ASSUME NEW p \in Threads, Enqueue(p)
      PROVE  Ordered'
  <2> DEFINE e == adding[p]
  <2>1. /\ tasks \in Seq(Tasks) /\ added \in Seq(Tasks) /\ begun \in Seq(Tasks)
        /\ e \in Tasks
    BY <1>2 DEF Enqueue, PlaceInv, TypeOK, Holding
  <2>2. /\ tasks' = Append(tasks, e)
        /\ added' = Append(added, e)
        /\ pc'[p] = "notify"
        /\ \A q \in Threads \ {p} : pc'[q] = pc[q]
        /\ UNCHANGED <<adding, task, begun>>
        /\ pc[p] = "add"
    BY <1>2 DEF Enqueue, Goto, PlaceInv, TypeOK
  <2>3. e \notin Elements(added) /\ e # None
    BY <2>1, <2>2 DEF Ordered
  <2>4. begun \o tasks' = added'
    <3>1. begun \o Append(tasks, e) = Append(begun \o tasks, e)
      <4> HIDE DEF e
      <4> QED
        BY <2>1, AppendToConcat
    <3> QED
      BY <2>2, <3>1 DEF Ordered
  <2>5. Once(added')
    BY <2>1, <2>2, <2>3, OnceAppend DEF Ordered
  <2>6. Elements(added') = Elements(added) \union {e}
    BY <2>1, <2>2, ElementsOfAppend
  <2>7. ASSUME NEW q \in Threads, pc'[q] = "add"
        PROVE  adding'[q] \notin Elements(added')
    <3>1. q # p /\ pc[q] = "add"
      BY <2>2, <2>7
    <3>2. adding[q] # e /\ adding[q] \notin Elements(added)
      BY <2>3, <3>1 DEF Ordered
    <3> QED
      BY <2>2, <2>6, <3>2
  <2> QED
    BY <2>2, <2>4, <2>5, <2>7 DEF Ordered
<1>3. ASSUME NEW p \in Threads, NotifyOne(p)
      PROVE  Ordered'
  <2>1. \A q \in Threads : adding'[q] \in {adding[q], None} /\ (pc'[q] = "add" => pc[q] = "add" /\ adding'[q] = adding[q])
    BY <1>3 DEF NotifyOne, Goto, PlaceInv, TypeOK
  <2> QED
    BY <1>3, <2>1, OrderKept DEF NotifyOne
<1>4. ASSUME NEW w \in Workers, Loop(w) \/ Lock(w) \/ Test(w) \/ Sleep(w)
      PROVE  Ordered'
  <2>1. UNCHANGED <<begun, tasks, added, adding, task>>
    BY <1>4 DEF Loop, Lock, Test, Sleep
  <2>2. \A q \in Threads : pc'[q] = "add" => pc[q] = "add"
    BY <1>4 DEF Loop, Lock, Test, Sleep, Goto, PlaceInv, TypeOK
  <2> QED
    BY <2>1, <2>2, OrderKept
<1>5. ASSUME NEW w \in Workers, Take(w)
      PROVE  Ordered'
  <2>1. CASE stop /\ tasks = <<>>
    <3>1. UNCHANGED <<begun, tasks, added, adding, task>>
      BY <1>5, <2>1 DEF Take
    <3>2. \A q \in Threads : pc'[q] = "add" => pc[q] = "add"
      BY <1>5, <2>1 DEF Take, Goto, PlaceInv, TypeOK
    <3> QED
      BY <3>1, <3>2, OrderKept
  <2>2. CASE ~(stop /\ tasks = <<>>)
    <3>1. tasks # <<>>
      BY <1>5, <2>2 DEF Take, PlaceInv, Locked
    <3>2. /\ tasks \in Seq(Tasks) /\ begun \in Seq(Tasks)
          /\ Head(tasks) \in Tasks
      BY <3>1, HeadTailProperties DEF PlaceInv, TypeOK
    <3>3. /\ begun' = Append(begun, Head(tasks))
          /\ tasks' = Tail(tasks)
          /\ task'[w] = Head(tasks)
          /\ \A v \in Workers \ {w} : task'[v] = task[v]
          /\ \A q \in Threads : pc'[q] = "add" => pc[q] = "add"
          /\ UNCHANGED <<added, adding>>
      BY <1>5, <2>2 DEF Take, Goto, PlaceInv, TypeOK
    <3>4. begun' \o tasks' = added'
      BY <3>1, <3>2, <3>3, MoveHead DEF Ordered
    <3>5. Head(tasks) \notin Elements(begun)
      BY <3>1, <3>2, HeadIsNew DEF Ordered
    <3>6. Elements(begun') = Elements(begun) \union {Head(tasks)}
      BY <3>2, <3>3, ElementsOfAppend
    <3>7. Head(tasks) # None
      BY <3>2
    <3>8. \A v \in Workers : task'[v] # None => task'[v] \in Elements(begun')
      BY <3>3, <3>6 DEF Ordered
    <3>9. \A u, v \in Workers : u # v /\ task'[u] # None => task'[u] # task'[v]
      BY <3>3, <3>5, <3>7 DEF Ordered
    <3> QED
      BY <3>3, <3>4, <3>8, <3>9 DEF Ordered
  <2> QED
    BY <2>1, <2>2
<1>6. ASSUME NEW w \in Workers, TaskReturns(w)
      PROVE  Ordered'
  <2>1. \A q \in Threads : task'[q] \in {task[q], None} /\ (pc'[q] = "add" => pc[q] = "add")
    BY <1>6 DEF TaskReturns, Goto, PlaceInv, TypeOK
  <2> QED
    BY <1>6, <2>1, OrderKept DEF TaskReturns
<1>7. CASE Stop \/ Destructor
  <2>1. UNCHANGED <<begun, tasks, added, adding, task>>
    BY <1>7 DEF Stop, Destructor, NotifyAll, Join
  <2>2. \A q \in Threads : pc'[q] = "add" => pc[q] = "add"
    BY <1>7 DEF Stop, Destructor, NotifyAll, Join, Goto, PlaceInv, TypeOK
  <2> QED
    BY <2>1, <2>2, OrderKept
<1>8. CASE (\E w \in Workers : SpuriousWakeup(w)) \/ UNCHANGED vars
  <2>1. UNCHANGED <<begun, tasks, added, adding, task, pc>>
    BY <1>8 DEF SpuriousWakeup
  <2> QED
    BY <2>1, OrderKept
<1> QED
  BY <1>1, <1>2, <1>3, <1>4, <1>5, <1>6, <1>7, <1>8 DEF Next, Worker, Adding

\* Tasks are taken in the order in which they were added and each by one worker.
THEOREM TasksTakenInOrder == SafeSpec => []TakenInOrder
<1>1. Init => OrderInv
  BY OrderInit
<1>2. OrderInv /\ [Next]_vars => OrderInv'
  BY PlaceStep, OrderStep DEF OrderInv
<1>3. OrderInv => TakenInOrder
  BY DEF OrderInv, Ordered, TakenInOrder
<1> QED
  BY <1>1, <1>2, <1>3, PTL DEF SafeSpec

-----------------------------------------------------------------------------
(* The destructor. *)

\* stop_ is set when the destructor has begun.  A worker leaves after that and when
\* the queue is empty, so that somebody is there for the task another one adds.
Stopping ==
  /\ stop <=> pc[Owner] \in {"notifyAll", "join", "gone"}
  /\ (\E w \in Workers : pc[w] = "ended") => stop
  /\ tasks # <<>> => \E w \in Workers : pc[w] # "ended"
  /\ pc[Owner] = "gone" => \A w \in Workers : pc[w] = "ended"

\* What was taken has run or is being run.
Accounted == \A t \in Elements(begun) : t \in done \/ \E w \in Workers : task[w] = t

StopInv == OrderInv /\ Stopping /\ Accounted

LEMMA StopInit == Init => StopInv
<1> SUFFICES ASSUME Init
             PROVE  StopInv
  OBVIOUS
<1>1. Elements(<<>>) = {}
  BY DEF Elements
<1> QED
  BY <1>1, OrderInit, WorkersAssumption DEF Init, StopInv, Stopping, Accounted

\* Steps that leave alone what has been taken and what runs.
LEMMA StillAccounted ==
  ASSUME Accounted, UNCHANGED <<begun, done, task>>
  PROVE  Accounted'
BY DEF Accounted

\* Steps of the others leave the destructor alone, and nobody ends in them.
LEMMA StillStopping ==
  ASSUME Stopping, UNCHANGED <<tasks, stop>>,
         pc'[Owner] = pc[Owner] \/ {pc'[Owner], pc[Owner]} \subseteq {"user", "add", "notify"},
         \A w \in Workers : pc'[w] = "ended" <=> pc[w] = "ended"
  PROVE  Stopping'
BY DEF Stopping

LEMMA StopStep ==
  ASSUME StopInv, [Next]_vars
  PROVE  Stopping' /\ Accounted'
<1> USE WorkersAssumption DEF StopInv
<1>0. OrderInv
  OBVIOUS
<1>1. ASSUME NEW p \in Threads, NEW t \in Tasks, AddTask(p, t)
      PROVE  Stopping' /\ Accounted'
  <2>1. /\ UNCHANGED <<tasks, stop, begun, done, task>>
        /\ pc' = pc \/ pc' = [pc EXCEPT ![p] = "add"]
        /\ pc[p] \in {"user", "run"}
    BY <1>1 DEF AddTask, Goto
  <2>2. /\ pc'[Owner] = pc[Owner] \/ {pc'[Owner], pc[Owner]} \subseteq {"user", "add", "notify"}
        /\ \A w \in Workers : pc'[w] = "ended" <=> pc[w] = "ended"
    BY <2>1 DEF OrderInv, PlaceInv, Places, TypeOK
  <2> QED
    BY <2>1, <2>2, StillStopping, StillAccounted
<1>2. ASSUME NEW p \in Threads, Enqueue(p)
      PROVE  Stopping' /\ Accounted'
  <2>1. /\ UNCHANGED <<stop, begun, done, task>>
        /\ pc[p] = "add"
        /\ pc'[p] = "notify"
        /\ \A q \in Threads \ {p} : pc'[q] = pc[q]
    BY <1>2 DEF Enqueue, Goto, OrderInv, PlaceInv, TypeOK
  <2>2. \E w \in Workers : pc'[w] # "ended"
    <3>1. CASE p \in Workers
      BY <2>1, <3>1
    <3>2. CASE p = Owner
      <4>1. ~stop
        BY <2>1, <3>2 DEF Stopping
      <4> QED
        BY <2>1, <3>2, <4>1 DEF Stopping
    <3> QED
      BY <3>1, <3>2
  <2>3. Stopping'
    BY <2>1, <2>2 DEF Stopping
  <2> QED
    BY <2>1, <2>3, StillAccounted
<1>3. ASSUME NEW p \in Threads, NotifyOne(p)
      PROVE  Stopping' /\ Accounted'
  <2>1. /\ UNCHANGED <<tasks, stop, begun, done, task>>
        /\ pc[p] = "notify"
        /\ pc'[p] = IF p = Owner THEN "user" ELSE "run"
        /\ \A q \in Threads \ {p} : pc'[q] = pc[q]
    BY <1>3 DEF NotifyOne, Goto, OrderInv, PlaceInv, TypeOK
  <2> QED
    BY <2>1, StillStopping, StillAccounted
<1>4. ASSUME NEW w \in Workers, Lock(w) \/ Test(w) \/ Sleep(w)
      PROVE  Stopping' /\ Accounted'
  <2>1. /\ UNCHANGED <<tasks, stop, begun, done, task>>
        /\ pc[w] # "ended" /\ pc'[w] # "ended"
        /\ \A q \in Threads \ {w} : pc'[q] = pc[q]
    BY <1>4 DEF Lock, Test, Sleep, Goto, OrderInv, PlaceInv, TypeOK
  <2> QED
    BY <2>1, StillStopping, StillAccounted
<1>5. ASSUME NEW w \in Workers, Loop(w)
      PROVE  Stopping' /\ Accounted'
  <2>1. /\ UNCHANGED <<tasks, stop, begun, done, task>>
        /\ pc[w] # "ended"
        /\ pc'[w] = IF ~stop \/ tasks # <<>> THEN "lock" ELSE "ended"
        /\ \A q \in Threads \ {w} : pc'[q] = pc[q]
    BY <1>5 DEF Loop, Goto, OrderInv, PlaceInv, TypeOK
  <2>2. CASE ~stop \/ tasks # <<>>
    BY <2>1, <2>2, StillStopping, StillAccounted
  <2>3. CASE stop /\ tasks = <<>>
    BY <2>1, <2>3, StillAccounted DEF Stopping
  <2> QED
    BY <2>2, <2>3 DEF OrderInv, PlaceInv, TypeOK
<1>6. ASSUME NEW w \in Workers, Take(w)
      PROVE  Stopping' /\ Accounted'
  <2>1. CASE stop /\ tasks = <<>>
    <3>1. /\ UNCHANGED <<tasks, stop, begun, done, task>>
          /\ \A q \in Threads \ {w} : pc'[q] = pc[q]
          /\ pc'[w] = "ended"
      BY <1>6, <2>1 DEF Take, Goto, OrderInv, PlaceInv, TypeOK
    <3> QED
      BY <2>1, <3>1, StillAccounted DEF Stopping
  <2>2. CASE ~(stop /\ tasks = <<>>)
    <3>1. /\ UNCHANGED <<stop, done>>
          /\ pc[w] = "take" /\ task[w] = None
          /\ pc'[w] = "run"
          /\ \A q \in Threads \ {w} : pc'[q] = pc[q] /\ task'[q] = task[q]
          /\ begun' = Append(begun, Head(tasks))
          /\ task'[w] = Head(tasks)
      BY <1>6, <2>2 DEF Take, Goto, OrderInv, PlaceInv, TypeOK, Holding
    <3>2. Stopping'
      BY <3>1 DEF Stopping
    <3>3. Elements(begun') = Elements(begun) \union {Head(tasks)}
      <4>1. tasks # <<>> /\ tasks \in Seq(Tasks) /\ begun \in Seq(Tasks)
        BY <2>2, <3>1 DEF OrderInv, PlaceInv, TypeOK, Locked
      <4>2. Head(tasks) \in Tasks
        BY <4>1, HeadTailProperties
      <4> QED
        BY <3>1, <4>1, <4>2, ElementsOfAppend
    <3>4. \A t \in Elements(begun) : t # None
      BY DEF OrderInv, PlaceInv, TypeOK, Elements
    <3>5. Accounted'
      BY <3>1, <3>3, <3>4 DEF Accounted
    <3> QED
      BY <3>2, <3>5
  <2> QED
    BY <2>1, <2>2
<1>7. ASSUME NEW w \in Workers, TaskReturns(w)
      PROVE  Stopping' /\ Accounted'
  <2>1. /\ UNCHANGED <<tasks, stop, begun>>
        /\ done' = done \union {task[w]}
        /\ pc[w] = "run" /\ pc'[w] = "loop"
        /\ \A q \in Threads \ {w} : pc'[q] = pc[q] /\ task'[q] = task[q]
    BY <1>7 DEF TaskReturns, Goto, OrderInv, PlaceInv, TypeOK
  <2>2. Stopping'
    BY <2>1, StillStopping
  <2>3. Accounted'
    BY <2>1 DEF Accounted
  <2> QED
    BY <2>2, <2>3
<1>8. CASE Stop \/ NotifyAll
  <2>1. /\ UNCHANGED <<tasks, begun, done, task>>
        /\ stop' /\ pc'[Owner] \in {"notifyAll", "join"}
        /\ \A w \in Workers : pc'[w] = pc[w]
    BY <1>8 DEF Stop, NotifyAll, Goto, OrderInv, PlaceInv, TypeOK, Stopping
  <2> QED
    BY <2>1, StillAccounted DEF Stopping
<1>9. CASE Join
  <2>1. /\ UNCHANGED <<tasks, stop, begun, done, task>>
        /\ pc[Owner] = "join" /\ pc'[Owner] = "gone"
        /\ \A w \in Workers : pc'[w] = "ended" /\ pc[w] = "ended"
    BY <1>9 DEF Join, Goto, OrderInv, PlaceInv, TypeOK
  <2> QED
    BY <2>1, StillAccounted DEF Stopping
<1>10. CASE (\E w \in Workers : SpuriousWakeup(w)) \/ UNCHANGED vars
  <2>1. UNCHANGED <<tasks, stop, begun, done, task, pc>>
    BY <1>10 DEF SpuriousWakeup
  <2> QED
    BY <2>1, StillStopping, StillAccounted
<1> QED
  BY <1>1, <1>2, <1>3, <1>4, <1>5, <1>6, <1>7, <1>8, <1>9, <1>10
  DEF Next, Worker, Adding, Destructor

\* With every worker gone nothing waits, nothing runs and nobody is in addTask.
LEMMA AllHaveRun ==
  ASSUME StopInv
  PROVE  AcceptedHaveRun
<1> SUFFICES ASSUME pc[Owner] = "gone"
             PROVE  /\ Elements(added) \subseteq done
                    /\ \A p \in Threads : adding[p] = None
  BY DEF AcceptedHaveRun
<1> USE WorkersAssumption DEF StopInv, OrderInv, PlaceInv
<1>1. \A w \in Workers : pc[w] = "ended"
  BY DEF Stopping
<1>2. tasks = <<>> /\ \A w \in Workers : task[w] = None
  BY <1>1 DEF Stopping, Holding
<1>3. added = begun
  <2>1. begun \in Seq(Tasks) /\ begun \o tasks = added
    BY DEF TypeOK, Ordered
  <2> QED
    BY <1>2, <2>1, ConcatEmptySeq
<1>4. \A t \in Elements(begun) : t # None
  BY DEF TypeOK, Elements
<1>5. Elements(added) \subseteq done
  BY <1>2, <1>3, <1>4 DEF Accounted
<1> QED
  BY <1>1, <1>5 DEF Holding

\* When the destructor returns every accepted task has run, also those that running
\* tasks have added meanwhile.
THEOREM PoolDrains == SafeSpec => []AcceptedHaveRun
<1>1. Init => StopInv
  BY StopInit
<1>2. StopInv /\ [Next]_vars => StopInv'
  BY PlaceStep, OrderStep, StopStep DEF StopInv, OrderInv
<1>3. StopInv => AcceptedHaveRun
  BY AllHaveRun
<1> QED
  BY <1>1, <1>2, <1>3, PTL DEF SafeSpec
-----------------------------------------------------------------------------
(* Who sleeps while tasks wait. *)

\* Who will look at the queue without being woken, or is about to wake somebody.
Looking ==
  {p \in Threads : \/ pc[p] \in {"loop", "test", "take", "notify"}
                   \/ pc[p] = "lock" /\ p \notin waiting}

\* Workers sleep in wait(), where they get to only when the queue is empty.
Asleep ==
  /\ \A w \in waiting : pc[w] = "lock"
  /\ \A w \in Workers : pc[w] = "sleep" => tasks = <<>>

\* While a worker sleeps, every task in the queue has somebody of its own who is on the
\* way to it: no notify_one is wasted as long as there is somebody it could have woken.
NobodySleepsOnTasks == waiting # {} => Len(tasks) <= Cardinality(Looking)

AwakeInv == StopInv /\ Asleep /\ NobodySleepsOnTasks

LEMMA LookingIsFinite ==
  ASSUME IsFiniteSet(Workers)
  PROVE  IsFiniteSet(Looking) /\ Cardinality(Looking) \in Nat
<1>1. IsFiniteSet(Workers \union {Owner})
  BY FS_AddElement
<1>2. IsFiniteSet(Looking)
  BY <1>1, FS_Subset DEF Looking
<1> QED
  BY <1>2, FS_CardinalityType

\* Steps that leave the queue alone, wake whom they may and lose nobody.
LEMMA MoreLook ==
  ASSUME IsFiniteSet(Workers), AwakeInv,
         UNCHANGED tasks, waiting' \subseteq waiting, Looking \subseteq Looking'
  PROVE  NobodySleepsOnTasks'
<1>1. Cardinality(Looking) \in Nat /\ Cardinality(Looking') \in Nat /\ IsFiniteSet(Looking')
  <2>1. IsFiniteSet(Threads)
    BY FS_AddElement
  <2>2. Looking' \subseteq Threads
    BY DEF Looking
  <2> QED
    BY <2>1, <2>2, LookingIsFinite, FS_Subset, FS_CardinalityType
<1>2. Cardinality(Looking) <= Cardinality(Looking')
  BY <1>1, FS_Subset
<1>3. Len(tasks) \in Nat
  BY LenProperties DEF AwakeInv, StopInv, OrderInv, PlaceInv, TypeOK
<1> QED
  BY <1>1, <1>2, <1>3 DEF AwakeInv, NobodySleepsOnTasks

\* An empty queue asks for nobody.
LEMMA NothingToLookFor ==
  ASSUME IsFiniteSet(Workers), tasks' = <<>>
  PROVE  NobodySleepsOnTasks'
<1>1. IsFiniteSet(Threads)
  BY FS_AddElement
<1>2. Looking' \subseteq Threads
  BY DEF Looking
<1>3. Cardinality(Looking') \in Nat
  BY <1>1, <1>2, FS_Subset, FS_CardinalityType
<1>4. Len(tasks') = 0
  BY EmptySeq, LenProperties
<1> QED
  BY <1>3, <1>4 DEF NobodySleepsOnTasks

LEMMA AsleepStep ==
  ASSUME AwakeInv, [Next]_vars
  PROVE  Asleep'
<1> USE WorkersAssumption
    DEF AwakeInv, StopInv, OrderInv, PlaceInv, TypeOK, Places, Locked, Asleep, Goto
<1>1. ASSUME NEW p \in Threads, NEW t \in Tasks, AddTask(p, t)
      PROVE  Asleep'
  BY <1>1 DEF AddTask
<1>2. ASSUME NEW p \in Threads, Enqueue(p)
      PROVE  Asleep'
  BY <1>2 DEF Enqueue
<1>3. ASSUME NEW p \in Threads, NotifyOne(p)
      PROVE  Asleep'
  BY <1>3 DEF NotifyOne
<1>4. ASSUME NEW w \in Workers, Loop(w) \/ Lock(w) \/ Test(w) \/ Sleep(w) \/ SpuriousWakeup(w)
      PROVE  Asleep'
  BY <1>4 DEF Loop, Lock, Test, Sleep, SpuriousWakeup
<1>5. ASSUME NEW w \in Workers, Take(w)
      PROVE  Asleep'
  BY <1>5 DEF Take
<1>6. ASSUME NEW w \in Workers, TaskReturns(w)
      PROVE  Asleep'
  BY <1>6 DEF TaskReturns
<1>7. CASE Stop \/ Destructor \/ UNCHANGED vars
  BY <1>7 DEF Stop, Destructor, NotifyAll, Join
<1> QED
  BY <1>1, <1>2, <1>3, <1>4, <1>5, <1>6, <1>7 DEF Next, Worker, Adding

LEMMA AwakeStep ==
  ASSUME IsFiniteSet(Workers), AwakeInv, [Next]_vars
  PROVE  NobodySleepsOnTasks'
<1> DEFINE n == Cardinality(Looking)
<1>0. /\ IsFiniteSet(Looking) /\ n \in Nat
      /\ tasks \in Seq(Tasks) /\ Len(tasks) \in Nat
      /\ waiting # {} => Len(tasks) <= n
      /\ waiting \subseteq Workers
      /\ pc \in [Threads -> {"user", "add", "notify", "notifyAll", "join", "gone", "loop",
                             "lock", "test", "sleep", "take", "run", "ended"}]
      /\ Places /\ Locked /\ Asleep /\ Stopping
  BY LookingIsFinite, LenProperties
  DEF AwakeInv, StopInv, OrderInv, PlaceInv, TypeOK, NobodySleepsOnTasks
<1> HIDE DEF n
<1>1. ASSUME NEW p \in Threads, NEW t \in Tasks, AddTask(p, t)
      PROVE  NobodySleepsOnTasks'
  <2>1. UNCHANGED <<tasks, waiting>> /\ Looking \subseteq Looking'
    BY <1>0, <1>1 DEF AddTask, Goto, Looking
  <2> QED
    BY <2>1, MoreLook
<1>2. ASSUME NEW p \in Threads, Enqueue(p)
      PROVE  NobodySleepsOnTasks'
  <2>1. /\ Looking' = Looking \union {p} /\ p \notin Looking
        /\ UNCHANGED waiting
    BY <1>0, <1>2 DEF Enqueue, Goto, Looking
  <2>2. Len(tasks') = Len(tasks) + 1
    <3>1. adding[p] \in Tasks /\ tasks' = Append(tasks, adding[p])
      BY <1>2 DEF Enqueue, AwakeInv, StopInv, OrderInv, PlaceInv, TypeOK, Holding
    <3> QED
      BY <1>0, <3>1, AppendProperties
  <2>3. Cardinality(Looking') = n + 1
    BY <1>0, <2>1, FS_AddElement DEF n
  <2> QED
    BY <1>0, <2>1, <2>2, <2>3 DEF NobodySleepsOnTasks
<1>3. ASSUME NEW p \in Threads, NotifyOne(p)
      PROVE  NobodySleepsOnTasks'
  <2>1. CASE waiting = {}
    BY <1>3, <2>1 DEF NotifyOne, NobodySleepsOnTasks
  <2>2. CASE waiting # {}
    <3>1. PICK w \in waiting : waiting' = waiting \ {w}
      BY <1>3, <2>2 DEF NotifyOne
    <3>2. /\ p \in Looking /\ w \notin Looking /\ w # p
          /\ Looking' = (Looking \ {p}) \union {w}
          /\ UNCHANGED tasks
      BY <1>0, <1>3, <3>1 DEF NotifyOne, Goto, Looking, Asleep
    <3>3. IsFiniteSet(Looking \ {p}) /\ Cardinality(Looking \ {p}) = n - 1
      BY <1>0, <3>2, FS_RemoveElement DEF n
    <3>4. Cardinality((Looking \ {p}) \union {w}) = (n - 1) + 1
      <4>1. w \notin Looking \ {p}
        BY <3>2
      <4> QED
        BY <3>3, <4>1, FS_AddElement
    <3>5. Cardinality(Looking') = n
      BY <1>0, <3>2, <3>4
    <3> QED
      BY <1>0, <2>2, <3>2, <3>5 DEF NobodySleepsOnTasks
  <2> QED
    BY <2>1, <2>2
<1>4. ASSUME NEW w \in Workers, Loop(w)
      PROVE  NobodySleepsOnTasks'
  <2>1. CASE ~stop \/ tasks # <<>>
    <3>1. UNCHANGED <<tasks, waiting>> /\ Looking \subseteq Looking'
      BY <1>0, <1>4, <2>1 DEF Loop, Goto, Looking, Asleep
    <3> QED
      BY <3>1, MoreLook
  <2>2. CASE tasks = <<>>
    BY <1>4, <2>2, NothingToLookFor DEF Loop
  <2> QED
    BY <2>1, <2>2
<1>5. ASSUME NEW w \in Workers, Lock(w) \/ SpuriousWakeup(w) \/ TaskReturns(w)
      PROVE  NobodySleepsOnTasks'
  <2>1. UNCHANGED tasks /\ waiting' \subseteq waiting /\ Looking \subseteq Looking'
    BY <1>0, <1>5 DEF Lock, SpuriousWakeup, TaskReturns, Goto, Looking, Asleep
  <2> QED
    BY <2>1, MoreLook
<1>6. ASSUME NEW w \in Workers, Test(w)
      PROVE  NobodySleepsOnTasks'
  <2>1. CASE stop \/ tasks # <<>>
    <3>1. UNCHANGED <<tasks, waiting>> /\ Looking \subseteq Looking'
      BY <1>0, <1>6, <2>1 DEF Test, Goto, Looking
    <3> QED
      BY <3>1, MoreLook
  <2>2. CASE tasks = <<>>
    BY <1>6, <2>2, NothingToLookFor DEF Test
  <2> QED
    BY <2>1, <2>2
<1>7. ASSUME NEW w \in Workers, Sleep(w)
      PROVE  NobodySleepsOnTasks'
  <2>1. tasks' = <<>>
    BY <1>0, <1>7 DEF Sleep, Asleep
  <2> QED
    BY <2>1, NothingToLookFor
<1>8. ASSUME NEW w \in Workers, Take(w)
      PROVE  NobodySleepsOnTasks'
  <2>1. CASE tasks = <<>>
    <3>1. tasks' = <<>>
      BY <1>0, <1>8, <2>1 DEF Take, Locked
    <3> QED
      BY <3>1, NothingToLookFor
  <2>2. CASE tasks # <<>>
    <3>1. /\ w \in Looking /\ Looking' = Looking \ {w}
          /\ tasks' = Tail(tasks)
          /\ UNCHANGED waiting
      BY <1>0, <1>8, <2>2 DEF Take, Goto, Looking
    <3>2. Len(tasks') = Len(tasks) - 1
      BY <1>0, <2>2, <3>1, HeadTailProperties
    <3>3. Cardinality(Looking') = n - 1
      BY <1>0, <3>1, FS_RemoveElement DEF n
    <3> QED
      BY <1>0, <3>1, <3>2, <3>3, SMTT(30) DEF NobodySleepsOnTasks
  <2> QED
    BY <2>1, <2>2
<1>9. CASE Stop \/ Destructor \/ UNCHANGED vars
  <2>1. UNCHANGED tasks /\ waiting' \subseteq waiting /\ Looking \subseteq Looking'
    BY <1>0, <1>9, WorkersAssumption
    DEF Stop, Destructor, NotifyAll, Join, Goto, Looking, Asleep, Places
  <2> QED
    BY <2>1, MoreLook
<1> QED
  BY <1>1, <1>2, <1>3, <1>4, <1>5, <1>6, <1>7, <1>8, <1>9 DEF Next, Worker, Adding

\* A worker sleeps only while there is no task, or as many others are already on their way
\* to the queue: notify_one outside the mutex, to nobody or to a worker that finds the
\* queue empty, never leaves a task to a worker that sleeps.
THEOREM PoolIsAwake ==
  ASSUME IsFiniteSet(Workers)
  PROVE  SafeSpec => []NobodySleepsOnTasks
<1>1. Init => AwakeInv
  <2> SUFFICES ASSUME Init
               PROVE  AwakeInv
    OBVIOUS
  <2>1. waiting = {} /\ \A w \in Workers : pc[w] = "loop"
    BY WorkersAssumption DEF Init
  <2> QED
    BY <2>1, StopInit DEF AwakeInv, Asleep, NobodySleepsOnTasks
<1>2. AwakeInv /\ [Next]_vars => AwakeInv'
  BY PlaceStep, OrderStep, StopStep, AsleepStep, AwakeStep DEF AwakeInv, StopInv, OrderInv
<1>3. AwakeInv => NobodySleepsOnTasks
  BY DEF AwakeInv
<1> QED
  BY <1>1, <1>2, <1>3, PTL DEF SafeSpec
=============================================================================
