----------------------------- MODULE WatchWorkerProofs -----------------------------
(* The worker of a context watch keeps its contract, on its own and under the watch, for     *)
(* every number of threads, callers and tasks: WatchWorker implements SerialWorker.  And the    *)
(* watch over it keeps its type, and answers: what it follows is found, was missed by a           *)
(* retrieval that failed, or is still being looked for, and the last request asked for is the       *)
(* current one.                                                                                        *)
EXTENDS ContextWatch, FiniteSetTheorems, SequenceTheorems, TLAPS

(* A thread that is not over is the one that _thread names, so there is one at most.           *)
Sole == \A w \in Threads : ~On(w, "off") => thread = w
Holds(w) == On(w, "got") \/ On(w, "run")
TaskInHand == \A w \in Threads : Holds(w) => worker[w].task \in Tasks
(* While a stop() is on, no thread but the one it read is started.                              *)
StopsOne == \A c \in All : stop[c].pc # "no" => stopped /\ thread \in {stop[c].thread, NoThread}
NothingAfter == over => stopped /\ \A w \in Threads : On(w, "off")
(* The latest task that was taken off the queue.                                                *)
Taken == submitted - Len(queue)
Got == {w \in Threads : On(w, "got")}
(* As long as nobody stops it the queue holds the tasks after the one taken last, in order,       *)
(* and that has run unless the thread has it in hand.                                              *)
InOrder ==
    ~stopped => /\ \A i \in 1..Len(queue) : queue[i] = Taken + i
                /\ Taken = IF Got = {} THEN ran ELSE ran + 1
                /\ \A w \in Got : worker[w].task = ran + 1

IInv == WorkerTypeOK /\ Sole /\ TaskInHand /\ StopsOne /\ NothingAfter /\ InOrder

----------------------------------------------------------------------------
(* What Take and Drain leave of a queue, and what Behind makes of it.                             *)
LEMMA TailOf ==
    ASSUME NEW S, NEW q \in Seq(S), q # <<>>
    PROVE  /\ Head(q) \in S /\ Head(q) = q[1] /\ Tail(q) \in Seq(S)
           /\ Len(q) \in Nat \ {0} /\ Len(Tail(q)) = Len(q) - 1
           /\ \A i \in 1..Len(Tail(q)) : Tail(q)[i] = q[i + 1]
OBVIOUS

LEMMA AppendTo ==
    ASSUME NEW S, NEW q \in Seq(S), NEW x \in S
    PROVE  /\ Append(q, x) \in Seq(S) /\ Len(q) \in Nat /\ Len(Append(q, x)) = Len(q) + 1
           /\ \A i \in 1..Len(q) : Append(q, x)[i] = q[i]
           /\ Append(q, x)[Len(q) + 1] = x
OBVIOUS

LEMMA Records == /\ Off \in Worker /\ Idle \in Worker /\ NotStopping \in Stop
                 /\ [Idle EXCEPT !.pc = "leave"] \in Worker /\ [Idle EXCEPT !.pc = "empty"] \in Worker
                 /\ [Idle EXCEPT !.pc = "leave"].pc = "leave" /\ [Idle EXCEPT !.pc = "empty"].pc = "empty"
                 /\ Off.pc = "off" /\ Idle.pc = "take" /\ NotStopping.pc = "no"
BY DEF Off, Idle, NotStopping, Worker, Stop

LEMMA NothingTaken == ASSUME submitted = 0, Len(queue) = 0 PROVE Taken = 0
BY DEF Taken

LEMMA InitOK == WorkerInit => IInv
<1> SUFFICES ASSUME WorkerInit PROVE IInv  OBVIOUS
<1>1. <<>> \in Seq(Tasks \cup {Wake}) /\ Len(<<>>) = 0 /\ 0 \in 0..MaxTasks  BY TaskAssumption
<1>2. WorkerTypeOK  BY <1>1, Records DEF WorkerTypeOK, WorkerInit
<1>3. Sole /\ TaskInHand /\ Got = {}  BY Records DEF Sole, TaskInHand, Holds, On, Got, WorkerInit
<1>4. StopsOne /\ NothingAfter  BY Records DEF StopsOne, NothingAfter, WorkerInit
<1>5. Len(queue) = 0 /\ submitted = 0 /\ ran = 0  BY <1>1 DEF WorkerInit
<1>6. Taken = 0  BY <1>5, NothingTaken
<1>7. InOrder  BY <1>3, <1>5, <1>6 DEF InOrder
<1>. QED  BY <1>2, <1>3, <1>4, <1>7 DEF IInv

----------------------------------------------------------------------------
(* Steps of one thread: w becomes r.  What the invariant asks of r.                               *)
LEMMA OneBecomes ==
    ASSUME WorkerTypeOK, NEW w \in Threads, NEW r \in Worker, Set(w, r)
    PROVE  /\ worker' \in [Threads -> Worker]
           /\ worker'[w] = r
           /\ \A v \in Threads \ {w} : worker'[v] = worker[v]
BY DEF WorkerTypeOK, Set

(* While w lives it is the only one, and a step of it keeps what is said of the threads.         *)
LEMMA OneLives ==
    ASSUME IInv, NEW w \in Threads, ~On(w, "off")
    PROVE  /\ thread = w /\ ~over
           /\ \A v \in Threads \ {w} : On(v, "off")
BY DEF IInv, Sole, NothingAfter

LEMMA LivingStep ==
    ASSUME IInv, NEW w \in Threads, ~On(w, "off"), NEW r \in Worker, Set(w, r),
           r.pc \in {"got", "run"} => r.task \in Tasks,
           thread' = IF r.pc = "off" THEN NoThread ELSE thread, over' = over
    PROVE  /\ worker' \in [Threads -> Worker] /\ thread' \in Threads \cup {NoThread}
           /\ Sole' /\ TaskInHand' /\ NothingAfter'
<1>. WorkerTypeOK  BY DEF IInv
<1>1. /\ worker' \in [Threads -> Worker] /\ worker'[w] = r
      /\ \A v \in Threads \ {w} : worker'[v] = worker[v]
  BY OneBecomes
<1>2. /\ thread = w /\ ~over /\ \A v \in Threads \ {w} : On(v, "off")
  BY OneLives
<1>3. Sole'  BY <1>1, <1>2 DEF Sole, On
<1>4. TaskInHand'  BY <1>1, <1>2 DEF TaskInHand, Holds, On
<1>. QED  BY <1>1, <1>2, <1>3, <1>4 DEF NothingAfter

(* What InOrder asks of a step that keeps the tasks in hand and appends at most.                 *)
SameHands == Got' = Got /\ \A w \in Got : worker'[w].task = worker[w].task

LEMMA SubmitOK == IInv /\ Submit => IInv'
<1> SUFFICES ASSUME IInv, Submit PROVE IInv'  OBVIOUS
<1> DEFINE t == submitted + 1
<1>. WorkerTypeOK  BY DEF IInv
<1>1. /\ t \in Tasks /\ submitted' = t /\ submitted' \in 0..MaxTasks
      /\ stopped' = stopped /\ stop' = stop /\ ran' = ran /\ over' = over
  BY TaskAssumption DEF Submit, WorkerTypeOK, Tasks
<1>2. fate' \in [Tasks -> {"none", "waits", "runs"} \cup Finished]
  BY <1>1 DEF Submit, WorkerTypeOK, Finished
<1>. HIDE DEF t
<1>3. CASE stopped
  <2>1. UNCHANGED <<queue, thread, worker>>  BY <1>3 DEF Submit
  <2>2. WorkerTypeOK'  BY <1>1, <1>2, <2>1 DEF WorkerTypeOK
  <2>3. Sole' /\ TaskInHand' /\ StopsOne' /\ NothingAfter'
    BY <1>1, <2>1 DEF IInv, Sole, TaskInHand, StopsOne, NothingAfter, Holds, On
  <2>4. InOrder'  BY <1>1, <1>3 DEF InOrder
  <2>. QED  BY <2>2, <2>3, <2>4 DEF IInv
<1>4. CASE ~stopped
  <2>1. queue' = Append(queue, t)  BY <1>4 DEF Submit, Behind, t
  <2>2. queue \in Seq(Tasks \cup {Wake}) /\ t \in Tasks \cup {Wake}  BY <1>1 DEF WorkerTypeOK
  <2>3. /\ queue' \in Seq(Tasks \cup {Wake}) /\ Len(queue) \in Nat /\ Len(queue') = Len(queue) + 1
        /\ \A i \in 1..Len(queue) : queue'[i] = queue[i]
        /\ queue'[Len(queue) + 1] = t
    BY <2>1, <2>2, AppendTo
  <2>4. submitted \in Nat /\ Taken' = Taken /\ t = Taken + Len(queue) + 1
    BY <1>1, <2>3 DEF Taken, WorkerTypeOK, t
  <2>5. ASSUME SameHands PROVE InOrder'
    <3>1. \A i \in 1..Len(queue') : queue'[i] = Taken' + i
      <4> SUFFICES ASSUME NEW i \in 1..Len(queue') PROVE queue'[i] = Taken' + i  OBVIOUS
      <4>1. CASE i \in 1..Len(queue)  BY <1>4, <2>3, <2>4, <4>1 DEF IInv, InOrder
      <4>2. CASE i = Len(queue) + 1  BY <2>3, <2>4, <4>2 DEF Taken, WorkerTypeOK
      <4>. QED  BY <2>3, <4>1, <4>2
    <3>2. Taken = (IF Got = {} THEN ran ELSE ran + 1) /\ \A w \in Got : worker[w].task = ran + 1
      BY <1>4 DEF IInv, InOrder
    <3>3. /\ Taken' = (IF Got' = {} THEN ran' ELSE ran' + 1)
          /\ \A w \in Got' : worker'[w].task = ran' + 1
      BY <1>1, <2>4, <2>5, <3>2 DEF SameHands
    <3>. QED  BY <3>1, <3>3 DEF InOrder
  <2>6. CASE NeedsThread
    <3> DEFINE w == NewThread
    <3>1. \A v \in Threads : On(v, "off")
      BY <2>6, ThreadAssumption DEF NeedsThread, Alive, IInv, Sole
    <3>2. w \in Threads /\ On(w, "off")  BY <3>1, ThreadAssumption DEF NewThread
    <3>3. Set(w, Idle) /\ thread' = w  BY <1>4, <2>6 DEF Submit
    <3>. HIDE DEF w
    <3>4. /\ worker' \in [Threads -> Worker] /\ worker'[w] = Idle
          /\ \A v \in Threads \ {w} : worker'[v] = worker[v]
      BY <3>2, <3>3, Records, OneBecomes
    <3>5. WorkerTypeOK'  BY <1>1, <1>2, <2>3, <3>2, <3>3, <3>4 DEF WorkerTypeOK
    <3>6. Sole' /\ TaskInHand'
      BY <3>1, <3>2, <3>3, <3>4, Records DEF Sole, TaskInHand, Holds, On
    <3>7. StopsOne' /\ NothingAfter'  BY <1>1, <1>4 DEF IInv, StopsOne, NothingAfter
    <3>8. SameHands
      BY <3>1, <3>2, <3>4, Records DEF SameHands, Got, On
    <3>. QED  BY <2>5, <3>5, <3>6, <3>7, <3>8 DEF IInv
  <2>7. CASE ~NeedsThread
    <3>1. UNCHANGED <<thread, worker>>  BY <1>4, <2>7 DEF Submit
    <3>2. WorkerTypeOK'  BY <1>1, <1>2, <2>3, <3>1 DEF WorkerTypeOK
    <3>3. Sole' /\ TaskInHand' /\ StopsOne' /\ NothingAfter'
      BY <1>1, <3>1 DEF IInv, Sole, TaskInHand, StopsOne, NothingAfter, Holds, On
    <3>4. SameHands  BY <3>1 DEF SameHands, Got, On
    <3>. QED  BY <2>5, <3>2, <3>3, <3>4 DEF IInv
  <2>. QED  BY <2>6, <2>7
<1>. QED  BY <1>3, <1>4

(* The steps of the loop that leave the queue alone and take no task in hand.                      *)
LEMMA TireOK == ASSUME IInv, NEW w \in Threads, Tire(w) PROVE IInv'
<1>. WorkerTypeOK  BY DEF IInv
<1> DEFINE r == [Idle EXCEPT !.pc = "empty"]
<1>1. On(w, "take") /\ Set(w, r) /\ UNCHANGED <<submitted, queue, thread, stopped, fate, stop, ran, over>>
  BY DEF Tire
<1>2. ~On(w, "off") /\ r \in Worker /\ r.pc = "empty"  BY <1>1, Records DEF On
<1>. HIDE DEF r
<1>3. /\ worker' \in [Threads -> Worker] /\ thread' \in Threads \cup {NoThread}
      /\ Sole' /\ TaskInHand' /\ NothingAfter'
  BY <1>1, <1>2, LivingStep
<1>4. WorkerTypeOK'  BY <1>1, <1>3 DEF WorkerTypeOK
<1>5. StopsOne'  BY <1>1 DEF IInv, StopsOne
<1>6. SameHands  BY <1>1, <1>2, OneBecomes DEF SameHands, Got, On
<1>7. InOrder'  BY <1>1, <1>6 DEF IInv, InOrder, SameHands, Taken
<1>. QED  BY <1>3, <1>4, <1>5, <1>7 DEF IInv

LEMMA ExitOK == ASSUME IInv, NEW w \in Threads, Exit(w) PROVE IInv'
<1>. WorkerTypeOK  BY DEF IInv
<1> DEFINE r == worker'[w]
<1>1. /\ On(w, "leave") \/ On(w, "empty")
      /\ \/ Set(w, Off) /\ thread' = NoThread
         \/ Set(w, Idle) /\ thread' = thread
      /\ UNCHANGED <<submitted, queue, stopped, fate, stop, ran, over>>
  BY DEF Exit
<1>2. ~On(w, "off") /\ ~On(w, "got")  BY <1>1 DEF On
<1>3. r \in Worker /\ Set(w, r) /\ r.pc \in {"off", "take"} /\ thread' = IF r.pc = "off" THEN NoThread ELSE thread
  BY <1>1, Records DEF Set, WorkerTypeOK
<1>. HIDE DEF r
<1>4. /\ worker' \in [Threads -> Worker] /\ thread' \in Threads \cup {NoThread}
      /\ Sole' /\ TaskInHand' /\ NothingAfter'
  BY <1>1, <1>2, <1>3, LivingStep
<1>5. WorkerTypeOK'  BY <1>1, <1>4 DEF WorkerTypeOK
<1>6. StopsOne'  BY <1>1 DEF IInv, StopsOne, Set
<1>7. SameHands  BY <1>1, <1>2, <1>3, OneBecomes DEF SameHands, Got, On
<1>8. InOrder'  BY <1>1, <1>7 DEF IInv, InOrder, SameHands, Taken
<1>. QED  BY <1>4, <1>5, <1>6, <1>8 DEF IInv

LEMMA ReturnOK == ASSUME IInv, NEW w \in Threads, Return(w) PROVE IInv'
<1>. WorkerTypeOK  BY DEF IInv
<1>1. On(w, "after") /\ Set(w, Idle) /\ UNCHANGED <<submitted, queue, thread, stopped, fate, stop, ran, over>>
  BY DEF Return
<1>2. ~On(w, "off")  BY <1>1 DEF On
<1>3. /\ worker' \in [Threads -> Worker] /\ thread' \in Threads \cup {NoThread}
      /\ Sole' /\ TaskInHand' /\ NothingAfter'
  BY <1>1, <1>2, Records, LivingStep
<1>4. WorkerTypeOK'  BY <1>1, <1>3 DEF WorkerTypeOK
<1>5. StopsOne'  BY <1>1 DEF IInv, StopsOne
<1>6. SameHands  BY <1>1, Records, OneBecomes DEF SameHands, Got, On
<1>7. InOrder'  BY <1>1, <1>6 DEF IInv, InOrder, SameHands, Taken
<1>. QED  BY <1>3, <1>4, <1>5, <1>7 DEF IInv

LEMMA TakeOK == ASSUME IInv, NEW w \in Threads, Take(w) PROVE IInv'
<1>. WorkerTypeOK  BY DEF IInv
<1> DEFINE r == IF Head(queue) = Wake THEN [Idle EXCEPT !.pc = "leave"] ELSE [pc |-> "got", task |-> Head(queue)]
<1>1. /\ On(w, "take") /\ queue # <<>> /\ queue' = Tail(queue) /\ Set(w, r)
      /\ UNCHANGED <<submitted, thread, stopped, fate, stop, ran, over>>
  BY DEF Take
<1>2. queue \in Seq(Tasks \cup {Wake})  BY DEF WorkerTypeOK
<1>3. /\ Head(queue) \in Tasks \cup {Wake} /\ Head(queue) = queue[1] /\ queue' \in Seq(Tasks \cup {Wake})
      /\ Len(queue) \in Nat \ {0} /\ Len(queue') = Len(queue) - 1
      /\ \A i \in 1..Len(queue') : queue'[i] = queue[i + 1]
  BY <1>1, <1>2, TailOf
<1>4. /\ r \in Worker /\ r.pc \in {"leave", "got"}
      /\ r.pc = "got" => r.task = Head(queue) /\ Head(queue) # Wake
      /\ Head(queue) # Wake => r.pc = "got"
  BY <1>3, Records DEF Worker
<1>5. ~On(w, "off")  BY <1>1 DEF On
<1>. HIDE DEF r
<1>6. /\ worker' \in [Threads -> Worker] /\ thread' \in Threads \cup {NoThread}
      /\ Sole' /\ TaskInHand' /\ NothingAfter'
  BY <1>1, <1>3, <1>4, <1>5, LivingStep DEF Wake
<1>7. WorkerTypeOK'  BY <1>1, <1>3, <1>6 DEF WorkerTypeOK
<1>8. StopsOne'  BY <1>1 DEF IInv, StopsOne
<1>9. InOrder'
  <2> SUFFICES ASSUME ~stopped PROVE InOrder'  BY <1>1 DEF InOrder
  <2>1. submitted \in Nat /\ ran \in Nat /\ Taken \in Int /\ Taken' = Taken + 1
    BY <1>1, <1>3, TaskAssumption DEF Taken, WorkerTypeOK
  <2>2. w \notin Got /\ \A v \in Threads \ {w} : v \notin Got
    BY <1>1, <1>5, OneLives DEF Got, On
  <2>3. Taken = ran /\ \A i \in 1..Len(queue) : queue[i] = Taken + i
    BY <2>2 DEF IInv, InOrder, Got
  <2>4. Head(queue) = ran + 1 /\ Head(queue) # Wake  BY <1>3, <2>1, <2>3 DEF Wake
  <2>5. worker'[w].pc = "got" /\ worker'[w].task = ran + 1 /\ \A v \in Threads \ {w} : worker'[v] = worker[v]
    BY <1>1, <1>4, <2>4, OneBecomes
  <2>6. Got' = {w}  BY <2>2, <2>5 DEF Got, On
  <2>7. \A i \in 1..Len(queue') : queue'[i] = Taken' + i  BY <1>3, <2>1, <2>3
  <2>. QED  BY <1>1, <2>1, <2>3, <2>5, <2>6, <2>7 DEF InOrder
<1>. QED  BY <1>6, <1>7, <1>8, <1>9 DEF IInv

LEMMA RunOK == ASSUME IInv, NEW w \in Threads, Run(w) PROVE IInv'
<1>. WorkerTypeOK  BY DEF IInv
<1> DEFINE t == worker[w].task
           r == [pc |-> "run", task |-> t]
<1>1. /\ On(w, "got") /\ ~stopped /\ Set(w, r) /\ fate' = [fate EXCEPT ![t] = "runs"] /\ ran' = t
      /\ UNCHANGED <<submitted, queue, thread, stopped, stop, over>>
  BY DEF Run, MayRun
<1>2. t \in Tasks  BY <1>1 DEF IInv, TaskInHand, Holds
<1>3. r \in Worker /\ r.pc = "run" /\ r.task = t /\ ~On(w, "off")  BY <1>1, <1>2 DEF Worker, On
<1>4. w \in Got /\ t = ran + 1 /\ Taken = ran + 1  BY <1>1 DEF IInv, InOrder, Got
<1>. HIDE DEF r, t
<1>5. /\ worker' \in [Threads -> Worker] /\ thread' \in Threads \cup {NoThread}
      /\ Sole' /\ TaskInHand' /\ NothingAfter'
  BY <1>1, <1>2, <1>3, LivingStep
<1>6. fate' \in [Tasks -> {"none", "waits", "runs"} \cup Finished]  BY <1>1, <1>2 DEF WorkerTypeOK
<1>7. ran' \in 0..MaxTasks  BY <1>1, <1>2, TaskAssumption DEF Tasks
<1>8. WorkerTypeOK'  BY <1>1, <1>5, <1>6, <1>7 DEF WorkerTypeOK
<1>9. StopsOne'  BY <1>1 DEF IInv, StopsOne
<1>10. InOrder'
  <2>1. \A v \in Threads \ {w} : v \notin Got  BY <1>3, OneLives DEF Got, On
  <2>2. Got' = {}  BY <1>1, <1>3, <2>1, OneBecomes DEF Got, On
  <2>3. Taken' = Taken /\ \A i \in 1..Len(queue) : queue[i] = Taken + i
    BY <1>1 DEF IInv, InOrder, Taken
  <2>. QED  BY <1>1, <1>4, <2>2, <2>3 DEF InOrder
<1>. QED  BY <1>5, <1>8, <1>9, <1>10 DEF IInv

(* A future is settled, by the result of its task or because its task is dropped.                  *)
LEMMA SettledOK ==
    ASSUME IInv, NEW w \in Threads, NEW how \in Finished, Finish(w, how) \/ (Drop(w) /\ how = "cancelled")
    PROVE  IInv'
<1>. WorkerTypeOK  BY DEF IInv
<1> DEFINE t == worker[w].task
           r == [pc |-> "after", task |-> t]
<1>1. /\ On(w, "run") \/ (On(w, "got") /\ stopped)
      /\ Set(w, r) /\ fate' = [fate EXCEPT ![t] = how]
      /\ UNCHANGED <<submitted, queue, thread, stopped, stop, ran, over>>
  BY DEF Finish, Drop, MayRun
<1>2. t \in Tasks  BY <1>1 DEF IInv, TaskInHand, Holds
<1>3. r \in Worker /\ r.pc = "after" /\ ~On(w, "off")  BY <1>1, <1>2 DEF Worker, On
<1>. HIDE DEF r, t
<1>4. /\ worker' \in [Threads -> Worker] /\ thread' \in Threads \cup {NoThread}
      /\ Sole' /\ TaskInHand' /\ NothingAfter'
  BY <1>1, <1>2, <1>3, LivingStep
<1>5. fate' \in [Tasks -> {"none", "waits", "runs"} \cup Finished]  BY <1>1, <1>2 DEF WorkerTypeOK
<1>6. WorkerTypeOK'  BY <1>1, <1>4, <1>5 DEF WorkerTypeOK
<1>7. StopsOne'  BY <1>1 DEF IInv, StopsOne
<1>8. InOrder'
  <2>1. CASE stopped  BY <1>1, <2>1 DEF InOrder
  <2>2. CASE On(w, "run")
    <3>1. SameHands  BY <1>1, <1>3, <2>2, OneBecomes DEF SameHands, Got, On
    <3>. QED  BY <1>1, <3>1 DEF IInv, InOrder, SameHands, Taken
  <2>. QED  BY <1>1, <2>1, <2>2
<1>. QED  BY <1>4, <1>6, <1>7, <1>8 DEF IInv

----------------------------------------------------------------------------
(* The steps of stop().                                                                             *)
(* A step of c in stop() that leaves the threads, the queue and the tasks alone.                    *)
LEMMA ThreadsAlone ==
    ASSUME IInv, UNCHANGED <<thread, worker>>
    PROVE  Sole' /\ TaskInHand' /\ Got' = Got
BY DEF IInv, Sole, TaskInHand, Holds, On, Got

LEMMA BeginStopOK == ASSUME IInv, NEW c \in All, BeginStop(c) PROVE IInv'
<1>. WorkerTypeOK  BY DEF IInv
<1> DEFINE r == [pc |-> "drain", thread |-> thread]
<1>1. stopped' /\ stop' = [stop EXCEPT ![c] = r] /\ UNCHANGED <<submitted, queue, thread, worker, fate, ran, over>>
  BY DEF BeginStop
<1>2. r \in Stop /\ r.thread = thread  BY DEF Stop, WorkerTypeOK
<1>. HIDE DEF r
<1>3. WorkerTypeOK'  BY <1>1, <1>2 DEF WorkerTypeOK
<1>4. Sole' /\ TaskInHand'  BY <1>1, ThreadsAlone
<1>5. StopsOne'
  <2> SUFFICES ASSUME NEW d \in All, stop'[d].pc # "no" PROVE stopped' /\ thread' \in {stop'[d].thread, NoThread}
    BY DEF StopsOne
  <2>1. CASE d = c  BY <1>1, <1>2, <2>1 DEF WorkerTypeOK
  <2>2. CASE d # c  BY <1>1, <2>2 DEF WorkerTypeOK, IInv, StopsOne
  <2>. QED  BY <2>1, <2>2
<1>6. NothingAfter'  BY <1>1 DEF IInv, NothingAfter, On
<1>7. InOrder'  BY <1>1 DEF InOrder
<1>. QED  BY <1>3, <1>4, <1>5, <1>6, <1>7 DEF IInv

LEMMA DrainOK == ASSUME IInv, NEW c \in All, Drain(c) PROVE IInv'
<1>. WorkerTypeOK  BY DEF IInv
<1>1. /\ stop[c].pc = "drain" /\ queue # <<>> /\ queue' = Tail(queue)
      /\ fate' = IF Head(queue) = Wake THEN fate ELSE [fate EXCEPT ![Head(queue)] = "cancelled"]
      /\ UNCHANGED <<submitted, thread, worker, stopped, stop, ran, over>>
  BY DEF Drain
<1>2. stopped  BY <1>1 DEF IInv, StopsOne
<1>3. queue \in Seq(Tasks \cup {Wake})  BY DEF WorkerTypeOK
<1>4. queue' \in Seq(Tasks \cup {Wake})  BY <1>1, <1>3, TailOf
<1>5. fate' \in [Tasks -> {"none", "waits", "runs"} \cup Finished]
  BY <1>1 DEF WorkerTypeOK, Finished
<1>6. WorkerTypeOK'  BY <1>1, <1>4, <1>5 DEF WorkerTypeOK
<1>7. Sole' /\ TaskInHand'  BY <1>1, ThreadsAlone
<1>8. StopsOne' /\ NothingAfter' /\ InOrder'
  BY <1>1, <1>2 DEF IInv, StopsOne, NothingAfter, InOrder, On
<1>. QED  BY <1>6, <1>7, <1>8 DEF IInv

(* When stop() leaves the worker alone for good, or has waited for it, no thread is left.          *)
LEMMA AllOff ==
    ASSUME IInv, NEW c \in All, stop[c].pc # "no", ~Alive(stop[c].thread)
    PROVE  stopped /\ \A w \in Threads : On(w, "off")
<1>1. stopped /\ thread \in {stop[c].thread, NoThread}  BY DEF IInv, StopsOne
<1>2. ASSUME NEW w \in Threads, ~On(w, "off") PROVE FALSE
  <2>1. thread = w /\ w # NoThread  BY <1>2, ThreadAssumption DEF IInv, Sole
  <2>2. stop[c].thread = w  BY <1>1, <2>1
  <2>. QED  BY <1>2, <2>1, <2>2 DEF Alive
<1>. QED  BY <1>1, <1>2

(* c goes on in stop() with r, and over grows only when no thread is left.                          *)
LEMMA StopStep ==
    ASSUME IInv, NEW c \in All, NEW r \in Stop, stop' = [stop EXCEPT ![c] = r],
           r.pc = "no" \/ (stop[c].pc # "no" /\ r.thread = stop[c].thread),
           stop[c].pc # "no", queue' \in Seq(Tasks \cup {Wake}),
           UNCHANGED <<submitted, thread, worker, stopped, fate, ran>>,
           over' \in BOOLEAN, over' => over \/ ~Alive(stop[c].thread)
    PROVE  IInv'
<1>. WorkerTypeOK  BY DEF IInv
<1>1. stopped  BY DEF IInv, StopsOne
<1>2. WorkerTypeOK'  BY DEF WorkerTypeOK
<1>3. Sole' /\ TaskInHand'  BY ThreadsAlone
<1>4. StopsOne'
  <2> SUFFICES ASSUME NEW d \in All, stop'[d].pc # "no" PROVE stopped' /\ thread' \in {stop'[d].thread, NoThread}
    BY DEF StopsOne
  <2>1. CASE d = c  BY <2>1 DEF WorkerTypeOK, IInv, StopsOne
  <2>2. CASE d # c  BY <2>2 DEF WorkerTypeOK, IInv, StopsOne
  <2>. QED  BY <2>1, <2>2
<1>5. NothingAfter'
  <2>1. CASE over  BY <2>1 DEF IInv, NothingAfter, On
  <2>2. CASE over' /\ ~Alive(stop[c].thread)  BY <2>2, AllOff DEF NothingAfter, On
  <2>3. CASE ~over'  BY <2>3 DEF NothingAfter
  <2>. QED  BY <2>1, <2>2, <2>3
<1>6. InOrder'  BY <1>1 DEF InOrder
<1>. QED  BY <1>2, <1>3, <1>4, <1>5, <1>6 DEF IInv

LEMMA DrainedOK == ASSUME IInv, NEW c \in All, Drained(c) PROVE IInv'
<1>. WorkerTypeOK  BY DEF IInv
<1> DEFINE w == stop[c].thread
           r == IF w \in {NoThread, c} THEN NotStopping ELSE [stop[c] EXCEPT !.pc = "join"]
<1>1. /\ stop[c].pc = "drain" /\ queue = <<>>
      /\ queue' = IF w = NoThread THEN queue ELSE <<Wake>>
      /\ stop' = [stop EXCEPT ![c] = r]
      /\ over' = (over \/ w = NoThread)
      /\ UNCHANGED <<submitted, thread, worker, stopped, fate, ran>>
  BY DEF Drained, WorkerTypeOK
<1>2. stop[c] \in Stop  BY DEF WorkerTypeOK
<1>3. r \in Stop /\ (r.pc = "no" \/ r.thread = w)  BY <1>2, Records DEF Stop
<1>4. <<Wake>> \in Seq(Tasks \cup {Wake}) /\ queue \in Seq(Tasks \cup {Wake})  BY DEF WorkerTypeOK
<1>5. queue' \in Seq(Tasks \cup {Wake})  BY <1>1, <1>4
<1>6. over \in BOOLEAN  BY DEF WorkerTypeOK
<1>7. over' \in BOOLEAN /\ (over' => over \/ ~Alive(w))  BY <1>1, <1>6 DEF Alive
<1>. HIDE DEF r
<1>. QED  BY <1>1, <1>3, <1>5, <1>7, StopStep

LEMMA JoinOK == ASSUME IInv, NEW c \in All, Join(c) \/ JoinTimeout(c) PROVE IInv'
<1>. WorkerTypeOK  BY DEF IInv
<1>1. /\ stop[c].pc = "join" /\ stop' = [stop EXCEPT ![c] = NotStopping]
      /\ UNCHANGED <<submitted, queue, thread, worker, stopped, fate, ran>>
  BY DEF Join, JoinTimeout
<1>2. over \in BOOLEAN /\ queue' \in Seq(Tasks \cup {Wake})  BY <1>1 DEF WorkerTypeOK
<1>3. over' \in BOOLEAN /\ (over' => over \/ ~Alive(stop[c].thread))
  <2>1. CASE Join(c)  BY <2>1 DEF Join
  <2>2. CASE JoinTimeout(c)  BY <1>2, <2>2 DEF JoinTimeout
  <2>. QED  BY <2>1, <2>2
<1>4. NotStopping \in Stop /\ NotStopping.pc = "no"  BY Records
<1>. QED  BY <1>1, <1>2, <1>3, <1>4, StopStep

LEMMA StepOK == IInv /\ [WorkerNext]_workerVars => IInv'
<1> SUFFICES ASSUME IInv, [WorkerNext]_workerVars PROVE IInv'  OBVIOUS
<1>1. CASE Submit  BY <1>1, SubmitOK
<1>2. ASSUME NEW w \in Threads, Loop(w) \/ Return(w) PROVE IInv'
  <2>1. CASE Take(w)  BY <2>1, TakeOK
  <2>2. CASE Tire(w)  BY <2>2, TireOK
  <2>3. CASE Exit(w)  BY <2>3, ExitOK
  <2>4. CASE Run(w)  BY <2>4, RunOK
  <2>5. CASE Drop(w)  BY <2>5, SettledOK DEF Finished
  <2>6. CASE Return(w)  BY <2>6, ReturnOK
  <2>. QED  BY <1>2, <2>1, <2>2, <2>3, <2>4, <2>5, <2>6 DEF Loop
<1>3. ASSUME NEW w \in Threads, NEW how \in {"done", "closed"}, Finish(w, how) PROVE IInv'
  BY <1>3, SettledOK DEF Finished
<1>4. ASSUME NEW c \in All, BeginStop(c) \/ Stopping(c) \/ JoinTimeout(c) PROVE IInv'
  <2>1. CASE BeginStop(c)  BY <2>1, BeginStopOK
  <2>2. CASE Drain(c)  BY <2>2, DrainOK
  <2>3. CASE Drained(c)  BY <2>3, DrainedOK
  <2>4. CASE Join(c) \/ JoinTimeout(c)  BY <2>4, JoinOK
  <2>. QED  BY <1>4, <2>1, <2>2, <2>3, <2>4 DEF Stopping
<1>5. CASE UNCHANGED workerVars
  BY <1>5 DEF workerVars, IInv, WorkerTypeOK, Sole, TaskInHand, Holds, StopsOne, NothingAfter,
              InOrder, Got, Taken, On
<1>. QED  BY <1>1, <1>2, <1>3, <1>4, <1>5 DEF WorkerNext

(* No thread but the one that _thread names is alive, and while nobody stops the worker the         *)
(* queue is what was submitted after the task that ran last, in order (watch_worker.py: submit,        *)
(* _run, stop).                                                                                         *)
THEOREM WorkerInv == WorkerSpec => []IInv
<1>. QED  BY InitOK, StepOK, PTL DEF WorkerSpec

----------------------------------------------------------------------------
(* The task that runs, as SerialWorker sees it.                                                     *)
LEMMA RunningOf ==
    ASSUME IInv, NEW w \in Threads, On(w, "run")
    PROVE  TaskRunning = worker[w].task /\ TaskRunning \in Tasks
<1>1. ~On(w, "off")  BY DEF On
<1>2. Running = {w}  BY <1>1, OneLives DEF Running, On
<1>3. (CHOOSE v \in Running : TRUE) = w  BY <1>2
<1>4. TaskRunning = worker[w].task  BY <1>2, <1>3 DEF TaskRunning
<1>. QED  BY <1>4 DEF IInv, TaskInHand, Holds

LEMMA SameRuns ==
    ASSUME Running' = Running, \A w \in Running : worker'[w] = worker[w]
    PROVE  TaskRunning' = TaskRunning
<1> DEFINE chosen(S) == CHOOSE v \in S : TRUE
<1>1. chosen(Running') = chosen(Running)  OBVIOUS
<1>2. TaskRunning = (IF Running = {} THEN 0 ELSE worker[chosen(Running)].task)
      /\ TaskRunning' = (IF Running' = {} THEN 0 ELSE worker'[chosen(Running')].task)
  BY DEF TaskRunning
<1>3. Running # {} => chosen(Running) \in Running  OBVIOUS
<1>. HIDE DEF chosen
<1>. QED  BY <1>1, <1>2, <1>3

(* A step of a thread that runs nothing before it and nothing after it.                             *)
LEMMA QuietStep ==
    ASSUME IInv, NEW w \in Threads, ~On(w, "run"), NEW r \in Worker, Set(w, r), r.pc # "run"
    PROVE  TaskRunning' = TaskRunning
<1>1. worker'[w] = r /\ \A v \in Threads \ {w} : worker'[v] = worker[v]
  BY OneBecomes DEF IInv
<1>2. Running' = Running  BY <1>1 DEF Running, On
<1>3. \A v \in Running : worker'[v] = worker[v]  BY <1>1 DEF Running
<1>. QED  BY <1>2, <1>3, SameRuns

LEMMA SubmitSubmits == ASSUME IInv, Submit PROVE Serial!Submit
<1>1. submitted' = submitted + 1 /\ UNCHANGED <<stopped, ran, over>>  BY DEF Submit
<1>2. TaskRunning' = TaskRunning
  <2>1. CASE UNCHANGED worker  BY <2>1, SameRuns DEF Running, On
  <2>2. CASE worker' # worker
    <3> DEFINE w == NewThread
    <3>1. NeedsThread /\ On(w, "off") /\ Set(w, Idle)  BY <2>2 DEF Submit
    <3>2. \A v \in Threads : On(v, "off")
      BY <3>1, ThreadAssumption DEF NeedsThread, Alive, IInv, Sole
    <3>3. w \in Threads  BY <3>2, ThreadAssumption DEF NewThread
    <3>. HIDE DEF w
    <3>4. ~On(w, "run")  BY <3>1 DEF On
    <3>. QED  BY <3>1, <3>3, <3>4, Records, QuietStep
  <2>. QED  BY <2>1, <2>2
<1>. QED  BY <1>1, <1>2 DEF Serial!Submit

LEMMA RunStarts == ASSUME IInv, NEW w \in Threads, Run(w) PROVE Serial!Start
<1>. WorkerTypeOK  BY DEF IInv
<1> DEFINE t == worker[w].task
           r == [pc |-> "run", task |-> t]
<1>1. /\ On(w, "got") /\ ~stopped /\ Set(w, r) /\ ran' = t
      /\ UNCHANGED <<submitted, queue, stopped, over>>
  BY DEF Run, MayRun
<1>2. t \in Tasks  BY <1>1 DEF IInv, TaskInHand, Holds
<1>3. r \in Worker /\ r.pc = "run" /\ r.task = t /\ ~On(w, "off") /\ ~On(w, "run")
  BY <1>1, <1>2 DEF Worker, On
<1>4. t = ran + 1 /\ Taken = ran + 1  BY <1>1 DEF IInv, InOrder, Got
<1>5. ran < submitted
  <2>1. queue \in Seq(Tasks \cup {Wake}) /\ submitted \in Nat /\ ran \in Nat
    BY TaskAssumption DEF WorkerTypeOK
  <2>2. Len(queue) \in Nat  BY <2>1
  <2>. QED  BY <1>4, <2>1, <2>2 DEF Taken
<1>. HIDE DEF r, t
<1>6. Running = {}  BY <1>3, OneLives DEF Running, On
<1>7. worker'[w] = r /\ \A v \in Threads \ {w} : worker'[v] = worker[v]
  BY <1>1, <1>3, OneBecomes
<1>8. Running' = {w}  BY <1>3, <1>6, <1>7 DEF Running, On
<1>9. (CHOOSE v \in Running' : TRUE) = w  BY <1>8
<1>10. TaskRunning = 0 /\ TaskRunning' = ran + 1
  BY <1>3, <1>4, <1>6, <1>7, <1>8, <1>9 DEF TaskRunning
<1>. QED  BY <1>1, <1>4, <1>5, <1>10 DEF Serial!Start

LEMMA FinishFinishes ==
    ASSUME IInv, NEW w \in Threads, NEW how, Finish(w, how) PROVE Serial!Finish
<1>. WorkerTypeOK  BY DEF IInv
<1> DEFINE r == [pc |-> "after", task |-> worker[w].task]
<1>1. On(w, "run") /\ Set(w, r) /\ UNCHANGED <<submitted, stopped, ran, over>>  BY DEF Finish
<1>2. TaskRunning \in Tasks /\ ~On(w, "off") /\ worker[w].task \in Tasks
  BY <1>1, RunningOf DEF On
<1>3. r \in Worker /\ r.pc = "after"  BY <1>2 DEF Worker
<1>. HIDE DEF r
<1>4. Running' = {}  BY <1>1, <1>2, <1>3, OneBecomes, OneLives DEF Running, On
<1>5. TaskRunning' = 0 /\ TaskRunning # 0  BY <1>2, <1>4 DEF TaskRunning, Tasks
<1>. QED  BY <1>1, <1>5 DEF Serial!Finish

(* Nothing runs once no thread is left.                                                             *)
LEMMA NothingRuns == ASSUME \A w \in Threads : On(w, "off") PROVE TaskRunning = 0
BY DEF TaskRunning, Running, On

(* Every step of the worker is one of SerialWorker, or changes nothing it speaks of.                *)
LEMMA WorkerStepKept == IInv /\ [WorkerNext]_workerVars => [Serial!Next]_(Serial!promised)
<1> SUFFICES ASSUME IInv, [WorkerNext]_workerVars PROVE [Serial!Next]_(Serial!promised)  OBVIOUS
<1>. WorkerTypeOK  BY DEF IInv
<1>1. CASE Submit  BY <1>1, SubmitSubmits DEF Serial!Next
<1>2. ASSUME NEW w \in Threads, Take(w) \/ Tire(w) \/ Exit(w) \/ Drop(w) \/ Return(w)
      PROVE  UNCHANGED Serial!promised
  <2> DEFINE r == worker'[w]
  <2>1. ~On(w, "run") /\ UNCHANGED <<submitted, stopped, ran, over>>
    BY <1>2 DEF Take, Tire, Exit, Drop, Return, On
  <2>2. r.pc # "run" /\ Set(w, r) /\ r \in Worker
    <3>1. IInv'  BY <1>2, TakeOK, TireOK, ExitOK, ReturnOK, SettledOK DEF Finished
    <3>2. r \in Worker  BY <3>1 DEF IInv, WorkerTypeOK
    <3>3. Set(w, r)  BY <1>2 DEF Take, Tire, Exit, Drop, Return, Set, WorkerTypeOK
    <3>4. ASSUME NEW x, Set(w, x) PROVE r = x  BY <3>4 DEF Set, WorkerTypeOK
    <3>5. r.pc # "run"
      <4>1. CASE Take(w)
        <5> DEFINE got == [pc |-> "got", task |-> Head(queue)]
        <5>1. got.pc = "got"  OBVIOUS
        <5>. HIDE DEF got
        <5>2. Set(w, [Idle EXCEPT !.pc = "leave"]) \/ Set(w, got)  BY <4>1 DEF Take, got
        <5>. QED  BY <3>4, <5>1, <5>2, Records
      <4>2. CASE Tire(w)  BY <3>4, <4>2, Records DEF Tire
      <4>3. CASE Exit(w) \/ Return(w)  BY <3>4, <4>3, Records DEF Exit, Return
      <4>4. CASE Drop(w)  BY <3>4, <4>4 DEF Drop
      <4>. QED  BY <1>2, <4>1, <4>2, <4>3, <4>4
    <3>. QED  BY <3>2, <3>3, <3>5
  <2>. HIDE DEF r
  <2>3. TaskRunning' = TaskRunning  BY <2>1, <2>2, QuietStep
  <2>. QED  BY <2>1, <2>3 DEF Serial!promised
<1>3. ASSUME NEW w \in Threads, Run(w) PROVE Serial!Next
  BY <1>3, RunStarts DEF Serial!Next
<1>4. ASSUME NEW w \in Threads, NEW how \in {"done", "closed"}, Finish(w, how) PROVE Serial!Next
  BY <1>4, FinishFinishes DEF Serial!Next
<1>5. ASSUME NEW c \in All, BeginStop(c) \/ Stopping(c) \/ JoinTimeout(c)
      PROVE  [Serial!Next]_(Serial!promised)
  <2>1. UNCHANGED <<submitted, worker, ran>>
    BY <1>5 DEF BeginStop, Stopping, Drain, Drained, Join, JoinTimeout
  <2>2. TaskRunning' = TaskRunning  BY <2>1, SameRuns DEF Running, On
  <2>3. CASE BeginStop(c)
    BY <2>1, <2>2, <2>3 DEF BeginStop, Serial!Next, Serial!Stop
  <2>4. CASE UNCHANGED <<stopped, over>>  BY <2>1, <2>2, <2>4 DEF Serial!promised
  <2>5. ASSUME stop[c].pc # "no", ~Alive(stop[c].thread), over', UNCHANGED stopped
        PROVE  Serial!Next
    <3>1. stopped /\ TaskRunning = 0  BY <2>5, AllOff, NothingRuns
    <3>2. over' = TRUE  BY <1>5, <2>5 DEF BeginStop, Stopping, Drain, Drained, Join, JoinTimeout, WorkerTypeOK
    <3>. QED  BY <2>1, <2>2, <2>5, <3>1, <3>2 DEF Serial!Next, Serial!Waited
  <2>6. CASE Drain(c) \/ JoinTimeout(c)  BY <2>4, <2>6 DEF Drain, JoinTimeout
  <2>7. CASE Join(c)  BY <2>5, <2>7 DEF Join
  <2>8. CASE Drained(c)
    <3>1. CASE stop[c].thread = NoThread  BY <2>5, <2>8, <3>1 DEF Drained, Alive
    <3>2. CASE stop[c].thread # NoThread
      BY <2>4, <2>8, <3>2 DEF Drained, WorkerTypeOK
    <3>. QED  BY <3>1, <3>2
  <2>. QED  BY <1>5, <2>3, <2>6, <2>7, <2>8 DEF Stopping
<1>6. CASE UNCHANGED workerVars
  <2>1. TaskRunning' = TaskRunning  BY <1>6, SameRuns DEF workerVars, Running, On
  <2>. QED  BY <1>6, <2>1 DEF workerVars, Serial!promised
<1>. QED  BY <1>1, <1>2, <1>3, <1>4, <1>5, <1>6 DEF WorkerNext, Loop

LEMMA WorkerInitKept == WorkerInit => Serial!Init
BY Records, NothingRuns DEF WorkerInit, Serial!Init, On

(* The worker on its own keeps the contract of the executor it replaced: one task at a time, in       *)
(* submission order, none passed over, and nothing once a stop() has waited (watch_worker.py:1-11).     *)
THEOREM WorkerKeepsTheContract == WorkerSpec => KeepsTheContract
<1>. QED  BY WorkerInv, WorkerInitKept, WorkerStepKept, PTL DEF WorkerSpec, KeepsTheContract, Serial!Spec

----------------------------------------------------------------------------
(* Under the watch.  Each of its steps is one of the worker or leaves it alone.                     *)
LEMMA EndsFinish == ASSUME NEW w \in Threads, NEW how \in {"done", "closed"}, Ends(w, how) PROVE WorkerNext
BY DEF Ends, WorkerNext

LEMMA PrefetchSteps == ASSUME NEW w \in Threads, Prefetch(w) PROVE [WorkerNext]_workerVars
<1>1. CASE LoopStep(w)  BY <1>1 DEF LoopStep, WorkerNext
<1>2. CASE Retrieve(w)  BY <1>2, EndsFinish DEF Retrieve
<1>3. CASE Record(w)  BY <1>3, EndsFinish DEF Record, Recorded
<1>4. CASE FollowLinks(w)  BY <1>4, EndsFinish DEF FollowLinks
<1>5. CASE Done(w)  BY <1>5 DEF Done, WorkerNext
<1>6. CASE Resume(w)  BY <1>6 DEF Resume, WorkerNext
<1>. QED  BY <1>1, <1>2, <1>3, <1>4, <1>5, <1>6 DEF Prefetch

LEMMA WatchSteps == [Next]_vars => [WorkerNext]_workerVars
<1> SUFFICES ASSUME [Next]_vars PROVE [WorkerNext]_workerVars  OBVIOUS
<1>1. ASSUME NEW last \in Msgs, ObserveMessages(last) PROVE UNCHANGED workerVars
  BY <1>1 DEF ObserveMessages, FeedKept
<1>2. ASSUME NEW c \in Callers, Feeding(c) PROVE [WorkerNext]_workerVars
  <2>1. CASE Queue(c)  BY <2>1 DEF Queue, WorkerNext
  <2>2. CASE Pend(c)  BY <2>2 DEF Pend
  <2>3. CASE Observe  BY <2>3 DEF Observe
  <2>. QED  BY <1>2, <2>1, <2>2, <2>3 DEF Feeding
<1>3. ASSUME NEW c \in Helpers, NEW b \in BOOLEAN, Reset(c) \/ Refresh(c, b) PROVE UNCHANGED workerVars
  BY <1>3 DEF Reset, Refresh, FeedKept
<1>4. ASSUME NEW c \in Closers \cup Owners, Close(c) \/ Shutdown(c) \/ StoreCloses(c) PROVE UNCHANGED workerVars
  BY <1>4 DEF Close, Shutdown, StoreCloses
<1>5. ASSUME NEW c \in All, CloseStep(c) \/ CloseStop(c) \/ CloseTimeout(c) PROVE [WorkerNext]_workerVars
  <2>1. CASE CloseBegins(c)  BY <2>1 DEF CloseBegins, WorkerNext
  <2>2. CASE CloseEnds(c)  BY <2>2 DEF CloseEnds
  <2>3. CASE CloseStop(c) \/ CloseTimeout(c)  BY <2>3 DEF CloseStop, CloseTimeout, WorkerNext
  <2>. QED  BY <1>5, <2>1, <2>2, <2>3 DEF CloseStep
<1>6. CASE UNCHANGED vars  BY <1>6 DEF vars
<1>. QED  BY <1>1, <1>2, <1>3, <1>4, <1>5, <1>6, PrefetchSteps DEF Next

(* What is true of the worker on its own is true of it under the watch.                              *)
THEOREM WatchRefinesWorker == Spec => WorkerSpec
<1>1. Init => WorkerInit  BY DEF Init
<1>. QED  BY <1>1, WatchSteps, PTL DEF Spec, WorkerSpec

(* Under the watch too, whoever feeds it, refreshes or closes it and in whatever order, the worker    *)
(* runs one prefetch at a time in submission order, none passed over, and none once a close() has       *)
(* waited for it (watch.py: _schedule, close; watch_worker.py).                                          *)
THEOREM WatchKeepsTheContract == Spec => KeepsTheContract
<1>. QED  BY WatchRefinesWorker, WorkerKeepsTheContract

----------------------------------------------------------------------------
(* Type correctness of the watch: what is fed are messages.                                     *)

(* Of some of the first n numbers one is the greatest: as many are below it as are below   *)
(* any of them.                                                                              *)
LEMMA Greatest ==
    ASSUME NEW n \in Nat, NEW S \in SUBSET (1..n), S # {}
    PROVE  \E x \in S : \A y \in S : y <= x
<1>0. \E y \in S : y > 0
  <2>1. PICK y : y \in S
    OBVIOUS
  <2> QED
    BY <2>1
<1> DEFINE Below == {i \in 0..n : \E y \in S : y > i}
           m == Cardinality(Below)
<1>1. IsFiniteSet(Below) /\ m \in Nat
  <2>1. IsFiniteSet(0..n) /\ Below \in SUBSET (0..n)
    BY FS_Interval
  <2> HIDE DEF Below
  <2> QED
    BY <2>1, FS_Subset, FS_CardinalityType
<1>2. \A i \in Nat, y \in S : y > i => i \in Below
  OBVIOUS
<1>3. \A i \in Below : i \in Nat /\ \E y \in S : y > i
  OBVIOUS
<1>4. m \notin Below
  <2> SUFFICES ASSUME m \in Below PROVE FALSE
    OBVIOUS
  <2> HIDE DEF m, Below
  <2>1. 0..m \in SUBSET Below
    BY <1>1, <1>2, <1>3
  <2>2. Cardinality(0..m) = m + 1
    BY <1>1, FS_Interval
  <2>3. Cardinality(0..m) <= m
    BY <1>1, <2>1, FS_Subset DEF m
  <2> QED
    BY <1>1, <2>2, <2>3
<1>5. m - 1 \in Below
  <2> SUFFICES ASSUME m - 1 \notin Below PROVE FALSE
    OBVIOUS
  <2>1. 0 \in Below
    <3> HIDE DEF Below
    <3> QED
      BY <1>0, <1>2
  <2>2. m # 0
    <3> HIDE DEF Below
    <3> QED
      BY <2>1, <1>1, FS_EmptySet
  <2> HIDE DEF m, Below
  <2>3. Below \in SUBSET (0..(m - 2))
    BY <1>1, <1>2, <1>3, <2>2
  <2>4. Cardinality(0..(m - 2)) = m - 1 /\ IsFiniteSet(0..(m - 2))
    BY <1>1, <2>2, FS_Interval
  <2>5. m <= m - 1
    BY <2>3, <2>4, FS_Subset DEF m
  <2> QED
    BY <1>1, <2>5
<1> HIDE DEF m, Below
<1>6. PICK x \in S : x > m - 1
  BY <1>3, <1>5
<1>7. ASSUME NEW y \in S PROVE y <= x
  BY <1>1, <1>2, <1>4, <1>6
<1> QED
  BY <1>7
LEMMA MessagesListed ==
    ASSUME NEW last \in Msgs
    PROVE  /\ Len(Prints(last)) \in Nat \ {0}
           /\ \A i \in 1..Len(Prints(last)) : i > 1 \/ ~System => Prints(last)[i] \in Msgs
<1> DEFINE from == IF last > Window THEN last - Window + 1 ELSE 1
           news == [i \in 1..last - from + 1 |-> from + i - 1]
           head == IF System THEN <<0>> ELSE <<>>
<1>1. /\ last \in Nat /\ from \in Nat \ {0} /\ from <= last
      /\ \A i \in 1..last - from + 1 : from + i - 1 \in Msgs
  BY WatchAssumption DEF Msgs
<1>2. news \in Seq(0..MaxMsgs) /\ Len(news) = last - from + 1
  <2>1. last - from + 1 \in Nat /\ news \in [1..last - from + 1 -> 0..MaxMsgs]
    BY <1>1 DEF Msgs
  <2> HIDE DEF news, from
  <2>2. news \in Seq(0..MaxMsgs)
    <3>1. \E n \in Nat : news \in [1..n -> 0..MaxMsgs]
      BY <2>1
    <3> QED
      BY <3>1, SeqDef
  <2>3. DOMAIN news = 1..last - from + 1 /\ Len(news) \in Nat /\ DOMAIN news = 1..Len(news)
    BY <2>1, <2>2, LenProperties
  <2> QED
    BY <2>1, <2>2, <2>3
<1>3. \A i \in 1..Len(news) : news[i] \in Msgs
  BY <1>1, <1>2
<1>4. /\ head \in Seq(0..MaxMsgs)
      /\ \A i \in Nat \ {0} : i > 1 \/ ~System => i > Len(head)
  <2>1. CASE System
    BY <2>1, WatchAssumption
  <2>2. CASE ~System
    BY <2>2
  <2> QED
    BY <2>1, <2>2
<1>5. Prints(last) = head \o news
  BY DEF Prints
<1> HIDE DEF news, head, from
<1>6. /\ Len(head \o news) = Len(head) + Len(news)
      /\ \A i \in 1..Len(head) + Len(news) :
            (head \o news)[i] = IF i <= Len(head) THEN head[i] ELSE news[i - Len(head)]
  BY <1>2, <1>4, ConcatProperties
<1>7. Len(head) \in Nat /\ Len(news) \in Nat \ {0}
  BY <1>1, <1>2, <1>4, LenProperties
<1>8. ASSUME NEW i \in 1..Len(head) + Len(news), i > 1 \/ ~System
      PROVE  (head \o news)[i] \in Msgs
  <2>1. i > Len(head) /\ i - Len(head) \in 1..Len(news)
    <3>1. i \in Nat \ {0} /\ i > Len(head)
      BY <1>4, <1>7, <1>8
    <3> QED
      BY <1>7, <3>1
  <2> QED
    BY <1>3, <1>6, <1>7, <2>1
<1> QED
  BY <1>5, <1>6, <1>7, <1>8

LEMMA StartFound ==
    ASSUME NEW prints, Len(prints) \in Nat \ {0}, Count \in Nat
    PROVE  /\ UnseenStart(prints) = -1 \/ UnseenStart(prints) \in Nat
           /\ LatestUserTurn(prints) \in Nat
<1> DEFINE n == Len(prints)
           ends == {e \in 1..n : SameEnd(prints, e, Least({3, Len(Ending), e}))}
           turns == {i \in 1..n : prints[i] \in Users}
<1>1. ASSUME NEW S \in SUBSET (1..n), S # {}
      PROVE  (CHOOSE e \in S : \A f \in S : f <= e) \in 1..n
  BY <1>1, Greatest
<1>2. ends \in SUBSET (1..n) /\ turns \in SUBSET (1..n)
  OBVIOUS
<1>3. UnseenStart(prints) = -1 \/ UnseenStart(prints) \in Nat
  <2>1. \/ UnseenStart(prints) \in {0, Count, -1}
        \/ ends # {} /\ UnseenStart(prints) = CHOOSE e \in ends : \A f \in ends : f <= e
    BY DEF UnseenStart
  <2> HIDE DEF ends
  <2> QED
    BY <1>1, <1>2, <2>1
<1>4. LatestUserTurn(prints) \in Nat
  <2>1. \/ LatestUserTurn(prints) = n - 1
        \/ turns # {} /\ LatestUserTurn(prints) = (CHOOSE e \in turns : \A f \in turns : f <= e) - 1
    BY DEF LatestUserTurn
  <2> HIDE DEF turns
  <2> QED
    BY <1>1, <1>2, <2>1
<1> QED
  BY <1>3, <1>4

LEMMA CountIsNat == ASSUME seen \in 0..MaxMsgs PROVE Count \in Nat
<1>1. CASE seen = 0
  BY <1>1 DEF Count
<1>2. CASE seen # 0
  <2>1. seen \in Msgs
    BY <1>2, WatchAssumption DEF Msgs
  <2> QED
    BY <1>2, <2>1, MessagesListed DEF Count
<1> QED
  BY <1>1, <1>2

LEMMA CallsMade ==
    /\ NoQuery \in Query /\ NoCall \in Call /\ NoWork \in Work /\ NoAnchor \in Anchor
    /\ \A r \in Call : Onward(r) \in Call
<1>1. NoQuery \in Query /\ NoAnchor \in Anchor
  BY DEF NoQuery, Query, NoAnchor, Anchor
<1>2. NoCall \in Call /\ NoWork \in Work
  BY <1>1, TaskAssumption DEF NoCall, Call, NoWork, Work
<1>3. ASSUME NEW r \in Call PROVE Onward(r) \in Call
  BY <1>2 DEF Onward, Call
<1> QED
  BY <1>1, <1>2, <1>3

(* The future of a caller that is about to add it to _pending is one that submit() gave.          *)
Futures == \A c \in Callers : call[c].pc = "pend" => call[c].future \in Tasks
WatchTyped == TypeOK /\ Futures

(* What Schedules leaves in a caller's hands.                                                   *)
LEMMA ScheduledTyped ==
    ASSUME call \in [Callers -> Call], NEW c \in Callers, NEW r \in Call, NEW query \in Query,
           Schedules(c, r, query)
    PROVE  call' \in [Callers -> Call] /\ (Futures => Futures')
<1>1. Onward(r) \in Call /\ [r EXCEPT !.pc = "queue", !.query = query] \in Call
  BY CallsMade DEF Call
<1>2. Onward(r).pc # "pend" /\ [r EXCEPT !.pc = "queue", !.query = query].pc # "pend"
  BY CallsMade DEF Onward, Call
<1> QED
  BY <1>1, <1>2 DEF Schedules, Goto, Futures

LEMMA ObserveMessagesTyped ==
    ASSUME WatchTyped, WorkerTypeOK', NEW last \in Msgs, ObserveMessages(last) PROVE WatchTyped'
<1> DEFINE prints == Prints(last)
           start == UnseenStart(prints)
           from == IF start = -1 THEN LatestUserTurn(prints) ELSE start
           first == IF System /\ from = 0 THEN 2 ELSE from + 1
           fresh == SubSeq(prints, first, Len(prints))
<1>1. /\ Len(prints) \in Nat \ {0}
      /\ \A i \in 1..Len(prints) : i > 1 \/ ~System => prints[i] \in Msgs
  BY MessagesListed
<1>2. (start = -1 \/ start \in Nat) /\ LatestUserTurn(prints) \in Nat
  BY <1>1, StartFound, CountIsNat DEF WatchTyped, TypeOK
<1>3. fresh \in Seq(Msgs)
  <2> HIDE DEF prints, start
  <2>1. first \in Nat \ {0} /\ (System => first > 1)
    BY <1>2, WatchAssumption
  <2> HIDE DEF first
  <2>2. \A i \in first..Len(prints) : prints[i] \in Msgs
    BY <1>1, <2>1, WatchAssumption
  <2> QED
    BY <1>1, <2>1, <2>2, SubSeqProperties
<1>4. call' = [call EXCEPT ![Host] = Onward([NoCall EXCEPT !.fresh = fresh])] /\ seen' = last
  BY DEF ObserveMessages, Goto
<1> HIDE DEF fresh
<1>5. /\ Onward([NoCall EXCEPT !.fresh = fresh]) \in Call
      /\ Onward([NoCall EXCEPT !.fresh = fresh]).pc # "pend"
  <2>1. [NoCall EXCEPT !.fresh = fresh] \in Call
    BY <1>3, CallsMade DEF Call
  <2> QED
    BY <2>1, CallsMade DEF Onward, Call
<1>6. call' \in [Callers -> Call] /\ Futures'
  BY <1>4, <1>5, WatchAssumption DEF WatchTyped, TypeOK, Futures
<1>7. seen' \in 0..MaxMsgs
  BY <1>4, WatchAssumption DEF Msgs
<1> QED
  BY <1>6, <1>7 DEF WatchTyped, TypeOK, ObserveMessages, FeedKept, workerVars, stateVars, lifeVars, On

LEMMA ObserveTyped == ASSUME WatchTyped, WorkerTypeOK', Observe PROVE WatchTyped'
<1> DEFINE m == Head(call[Host].fresh)
           now == IF m \in Users THEN turn + 1 ELSE turn
           query == [subjects |-> Names[m] \ Here, task |-> IF m \in Users THEN m ELSE 0]
           rest == [call[Host] EXCEPT !.fresh = Tail(@)]
<1>1. Host \in Callers /\ TypeOK /\ Futures /\ call[Host] \in Call /\ call[Host].fresh # <<>>
  BY WatchAssumption DEF WatchTyped, TypeOK, Observe
<1>2. m \in Msgs /\ Tail(call[Host].fresh) \in Seq(Msgs)
  <2>1. call[Host].fresh \in Seq(Msgs)
    BY <1>1 DEF Call
  <2> QED
    BY <1>1, <2>1, TailOf
<1>3. rest \in Call
  BY <1>1, <1>2 DEF Call
<1>4. Names[m] \subseteq Subjects /\ now \in Nat
  BY <1>1, <1>2, WatchAssumption DEF TypeOK
<1>5. query \in Query
  BY <1>2, <1>4 DEF Query
<1>6. Schedules(Host, rest, query) /\ turn' = now /\ task' = IF m \in Users THEN m ELSE task
  BY DEF Observe
<1>7. anchors' \in [Subjects -> Anchor]
  <2>1. \A s \in Subjects : Mentioned(anchors[s], now) \in Anchor
    BY <1>1, <1>4 DEF Mentioned, Anchor, TypeOK
  <2>2. NewAnchor(now, FALSE) \in Anchor
    BY <1>4 DEF NewAnchor, Anchor
  <2> HIDE DEF now
  <2>3. \A s \in Subjects : anchors[s] \in Anchor
    BY <1>1 DEF TypeOK
  <2> QED
    BY <2>1, <2>2, <2>3, CallsMade DEF Observe, now
<1>8. call' \in [Callers -> Call] /\ Futures'
  <2> HIDE DEF query, rest
  <2> QED
    BY <1>1, <1>3, <1>5, <1>6, ScheduledTyped DEF TypeOK
<1>9. missed' \subseteq missed /\ results' \subseteq results
  BY DEF Observe
<1>10. turn' \in Nat /\ task' \in {0} \cup Msgs
  BY <1>1, <1>2, <1>4, <1>6 DEF TypeOK
<1>11. UNCHANGED <<workerVars, seen, lifeVars, answered, pending, what, work, open>>
  BY DEF Observe
<1> QED
  BY <1>1, <1>7, <1>8, <1>9, <1>10, <1>11 DEF WatchTyped, TypeOK, workerVars, lifeVars, On

LEMMA QueueTyped == ASSUME WatchTyped, WorkerTypeOK', NEW c \in Callers, Queue(c) PROVE WatchTyped'
<1>1. TypeOK /\ Futures /\ call[c] \in Call /\ Onward(call[c]) \in Call /\ Onward(call[c]).pc # "pend"
  BY CallsMade DEF WatchTyped, TypeOK, Onward, Call
<1>2. CASE watch.gone
  BY <1>1, <1>2 DEF Queue, Goto, WatchTyped, Futures, TypeOK, workerVars, stateVars, lifeVars, On
<1>3. CASE ~watch.gone
  <2>1. /\ Submit /\ what' = [what EXCEPT ![submitted + 1] = call[c].query]
        /\ call' = [call EXCEPT ![c] = [call[c] EXCEPT !.pc = "pend", !.query = NoQuery,
                                                       !.future = submitted + 1]]
        /\ UNCHANGED <<seen, stateVars, lifeVars, pending, work, open, missed>>
    BY <1>3 DEF Queue, Goto
  <2>2. submitted + 1 \in Tasks /\ submitted + 1 \in 0..MaxTasks
    BY <1>1, <2>1, TaskAssumption DEF Submit, TypeOK, WorkerTypeOK, Tasks
  <2>3. [call[c] EXCEPT !.pc = "pend", !.query = NoQuery, !.future = submitted + 1] \in Call
    BY <1>1, <2>2, CallsMade DEF Call
  <2>4. [call[c] EXCEPT !.pc = "pend", !.query = NoQuery, !.future = submitted + 1].future
          = submitted + 1
    BY <1>1 DEF Call
  <2>5. call' \in [Callers -> Call] /\ Futures'
    BY <1>1, <2>1, <2>2, <2>3, <2>4 DEF TypeOK, Futures
  <2>6. what' \in [Tasks -> Query]
    BY <1>1, <2>1, <2>2 DEF TypeOK, Call
  <2>7. \A w \in Threads : On(w, "run")' <=> On(w, "run")
    BY <1>1, <2>1, Records DEF Submit, Set, On, TypeOK, WorkerTypeOK
  <2> QED
    BY <1>1, <2>1, <2>5, <2>6, <2>7 DEF WatchTyped, TypeOK, stateVars, lifeVars
<1> QED
  BY <1>2, <1>3

(* A close leaves its traces in closing and watch.                                               *)
LEMMA ClosingTyped ==
    ASSUME TypeOK, NEW c \in All, BeginClose(c) \/ UNCHANGED lifeVars
    PROVE  /\ closing' \in [All -> {"no", "stop", "wait"}]
           /\ watch' \in [closed : BOOLEAN, gone : BOOLEAN, bound : BOOLEAN]
BY DEF TypeOK, BeginClose, lifeVars

LEMMA PendTyped == ASSUME WatchTyped, WorkerTypeOK', NEW c \in Callers, Pend(c) PROVE WatchTyped'
<1>1. /\ TypeOK /\ Futures /\ call[c] \in Call /\ Onward(call[c]) \in Call
      /\ Onward(call[c]).pc # "pend" /\ c \in All
  BY CallsMade DEF WatchTyped, TypeOK, Onward, Call, All
<1>2. /\ call' = [call EXCEPT ![c] = Onward(call[c])]
      /\ UNCHANGED <<workerVars, seen, stateVars, what, work, open, missed>>
  BY DEF Pend, Goto
<1>3. pending' \subseteq Tasks
  BY <1>1 DEF Pend, At, Futures, TypeOK
<1>4. BeginClose(c) \/ UNCHANGED lifeVars
  BY DEF Pend, Callback
<1>5. call' \in [Callers -> Call] /\ Futures'
  BY <1>1, <1>2 DEF TypeOK, Futures
<1> QED
  BY <1>1, <1>2, <1>3, <1>4, <1>5, ClosingTyped DEF WatchTyped, TypeOK, workerVars, stateVars, On

LEMMA RefreshTyped ==
    ASSUME WatchTyped, WorkerTypeOK', NEW c \in Callers, NEW b \in BOOLEAN, Refresh(c, b)
    PROVE  WatchTyped'
<1> DEFINE labels == {s \in Here : ~b \/ anchors[s].known = "no"}
           query == [subjects |-> labels, task |-> 0]
<1>1. TypeOK /\ Futures /\ query \in Query /\ Schedules(c, NoCall, query)
  BY DEF WatchTyped, Refresh, Query, Here
<1> HIDE DEF query
<1>2. call' \in [Callers -> Call] /\ Futures'
  BY <1>1, CallsMade, ScheduledTyped DEF TypeOK
<1> QED
  BY <1>1, <1>2 DEF WatchTyped, TypeOK, Refresh, FeedKept, workerVars, stateVars, lifeVars, On

(* What a step of the worker thread does to its place in the loop: the other threads stay.       *)
LEMMA WorkerMoves ==
    ASSUME WorkerTypeOK, NEW w \in Threads
    PROVE  /\ Loop(w) => /\ ~On(w, "run") /\ ~On(w, "after")
                         /\ \A v \in Threads \ {w} : worker'[v] = worker[v]
           /\ Return(w) => worker'[w].pc = "take" /\ \A v \in Threads \ {w} : worker'[v] = worker[v]
           /\ \A how \in {"done", "closed"} : Finish(w, how) =>
                 /\ worker'[w].pc = "after" /\ worker'[w].task = worker[w].task
                 /\ \A v \in Threads \ {w} : worker'[v] = worker[v]
<1>1. worker \in [Threads -> Worker]
  BY DEF WorkerTypeOK
<1>2. Loop(w) => /\ ~On(w, "run") /\ ~On(w, "after")
                 /\ \A v \in Threads \ {w} : worker'[v] = worker[v]
  BY <1>1 DEF Loop, Take, Tire, Exit, Run, Drop, On, Set
<1>3. Return(w) => worker'[w].pc = "take" /\ \A v \in Threads \ {w} : worker'[v] = worker[v]
  BY <1>1, Records DEF Return, Set
<1>4. ASSUME NEW how \in {"done", "closed"}, Finish(w, how)
      PROVE  /\ worker'[w].pc = "after" /\ worker'[w].task = worker[w].task
             /\ \A v \in Threads \ {w} : worker'[v] = worker[v]
  BY <1>1, <1>4 DEF Finish, Set
<1> QED
  BY <1>2, <1>3, <1>4

LEMMA OnlyRunRuns ==
    ASSUME WorkerTypeOK, NEW w \in Threads
    PROVE  /\ Take(w) => worker'[w].pc \notin {"run", "after"}
           /\ Tire(w) => worker'[w].pc \notin {"run", "after"}
           /\ Exit(w) => worker'[w].pc \notin {"run", "after"}
           /\ Run(w) => worker'[w].pc = "run" /\ On(w, "got")
           /\ Drop(w) => worker'[w].pc = "after" /\ stopped
<1>1. worker \in [Threads -> Worker]
  BY DEF WorkerTypeOK
<1>2. Take(w) => worker'[w].pc \notin {"run", "after"}
  BY <1>1, Records DEF Take, Set
<1>3. Tire(w) => worker'[w].pc \notin {"run", "after"}
  BY <1>1, Records DEF Tire, Set
<1>4. Exit(w) => worker'[w].pc \notin {"run", "after"}
  BY <1>1, Records DEF Exit, Set
<1>5. Run(w) => worker'[w].pc = "run" /\ On(w, "got")
  BY <1>1 DEF Run, Set
<1>6. Drop(w) => worker'[w].pc = "after" /\ stopped
  BY <1>1 DEF Drop, Set, MayRun
<1> QED
  BY <1>2, <1>3, <1>4, <1>5, <1>6

(* A prefetch works on a task as long as its thread runs it.                                      *)
RunsIsWorks == \A w \in Threads : On(w, "run") <=> work[w].pc \in {"retrieve", "record", "links"}

LEMMA WorkStep ==
    ASSUME WatchTyped, NEW w \in Threads, NEW r \in Work, Does(w, r),
           \A v \in Threads \ {w} : worker'[v] = worker[v],
           worker'[w].pc = "run" <=> r.pc \in {"retrieve", "record", "links"}
    PROVE  work' \in [Threads -> Work] /\ RunsIsWorks'
BY DEF WatchTyped, TypeOK, Does, RunsIsWorks, On

LEMMA EndsStep ==
    ASSUME WatchTyped, NEW w \in Threads, NEW how \in {"done", "closed"}, Ends(w, how)
    PROVE  work' \in [Threads -> Work] /\ RunsIsWorks'
<1>1. /\ WorkerTypeOK /\ Finish(w, how) /\ Does(w, [NoWork EXCEPT !.pc = "done"])
      /\ [NoWork EXCEPT !.pc = "done"] \in Work /\ [NoWork EXCEPT !.pc = "done"].pc = "done"
  BY CallsMade DEF WatchTyped, TypeOK, Ends, Work
<1> QED
  BY <1>1, WorkerMoves, WorkStep

(* Whatever else the loop step leaves as it is.                                                   *)
LEMMA LoopStepQuiet ==
    ASSUME WatchTyped, WorkerTypeOK', NEW w \in Threads, LoopStep(w),
           work' \in [Threads -> Work], RunsIsWorks'
    PROVE  WatchTyped'
<1>1. what' \in [Tasks -> Query]
  BY CallsMade DEF WatchTyped, TypeOK, LoopStep
<1> QED
  BY <1>1 DEF WatchTyped, TypeOK, RunsIsWorks, Futures, LoopStep, PrefetchKept, stateVars, lifeVars, On

LEMMA LoopStepTyped ==
    ASSUME WatchTyped, IInv, WorkerTypeOK', NEW w \in Threads, LoopStep(w) PROVE WatchTyped'
<1> DEFINE r == IF worker'[w].pc = "run" THEN [NoWork EXCEPT !.pc = "retrieve", !.query = what[worker[w].task]]
                ELSE IF worker'[w].pc = "after" THEN [NoWork EXCEPT !.pc = "done"] ELSE work[w]
<1>1. /\ TypeOK /\ Futures /\ WorkerTypeOK /\ Loop(w) /\ Does(w, r)
      /\ ~On(w, "run") /\ \A v \in Threads \ {w} : worker'[v] = worker[v]
  BY WorkerMoves DEF WatchTyped, TypeOK, LoopStep
<1>2. CASE worker'[w].pc = "run"
  <2>1. On(w, "got")
    BY <1>1, <1>2, OnlyRunRuns DEF Loop
  <2>2. what[worker[w].task] \in Query
    BY <1>1, <2>1 DEF IInv, TaskInHand, Holds, TypeOK
  <2>3. r \in Work /\ r.pc = "retrieve"
    BY <1>2, <2>2, CallsMade DEF Work
  <2> QED
    BY <1>1, <1>2, <2>3, WorkStep, LoopStepQuiet
<1>3. CASE worker'[w].pc # "run"
  <2>1. work[w] \in Work /\ work[w].pc \notin {"retrieve", "record", "links"}
    BY <1>1 DEF TypeOK
  <2>2. r \in Work /\ r.pc \notin {"retrieve", "record", "links"}
    <3>1. [NoWork EXCEPT !.pc = "done"] \in Work /\ [NoWork EXCEPT !.pc = "done"].pc = "done"
      BY CallsMade DEF Work
    <3>2. r = [NoWork EXCEPT !.pc = "done"] \/ r = work[w]
      BY <1>3
    <3> HIDE DEF r
    <3> QED
      BY <2>1, <3>1, <3>2
  <2> QED
    BY <1>1, <1>3, <2>2, WorkStep, LoopStepQuiet
<1> QED
  BY <1>2, <1>3

LEMMA RetrieveTyped == ASSUME WatchTyped, WorkerTypeOK', NEW w \in Threads, Retrieve(w) PROVE WatchTyped'
<1>1. /\ TypeOK /\ work[w] \in Work /\ work[w].pc = "retrieve"
      /\ UNCHANGED <<what, stateVars, lifeVars, seen, pending, call, open>>
  BY DEF WatchTyped, TypeOK, Retrieve, PrefetchKept
<1>2. missed' \subseteq [subject : Subjects] \cup [task : Msgs]
  <2>1. work[w].query.subjects \subseteq Subjects /\ work[w].query.task \in {0} \cup Msgs
    BY <1>1 DEF Work, Query
  <2>2. Missing(work[w].query) \subseteq [subject : Subjects] \cup [task : Msgs]
    BY <2>1 DEF Missing
  <2>3. missed' \subseteq missed \cup Missing(work[w].query)
    BY DEF Retrieve
  <2> QED
    BY <1>1, <2>2, <2>3 DEF TypeOK
<1>3. work' \in [Threads -> Work] /\ RunsIsWorks'
  <2>1. ASSUME NEW how \in {"done", "closed"}, Ends(w, how)
        PROVE  work' \in [Threads -> Work] /\ RunsIsWorks'
    BY <2>1, EndsStep
  <2>2. CASE Does(w, [work[w] EXCEPT !.pc = "record"]) /\ UNCHANGED workerVars
    <3>1. [work[w] EXCEPT !.pc = "record"] \in Work /\ [work[w] EXCEPT !.pc = "record"].pc = "record"
      BY <1>1 DEF Work
    <3>2. worker' = worker /\ worker[w].pc = "run"
      BY <1>1, <2>2 DEF workerVars, TypeOK, On
    <3> QED
      BY <2>2, <3>1, <3>2, WorkStep
  <2> QED
    BY <2>1, <2>2 DEF Retrieve
<1> QED
  BY <1>1, <1>2, <1>3 DEF WatchTyped, TypeOK, RunsIsWorks, Futures, stateVars, lifeVars, On

LEMMA RecordTyped == ASSUME WatchTyped, WorkerTypeOK', NEW w \in Threads, Record(w) PROVE WatchTyped'
<1>1. /\ TypeOK /\ work[w] \in Work /\ work[w].pc = "record" /\ worker[w].pc = "run"
      /\ UNCHANGED <<what, lifeVars, seen, pending, call, open, turn, task>>
  BY DEF WatchTyped, TypeOK, Record, PrefetchKept, stateVars, On
<1>2. CASE watch.closed
  <2>1. Ends(w, "done") /\ UNCHANGED <<stateVars, missed>>
    BY <1>2 DEF Record
  <2>2. work' \in [Threads -> Work] /\ RunsIsWorks'
    BY <2>1, EndsStep
  <2> QED
    BY <1>1, <2>1, <2>2 DEF WatchTyped, TypeOK, RunsIsWorks, Futures, stateVars, lifeVars, On
<1>3. CASE ~watch.closed
  <2> DEFINE q == work[w].query
             told == q.subjects \cap Here
             links == UNION {Links[s] : s \in {x \in told \cap Stored : ~anchors[x].linked}} \ Here
             l == [NoWork EXCEPT !.pc = "links", !.query = [NoQuery EXCEPT !.subjects = links]]
  <2>1. q.subjects \subseteq Subjects /\ q.task \in {0} \cup Msgs
    BY <1>1 DEF Work, Query
  <2>2. Recorded(w)
    BY <1>3 DEF Record
  <2>3. results' \subseteq Subjects /\ answered' \in {0} \cup Msgs /\ missed' \subseteq missed
    BY <1>1, <2>1, <2>2 DEF Recorded, TypeOK
  <2>4. anchors' \in [Subjects -> Anchor]
    <3>1. NewAnchor(turn, TRUE) \in Anchor
      BY <1>1 DEF NewAnchor, Anchor, TypeOK
    <3>2. \A s \in Subjects : /\ anchors[s] \in Anchor
                              /\ \A k \in {"yes", "no"} : [anchors[s] EXCEPT !.known = k] \in Anchor
      BY <1>1 DEF TypeOK, Anchor
    <3> QED
      BY <2>2, <3>1, <3>2 DEF Recorded
  <2>5. links \subseteq Subjects
    BY <2>1, WatchAssumption
  <2>6. Ends(w, "done") \/ (Does(w, l) /\ UNCHANGED workerVars)
    BY <2>2 DEF Recorded
  <2> HIDE DEF links
  <2>7. l \in Work /\ l.pc = "links"
    BY <2>5, CallsMade DEF Work, Query
  <2> HIDE DEF l
  <2>8. work' \in [Threads -> Work] /\ RunsIsWorks'
    <3>1. CASE Ends(w, "done")
      BY <3>1, EndsStep
    <3>2. CASE Does(w, l) /\ UNCHANGED workerVars
      <4>1. worker' = worker
        BY <3>2 DEF workerVars
      <4> QED
        BY <1>1, <2>7, <3>2, <4>1, WorkStep
    <3> QED
      BY <2>6, <3>1, <3>2
  <2> QED
    BY <1>1, <2>3, <2>4, <2>8 DEF WatchTyped, TypeOK, RunsIsWorks, Futures, lifeVars, On
<1> QED
  BY <1>2, <1>3

LEMMA FollowLinksTyped ==
    ASSUME WatchTyped, WorkerTypeOK', NEW w \in Threads, FollowLinks(w) PROVE WatchTyped'
<1>1. /\ TypeOK /\ work[w] \in Work /\ worker[w].pc = "run"
      /\ UNCHANGED <<what, stateVars, lifeVars, missed, seen, pending, call, open>>
  BY DEF WatchTyped, TypeOK, FollowLinks, PrefetchKept, On
<1>2. work' \in [Threads -> Work] /\ RunsIsWorks'
  <2>1. CASE Ends(w, "done")
    BY <2>1, EndsStep
  <2>2. CASE Does(w, [work[w] EXCEPT !.pc = "retrieve"]) /\ UNCHANGED workerVars
    <3>1. /\ [work[w] EXCEPT !.pc = "retrieve"] \in Work
          /\ [work[w] EXCEPT !.pc = "retrieve"].pc = "retrieve" /\ worker' = worker
      BY <1>1, <2>2 DEF Work, workerVars
    <3> QED
      BY <1>1, <2>2, <3>1, WorkStep
  <2> QED
    BY <2>1, <2>2 DEF FollowLinks
<1> QED
  BY <1>1, <1>2 DEF WatchTyped, TypeOK, RunsIsWorks, Futures, stateVars, lifeVars, On

LEMMA ReturnsTyped ==
    ASSUME WatchTyped, WorkerTypeOK', NEW w \in Threads, Done(w) \/ Resume(w) PROVE WatchTyped'
<1>1. /\ TypeOK /\ work[w] \in Work /\ work[w].pc \in {"none", "done"} /\ ~On(w, "run") /\ w \in All
      /\ UNCHANGED <<seen, stateVars, what, call, open, missed>>
  BY DEF WatchTyped, TypeOK, Done, Resume, PrefetchKept, All
<1>2. Return(w) \/ UNCHANGED workerVars
  BY DEF Done, Resume
<1>3. worker'[w].pc # "run" /\ \A v \in Threads \ {w} : worker'[v] = worker[v]
  BY <1>1, <1>2, WorkerMoves DEF TypeOK, workerVars, On
<1>4. work' \in [Threads -> Work] /\ RunsIsWorks'
  <2>1. CASE Does(w, NoWork)
    BY <1>3, <2>1, CallsMade, WorkStep DEF NoWork
  <2>2. CASE work' = work
    BY <1>1, <1>3, <2>2 DEF TypeOK, RunsIsWorks, On
  <2> QED
    BY <2>1, <2>2 DEF Done, Resume
<1>5. BeginClose(w) \/ UNCHANGED lifeVars
  BY DEF Done, Resume, Callback
<1>6. pending' \subseteq Tasks
  BY <1>1 DEF Done, Resume, PrefetchKept, TypeOK
<1> QED
  BY <1>1, <1>4, <1>5, <1>6, ClosingTyped
  DEF WatchTyped, TypeOK, RunsIsWorks, Futures, stateVars, On

(* close(), reset() and the shutdown.                                                            *)
LEMMA ClosesTyped ==
    ASSUME WatchTyped, WorkerTypeOK', NEW c \in Callers, Close(c) \/ Shutdown(c) \/ StoreCloses(c)
    PROVE  WatchTyped'
<1>1. TypeOK /\ c \in All
  BY DEF WatchTyped, All
<1>2. /\ \A pc \in {"shut", "ended"} : [NoCall EXCEPT !.pc = pc] \in Call /\ [NoCall EXCEPT !.pc = pc].pc # "pend"
      /\ \E pc \in {"shut", "ended"} : call' = [call EXCEPT ![c] = [NoCall EXCEPT !.pc = pc]]
  BY CallsMade DEF Call, Close, Shutdown, StoreCloses, Goto
<1>3. call' \in [Callers -> Call] /\ Futures'
  BY <1>2 DEF WatchTyped, TypeOK, Futures
<1>4. /\ BeginClose(c) \/ UNCHANGED lifeVars
      /\ UNCHANGED <<workerVars, pending, seen, stateVars, what, work, missed>> /\ open' \in {open, FALSE}
  BY DEF Close, Shutdown, StoreCloses, CloseKept
<1> QED
  BY <1>1, <1>3, <1>4, ClosingTyped DEF WatchTyped, TypeOK, workerVars, stateVars, On

LEMMA CloseStepsTyped ==
    ASSUME WatchTyped, WorkerTypeOK', NEW c \in All, CloseStep(c) \/ CloseStop(c) \/ CloseTimeout(c)
    PROVE  WatchTyped'
<1>1. /\ TypeOK /\ Futures /\ worker' = worker /\ call' = call
      /\ UNCHANGED <<seen, stateVars, what, work, open, missed>>
  BY DEF WatchTyped, CloseStep, CloseBegins, CloseEnds, CloseStop, CloseTimeout, CloseKept, workerVars,
         BeginStop, Stopping, Drain, Drained, Join, JoinTimeout, lifeVars
<1>2. pending' \subseteq pending
  BY DEF CloseStep, CloseBegins, CloseEnds, CloseStop, CloseTimeout
<1>3. /\ closing' \in [All -> {"no", "stop", "wait"}]
      /\ watch' \in [closed : BOOLEAN, gone : BOOLEAN, bound : BOOLEAN]
  BY <1>1 DEF TypeOK, CloseStep, CloseBegins, CloseEnds, CloseStop, CloseTimeout, Closes, lifeVars
<1> QED
  BY <1>1, <1>2, <1>3 DEF WatchTyped, TypeOK, Futures, stateVars, On

LEMMA ResetTyped == ASSUME WatchTyped, WorkerTypeOK', NEW c \in Callers, Reset(c) PROVE WatchTyped'
BY CallsMade DEF WatchTyped, TypeOK, Futures, Reset, workerVars, lifeVars, On

LEMMA WatchTypedStep == WatchTyped /\ IInv /\ IInv' /\ [Next]_vars => WatchTyped'
<1> SUFFICES ASSUME WatchTyped, IInv, WorkerTypeOK', [Next]_vars PROVE WatchTyped'
  BY DEF IInv
<1>1. CASE UNCHANGED vars
  BY <1>1 DEF vars, WatchTyped, TypeOK, Futures, workerVars, stateVars, lifeVars, On
<1>2. Helpers \subseteq Callers /\ Closers \subseteq Callers /\ Owners \subseteq Callers
  BY WatchAssumption
<1>3. ASSUME NEW c \in Callers, Feeding(c) PROVE WatchTyped'
  BY <1>3, QueueTyped, PendTyped, ObserveTyped DEF Feeding
<1>4. ASSUME NEW w \in Threads, Prefetch(w) PROVE WatchTyped'
  BY <1>4, LoopStepTyped, RetrieveTyped, RecordTyped, FollowLinksTyped, ReturnsTyped DEF Prefetch
<1> QED
  BY <1>1, <1>2, <1>3, <1>4, ObserveMessagesTyped, RefreshTyped, ClosesTyped, CloseStepsTyped, ResetTyped
  DEF Next

LEMMA WatchTypedInit == Init => WatchTyped
<1> SUFFICES ASSUME Init PROVE WatchTyped
  OBVIOUS
<1>1. WorkerTypeOK
  BY InitOK DEF Init, IInv
<1>2. \A w \in Threads : On(w, "run") <=> work[w].pc \in {"retrieve", "record", "links"}
  BY Records DEF Init, WorkerInit, On, NoWork
<1>3. Futures
  BY DEF Init, Futures, NoCall
<1> QED
  BY <1>1, <1>2, <1>3, CallsMade, WatchAssumption DEF Init, WatchTyped, TypeOK

(* The watch, its prefetches and the calls into it keep their type: what is fed are messages of  *)
(* the list (_unseen_start points into it, or cannot tell), a thread prefetches exactly while it    *)
(* runs a task, and _pending holds futures that submit() gave.                                       *)
THEOREM WatchTypes == Spec => []TypeOK
<1>1. WatchTyped => TypeOK
  BY DEF WatchTyped
<1>2. Spec => []IInv
  BY WatchRefinesWorker, WorkerInv
<1> QED
  BY <1>1, <1>2, WatchTypedInit, WatchTypedStep, PTL DEF Spec

----------------------------------------------------------------------------
(* What a watch that nobody closes has found, and what it still looks for.                        *)

Works(w) == work[w].pc \in {"retrieve", "record", "links"}
Queued(c) == call[c].pc = "queue"
Waits(t) == fate[t] = "waits"
HostAsks == Queued(Host) /\ call[Host].query.task # 0
Requests == {t \in Tasks : Waits(t) /\ what[t].task # 0}
OnRequest(w) == Works(w) /\ work[w].query.task # 0
Asked(s) == \/ \E c \in Callers : Queued(c) /\ s \in call[c].query.subjects
            \/ \E t \in Tasks : Waits(t) /\ s \in what[t].subjects
            \/ \E w \in Threads : Works(w) /\ s \in work[w].query.subjects

(* Nothing stops the worker before the watch is closed.                                            *)
Unstopped == /\ ~stopped /\ ~watch.gone
             /\ \A c \in All : closing[c] = "no" /\ stop[c].pc = "no"
(* The tasks in order: those that ran, the one that runs, those that wait.                         *)
Fates ==
    /\ \A t \in Tasks : fate[t] = "none" <=> t > submitted
    /\ \A t \in Tasks : Waits(t) <=> t > ran /\ t <= submitted
    /\ \A w \in Threads : On(w, "run") => worker[w].task \in Tasks /\ fate[worker[w].task] = "runs"
    /\ \A w \in Threads : On(w, "after") => worker[w].task \in Tasks /\ fate[worker[w].task] \in Finished
    /\ ran <= submitted
(* A future that is not finished is pending, or a caller is about to make it so.                   *)
Awaited == \A t \in Tasks : fate[t] \in {"waits", "runs"} =>
              t \in pending \/ \E c \in Callers : call[c].pc = "pend" /\ call[c].future = t
Sought == \A s \in Here : s \in results \/ [subject |-> s] \in missed \/ Asked(s)
(* The current request is the last one asked for, and so the last to be answered.                  *)
LastIsCurrent ==
    /\ \A c \in Callers \ {Host} : Queued(c) => call[c].query.task = 0
    /\ task # 0 =>
         /\ HostAsks => call[Host].query.task = task
         /\ ~HostAsks => \A t \in Requests : (\A u \in Requests : u <= t) => what[t].task = task
         /\ ~HostAsks /\ Requests = {} => \A w \in Threads : OnRequest(w) => work[w].query.task = task
         /\ ~HostAsks /\ Requests = {} /\ (\A w \in Threads : ~OnRequest(w)) =>
                task = answered \/ [task |-> task] \in missed
Served == Unstopped /\ Fates /\ Awaited /\ Sought /\ LastIsCurrent
WhileOpen == ~watch.closed => Served

LEMMA WhileOpenIsEnough == WatchTyped /\ WhileOpen => Answered
<1> SUFFICES ASSUME WatchTyped, WhileOpen, Calm, ~watch.closed
             PROVE  /\ task \in {0, answered} \/ [task |-> task] \in missed
                    /\ \A s \in Here : s \in results \/ [subject |-> s] \in missed
  BY DEF Answered
<1>1. Fates /\ Awaited /\ Sought /\ LastIsCurrent
  BY DEF WhileOpen, Served
<1>2. \A c \in Callers : ~Queued(c) /\ call[c].pc # "pend"
  BY DEF Calm, Queued
<1>3. \A t \in Tasks : fate[t] \notin {"waits", "runs"}
  BY <1>1, <1>2 DEF Awaited, Calm
<1>4. \A w \in Threads : ~Works(w)
  BY <1>1, <1>3 DEF Fates, Works, WatchTyped, TypeOK
<1>5. Requests = {} /\ ~HostAsks /\ \A w \in Threads : ~OnRequest(w)
  BY <1>2, <1>3, <1>4, WatchAssumption DEF Requests, Waits, HostAsks, OnRequest
<1>6. task \in {0, answered} \/ [task |-> task] \in missed
  BY <1>1, <1>5 DEF LastIsCurrent
<1>7. \A s \in Here : ~Asked(s)
  BY <1>2, <1>3, <1>4 DEF Asked, Waits
<1> QED
  BY <1>1, <1>6, <1>7 DEF Sought

(* The worker under a watch that is open.                                                          *)
LEMMA SubmitFates ==
    ASSUME IInv, Fates, ~stopped, Submit
    PROVE  /\ Fates' /\ submitted + 1 \in Tasks /\ fate' = [fate EXCEPT ![submitted + 1] = "waits"]
           /\ fate[submitted + 1] = "none"
<1>1. /\ WorkerTypeOK /\ submitted \in Nat /\ ran \in Nat
      /\ submitted' = submitted + 1 /\ ran' = ran /\ fate' = [fate EXCEPT ![submitted + 1] = "waits"]
  BY TaskAssumption DEF IInv, WorkerTypeOK, Submit
<1>2. submitted + 1 \in Tasks /\ fate[submitted + 1] = "none"
  BY <1>1, TaskAssumption DEF Submit, WorkerTypeOK, Tasks, Fates
<1>3. \A t \in Tasks : fate'[t] = IF t = submitted + 1 THEN "waits" ELSE fate[t]
  BY <1>1 DEF WorkerTypeOK
<1>4. /\ \A t \in Tasks : fate'[t] = "none" <=> t > submitted'
      /\ \A t \in Tasks : Waits(t)' <=> t > ran' /\ t <= submitted'
      /\ ran' <= submitted'
  BY <1>1, <1>2, <1>3 DEF Fates, Waits, Tasks
<1>5. \A w \in Threads : worker'[w] = worker[w] \/ worker'[w].pc = "take"
  BY <1>1, Records DEF Submit, Set, WorkerTypeOK
<1>6. /\ \A w \in Threads : On(w, "run")' => worker'[w].task \in Tasks /\ fate'[worker'[w].task] = "runs"
      /\ \A w \in Threads : On(w, "after")' => worker'[w].task \in Tasks /\ fate'[worker'[w].task] \in Finished
  <2>1. "none" \notin Finished
    BY DEF Finished
  <2> QED
    BY <1>2, <1>3, <1>5, <2>1 DEF Fates, On
<1> QED
  BY <1>1, <1>2, <1>4, <1>6 DEF Fates

(* The thread that has a task in hand is the only one.                                              *)
LEMMA Alone ==
    ASSUME IInv, NEW w \in Threads, ~On(w, "off") PROVE \A v \in Threads \ {w} : On(v, "off")
BY DEF IInv, Sole

LEMMA RunFates ==
    ASSUME IInv, Fates, ~stopped, NEW w \in Threads, Run(w)
    PROVE  /\ Fates' /\ ran + 1 \in Tasks /\ worker[w].task = ran + 1 /\ Waits(ran + 1)
           /\ fate' = [fate EXCEPT ![ran + 1] = "runs"]
<1>1. /\ WorkerTypeOK /\ submitted \in Nat /\ ran \in Nat /\ On(w, "got")
      /\ \A v \in Threads \ {w} : On(v, "off")
  BY TaskAssumption, Alone DEF IInv, WorkerTypeOK, Run, On
<1>2. worker[w].task = ran + 1 /\ ran + 1 <= submitted /\ ran + 1 \in Tasks
  <2>1. Taken = ran + 1 /\ worker[w].task = ran + 1 /\ ran + 1 \in Tasks
    BY <1>1 DEF IInv, InOrder, Got, TaskInHand, Holds
  <2>2. Len(queue) \in Nat
    BY <1>1 DEF WorkerTypeOK
  <2> QED
    BY <1>1, <2>1, <2>2 DEF Taken
<1>3. /\ fate' = [fate EXCEPT ![ran + 1] = "runs"] /\ ran' = ran + 1 /\ submitted' = submitted
      /\ worker' = [worker EXCEPT ![w] = [pc |-> "run", task |-> ran + 1]]
  BY <1>2 DEF Run, Set
<1>4. \A t \in Tasks : fate'[t] = IF t = ran + 1 THEN "runs" ELSE fate[t]
  BY <1>1, <1>3 DEF WorkerTypeOK
<1>5. /\ \A t \in Tasks : fate'[t] = "none" <=> t > submitted'
      /\ \A t \in Tasks : Waits(t)' <=> t > ran' /\ t <= submitted'
      /\ ran' <= submitted'
  BY <1>1, <1>2, <1>3, <1>4 DEF Fates, Waits, Tasks
<1>6. /\ worker'[w].pc = "run" /\ worker'[w].task = ran + 1
      /\ \A v \in Threads \ {w} : worker'[v].pc = "off"
  BY <1>1, <1>3 DEF WorkerTypeOK, On
<1>7. /\ \A v \in Threads : On(v, "run")' => worker'[v].task \in Tasks /\ fate'[worker'[v].task] = "runs"
      /\ \A v \in Threads : On(v, "after")' => worker'[v].task \in Tasks /\ fate'[worker'[v].task] \in Finished
  BY <1>2, <1>4, <1>6 DEF On
<1> QED
  BY <1>1, <1>2, <1>3, <1>5, <1>7 DEF Fates, Waits

LEMMA FinishFates ==
    ASSUME IInv, Fates, NEW w \in Threads, NEW how \in {"done", "closed"}, Finish(w, how)
    PROVE  /\ Fates' /\ \A t \in Tasks : Waits(t)' <=> Waits(t)
           /\ \A t \in Tasks : fate'[t] \in {"waits", "runs"} => fate[t] \in {"waits", "runs"}
<1>1. /\ WorkerTypeOK /\ On(w, "run") /\ \A v \in Threads \ {w} : On(v, "off")
  BY Alone DEF IInv, Finish, On
<1> PICK n \in Tasks : n = worker[w].task /\ fate[n] = "runs"
  BY <1>1 DEF Fates
<1>2. /\ \A t \in Tasks : fate'[t] = IF t = n THEN how ELSE fate[t]
      /\ UNCHANGED <<submitted, ran>>
      /\ worker'[w].pc = "after" /\ worker'[w].task = n
      /\ \A v \in Threads \ {w} : worker'[v].pc = "off"
  BY <1>1 DEF Finish, Set, On, WorkerTypeOK
<1>3. how \in Finished /\ how \notin {"waits", "runs", "none"}
  BY DEF Finished
<1> QED
  BY <1>2, <1>3 DEF Fates, Waits, On

(* Steps that change no task's fate.                                                                *)
LEMMA OtherFates ==
    ASSUME Fates, UNCHANGED <<submitted, fate, ran>>,
           \A w \in Threads : worker'[w] = worker[w] \/ worker'[w].pc \notin {"run", "after"}
    PROVE  Fates'
BY DEF Fates, Waits, On

(* What is asked for stays so when the calls that queue, the tasks that wait and the prefetches  *)
(* under way stay as they are.                                                                       *)
CallsKept == \A c \in Callers : (Queued(c)' <=> Queued(c)) /\ (Queued(c) => call'[c].query = call[c].query)
TasksKept == \A t \in Tasks : (Waits(t)' <=> Waits(t)) /\ (Waits(t) => what'[t] = what[t])
WorksKept == \A w \in Threads : (Works(w)' <=> Works(w)) /\ (Works(w) => work'[w].query = work[w].query)

LEMMA CallKept ==
    ASSUME WatchTyped, NEW c \in Callers, NEW r, Goto(c, r), ~Queued(c), r.pc # "queue"
    PROVE  CallsKept
BY DEF WatchTyped, TypeOK, Goto, CallsKept, Queued

LEMMA WorkKept ==
    ASSUME WatchTyped, NEW w \in Threads, NEW r, Does(w, r),
           r.pc \in {"retrieve", "record", "links"} <=> Works(w), Works(w) => r.query = work[w].query
    PROVE  WorksKept
BY DEF WatchTyped, TypeOK, Does, WorksKept, Works

LEMMA QuietKept ==
    ASSUME Sought, LastIsCurrent, CallsKept, TasksKept, WorksKept,
           UNCHANGED <<anchors, results, task, answered, missed>>
    PROVE  Sought' /\ LastIsCurrent'
<1>1. \A s : Asked(s) => Asked(s)'
  BY DEF Asked, CallsKept, TasksKept, WorksKept
<1>2. /\ HostAsks' <=> HostAsks
      /\ HostAsks => call'[Host].query = call[Host].query
  BY WatchAssumption DEF HostAsks, CallsKept
<1>3. Requests' = Requests /\ \A t \in Requests : what'[t] = what[t]
  BY DEF Requests, TasksKept
<1>4. \A w \in Threads : /\ OnRequest(w)' <=> OnRequest(w)
                         /\ OnRequest(w) => work'[w].query = work[w].query
  BY DEF OnRequest, WorksKept
<1>5. \A c \in Callers \ {Host} : Queued(c)' => call'[c].query.task = 0
  BY DEF LastIsCurrent, CallsKept
<1>6. Sought'
  BY <1>1 DEF Sought, Here
<1> QED
  BY <1>2, <1>3, <1>4, <1>5, <1>6 DEF LastIsCurrent

LEMMA AwaitedKept ==
    ASSUME Awaited, pending \subseteq pending',
           \A t \in Tasks : fate'[t] \in {"waits", "runs"} => fate[t] \in {"waits", "runs"},
           \A c \in Callers : call[c].pc = "pend" => call'[c] = call[c]
    PROVE  Awaited'
BY DEF Awaited

(* Steps that change the call of one thread only, and ask for nothing.                             *)
LEMMA CallServed ==
    ASSUME WatchTyped, Served, NEW c \in Callers, NEW r, Goto(c, r),
           call[c].pc \notin {"queue", "pend"}, r.pc # "queue",
           UNCHANGED <<workerVars, stateVars, lifeVars, pending, what, work, missed>>
    PROVE  Served'
<1>1. Unstopped' /\ Fates'
  BY DEF Served, Unstopped, Fates, On, Waits, workerVars, lifeVars
<1>2. Awaited'
  <2>1. \A d \in Callers : call[d].pc = "pend" => call'[d] = call[d]
    BY DEF WatchTyped, TypeOK, Goto
  <2> QED
    BY <2>1, AwaitedKept DEF Served, workerVars
<1>3. CallsKept /\ TasksKept /\ WorksKept
  BY CallKept DEF Queued, TasksKept, WorksKept, Waits, Works, workerVars
<1> QED
  BY <1>1, <1>2, <1>3, QuietKept DEF Served, stateVars

LEMMA ObserveMessagesServed ==
    ASSUME WatchTyped, Served, NEW last \in Msgs, ObserveMessages(last) PROVE Served'
<1>1. /\ Host \in Callers /\ call[Host].pc = "idle"
      /\ UNCHANGED <<workerVars, stateVars, lifeVars, pending, what, work, missed>>
  BY WatchAssumption DEF ObserveMessages, At, FeedKept
<1>2. PICK f : Goto(Host, Onward([NoCall EXCEPT !.fresh = f]))
  BY DEF ObserveMessages
<1>3. Onward([NoCall EXCEPT !.fresh = f]).pc # "queue"
  BY DEF Onward, NoCall
<1> QED
  BY <1>1, <1>2, <1>3, CallServed

LEMMA EndsServed ==
    ASSUME WatchTyped, Served, ~watch.closed', NEW c \in Callers,
           Close(c) \/ Shutdown(c) \/ StoreCloses(c)
    PROVE  Served'
<1>1. ~BeginClose(c)
  BY DEF WatchTyped, TypeOK, BeginClose
<1>2. /\ call[c].pc \in {"idle", "shut"}
      /\ UNCHANGED <<workerVars, stateVars, lifeVars, pending, what, work, missed>>
  BY <1>1 DEF Close, Shutdown, StoreCloses, At, CloseKept
<1>3. PICK pc \in {"shut", "ended"} : Goto(c, [NoCall EXCEPT !.pc = pc])
  BY DEF Close, Shutdown, StoreCloses
<1>4. [NoCall EXCEPT !.pc = pc].pc # "queue"
  BY DEF NoCall
<1> QED
  BY <1>2, <1>3, <1>4, CallServed

LEMMA CloseStepsServed ==
    ASSUME Served, NEW c \in All, CloseStep(c) \/ CloseStop(c) \/ CloseTimeout(c) PROVE FALSE
BY DEF Served, Unstopped, CloseStep, CloseBegins, CloseEnds, CloseStop, CloseTimeout

LEMMA ResetServed == ASSUME WatchTyped, Served, NEW c \in Callers, Reset(c) PROVE Served'
<1>1. Here' = {} /\ task' = 0
  BY DEF Reset, Here, NoAnchor
<1>2. UNCHANGED <<workerVars, lifeVars, pending, what, work, call>>
  BY DEF Reset
<1>3. Unstopped' /\ Fates' /\ Awaited'
  BY <1>2 DEF Served, Unstopped, Fates, Awaited, On, Waits, workerVars, lifeVars
<1>4. Sought' /\ LastIsCurrent'
  BY <1>1, <1>2 DEF Served, Sought, LastIsCurrent, Queued
<1> QED
  BY <1>3, <1>4 DEF Served

LEMMA PendServed ==
    ASSUME WatchTyped, Served, ~watch.closed', NEW c \in Callers, Pend(c) PROVE Served'
<1> DEFINE t == call[c].future
<1>1. ~BeginClose(c)
  BY DEF WatchTyped, TypeOK, BeginClose
<1>2. /\ call[c].pc = "pend" /\ call' = [call EXCEPT ![c] = Onward(call[c])]
      /\ UNCHANGED <<workerVars, stateVars, lifeVars, what, work, missed>>
      /\ fate[t] \in Finished \/ t \in pending'
      /\ pending \subseteq pending'
  BY <1>1 DEF Pend, At, Goto, Callback
<1>3. Unstopped' /\ Fates'
  BY <1>2 DEF Served, Unstopped, Fates, On, Waits, workerVars, lifeVars
<1>4. Awaited'
  <2>1. \A d \in Callers \ {c} : call'[d] = call[d]
    BY <1>2 DEF WatchTyped, TypeOK
  <2>2. fate' = fate /\ "waits" \notin Finished /\ "runs" \notin Finished
    BY <1>2 DEF workerVars, Finished
  <2> QED
    BY <1>2, <2>1, <2>2 DEF Served, Awaited
<1>5. CallsKept
  <2>1. Onward(call[c]).pc # "queue"
    BY DEF Onward, NoCall
  <2> QED
    BY <1>2, <2>1, CallKept DEF Goto, Queued
<1>6. TasksKept /\ WorksKept
  BY <1>2 DEF TasksKept, WorksKept, Waits, Works, workerVars
<1> QED
  BY <1>2, <1>3, <1>4, <1>5, <1>6, QuietKept DEF Served, stateVars

(* A call that queues a query asks for its subjects.                                               *)
LEMMA RefreshServed ==
    ASSUME WatchTyped, Served, ~watch.closed, NEW c \in Callers, NEW b \in BOOLEAN, Refresh(c, b)
    PROVE  Served'
<1> DEFINE query == [subjects |-> {s \in Here : ~b \/ anchors[s].known = "no"}, task |-> 0]
<1>1. /\ call[c].pc = "idle" /\ query # NoQuery
      /\ Goto(c, [NoCall EXCEPT !.pc = "queue", !.query = query])
      /\ UNCHANGED <<workerVars, stateVars, lifeVars, pending, what, work, missed>>
  <2>1. query.subjects # {} /\ NoQuery.subjects = {}
    BY DEF Refresh, NoQuery
  <2> QED
    BY <2>1 DEF Refresh, At, Schedules, FeedKept
<1>2. query.task = 0
  OBVIOUS
<1> HIDE DEF query
<1>3. /\ call'[c].pc = "queue" /\ call'[c].query.task = 0
      /\ \A d \in Callers \ {c} : call'[d] = call[d]
  BY <1>1, <1>2 DEF WatchTyped, TypeOK, Goto, NoCall
<1>4. Unstopped' /\ Fates'
  BY <1>1 DEF Served, Unstopped, Fates, On, Waits, workerVars, lifeVars
<1>5. Awaited'
  <2>1. \A d \in Callers : call[d].pc = "pend" => call'[d] = call[d]
    BY <1>1, <1>3
  <2> QED
    BY <1>1, <2>1, AwaitedKept DEF Served, workerVars
<1>6. Sought'
  <2>1. \A s : Asked(s) => Asked(s)'
    BY <1>1, <1>3 DEF Asked, Queued, Waits, Works, workerVars
  <2> QED
    BY <1>1, <2>1 DEF Served, Sought, Here, stateVars
<1>7. LastIsCurrent'
  <2>1. /\ HostAsks' <=> HostAsks
        /\ HostAsks => call'[Host].query = call[Host].query
    BY <1>1, <1>3, WatchAssumption DEF HostAsks, Queued
  <2>2. \A d \in Callers \ {Host} : Queued(d)' => call'[d].query.task = 0
    BY <1>3 DEF Served, LastIsCurrent, Queued
  <2>3. Requests' = Requests /\ what' = what
    BY <1>1 DEF Requests, Waits, workerVars
  <2>4. work' = work /\ \A w \in Threads : OnRequest(w)' <=> OnRequest(w)
    BY <1>1 DEF OnRequest, Works
  <2> QED
    BY <1>1, <2>1, <2>2, <2>3, <2>4 DEF Served, LastIsCurrent, stateVars
<1> QED
  BY <1>4, <1>5, <1>6, <1>7 DEF Served

LEMMA ObserveServed == ASSUME WatchTyped, Served, ~watch.closed, Observe PROVE Served'
<1> DEFINE m == Head(call[Host].fresh)
           query == [subjects |-> Names[m] \ Here, task |-> IF m \in Users THEN m ELSE 0]
           rest == [call[Host] EXCEPT !.fresh = Tail(@)]
<1>1. /\ Host \in Callers /\ call[Host].pc = "feed" /\ m \in Msgs /\ rest \in Call
      /\ call \in [Callers -> Call]
      /\ Schedules(Host, rest, query)
      /\ UNCHANGED <<workerVars, lifeVars, answered, pending, what, work>>
  <2>1. /\ Host \in Callers /\ call \in [Callers -> Call] /\ call[Host] \in Call
        /\ call[Host].fresh \in Seq(Msgs) /\ call[Host].fresh # <<>> /\ call[Host].pc = "feed"
    BY WatchAssumption DEF WatchTyped, TypeOK, Observe, At, Call
  <2>2. m \in Msgs /\ Tail(call[Host].fresh) \in Seq(Msgs)
    BY <2>1, TailOf
  <2>3. rest \in Call
    BY <2>1, <2>2 DEF Call
  <2> QED
    BY <2>1, <2>2, <2>3 DEF Observe
<1>2. /\ task' = IF m \in Users THEN m ELSE task
      /\ \A s \in Here' : (s \in Here \/ s \in Names[m] \ Here) /\ (s \in results => s \in results')
      /\ missed' = {x \in missed : \/ x \in [task : {task'}]
                                   \/ x \in [subject : {s \in Subjects : anchors'[s].here}]}
  BY DEF Observe, Here, NoAnchor
<1>3. query.subjects = Names[m] \ Here /\ query.task = IF m \in Users THEN m ELSE 0
  OBVIOUS
<1> HIDE DEF m, query, rest
<1>4. /\ \A d \in Callers \ {Host} : call'[d] = call[d]
      /\ \/ query = NoQuery /\ call'[Host].pc # "queue"
         \/ call'[Host].pc = "queue" /\ call'[Host].query = query
  <2>1. CASE query = NoQuery
    BY <1>1, <2>1 DEF Schedules, Goto, Onward, NoCall
  <2>2. CASE query # NoQuery
    <3>1. /\ [rest EXCEPT !.pc = "queue", !.query = query].pc = "queue"
          /\ [rest EXCEPT !.pc = "queue", !.query = query].query = query
      BY <1>1 DEF Call
    <3> QED
      BY <1>1, <2>2, <3>1 DEF Schedules, Goto
  <2> QED
    BY <2>1, <2>2
<1>5. Unstopped' /\ Fates'
  BY <1>1 DEF Served, Unstopped, Fates, On, Waits, workerVars, lifeVars
<1>6. Awaited'
  <2>1. \A d \in Callers : call[d].pc = "pend" => call'[d] = call[d]
    BY <1>1, <1>4
  <2> QED
    BY <1>1, <2>1, AwaitedKept DEF Served, workerVars
<1>7. Sought'
  <2>1. \A s : Asked(s) => Asked(s)'
    BY <1>1, <1>4 DEF Asked, Queued, Waits, Works, workerVars
  <2>2. ASSUME NEW s \in Here' PROVE s \in results' \/ [subject |-> s] \in missed' \/ Asked(s)'
    <3>1. CASE s \in Names[m] \ Here
      <4>1. query # NoQuery
        BY <1>3, <3>1 DEF NoQuery
      <4> QED
        BY <1>1, <1>3, <1>4, <3>1, <4>1 DEF Asked, Queued
    <3>2. CASE s \in Here
      <4>1. s \in Subjects /\ anchors'[s].here
        BY DEF Here
      <4>2. [subject |-> s] \in missed => [subject |-> s] \in missed'
        BY <1>2, <4>1
      <4>3. s \in results => s \in results'
        BY <1>2
      <4> QED
        BY <2>1, <3>2, <4>2, <4>3 DEF Served, Sought
    <3> QED
      BY <1>2, <3>1, <3>2
  <2> QED
    BY <2>2 DEF Sought
<1>8. LastIsCurrent'
  <2>1. /\ Requests' = Requests /\ what' = what
        /\ work' = work /\ \A w \in Threads : OnRequest(w)' <=> OnRequest(w)
        /\ ~HostAsks
    BY <1>1 DEF Requests, Waits, OnRequest, Works, HostAsks, Queued, workerVars
  <2>2. \A d \in Callers \ {Host} : Queued(d)' => call'[d].query.task = 0
    BY <1>4 DEF Served, LastIsCurrent, Queued
  <2>3. CASE m \in Users
    <3>1. query.task = m /\ m # 0 /\ task' = m
      BY <1>1, <1>2, <1>3, <2>3 DEF Msgs
    <3>2. query # NoQuery
      BY <3>1 DEF NoQuery
    <3>3. HostAsks' /\ call'[Host].query.task = task'
      BY <1>4, <3>1, <3>2 DEF HostAsks, Queued
    <3> QED
      BY <2>2, <3>3 DEF LastIsCurrent
  <2>4. CASE m \notin Users
    <3>1. query.task = 0 /\ task' = task /\ ~HostAsks' /\ answered' = answered
      BY <1>1, <1>2, <1>3, <1>4, <2>4 DEF HostAsks, Queued
    <3>2. [task |-> task] \in missed => [task |-> task'] \in missed'
      BY <1>2, <3>1
    <3> QED
      BY <2>1, <2>2, <3>1, <3>2 DEF Served, LastIsCurrent
  <2> QED
    BY <2>3, <2>4
<1> QED
  BY <1>5, <1>6, <1>7, <1>8 DEF Served

LEMMA QueueServed ==
    ASSUME WatchTyped, IInv, Served, NEW c \in Callers, Queue(c) PROVE Served'
<1> DEFINE t == submitted + 1
<1>1. /\ ~stopped /\ ~watch.gone /\ Queued(c) /\ WorkerTypeOK /\ Fates /\ call \in [Callers -> Call]
      /\ what \in [Tasks -> Query] /\ call[c].query \in Query
  BY DEF Served, Unstopped, Queued, Queue, At, WatchTyped, TypeOK, Call
<1>2. /\ Submit /\ what' = [what EXCEPT ![t] = call[c].query]
      /\ call' = [call EXCEPT ![c] = [call[c] EXCEPT !.pc = "pend", !.query = NoQuery, !.future = t]]
      /\ UNCHANGED <<seen, stateVars, lifeVars, pending, work, missed>>
  BY <1>1 DEF Queue, Goto
<1>3. Fates' /\ t \in Tasks /\ fate' = [fate EXCEPT ![t] = "waits"] /\ fate[t] = "none"
  BY <1>1, <1>2, SubmitFates
<1>4. Unstopped'
  BY <1>2 DEF Served, Unstopped, Submit, lifeVars
<1>5. \A u \in Tasks : Waits(u) => u < t
  BY <1>1, TaskAssumption DEF Fates, Tasks, WorkerTypeOK
<1> HIDE DEF t
<1>6. /\ \A u \in Tasks : fate'[u] = IF u = t THEN "waits" ELSE fate[u]
      /\ what'[t] = call[c].query /\ \A u \in Tasks \ {t} : what'[u] = what[u]
  BY <1>1, <1>2, <1>3 DEF WorkerTypeOK
<1>7. /\ call'[c].pc = "pend" /\ call'[c].future = t /\ \A d \in Callers \ {c} : call'[d] = call[d]
  <2>1. call[c] \in Call
    BY <1>1
  <2>2. /\ [call[c] EXCEPT !.pc = "pend", !.query = NoQuery, !.future = t].pc = "pend"
        /\ [call[c] EXCEPT !.pc = "pend", !.query = NoQuery, !.future = t].future = t
    BY <2>1 DEF Call
  <2> QED
    BY <1>1, <1>2, <2>2
<1>8. Awaited'
  BY <1>1, <1>2, <1>6, <1>7 DEF Served, Awaited, Queued
<1>9. Sought'
  <2>1. \A s : Asked(s) => Asked(s)'
    BY <1>2, <1>3, <1>6, <1>7 DEF Asked, Queued, Waits, Works
  <2> QED
    BY <1>2, <2>1 DEF Served, Sought, Here, stateVars
<1>10. LastIsCurrent'
  <2>1. /\ work' = work /\ \A w \in Threads : OnRequest(w)' <=> OnRequest(w)
        /\ UNCHANGED <<task, answered, missed>>
    BY <1>2 DEF OnRequest, Works, stateVars
  <2>2. \A d \in Callers \ {Host} : Queued(d)' => call'[d].query.task = 0
    BY <1>7 DEF Served, LastIsCurrent, Queued
  <2>3. CASE call[c].query.task = 0
    <3>1. Requests' = Requests /\ \A u \in Requests : what'[u] = what[u]
      BY <1>3, <1>6, <2>3 DEF Requests, Waits
    <3>2. /\ HostAsks' <=> HostAsks
          /\ HostAsks => call'[Host].query = call[Host].query
      BY <1>1, <1>7, <2>3, WatchAssumption DEF HostAsks, Queued
    <3> QED
      BY <2>1, <2>2, <3>1, <3>2 DEF Served, LastIsCurrent
  <2>4. CASE call[c].query.task # 0
    <3>1. c = Host /\ HostAsks /\ (task # 0 => call[Host].query.task = task)
      BY <1>1, <2>4 DEF Served, LastIsCurrent, HostAsks
    <3>2. ~HostAsks'
      BY <1>7, <3>1 DEF HostAsks, Queued
    <3>3. Requests' = Requests \cup {t} /\ what'[t] = call[Host].query
      BY <1>3, <1>6, <2>4, <3>1 DEF Requests, Waits
    <3>4. \A u \in Requests' : (\A v \in Requests' : v <= u) => u = t
      <4>1. \A u \in Requests : u < t /\ u \in Int
        BY <1>5 DEF Requests, Tasks
      <4> QED
        BY <1>3, <3>3, <4>1 DEF Tasks
    <3>5. Requests' # {}
      BY <3>3
    <3> QED
      BY <2>1, <2>2, <3>1, <3>2, <3>3, <3>4, <3>5 DEF LastIsCurrent
  <2> QED
    BY <2>3, <2>4
<1> QED
  BY <1>3, <1>4, <1>8, <1>9, <1>10 DEF Served

(* A step of the worker between tasks.                                                              *)
LEMMA BetweenServed ==
    ASSUME WatchTyped, Served,
           UNCHANGED <<submitted, stopped, fate, stop, ran>>,
           \A v \in Threads : worker'[v] = worker[v] \/ worker'[v].pc \notin {"run", "after"},
           UNCHANGED <<stateVars, lifeVars, what, call, missed>>, WorksKept,
           \A u \in Tasks : u \in pending => u \in pending' \/ fate[u] \in Finished
    PROVE  Served'
<1>1. Unstopped'
  BY DEF Served, Unstopped, lifeVars
<1>2. Fates'
  BY OtherFates DEF Served
<1>3. Awaited'
  BY DEF Served, Awaited, Finished
<1>4. CallsKept /\ TasksKept
  BY DEF CallsKept, TasksKept, Queued, Waits
<1> QED
  BY <1>1, <1>2, <1>3, <1>4, QuietKept DEF Served, stateVars

LEMMA RunServed ==
    ASSUME WatchTyped, IInv, Served, NEW w \in Threads, LoopStep(w), Run(w) PROVE Served'
<1>1. /\ TypeOK /\ WorkerTypeOK /\ Fates /\ ~stopped /\ On(w, "got") /\ worker'[w].pc = "run"
      /\ UNCHANGED <<submitted, stopped, stop, pending, call, stateVars, lifeVars, missed>>
  BY OnlyRunRuns DEF WatchTyped, TypeOK, Served, Unstopped, LoopStep, PrefetchKept, Run
<1> PICK t \in Tasks : t = worker[w].task /\ t = ran + 1
  BY <1>1, RunFates
<1>2. /\ Fates' /\ Waits(t) /\ fate' = [fate EXCEPT ![t] = "runs"]
  BY <1>1, RunFates
<1>3. /\ what' = [what EXCEPT ![t] = NoQuery]
      /\ work' = [work EXCEPT ![w] = [NoWork EXCEPT !.pc = "retrieve", !.query = what[t]]]
  BY <1>1 DEF LoopStep, Does
<1>4. /\ \A u \in Tasks : fate'[u] = IF u = t THEN "runs" ELSE fate[u]
      /\ \A u \in Tasks \ {t} : what'[u] = what[u]
      /\ \A u \in Tasks : Waits(u) => t <= u
  <2>1. ran \in Nat
    BY <1>1, TaskAssumption DEF WorkerTypeOK
  <2>2. \A u \in Tasks : Waits(u) => t <= u
    BY <1>1, <2>1 DEF Fates, Tasks
  <2> QED
    BY <1>1, <1>2, <1>3, <2>2 DEF TypeOK, WorkerTypeOK
<1>5. /\ work'[w].pc = "retrieve" /\ work'[w].query = what[t]
      /\ \A v \in Threads \ {w} : work'[v] = work[v]
  BY <1>1, <1>3 DEF TypeOK, NoWork
<1>6. \A v \in Threads : ~Works(v)
  <2>1. \A v \in Threads : ~On(v, "run")
    BY <1>1, Alone DEF On
  <2> QED
    BY <1>1, <2>1 DEF TypeOK, Works
<1>7. Unstopped'
  BY <1>1 DEF Served, Unstopped, lifeVars
<1>8. Awaited'
  <2>1. \A u \in Tasks : fate'[u] \in {"waits", "runs"} => fate[u] \in {"waits", "runs"}
    BY <1>2, <1>4 DEF Waits
  <2> QED
    BY <1>1, <2>1, AwaitedKept DEF Served
<1>9. Sought'
  <2>1. \A s : Asked(s) => Asked(s)'
    BY <1>1, <1>4, <1>5, <1>6 DEF Asked, Queued, Waits, Works
  <2> QED
    BY <1>1, <2>1 DEF Served, Sought, Here, stateVars
<1>10. LastIsCurrent'
  <2>1. /\ (HostAsks' <=> HostAsks) /\ call' = call
        /\ UNCHANGED <<task, answered, missed>>
    BY <1>1 DEF HostAsks, Queued, stateVars
  <2>2. /\ \A c \in Callers \ {Host} : Queued(c)' => call'[c].query.task = 0
        /\ task # 0 /\ HostAsks' => call'[Host].query.task = task
    BY <2>1 DEF Served, LastIsCurrent, Queued
  <2>3. Requests' = Requests \ {t} /\ \A u \in Requests' : what'[u] = what[u] /\ t <= u
    BY <1>4 DEF Requests, Waits
  <2>4. \A v \in Threads : /\ ~OnRequest(v)
                           /\ OnRequest(v)' <=> v = w /\ what[t].task # 0
    BY <1>5, <1>6 DEF OnRequest, Works
  <2>5. t \in Requests <=> what[t].task # 0
    BY <1>2 DEF Requests
  <2>6. ASSUME task # 0, ~HostAsks
        PROVE  /\ \A u \in Requests' : (\A v \in Requests' : v <= u) => what'[u].task = task
               /\ Requests' = {} => \A v \in Threads : OnRequest(v)' => work'[v].query.task = task
               /\ Requests' = {} /\ (\A v \in Threads : ~OnRequest(v)') =>
                      task = answered \/ [task |-> task] \in missed
    <3>1. \A u \in Requests : (\A v \in Requests : v <= u) => what[u].task = task
      BY <2>6 DEF Served, LastIsCurrent
    <3>2. \A u \in Requests' : (\A v \in Requests' : v <= u) => what'[u].task = task
      BY <2>3, <3>1
    <3>3. ASSUME Requests' = {}, NEW v \in Threads, OnRequest(v)' PROVE work'[v].query.task = task
      <4>1. Requests = {t} /\ v = w
        BY <2>3, <2>4, <2>5, <3>3
      <4> QED
        BY <1>5, <3>1, <4>1 DEF Tasks
    <3>4. ASSUME Requests' = {}, \A v \in Threads : ~OnRequest(v)'
          PROVE  task = answered \/ [task |-> task] \in missed
      <4>1. Requests = {}
        BY <2>3, <2>4, <2>5, <3>4
      <4> QED
        BY <2>4, <2>6, <4>1 DEF Served, LastIsCurrent
    <3> QED
      BY <3>2, <3>3, <3>4
  <2> QED
    BY <2>1, <2>2, <2>6 DEF LastIsCurrent
<1> QED
  BY <1>2, <1>7, <1>8, <1>9, <1>10 DEF Served

LEMMA LoopStepServed ==
    ASSUME WatchTyped, IInv, Served, NEW w \in Threads, LoopStep(w) PROVE Served'
<1>1. /\ WorkerTypeOK /\ Loop(w) /\ ~Drop(w)
      /\ \A v \in Threads \ {w} : worker'[v] = worker[v]
      /\ UNCHANGED <<pending, call, stateVars, lifeVars, missed>>
  BY WorkerMoves DEF WatchTyped, TypeOK, Served, Unstopped, LoopStep, PrefetchKept, Drop, MayRun
<1>2. CASE Take(w) \/ Tire(w) \/ Exit(w)
  <2>1. worker'[w].pc \notin {"run", "after"} /\ UNCHANGED <<submitted, stopped, fate, stop, ran>>
    BY <1>1, <1>2, OnlyRunRuns DEF Take, Tire, Exit
  <2>2. what' = what /\ work' = work
    BY <2>1 DEF LoopStep, Does, WatchTyped, TypeOK
  <2>3. WorksKept
    BY <2>2 DEF WorksKept, Works
  <2> QED
    BY <1>1, <2>1, <2>2, <2>3, BetweenServed
<1> QED
  BY <1>1, <1>2, RunServed DEF Loop

(* Where a prefetch ends: what is asked for besides stays.                                          *)
LEMMA SettledServed ==
    ASSUME WatchTyped, IInv, Served, NEW w \in Threads, NEW how \in {"done", "closed"}, Ends(w, how),
           UNCHANGED <<lifeVars, pending, call>>
    PROVE  /\ Unstopped' /\ Fates' /\ Awaited' /\ ~Works(w)'
           /\ \A v \in Threads \ {w} : work'[v] = work[v]
           /\ \A t \in Tasks : Waits(t)' <=> Waits(t)
<1>1. Finish(w, how) /\ work' = [work EXCEPT ![w] = [NoWork EXCEPT !.pc = "done"]]
  BY DEF Ends, Does
<1>2. /\ Fates' /\ \A t \in Tasks : Waits(t)' <=> Waits(t)
      /\ \A t \in Tasks : fate'[t] \in {"waits", "runs"} => fate[t] \in {"waits", "runs"}
  BY <1>1, FinishFates DEF Served
<1>3. Unstopped'
  BY <1>1 DEF Served, Unstopped, Finish, lifeVars
<1>4. Awaited'
  BY <1>2, AwaitedKept DEF Served
<1>5. ~Works(w)' /\ \A v \in Threads \ {w} : work'[v] = work[v]
  BY <1>1 DEF WatchTyped, TypeOK, Works, NoWork
<1> QED
  BY <1>2, <1>3, <1>4, <1>5

(* A prefetch that goes on with the same query.                                                    *)
LEMMA GoesOnServed ==
    ASSUME WatchTyped, Served, NEW w \in Threads, Works(w), NEW pc \in {"retrieve", "record"},
           Does(w, [work[w] EXCEPT !.pc = pc]),
           UNCHANGED <<workerVars, stateVars, lifeVars, pending, what, call, missed>>
    PROVE  Served'
<1>1. /\ [work[w] EXCEPT !.pc = pc].pc = pc
      /\ [work[w] EXCEPT !.pc = pc].query = work[w].query
  BY DEF WatchTyped, TypeOK, Work
<1>2. WorksKept
  BY <1>1, WorkKept
<1> QED
  BY <1>2, BetweenServed DEF workerVars

(* What a failed retrieval did not find is noted as missed.                                         *)
LEMMA RetrieveServed ==
    ASSUME WatchTyped, IInv, Served, NEW w \in Threads, Retrieve(w) PROVE Served'
<1> DEFINE q == work[w].query
<1>1. Works(w) /\ UNCHANGED <<seen, pending, call, open, what, stateVars, lifeVars>>
  BY DEF Retrieve, PrefetchKept, Works
<1>2. CASE Does(w, [work[w] EXCEPT !.pc = "record"]) /\ UNCHANGED <<workerVars, missed>>
  BY <1>1, <1>2, GoesOnServed
<1>3. ASSUME NEW how \in {"done", "closed"}, Ends(w, how),
             missed' = missed \cup {x \in Missing(q) : x \in [task : {task}] \cup [subject : Here]}
      PROVE  Served'
  <2>1. /\ Unstopped' /\ Fates' /\ Awaited' /\ ~Works(w)'
        /\ \A v \in Threads \ {w} : work'[v] = work[v]
        /\ \A t \in Tasks : Waits(t)' <=> Waits(t)
    BY <1>1, <1>3, SettledServed
  <2>2. /\ missed \subseteq missed'
        /\ \A s \in Here : s \in q.subjects => [subject |-> s] \in missed'
        /\ q.task # 0 /\ q.task = task => [task |-> task] \in missed'
    BY <1>3 DEF Missing
  <2> HIDE DEF q
  <2>3. Sought'
    <3>1. \A s : Asked(s) => Asked(s)' \/ s \in q.subjects
      BY <1>1, <2>1 DEF Asked, Queued, Works, q
    <3> QED
      BY <1>1, <2>2, <3>1 DEF Served, Sought, Here, stateVars
  <2>4. LastIsCurrent'
    <3>1. /\ (HostAsks' <=> HostAsks) /\ UNCHANGED <<call, what, task, answered>>
      BY <1>1 DEF HostAsks, Queued, stateVars
    <3>2. \A c \in Callers \ {Host} : Queued(c)' => call'[c].query.task = 0
      BY <3>1 DEF Served, LastIsCurrent, Queued
    <3>3. Requests' = Requests
      BY <2>1, <3>1 DEF Requests
    <3>4. /\ \A v \in Threads : OnRequest(v)' => OnRequest(v) /\ work'[v] = work[v]
          /\ \A v \in Threads : OnRequest(v) => OnRequest(v)' \/ v = w
          /\ OnRequest(w) => q.task # 0
      BY <2>1 DEF OnRequest, Works, q
    <3>5. ASSUME task # 0, ~HostAsks, Requests = {}, \A v \in Threads : ~OnRequest(v)'
          PROVE  task = answered \/ [task |-> task] \in missed'
      <4>1. CASE OnRequest(w)
        <5>1. q.task = task
          BY <3>5, <4>1 DEF Served, LastIsCurrent, q
        <5> QED
          BY <2>2, <3>4, <4>1, <5>1
      <4>2. CASE ~OnRequest(w)
        <5>1. \A v \in Threads : ~OnRequest(v)
          BY <3>4, <3>5, <4>2
        <5> QED
          BY <2>2, <3>5, <5>1 DEF Served, LastIsCurrent
      <4> QED
        BY <4>1, <4>2
    <3> QED
      BY <3>1, <3>2, <3>3, <3>4, <3>5 DEF Served, LastIsCurrent
  <2> QED
    BY <2>1, <2>3, <2>4 DEF Served
<1> QED
  BY <1>2, <1>3 DEF Retrieve

(* What is recorded is found; links that are new are looked for by the same prefetch.                *)
LEMMA RecordedServed ==
    ASSUME WatchTyped, IInv, Served, NEW w \in Threads, work[w].pc = "record", Recorded(w),
           UNCHANGED <<turn, task, seen, pending, call, open, what, lifeVars>>
    PROVE  Served'
<1> DEFINE q == work[w].query
           told == q.subjects \cap Here
           links == UNION {Links[s] : s \in {x \in told \cap Stored : ~anchors[x].linked}} \ Here
           l == [NoWork EXCEPT !.pc = "links", !.query = [NoQuery EXCEPT !.subjects = links]]
<1>1. /\ results' = results \cup q.subjects
      /\ answered' = IF q.task # 0 THEN q.task ELSE answered
      /\ missed' = missed \ Missing(q)
      /\ \A s \in Here' : s \in links \/ s \in Here
      /\ (links = {} /\ Ends(w, "done")) \/ (Does(w, l) /\ UNCHANGED workerVars)
  <2>1. /\ results' = results \cup q.subjects
        /\ answered' = IF q.task # 0 THEN q.task ELSE answered
        /\ missed' = missed \ Missing(q)
        /\ (links = {} /\ Ends(w, "done")) \/ (Does(w, l) /\ UNCHANGED workerVars)
    BY DEF Recorded
  <2>2. /\ \A s \in Subjects : s \notin links /\ s \notin told => anchors'[s] = anchors[s]
        /\ told \subseteq Here
    BY DEF Recorded
  <2>3. \A s \in Here' : s \in links \/ s \in Here
    <3> HIDE DEF links, told
    <3> QED
      BY <2>2 DEF Here
  <2> QED
    BY <2>1, <2>3
<1>2. /\ \A s : [subject |-> s] \in missed => [subject |-> s] \in missed' \/ s \in q.subjects
      /\ q.task = 0 => \A m : [task |-> m] \in missed => [task |-> m] \in missed'
  <2>1. ASSUME NEW s, [subject |-> s] \in Missing(q) PROVE s \in q.subjects
    <3>1. ASSUME NEW x \in {q.task} \ {0}, [subject |-> s] = [task |-> x] PROVE FALSE
      <4>1. DOMAIN [subject |-> s] = {"subject"} /\ DOMAIN [task |-> x] = {"task"}
        OBVIOUS
      <4>2. {"subject"} # {"task"}
        OBVIOUS
      <4> QED
        BY <3>1, <4>1, <4>2
    <3>2. ASSUME NEW x \in q.subjects, [subject |-> s] = [subject |-> x] PROVE s = x
      <4>1. [subject |-> s].subject = s /\ [subject |-> x].subject = x
        OBVIOUS
      <4> QED
        BY <3>2, <4>1
    <3> HIDE DEF q
    <3> QED
      BY <2>1, <3>1, <3>2 DEF Missing
  <2>2. ASSUME NEW m, q.task = 0, [task |-> m] \in Missing(q) PROVE FALSE
    <3>1. PICK x \in q.subjects : [task |-> m] = [subject |-> x]
      BY <2>2 DEF Missing
    <3>2. DOMAIN [subject |-> x] = {"subject"} /\ DOMAIN [task |-> m] = {"task"}
      OBVIOUS
    <3>3. {"subject"} # {"task"}
      OBVIOUS
    <3> QED
      BY <3>1, <3>2, <3>3
  <2> QED
    BY <1>1, <2>1, <2>2
<1>3. Works(w) /\ l.pc = "links" /\ l.query.subjects = links /\ l.query.task = 0
  BY DEF Works, NoWork, NoQuery
<1> HIDE DEF q, links, l
<1>4. /\ Unstopped' /\ Fates' /\ Awaited' /\ \A v \in Threads \ {w} : work'[v] = work[v]
      /\ \A t \in Tasks : Waits(t)' <=> Waits(t)
      /\ (links = {} /\ ~Works(w)') \/ (Works(w)' /\ work'[w].query = l.query)
  <2>1. CASE links = {} /\ Ends(w, "done")
    BY <2>1, SettledServed
  <2>2. CASE Does(w, l) /\ UNCHANGED workerVars
    BY <1>3, <2>2 DEF Served, Unstopped, Fates, Awaited, On, Waits, Works, Does, WatchTyped, TypeOK,
                      workerVars, lifeVars
  <2> QED
    BY <1>1, <2>1, <2>2
<1>5. Sought'
  <2>1. \A s : Asked(s) => Asked(s)' \/ s \in q.subjects
    BY <1>4 DEF Asked, Queued, Works, q
  <2>2. \A s : s \in links => Asked(s)'
    BY <1>3, <1>4 DEF Asked
  <2> QED
    BY <1>1, <1>2, <2>1, <2>2 DEF Served, Sought
<1>6. LastIsCurrent'
  <2>1. (HostAsks' <=> HostAsks) /\ UNCHANGED <<call, what, task>>
    BY DEF HostAsks, Queued
  <2>2. \A c \in Callers \ {Host} : Queued(c)' => call'[c].query.task = 0
    BY <2>1 DEF Served, LastIsCurrent, Queued
  <2>3. Requests' = Requests
    BY <1>4, <2>1 DEF Requests
  <2>4. /\ \A v \in Threads : OnRequest(v)' => OnRequest(v) /\ work'[v] = work[v]
        /\ \A v \in Threads : OnRequest(v) => OnRequest(v)' \/ v = w
        /\ OnRequest(w) <=> q.task # 0
    BY <1>3, <1>4 DEF OnRequest, Works, q
  <2>5. ASSUME task # 0, ~HostAsks, Requests = {}, \A v \in Threads : ~OnRequest(v)'
        PROVE  task = answered' \/ [task |-> task] \in missed'
    <3>1. CASE q.task # 0
      <4>1. q.task = task
        BY <2>4, <2>5, <3>1 DEF Served, LastIsCurrent, q
      <4> QED
        BY <1>1, <3>1, <4>1
    <3>2. CASE q.task = 0
      <4>1. \A v \in Threads : ~OnRequest(v)
        BY <2>4, <2>5, <3>2
      <4>2. task = answered \/ [task |-> task] \in missed
        BY <2>5, <4>1 DEF Served, LastIsCurrent
      <4> QED
        BY <1>1, <1>2, <3>2, <4>2
    <3> QED
      BY <3>1, <3>2
  <2> QED
    BY <2>1, <2>2, <2>3, <2>4, <2>5 DEF Served, LastIsCurrent
<1> QED
  BY <1>4, <1>5, <1>6 DEF Served

LEMMA RecordServed ==
    ASSUME WatchTyped, IInv, Served, ~watch.closed, NEW w \in Threads, Record(w) PROVE Served'
BY RecordedServed DEF Record, PrefetchKept

LEMMA FollowLinksServed ==
    ASSUME WatchTyped, Served, ~watch.closed, NEW w \in Threads, FollowLinks(w) PROVE Served'
BY GoesOnServed DEF FollowLinks, PrefetchKept, Works

(* The callback takes the future off _pending once it is finished.                                 *)
LEMMA ReturnsServed ==
    ASSUME WatchTyped, Served, ~watch.closed', NEW w \in Threads, Done(w) \/ Resume(w) PROVE Served'
<1>1. ~BeginClose(w)
  BY DEF WatchTyped, TypeOK, BeginClose
<1>2. /\ WorkerTypeOK /\ lifeVars' = lifeVars
      /\ UNCHANGED <<stateVars, what, call, missed>>
  BY <1>1 DEF WatchTyped, TypeOK, Done, Resume, Callback, PrefetchKept
<1>3. closing[w] = "no" /\ closing'[w] = "no"
  BY <1>2 DEF Served, Unstopped, All, lifeVars
<1>4. Return(w)
  BY <1>3 DEF Done, Resume
<1>5. /\ UNCHANGED <<submitted, stopped, fate, stop, ran>> /\ On(w, "after")
      /\ \A v \in Threads : worker'[v] = worker[v] \/ worker'[v].pc \notin {"run", "after"}
  BY <1>2, <1>4, WorkerMoves DEF Return
<1>6. fate[worker[w].task] \in Finished
  BY <1>5 DEF Served, Fates
<1>7. \A u \in Tasks : u \in pending => u \in pending' \/ fate[u] \in Finished
  BY <1>6 DEF Done, Resume, PrefetchKept
<1>8. WorksKept
  BY WorkKept DEF Done, Resume, Works, WorksKept, NoWork
<1> QED
  BY <1>2, <1>5, <1>7, <1>8, BetweenServed

LEMMA ServedStep ==
    WatchTyped /\ IInv /\ Served /\ ~watch.closed /\ [Next]_vars /\ ~watch.closed' => Served'
<1> SUFFICES ASSUME WatchTyped, IInv, Served, ~watch.closed, [Next]_vars, ~watch.closed' PROVE Served'
  OBVIOUS
<1>1. CASE UNCHANGED vars
  BY <1>1 DEF vars, workerVars, stateVars, lifeVars, Served, Unstopped, Fates, Awaited, Sought, LastIsCurrent,
              On, Waits, Here, Asked, Queued, Works, HostAsks, Requests, OnRequest
<1>2. Helpers \subseteq Callers /\ Closers \subseteq Callers /\ Owners \subseteq Callers
  BY WatchAssumption
<1>3. ASSUME NEW c \in Callers, Feeding(c) PROVE Served'
  BY <1>3, QueueServed, PendServed, ObserveServed DEF Feeding
<1>4. ASSUME NEW w \in Threads, Prefetch(w) PROVE Served'
  BY <1>4, LoopStepServed, RetrieveServed, RecordServed, FollowLinksServed, ReturnsServed DEF Prefetch
<1> QED
  BY <1>1, <1>2, <1>3, <1>4, ObserveMessagesServed, RefreshServed, EndsServed, CloseStepsServed, ResetServed
  DEF Next

(* A close lasts.                                                                                   *)
LEMMA ClosedLasts == WatchTyped /\ watch.closed /\ [Next]_vars => watch.closed'
<1> SUFFICES ASSUME WatchTyped, watch.closed, [Next]_vars PROVE watch.closed'
  OBVIOUS
<1>1. watch' = watch \/ (\E c : BeginClose(c)) \/ (\E c \in All : CloseEnds(c))
  BY DEF Next, vars, lifeVars, ObserveMessages, FeedKept, Feeding, Queue, Pend, Callback, Observe, Reset, Refresh,
         Prefetch, LoopStep, Retrieve, Record, FollowLinks, Done, Resume, Close, Shutdown, StoreCloses,
         CloseStep, CloseBegins, CloseStop, CloseTimeout
<1> QED
  BY <1>1 DEF WatchTyped, TypeOK, BeginClose, CloseEnds

LEMMA WhileOpenInit == Init => WhileOpen
<1> SUFFICES ASSUME Init PROVE Served
  BY DEF WhileOpen
<1>1. Unstopped /\ Fates /\ Awaited
  BY TaskAssumption DEF Init, WorkerInit, Unstopped, Fates, Awaited, NotStopping, Off, On, Waits, Tasks
<1>2. Here = {} /\ task = 0 /\ \A c \in Callers : ~Queued(c)
  BY DEF Init, Here, NoAnchor, Queued, NoCall
<1> QED
  BY <1>1, <1>2 DEF Served, Sought, LastIsCurrent

(* Once the calls have returned and nothing is pending, a watch that nobody closed has answered the  *)
(* current request and looked for every subject of the conversation, except what a retrieval failed   *)
(* to find: observe(), refresh() and the links of what was found queue a prefetch for whatever the     *)
(* watch begins to follow, and the worker runs them in the order of the requests, however many          *)
(* threads call it, however often its thread exits and whatever expires meanwhile.                      *)
THEOREM WatchAnswers == Spec => []Answered
<1>1. Spec => []IInv
  BY WatchRefinesWorker, WorkerInv
<1>2. WhileOpen /\ WatchTyped /\ IInv /\ [Next]_vars => WhileOpen'
  BY ServedStep, ClosedLasts DEF WhileOpen
<1> QED
  BY <1>1, <1>2, WatchTypedInit, WatchTypedStep, WhileOpenInit, WhileOpenIsEnough, PTL DEF Spec

====================================================================================
