-------------------------------- MODULE WatchWorker --------------------------------
(* The background worker of a context watch: context/watch_worker.py.  A thread is started  *)
(* when there is work and exits when it was idle for a while; submit() and the exit take the  *)
(* lock, the queue has a lock of its own, and stop() lets go of the lock before it drains       *)
(* the queue.  Callers run their steps at any moment.                                            *)
EXTENDS Integers, Sequences

CONSTANTS
    Threads, \* identities of worker threads
    Callers, \* the other threads
    MaxTasks, \* bound: tasks submitted
    NoThread

ASSUME ThreadAssumption == Threads # {} /\ Threads \cap Callers = {} /\ NoThread \notin Threads
ASSUME TaskAssumption == MaxTasks \in Nat

VARIABLES
    submitted, \* tasks are 1..submitted
    queue,     \* waiting tasks, and Wake
    thread,    \* _thread
    worker,    \* the local state of each worker thread
    stopped,   \* _stopped
    fate,      \* the future of each task
    stop,      \* the local state of each thread in stop()
    ran,       \* (history) the latest task that was started
    over       \* (history) a stop() has waited for the worker and returned

workerVars == <<submitted, queue, thread, worker, stopped, fate, stop, ran, over>>

Wake == 0
Tasks == 1..MaxTasks
All == Threads \cup Callers
(* "after": the future has its result, its callbacks run.                                   *)
Worker == [pc : {"off", "take", "empty", "leave", "got", "run", "after"}, task : Tasks \cup {0}]
Off == [pc |-> "off", task |-> 0]
Idle == [pc |-> "take", task |-> 0]
Stop == [pc : {"no", "drain", "join"}, thread : Threads \cup {NoThread}]
NotStopping == [pc |-> "no", thread |-> NoThread]
Finished == {"done", "closed", "cancelled"}

WorkerTypeOK ==
    /\ submitted \in 0..MaxTasks
    /\ queue \in Seq(Tasks \cup {Wake})
    /\ thread \in Threads \cup {NoThread}
    /\ worker \in [Threads -> Worker]
    /\ stopped \in BOOLEAN
    /\ fate \in [Tasks -> {"none", "waits", "runs"} \cup Finished]
    /\ stop \in [All -> Stop]
    /\ ran \in 0..MaxTasks /\ over \in BOOLEAN

WorkerInit ==
    /\ submitted = 0 /\ queue = <<>> /\ thread = NoThread
    /\ worker = [w \in Threads |-> Off]
    /\ stopped = FALSE
    /\ fate = [t \in Tasks |-> "none"]
    /\ stop = [c \in All |-> NotStopping]
    /\ ran = 0 /\ over = FALSE

On(w, step) == worker[w].pc = step
Set(w, r) == worker' = [worker EXCEPT ![w] = r]
Alive(w) == w # NoThread /\ ~On(w, "off")

----------------------------------------------------------------------------
(* submit(): one block under the lock. *)

NewThread == CHOOSE w \in Threads : On(w, "off")
NeedsThread == ~Alive(thread)

(* Mutant: the last task submitted runs first. *)
InFront(t) == <<t>> \o queue
Behind(t) == Append(queue, t)

Submit ==
    LET t == submitted + 1 IN
    /\ submitted < MaxTasks
    /\ submitted' = t
    /\ IF stopped
       THEN fate' = [fate EXCEPT ![t] = "cancelled"] /\ UNCHANGED <<queue, thread, worker>>
       ELSE /\ fate' = [fate EXCEPT ![t] = "waits"]
            /\ queue' = Behind(t)
            /\ IF NeedsThread
               THEN LET w == NewThread IN On(w, "off") /\ Set(w, Idle) /\ thread' = w
               ELSE UNCHANGED <<thread, worker>>
    /\ UNCHANGED <<stopped, stop, ran, over>>

----------------------------------------------------------------------------
(* _run(). *)

Take(w) ==
    /\ On(w, "take") /\ queue # <<>>
    /\ queue' = Tail(queue)
    /\ Set(w, IF Head(queue) = Wake THEN [Idle EXCEPT !.pc = "leave"]
              ELSE [pc |-> "got", task |-> Head(queue)])
    /\ UNCHANGED <<submitted, thread, stopped, fate, stop, ran, over>>

(* idle_seconds without work. *)
Tire(w) ==
    /\ On(w, "take") /\ queue = <<>> /\ Set(w, [Idle EXCEPT !.pc = "empty"])
    /\ UNCHANGED <<submitted, queue, thread, stopped, fate, stop, ran, over>>

(* Mutant: the thread exits without another look at the queue. *)
NoLook(w) == TRUE
StillEmpty(w) == queue = <<>>

Exit(w) ==
    /\ On(w, "leave") \/ On(w, "empty")
    /\ IF On(w, "leave") \/ StillEmpty(w) THEN Set(w, Off) /\ thread' = NoThread
       ELSE Set(w, Idle) /\ UNCHANGED thread
    /\ UNCHANGED <<submitted, queue, stopped, fate, stop, ran, over>>

(* Mutant: a task that was already taken off the queue runs, stopped or not. *)
RunsOn == TRUE
MayRun == ~stopped

Run(w) ==
    LET t == worker[w].task IN
    /\ On(w, "got") /\ MayRun
    /\ Set(w, [pc |-> "run", task |-> t])
    /\ fate' = [fate EXCEPT ![t] = "runs"]
    /\ ran' = t
    /\ UNCHANGED <<submitted, queue, thread, stopped, stop, over>>

Drop(w) ==
    LET t == worker[w].task IN
    /\ On(w, "got") /\ ~MayRun
    /\ Set(w, [pc |-> "after", task |-> t])
    /\ fate' = [fate EXCEPT ![t] = "cancelled"]
    /\ UNCHANGED <<submitted, queue, thread, stopped, stop, ran, over>>

(* how: "closed" with a StoreClosedError, "done" with a result or any other exception. *)
Finish(w, how) ==
    LET t == worker[w].task IN
    /\ On(w, "run")
    /\ Set(w, [pc |-> "after", task |-> t])
    /\ fate' = [fate EXCEPT ![t] = how]
    /\ UNCHANGED <<submitted, queue, thread, stopped, stop, ran, over>>

(* The callbacks of the future are through. *)
Return(w) ==
    /\ On(w, "after") /\ stop[w].pc = "no" /\ Set(w, Idle)
    /\ UNCHANGED <<submitted, queue, thread, stopped, fate, stop, ran, over>>

----------------------------------------------------------------------------
(* stop(wait=True). *)

BeginStop(c) ==
    /\ stop[c].pc = "no" /\ (c \in Threads => On(c, "after"))
    /\ stopped' = TRUE
    /\ stop' = [stop EXCEPT ![c] = [pc |-> "drain", thread |-> thread]]
    /\ UNCHANGED <<submitted, queue, thread, worker, fate, ran, over>>

(* What is queued is cancelled; another stop()'s Wake is lost. *)
Drain(c) ==
    /\ stop[c].pc = "drain" /\ queue # <<>>
    /\ queue' = Tail(queue)
    /\ fate' = IF Head(queue) = Wake THEN fate ELSE [fate EXCEPT ![Head(queue)] = "cancelled"]
    /\ UNCHANGED <<submitted, thread, worker, stopped, stop, ran, over>>

Drained(c) ==
    LET w == stop[c].thread IN
    /\ stop[c].pc = "drain" /\ queue = <<>>
    /\ queue' = IF w = NoThread THEN queue ELSE <<Wake>>
    /\ stop' = [stop EXCEPT ![c] = IF w \in {NoThread, c} THEN NotStopping ELSE [@ EXCEPT !.pc = "join"]]
    /\ over' = (over \/ w = NoThread)
    /\ UNCHANGED <<submitted, thread, worker, stopped, fate, ran>>

(* join() returns when the thread has ended. *)
Join(c) ==
    /\ stop[c].pc = "join" /\ ~Alive(stop[c].thread)
    /\ stop' = [stop EXCEPT ![c] = NotStopping]
    /\ over' = TRUE
    /\ UNCHANGED <<submitted, queue, thread, worker, stopped, fate, ran>>

(* The task takes longer than the ten seconds join() waits. *)
JoinTimeout(c) ==
    /\ stop[c].pc = "join" /\ \E w \in Threads : On(w, "run")
    /\ stop' = [stop EXCEPT ![c] = NotStopping]
    /\ UNCHANGED <<submitted, queue, thread, worker, stopped, fate, ran, over>>

Loop(w) == Take(w) \/ Tire(w) \/ Exit(w) \/ Run(w) \/ Drop(w)
Stopping(c) == Drain(c) \/ Drained(c) \/ Join(c)

WorkerNext ==
    \/ Submit
    \/ \E w \in Threads : Loop(w) \/ Return(w) \/ \E how \in {"done", "closed"} : Finish(w, how)
    \/ \E c \in All : BeginStop(c) \/ Stopping(c) \/ JoinTimeout(c)

WorkerSpec == WorkerInit /\ [][WorkerNext]_workerVars

----------------------------------------------------------------------------
(* Properties. *)

Running == {w \in Threads : On(w, "run")}
TaskRunning == IF Running = {} THEN 0 ELSE worker[CHOOSE w \in Running : TRUE].task

(* The worker keeps the contract of the ThreadPoolExecutor it replaced: one task at a time, *)
(* in submission order and none passed over, while threads exit and are started again and     *)
(* callers submit and stop at any moment; after a stop() that has waited nothing runs.          *)
Serial == INSTANCE SerialWorker WITH running <- TaskRunning
KeepsTheContract == Serial!Spec

================================================================================
