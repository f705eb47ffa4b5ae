------------------------------- MODULE SerialWorker -------------------------------
(* What the module docstring of context/watch_worker.py promises of the worker: "one task  *)
(* at a time, in submission order, a Future per task", queued work is dropped once stop()    *)
(* was called, and when a stop() has waited for the worker nothing runs any more.  Tasks are   *)
(* numbered as they are submitted.                                                              *)
EXTENDS Integers

VARIABLES
    submitted, \* how many tasks there are
    ran,       \* the latest task that was started
    running,   \* the task that runs now, 0 for none
    stopped,
    over       \* a stop() has waited for the worker and returned

promised == <<submitted, ran, running, stopped, over>>

Init == submitted = 0 /\ ran = 0 /\ running = 0 /\ stopped = FALSE /\ over = FALSE

Submit == submitted' = submitted + 1 /\ UNCHANGED <<ran, running, stopped, over>>

(* None is passed over: the tasks before this one have all run. *)
Start == /\ running = 0 /\ ~stopped /\ ran < submitted
         /\ ran' = ran + 1 /\ running' = ran + 1
         /\ UNCHANGED <<submitted, stopped, over>>

Finish == running # 0 /\ running' = 0 /\ UNCHANGED <<submitted, ran, stopped, over>>

Stop == stopped' = TRUE /\ UNCHANGED <<submitted, ran, running, over>>

Waited == running = 0 /\ stopped /\ over' = TRUE /\ UNCHANGED <<submitted, ran, running, stopped>>

Next == Submit \/ Start \/ Finish \/ Stop \/ Waited

Spec == Init /\ [][Next]_promised

================================================================================
