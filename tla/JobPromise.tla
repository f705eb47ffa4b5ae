------------------------------- MODULE JobPromise -------------------------------
(* What the fact-extraction queue promises about each fragment, whoever runs its *)
(* job: the life cycle told by the module docstring of fact_jobs.py and by       *)
(* fact_job_claim, fact_job_release and fact_job_fail.  One step of the store    *)
(* may move several jobs (a claim takes a batch and requeues orphans), so a step *)
(* here lets every job make one move of its own.                                  *)
EXTENDS Naturals

CONSTANTS Jobs, Cands, MaxAttempts

VARIABLES status,      \* "absent", "pending", "running", "done", "failed", "forgotten"
          attempts,    \* claims charged to the job
          extracted    \* candidates of the fragment that became facts

promised == <<status, attempts, extracted>>

Init == /\ status = [j \in Jobs |-> "absent"]
        /\ attempts = [j \in Jobs |-> 0]
        /\ extracted = [j \in Jobs |-> {}]

(* One job: from status a to status b, charging n attempts. *)
Move(j, a, b) == status[j] = a /\ status'[j] = b /\ extracted'[j] = extracted[j]
Charge(j) == attempts[j] < MaxAttempts /\ attempts'[j] = attempts[j] + 1
Keep(j) == attempts'[j] = attempts[j]

Submit(j)  == Move(j, "absent", "pending") /\ Keep(j)
Claim(j)   == Move(j, "pending", "running") /\ Charge(j)
Retake(j)  == Move(j, "running", "running") /\ Charge(j)
Requeue(j) == Move(j, "running", "pending") /\ Keep(j) /\ attempts[j] < MaxAttempts
Refund(j)  == Move(j, "running", "pending") /\ attempts'[j] + 1 = attempts[j]
GiveUp(j)  == Move(j, "running", "failed") /\ Keep(j) /\ attempts[j] = MaxAttempts
Finish(j)  == Move(j, "running", "done") /\ Keep(j) /\ extracted[j] = Cands
Record(j)  == /\ status[j] = "running" /\ status'[j] = "running" /\ Keep(j)
              /\ \E c \in Cands \ extracted[j] : extracted'[j] = extracted[j] \cup {c}
Forget(j)  == /\ status[j] # "forgotten" /\ status'[j] = "forgotten"
              /\ attempts'[j] = 0 /\ extracted'[j] = {}
Stay(j)    == /\ status'[j] = status[j] /\ Keep(j) /\ extracted'[j] = extracted[j]

JobStep(j) == \/ Submit(j) \/ Claim(j) \/ Retake(j) \/ Requeue(j) \/ Refund(j)
              \/ GiveUp(j) \/ Finish(j) \/ Record(j) \/ Forget(j) \/ Stay(j)

Next == \A j \in Jobs : JobStep(j)

Spec == Init /\ [][Next]_promised
================================================================================
