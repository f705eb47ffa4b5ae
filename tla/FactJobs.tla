-------------------------------- MODULE FactJobs --------------------------------
(* The durable fact-extraction queue of the store (fact_jobs.py, job_owner.py)   *)
(* and the services, worker threads and draining callers that share it           *)
(* (service_queue.py, service.py, worker.py).                                     *)
(*                                                                                *)
(* The queue is one database: every fact_job_* call is one write transaction and  *)
(* therefore one step here.  What threads do between two transactions interleaves *)
(* freely.  Clock readings are abstracted to the two comparisons the code makes:  *)
(*   job.expired     updated_at < now - lease_seconds          (a lost lease)     *)
(*   touched[t]      updated_at > the start of thread t's pass (not_after)        *)
EXTENDS Naturals, FiniteSets

CONSTANTS
    Jobs,         \* fragment ids, numbered in the order their rows are created
    Cands,        \* the candidates the extractor finds in a fragment's text
    Procs,        \* operating-system processes (one incarnation each)
    Hosts,        \* machines that open the database file
    ProbeHosts,   \* hosts on which a pid can be probed (not Windows)
    Services,     \* FactExtractionService objects
    Threads,      \* threads that call run_pending
    Workers,      \* the background workers among them
    HostOf, ProcOf, SvcOf,
    MaxAttempts, BatchSize,
    MayCrash,     \* processes that may be killed at any moment
    MayClose,     \* services whose runtime is shut down at some point
    MayForget,    \* fragments that may be forgotten at any moment
    MayOverrun,   \* fragments whose extraction may outlast the lease and the join timeout
    NoOwner, NoJob

ASSUME JobsAssumption    == Jobs \subseteq Nat /\ NoJob \notin Jobs
ASSUME OwnerAssumption   == NoOwner \notin Procs
ASSUME LayoutAssumption  == /\ HostOf \in [Procs -> Hosts]
                            /\ ProcOf \in [Services -> Procs]
                            /\ SvcOf \in [Threads -> Services]
                            /\ Workers \subseteq Threads
                            /\ ProbeHosts \subseteq Hosts
ASSUME LimitsAssumption  == /\ MaxAttempts \in Nat \ {0}
                            /\ BatchSize \in Nat \ {0}
                            /\ MayOverrun \subseteq Jobs
                            /\ MayCrash \subseteq Procs
                            /\ MayClose \subseteq Services
                            /\ MayForget \subseteq Jobs

VARIABLES
    frag,      \* fragment rows: "stored" or "gone" (forgotten)
    status,    \* fact_jobs.status ("absent": no row)
    attempts,  \* fact_jobs.attempts
    expired,   \* fact_jobs.updated_at is older than the lease
    owner,     \* fact_job_owners: the process token recorded by the last claim
    ledger,    \* fact_extractions: keys already turned into facts, per fragment
    facts,     \* live fact rows per fragment and candidate
    alive,     \* processes not yet dead
    svc,       \* life of each service and of the store it writes through
    held,      \* service._held
    started,   \* service._started
    waiting,   \* what close() found in _held and not in _started ...
    running,   \* ... and in both
    pc,        \* where each thread is in run_pending / _run_job
    batch,     \* the claimed jobs it has still to run
    cur,       \* the job it runs
    todo,      \* candidates of that job still to be recorded
    verdict,   \* the status fact_job_fail decided on
    touched    \* jobs whose updated_at is later than the thread's pass start

jobvars == <<status, attempts, expired, owner>>
rows == <<frag, jobvars, ledger, facts>>
sets == <<held, started, waiting, running>>
procs == <<alive, svc, sets>>
frame == <<batch, cur, todo, verdict>>
vars == <<rows, procs, pc, frame, touched>>

Status == {"absent", "pending", "running", "done", "failed"}
SvcPhase == {"off", "open", "joining", "giving", "closed", "shut"}
ThreadPc == {"idle", "claim", "take", "next", "start", "read", "work",
             "failing", "finally", "ended"}

TypeOK ==
    /\ frag \in [Jobs -> {"stored", "gone"}]
    /\ status \in [Jobs -> Status]
    /\ attempts \in [Jobs -> Nat]
    /\ expired \in [Jobs -> BOOLEAN]
    /\ owner \in [Jobs -> Procs \cup {NoOwner}]
    /\ ledger \in [Jobs -> SUBSET Cands]
    /\ facts \in [Jobs -> [Cands -> Nat]]
    /\ alive \in SUBSET Procs
    /\ svc \in [Services -> SvcPhase]
    /\ held \in [Services -> SUBSET Jobs]
    /\ started \in [Services -> SUBSET Jobs]
    /\ waiting \in [Services -> SUBSET Jobs]
    /\ running \in [Services -> SUBSET Jobs]
    /\ pc \in [Threads -> ThreadPc]
    /\ batch \in [Threads -> SUBSET Jobs]
    /\ cur \in [Threads -> Jobs \cup {NoJob}]
    /\ todo \in [Threads -> SUBSET Cands]
    /\ verdict \in [Threads -> {"pending", "failed"}]
    /\ touched \in [Threads -> SUBSET Jobs]

Init ==
    /\ frag = [j \in Jobs |-> "stored"]
    /\ status = [j \in Jobs |-> "absent"]
    /\ attempts = [j \in Jobs |-> 0]
    /\ expired = [j \in Jobs |-> FALSE]
    /\ owner = [j \in Jobs |-> NoOwner]
    /\ ledger = [j \in Jobs |-> {}]
    /\ facts = [j \in Jobs |-> [c \in Cands |-> 0]]
    /\ alive = Procs
    /\ svc = [s \in Services |-> "off"]
    /\ held = [s \in Services |-> {}]
    /\ started = [s \in Services |-> {}]
    /\ waiting = [s \in Services |-> {}]
    /\ running = [s \in Services |-> {}]
    /\ pc = [t \in Threads |-> "idle"]
    /\ batch = [t \in Threads |-> {}]
    /\ cur = [t \in Threads |-> NoJob]
    /\ todo = [t \in Threads |-> {}]
    /\ verdict = [t \in Threads |-> "pending"]
    /\ touched = [t \in Threads |-> {}]

----------------------------------------------------------------------------
(* Shared state formulae. *)

Proc(t) == ProcOf[SvcOf[t]]
Stopping(s) == svc[s] \in {"joining", "giving", "closed", "shut"}
StoreOpen(s) == svc[s] \notin {"off", "shut"}

(* Thread t is at location at of a live process. *)
At(t, at) == pc[t] = at /\ Proc(t) \in alive /\ svc[SvcOf[t]] # "off"
AtStore(t, at) == At(t, at) /\ StoreOpen(SvcOf[t])
Goto(t, at) == pc' = [pc EXCEPT ![t] = at]

(* Mutant: any other process on this host is taken for dead. *)
OwnerIsDeadUnprobed(o, p) == o # NoOwner /\ HostOf[o] = HostOf[p] /\ o # p

(* owner_is_dead(o) as judged in process p: only for owners on this host. *)
OwnerIsDead(o, p) == /\ o # NoOwner
                     /\ HostOf[o] = HostOf[p]
                     /\ HostOf[p] \in ProbeHosts
                     /\ o \notin alive

(* A live thread that still has j in the batch it claimed, or runs it. *)
Holds(t, j) == Proc(t) \in alive /\ j \in batch[t] \cup {cur[t]}

(* Every write of updated_at renews the lease and moves the row past not_after *)
(* of the passes under way; a thread between passes has no not_after.           *)
Touch(S) == touched' = [t \in Threads |->
                          IF pc'[t] \in {"idle", "ended"} THEN {} ELSE touched[t] \cup S]

OldestN(S, n) == {j \in S : Cardinality({k \in S : k < j}) < n}
Spent(j) == attempts[j] >= MaxAttempts

(* _reclaim_dead in process p: jobs of dead owners are requeued with updated_at *)
(* kept, or abandoned at the attempt limit.                                      *)
Orphans(p) == {j \in Jobs : status[j] = "running" /\ OwnerIsDead(owner[j], p)}
(* Mutant: orphans are requeued without a look at their attempts. *)
RequeuedForEver(p) == Orphans(p)
Requeued(p) == {j \in Orphans(p) : ~Spent(j)}
GivenUp(p) == Orphans(p) \ Requeued(p)

(* The rows S leave "running": their owner rows are deleted. *)
Unclaim(S) == /\ owner' = [j \in Jobs |-> IF j \in S THEN NoOwner ELSE owner[j]]
              /\ expired' = [j \in Jobs |-> expired[j] /\ j \notin S]

----------------------------------------------------------------------------
(* The write path and forget. *)

(* submit(): INSERT OR IGNORE, so only an absent row changes.  The fragment  *)
(* may already have been forgotten by another thread.                         *)
Enqueue(j) ==
    /\ status[j] = "absent"
    /\ \A k \in Jobs : k < j /\ status[k] = "absent" => frag[k] = "gone"
    /\ status' = [status EXCEPT ![j] = "pending"]
    /\ UNCHANGED <<frag, attempts, expired, owner, ledger, facts, procs, pc, frame>>
    /\ Touch({j})

(* forget_fragment: one transaction deletes the fragment, retracts its facts *)
(* and deletes its queue and ledger rows (the owner row is left behind).      *)
Forget(j) ==
    /\ j \in MayForget /\ frag[j] = "stored"
    /\ frag' = [frag EXCEPT ![j] = "gone"]
    /\ facts' = [facts EXCEPT ![j] = [c \in Cands |-> 0]]
    /\ ledger' = [ledger EXCEPT ![j] = {}]
    /\ status' = [status EXCEPT ![j] = "absent"]
    /\ attempts' = [attempts EXCEPT ![j] = 0]
    /\ expired' = [expired EXCEPT ![j] = FALSE]
    /\ UNCHANGED <<owner, procs, pc, frame, touched>>

----------------------------------------------------------------------------
(* Threads: run_pending. *)

BeginPass(t) ==
    /\ At(t, "idle") /\ ~Stopping(SvcOf[t])
    /\ Goto(t, "claim")
    /\ UNCHANGED <<rows, procs, frame, touched>>

WorkerEnds(t) ==
    /\ t \in Workers /\ At(t, "idle") /\ Stopping(SvcOf[t])
    /\ Goto(t, "ended")
    /\ UNCHANGED <<rows, procs, frame, touched>>

(* Mutant: leases never lapse. *)
RunnablePendingOnly(dead, t) ==
    {j \in Jobs : (status[j] = "pending" \/ j \in dead) /\ j \notin touched[t]}

(* The rows fact_job_claim selects once the dead owners' jobs are requeued:   *)
(* pending and not touched since the pass began, or under an expired lease.    *)
Runnable(dead, t) ==
    {j \in Jobs : \/ (status[j] = "pending" \/ j \in dead) /\ j \notin touched[t]
                  \/ status[j] = "running" /\ j \notin dead /\ expired[j]}

(* fact_job_claim: reclaim the dead, then take the oldest runnable rows; those *)
(* taken over at the attempt limit are abandoned instead.                       *)
ClaimBatch(t) ==
    LET p == Proc(t)
        picked == OldestN(Runnable(Requeued(p), t) \ GivenUp(p), BatchSize)
        lapsed == {j \in picked \ Requeued(p) : status[j] = "running" /\ Spent(j)}
        claimed == picked \ lapsed
        abandoned == lapsed \cup GivenUp(p)
    IN
    /\ AtStore(t, "claim")
    /\ status' = [j \in Jobs |-> IF j \in claimed THEN "running"
                                 ELSE IF j \in abandoned THEN "failed"
                                 ELSE IF j \in Requeued(p) THEN "pending"
                                 ELSE status[j]]
    /\ attempts' = [j \in Jobs |-> attempts[j] + (IF j \in claimed THEN 1 ELSE 0)]
    /\ expired' = [j \in Jobs |-> expired[j] /\ j \notin picked \cup Orphans(p)]
    /\ owner' = [j \in Jobs |-> IF j \in claimed THEN p
                                ELSE IF j \in abandoned \cup Orphans(p) THEN NoOwner
                                ELSE owner[j]]
    /\ batch' = [batch EXCEPT ![t] = claimed]
    /\ Goto(t, IF claimed = {} THEN "idle" ELSE "take")
    /\ Touch(claimed \cup abandoned)
    /\ UNCHANGED <<frag, ledger, facts, procs, cur, todo, verdict>>

(* StoreClosedError out of the claim ends the worker loop (and the caller). *)
ClaimRefused(t) ==
    /\ At(t, "claim") /\ ~StoreOpen(SvcOf[t])
    /\ Goto(t, "ended")
    /\ UNCHANGED <<rows, procs, frame>>
    /\ Touch({})

TakeHold(t) ==
    /\ At(t, "take")
    /\ held' = [held EXCEPT ![SvcOf[t]] = @ \cup batch[t]]
    /\ Goto(t, "next")
    /\ UNCHANGED <<rows, alive, svc, started, waiting, running, frame, touched>>


(* fact_job_release of S by process p: the owner row decides who still holds. *)
Releasable(S, p) == {j \in S : status[j] = "running" /\ owner[j] = p}

(* Mutant: claim and start are refunded separately, without MAX(0, ...). *)
RefundTwice(unstarted, begun) ==
    attempts' = [j \in Jobs |-> IF j \in unstarted THEN attempts[j] - 2 ELSE attempts[j]]

(* Unstarted jobs get their attempt back, jobs stopped mid-run keep it. *)
Refund(unstarted, begun) ==
    attempts' = [j \in Jobs |-> IF j \in unstarted /\ attempts[j] > 0
                                THEN attempts[j] - 1 ELSE attempts[j]]
Release(unstarted, begun) ==
    /\ status' = [j \in Jobs |-> IF j \in unstarted \cup begun THEN "pending" ELSE status[j]]
    /\ Refund(unstarted, begun)
    /\ Unclaim(unstarted \cup begun)
    /\ UNCHANGED <<frag, ledger, facts>>

(* The for loop of run_pending: run the next job ... *)
NextJob(t) ==
    /\ At(t, "next") /\ ~Stopping(SvcOf[t])
    /\ \E j \in batch[t] :
         /\ \A k \in batch[t] : j <= k
         /\ cur' = [cur EXCEPT ![t] = j]
         /\ batch' = [batch EXCEPT ![t] = @ \ {j}]
    /\ Goto(t, "start")
    /\ UNCHANGED <<rows, procs, todo, verdict, touched>>

(* ... or hand the rest back when the service is stopping (a closed store      *)
(* refuses, and the dead-owner check requeues them once the process exits) ... *)
StopBatch(t) ==
    LET s == SvcOf[t]
        back == IF StoreOpen(s) THEN Releasable(batch[t], Proc(t)) ELSE {}
    IN
    /\ At(t, "next") /\ batch[t] # {} /\ Stopping(s)
    /\ held' = [held EXCEPT ![s] = @ \ batch[t]]
    /\ Release(back, {})
    /\ batch' = [batch EXCEPT ![t] = {}]
    /\ Goto(t, "idle")
    /\ Touch({})
    /\ UNCHANGED <<alive, svc, started, waiting, running, cur, todo, verdict>>

(* ... and go round the while loop when the batch is done. *)
EndBatch(t) ==
    /\ At(t, "next") /\ batch[t] = {}
    /\ Goto(t, IF Stopping(SvcOf[t]) THEN "idle" ELSE "claim")
    /\ UNCHANGED <<rows, procs, frame>>
    /\ Touch({})

----------------------------------------------------------------------------
(* Threads: _run_job. *)

(* Every store call raises StoreClosedError once the store is shut; _run_job *)
(* swallows it and leaves through its finally clause.                         *)
JobInterrupted(t) ==
    /\ \E at \in {"start", "read", "work", "failing"} : At(t, at)
    /\ ~StoreOpen(SvcOf[t])
    /\ Goto(t, "finally")
    /\ UNCHANGED <<rows, procs, frame, touched>>

(* _started.add, then fact_job_start: renews the lease of any running row, *)
(* whoever owns it by now.                                                  *)
StartJob(t) ==
    LET j == cur[t] IN
    /\ AtStore(t, "start")
    /\ started' = [started EXCEPT ![SvcOf[t]] = @ \cup {j}]
    /\ expired' = [expired EXCEPT ![j] = FALSE]
    /\ Goto(t, "read")
    /\ Touch(IF status[j] = "running" THEN {j} ELSE {})
    /\ UNCHANGED <<frag, status, attempts, owner, ledger, facts,
                   alive, svc, held, waiting, running, frame>>

(* store.get: a forgotten fragment has nothing to extract. *)
ReadFragment(t) ==
    /\ AtStore(t, "read")
    /\ todo' = [todo EXCEPT ![t] = IF frag[cur[t]] = "stored" THEN Cands ELSE {}]
    /\ Goto(t, "work")
    /\ UNCHANGED <<rows, procs, batch, cur, verdict, touched>>

(* Mutant: the fact is written although the ledger already has its key. *)
NewFactAlways(j, c) == TRUE
NewFact(j, c) == c \notin ledger[j]

(* fact_set_extracted: the ledger row and the fact in one transaction; a key *)
(* already in the ledger writes nothing.                                      *)
RecordFact(t) ==
    LET j == cur[t] IN
    /\ AtStore(t, "work")
    /\ \E c \in todo[t] :
         /\ ledger' = [ledger EXCEPT ![j] = @ \cup {c}]
         /\ facts' = IF NewFact(j, c) THEN [facts EXCEPT ![j][c] = @ + 1] ELSE facts
         /\ todo' = [todo EXCEPT ![t] = @ \ {c}]
    /\ UNCHANGED <<frag, jobvars, procs, pc, batch, cur, verdict, touched>>

(* _settle_job: no check of the status or of the owner. *)
Settle(j, st) ==
    /\ status' = IF status[j] = "absent" THEN status ELSE [status EXCEPT ![j] = st]
    /\ expired' = [expired EXCEPT ![j] = FALSE]
    /\ owner' = [owner EXCEPT ![j] = NoOwner]

Extracted(t) == todo[t] = {}

CompleteJob(t) ==
    /\ AtStore(t, "work") /\ Extracted(t)
    /\ Settle(cur[t], "done")
    /\ Goto(t, "finally")
    /\ Touch({cur[t]})
    /\ UNCHANGED <<frag, attempts, ledger, facts, procs, frame>>

Verdict(j) == IF status[j] = "absent" \/ attempts[j] >= MaxAttempts
              THEN "failed" ELSE "pending"

(* The extractor or a store call raises; fact_job_fail reads the attempts ... *)
JobRaises(t) ==
    /\ AtStore(t, "read") \/ AtStore(t, "work")
    /\ verdict' = [verdict EXCEPT ![t] = Verdict(cur[t])]
    /\ Goto(t, "failing")
    /\ UNCHANGED <<rows, procs, batch, cur, todo, touched>>

(* ... and writes the verdict in a transaction of its own. *)
FailJob(t) ==
    /\ AtStore(t, "failing")
    /\ Settle(cur[t], verdict[t])
    /\ Goto(t, "finally")
    /\ Touch({cur[t]})
    /\ UNCHANGED <<frag, attempts, ledger, facts, procs, frame>>

LeaveJob(t) ==
    LET s == SvcOf[t] IN
    /\ At(t, "finally")
    /\ held' = [held EXCEPT ![s] = @ \ {cur[t]}]
    /\ started' = [started EXCEPT ![s] = @ \ {cur[t]}]
    /\ cur' = [cur EXCEPT ![t] = NoJob]
    /\ todo' = [todo EXCEPT ![t] = {}]
    /\ verdict' = [verdict EXCEPT ![t] = "pending"]
    /\ Goto(t, "next")
    /\ UNCHANGED <<rows, alive, svc, waiting, running, batch, touched>>

----------------------------------------------------------------------------
(* Services: construction, close() and the store's close. *)

(* __init__ reclaims orphans before the worker starts. *)
OpenService(s) ==
    LET p == ProcOf[s] IN
    /\ p \in alive /\ svc[s] = "off"
    /\ svc' = [svc EXCEPT ![s] = "open"]
    /\ status' = [j \in Jobs |-> CASE j \in Requeued(p) -> "pending"
                                   [] j \in GivenUp(p) -> "failed"
                                   [] OTHER -> status[j]]
    /\ Unclaim(Orphans(p))
    /\ UNCHANGED <<frag, attempts, ledger, facts, alive, sets, pc, frame>>
    /\ Touch(GivenUp(p))

BeginClose(s) ==
    /\ s \in MayClose /\ ProcOf[s] \in alive /\ svc[s] = "open"
    /\ svc' = [svc EXCEPT ![s] = "joining"]
    /\ UNCHANGED <<rows, alive, sets, pc, frame, touched>>

(* The join returns when the background worker ended, or at the timeout; the *)
(* claimed jobs are then sorted under _held_lock.                             *)
EndJoin(s) ==
    /\ ProcOf[s] \in alive /\ svc[s] = "joining"
    /\ \A t \in Workers : SvcOf[t] = s => pc[t] = "ended" \/ cur[t] \in MayOverrun
    /\ waiting' = [waiting EXCEPT ![s] = held[s] \ started[s]]
    /\ running' = [running EXCEPT ![s] = held[s] \cap started[s]]
    /\ svc' = [svc EXCEPT ![s] = "giving"]
    /\ UNCHANGED <<rows, alive, held, started, pc, frame, touched>>

(* close() releases the waiting jobs with a refund, the running ones without. *)
GiveBack(s) ==
    LET p == ProcOf[s] IN
    /\ p \in alive /\ svc[s] = "giving"
    /\ held' = [held EXCEPT ![s] = @ \ (waiting[s] \cup running[s])]
    /\ Release(Releasable(waiting[s], p), Releasable(running[s], p))
    /\ waiting' = [waiting EXCEPT ![s] = {}]
    /\ running' = [running EXCEPT ![s] = {}]
    /\ svc' = [svc EXCEPT ![s] = "closed"]
    /\ UNCHANGED <<alive, started, pc, frame, touched>>

(* MarkRuntime.shutdown ends with store.close(). *)
ShutStore(s) ==
    /\ ProcOf[s] \in alive /\ svc[s] = "closed"
    /\ svc' = [svc EXCEPT ![s] = "shut"]
    /\ UNCHANGED <<rows, alive, sets, pc, frame, touched>>

----------------------------------------------------------------------------
(* The environment. *)

(* kill -9, OOM, power cut, or an exit while daemon threads still run. *)
Crash(p) ==
    LET Lost(f, x) == [s \in Services |-> IF ProcOf[s] = p THEN x ELSE f[s]]
        Dead(f, x) == [t \in Threads |-> IF Proc(t) = p THEN x ELSE f[t]]
    IN
    /\ p \in MayCrash \cap alive
    /\ alive' = alive \ {p}
    /\ svc' = Lost(svc, "shut")
    /\ held' = Lost(held, {}) /\ started' = Lost(started, {})
    /\ waiting' = Lost(waiting, {}) /\ running' = Lost(running, {})
    /\ pc' = Dead(pc, "ended") /\ batch' = Dead(batch, {}) /\ cur' = Dead(cur, NoJob)
    /\ todo' = Dead(todo, {}) /\ verdict' = Dead(verdict, "pending")
    /\ UNCHANGED rows
    /\ Touch({})

(* lease_seconds pass without a write of updated_at.  A live thread starts and *)
(* settles what it holds in time, but for a job that may overrun and those that  *)
(* wait behind it.                                                                *)
Expire(j) ==
    /\ status[j] = "running" /\ ~expired[j]
    /\ \A t \in Threads : Holds(t, j) => {j, cur[t]} \cap MayOverrun # {}
    /\ expired' = [expired EXCEPT ![j] = TRUE]
    /\ UNCHANGED <<frag, status, attempts, owner, ledger, facts, procs, pc, frame, touched>>

ThreadStep(t) ==
    \/ ClaimBatch(t) \/ ClaimRefused(t) \/ TakeHold(t) \/ NextJob(t) \/ StopBatch(t)
    \/ EndBatch(t) \/ JobInterrupted(t) \/ StartJob(t) \/ ReadFragment(t)
    \/ RecordFact(t) \/ CompleteJob(t) \/ FailJob(t) \/ LeaveJob(t) \/ WorkerEnds(t)

CloseStep(s) == EndJoin(s) \/ GiveBack(s) \/ ShutStore(s)

Next ==
    \/ \E j \in Jobs : Enqueue(j) \/ Forget(j) \/ Expire(j)
    \/ \E t \in Threads : ThreadStep(t) \/ BeginPass(t) \/ JobRaises(t)
    \/ \E s \in Services : OpenService(s) \/ BeginClose(s) \/ CloseStep(s)
    \/ \E p \in Procs : Crash(p)

Spec == Init /\ [][Next]_vars

(* Threads are scheduled and extractions return; the worker polls for ever;  *)
(* a close() that began goes on; a service is opened again after a crash; the *)
(* lease of a job nobody renews expires.  Nothing is enqueued, forgotten,     *)
(* closed or crashed by necessity.                                            *)
Fairness ==
    /\ \A t \in Threads : WF_vars(ThreadStep(t))
    /\ \A t \in Workers : WF_vars(BeginPass(t))
    /\ \A s \in Services : WF_vars(CloseStep(s)) /\ WF_vars(OpenService(s))
    /\ \A j \in Jobs : WF_vars(Expire(j))

FairSpec == Spec /\ Fairness

----------------------------------------------------------------------------
(* Safety. *)

(* A row is running exactly while a claim is recorded for it, so a crashed    *)
(* holder can always be recognised and a settled job never looks claimed      *)
(* (fact_jobs.py: claim, release, _settle_job, _reclaim_dead, _abandon).      *)
ClaimRecorded ==
    \A j \in Jobs : frag[j] = "stored" =>
        (status[j] = "running" <=> owner[j] # NoOwner)

(* "done" means the whole text was extracted: no retry, crash, lost lease or   *)
(* hand-back lets a job be settled with candidates missing.                     *)
DoneIsExtracted ==
    \A j \in Jobs : status[j] = "done" /\ frag[j] = "stored" => ledger[j] = Cands

(* However often a job is run, by however many threads, each assertion becomes *)
(* one fact, and the ledger says which ones did (fact_set_extracted).           *)
OneFactPerKey ==
    \A j \in Jobs, c \in Cands : facts[j][c] = (IF c \in ledger[j] THEN 1 ELSE 0)

Runs(t, j) == cur[t] = j /\ pc[t] \in {"read", "work", "failing"}

(* The jobs whose lease is long enough, for their own extraction and for those  *)
(* they wait behind: a batch runs in the order of the ids (run_pending).       *)
Steady == {j \in Jobs : \A k \in MayOverrun : j < k}

(* While its lease is long enough, two workers never run one job at once,      *)
(* whatever crashes, reclaims and shutdowns happen meanwhile.                   *)
RunsAlone ==
    \A j \in Steady, t, u \in Threads :
        frag[j] = "stored" /\ Runs(t, j) /\ Runs(u, j) => t = u

(* For jobs whose lease is long enough the queue implements the life cycle its *)
(* documentation tells: claims are charged at most MaxAttempts times, only      *)
(* unstarted jobs are refunded, settled jobs stay settled, done means every      *)
(* candidate was recorded (fact_jobs.py:1-23, fact_job_claim, fact_job_fail).    *)
Kept(j, x, y) == IF frag[j] = "stored" THEN x ELSE y
Promise == INSTANCE JobPromise WITH
    Jobs      <- Steady,
    status    <- [j \in Steady |-> Kept(j, status[j], "forgotten")],
    attempts  <- [j \in Steady |-> Kept(j, attempts[j], 0)],
    extracted <- [j \in Steady |-> Kept(j, ledger[j], {})]
PromiseKept == Promise!Spec

(* Liveness: however often a job is queued, it is done, failed or forgotten     *)
(* again, whoever crashes or shuts down, as long as one service goes on polling. *)
QueueDrains ==
    \A j \in Jobs : []<>(status[j] \in {"done", "failed", "absent"})

================================================================================
