----------------------------- MODULE FactJobsProofs -----------------------------
(* Proofs about the fact-extraction queue, for every number of jobs, candidates,  *)
(* processes, services and threads, whatever MayOverrun is.                 *)
EXTENDS FactJobs, TLAPS

(* Every reachable state has the declared shape; in particular attempts never   *)
(* fall below zero however refunds and claims interleave.                        *)
LEMMA InitTypeOK == Init => TypeOK
  BY JobsAssumption, OwnerAssumption, LayoutAssumption, LimitsAssumption
     DEF Init, TypeOK, Status, SvcPhase, ThreadPc

(* A thread that executes _run_job has a job. *)
InJob == {"start", "read", "work", "failing", "finally"}
CurInv == \A t \in Threads : pc[t] \in InJob => cur[t] \in Jobs
Typed == TypeOK /\ CurInv

LEMMA StepTyped == Typed /\ [Next]_vars => Typed'
<1> SUFFICES ASSUME Typed, [Next]_vars PROVE Typed'
  OBVIOUS
<1> USE JobsAssumption, OwnerAssumption, LayoutAssumption, LimitsAssumption
        DEF Typed, TypeOK, CurInv, InJob, Touch, Goto, At, AtStore, rows, procs, frame, sets,
            jobvars, Status, SvcPhase, ThreadPc
<1>1. ASSUME NEW j \in Jobs, Enqueue(j) PROVE Typed'
  BY <1>1 DEF Enqueue
<1>2. ASSUME NEW j \in Jobs, Forget(j) PROVE Typed'
  BY <1>2 DEF Forget
<1>3. ASSUME NEW j \in Jobs, Expire(j) PROVE Typed'
  BY <1>3 DEF Expire
<1>4. ASSUME NEW t \in Threads, BeginPass(t) PROVE Typed'
  BY <1>4 DEF BeginPass
<1>5. ASSUME NEW t \in Threads, WorkerEnds(t) PROVE Typed'
  BY <1>5 DEF WorkerEnds
<1>6. ASSUME NEW t \in Threads, ClaimBatch(t) PROVE Typed'
  <2> DEFINE picked == OldestN(Runnable(Requeued(Proc(t)), t) \ GivenUp(Proc(t)), BatchSize)
             lapsed == {j \in picked \ Requeued(Proc(t)) : status[j] = "running" /\ Spent(j)}
             claimed == picked \ lapsed
             abandoned == lapsed \cup GivenUp(Proc(t))
  <2>1. Proc(t) \in Procs
    BY DEF Proc
  <2>2. claimed \subseteq Jobs /\ abandoned \subseteq Jobs
    BY DEF OldestN, Runnable, GivenUp, Orphans
  <2> HIDE DEF claimed, abandoned, picked
  <2>3. status' \in [Jobs -> Status] /\ expired' \in [Jobs -> BOOLEAN]
    BY <1>6 DEF ClaimBatch, claimed, abandoned, picked
  <2>4. attempts' \in [Jobs -> Nat]
    BY <1>6, \A j \in Jobs : attempts[j] + 1 \in Nat /\ attempts[j] + 0 \in Nat
       DEF ClaimBatch
  <2>5. owner' \in [Jobs -> Procs \cup {NoOwner}]
    BY <1>6, <2>1 DEF ClaimBatch
  <2>6. batch' = [batch EXCEPT ![t] = claimed] /\ touched' \in [Threads -> SUBSET Jobs]
    BY <1>6, <2>2 DEF ClaimBatch, claimed, abandoned, picked
  <2>7. pc' \in [Threads -> ThreadPc] /\ \A u \in Threads : pc'[u] \in InJob => pc[u] \in InJob
    BY <1>6 DEF ClaimBatch
  <2>8. UNCHANGED <<frag, ledger, facts, procs, cur, todo, verdict>>
    BY <1>6 DEF ClaimBatch
  <2> QED
    BY <2>2, <2>3, <2>4, <2>5, <2>6, <2>7, <2>8
<1>7. ASSUME NEW t \in Threads, ClaimRefused(t) PROVE Typed'
  BY <1>7 DEF ClaimRefused
<1>8. ASSUME NEW t \in Threads, TakeHold(t) PROVE Typed'
  BY <1>8 DEF TakeHold
<1>9. ASSUME NEW t \in Threads, NextJob(t) PROVE Typed'
  BY <1>9 DEF NextJob
<1>10. ASSUME NEW t \in Threads, StopBatch(t) PROVE Typed'
  BY <1>10 DEF StopBatch, Release, Refund, Unclaim, Releasable
<1>11. ASSUME NEW t \in Threads, EndBatch(t) PROVE Typed'
  BY <1>11 DEF EndBatch
<1>12. ASSUME NEW t \in Threads, JobInterrupted(t) PROVE Typed'
  BY <1>12 DEF JobInterrupted
<1>13. ASSUME NEW t \in Threads, StartJob(t) PROVE Typed'
  BY <1>13 DEF StartJob
<1>14. ASSUME NEW t \in Threads, ReadFragment(t) PROVE Typed'
  BY <1>14 DEF ReadFragment
<1>15. ASSUME NEW t \in Threads, RecordFact(t) PROVE Typed'
  <2>1. PICK c \in todo[t] :
           /\ ledger' = [ledger EXCEPT ![cur[t]] = @ \cup {c}]
           /\ facts' = IF NewFact(cur[t], c) THEN [facts EXCEPT ![cur[t]][c] = @ + 1] ELSE facts
           /\ todo' = [todo EXCEPT ![t] = @ \ {c}]
    BY <1>15 DEF RecordFact
  <2>2. cur[t] \in Jobs /\ c \in Cands
    BY <1>15, <2>1 DEF RecordFact
  <2>3. facts' \in [Jobs -> [Cands -> Nat]]
    <3>1. facts[cur[t]] \in [Cands -> Nat]
      BY <2>2
    <3>2. facts[cur[t]][c] + 1 \in Nat
      BY <2>2, <3>1
    <3>3. [facts[cur[t]] EXCEPT ![c] = @ + 1] \in [Cands -> Nat]
      BY <3>1, <3>2
    <3> QED
      BY <2>1, <2>2, <3>3
  <2>4. ledger' \in [Jobs -> SUBSET Cands] /\ todo' \in [Threads -> SUBSET Cands]
    BY <2>1, <2>2
  <2> QED
    BY <1>15, <2>3, <2>4 DEF RecordFact
<1>16. ASSUME NEW t \in Threads, CompleteJob(t) PROVE Typed'
  BY <1>16 DEF CompleteJob, Settle
<1>17. ASSUME NEW t \in Threads, JobRaises(t) PROVE Typed'
  BY <1>17 DEF JobRaises, Verdict
<1>18. ASSUME NEW t \in Threads, FailJob(t) PROVE Typed'
  BY <1>18 DEF FailJob, Settle
<1>19. ASSUME NEW t \in Threads, LeaveJob(t) PROVE Typed'
  BY <1>19 DEF LeaveJob
<1>20. ASSUME NEW s \in Services, OpenService(s) PROVE Typed'
  BY <1>20 DEF OpenService, Unclaim, GivenUp, Orphans
<1>21. ASSUME NEW s \in Services, BeginClose(s) PROVE Typed'
  BY <1>21 DEF BeginClose
<1>22. ASSUME NEW s \in Services, EndJoin(s) PROVE Typed'
  BY <1>22 DEF EndJoin
<1>23. ASSUME NEW s \in Services, GiveBack(s) PROVE Typed'
  BY <1>23 DEF GiveBack, Release, Refund, Unclaim, Releasable
<1>24. ASSUME NEW s \in Services, ShutStore(s) PROVE Typed'
  BY <1>24 DEF ShutStore
<1>25. ASSUME NEW p \in Procs, Crash(p) PROVE Typed'
  BY <1>25 DEF Crash
<1>26. CASE UNCHANGED vars
  BY <1>26 DEF vars
<1> QED
  BY <1>1, <1>2, <1>3, <1>4, <1>5, <1>6, <1>7, <1>8, <1>9, <1>10, <1>11, <1>12,
     <1>13, <1>14, <1>15, <1>16, <1>17, <1>18, <1>19, <1>20, <1>21, <1>22, <1>23,
     <1>24, <1>25, <1>26 DEF Next, ThreadStep, CloseStep

(* Type correctness of the queue, its services and its threads. *)
THEOREM TypeCorrect == Spec => []TypeOK
<1>1. Init => Typed
  BY InitTypeOK DEF Init, Typed, CurInv, InJob
<1>2. Typed => TypeOK
  BY DEF Typed
<1> QED
  BY <1>1, <1>2, StepTyped, PTL DEF Spec

-----------------------------------------------------------------------------
(* Most steps leave the queue rows, the ledger and the facts alone. *)
LEMMA RowsStay ==
  ASSUME [Next]_vars
  PROVE  \/ UNCHANGED rows
         \/ \E j \in Jobs : Enqueue(j) \/ Forget(j) \/ Expire(j)
         \/ \E t \in Threads : ClaimBatch(t) \/ StopBatch(t) \/ StartJob(t) \/ RecordFact(t)
                               \/ CompleteJob(t) \/ FailJob(t)
         \/ \E s \in Services : OpenService(s) \/ GiveBack(s)
  BY DEF Next, vars, ThreadStep, CloseStep, BeginPass, WorkerEnds, ClaimRefused, TakeHold,
         NextJob, EndBatch, JobInterrupted, ReadFragment, JobRaises, LeaveJob, BeginClose,
         EndJoin, ShutStore, Crash

(* A row of a stored fragment is running exactly while a claim is recorded for   *)
(* it: every transaction that moves a row out of "running" deletes the owner row. *)
LEMMA StepClaimRecorded == Typed /\ ClaimRecorded /\ [Next]_vars => ClaimRecorded'
<1> SUFFICES ASSUME Typed, ClaimRecorded, [Next]_vars PROVE ClaimRecorded'
  OBVIOUS
<1> USE JobsAssumption, OwnerAssumption, LayoutAssumption, LimitsAssumption
        DEF Typed, TypeOK, ClaimRecorded, rows, jobvars, Status
<1>1. CASE UNCHANGED rows
  BY <1>1
<1>2. ASSUME NEW j \in Jobs, Enqueue(j) PROVE ClaimRecorded'
  BY <1>2 DEF Enqueue
<1>3. ASSUME NEW j \in Jobs, Forget(j) PROVE ClaimRecorded'
  BY <1>3 DEF Forget
<1>4. ASSUME NEW j \in Jobs, Expire(j) PROVE ClaimRecorded'
  BY <1>4 DEF Expire
<1>5. ASSUME NEW t \in Threads, ClaimBatch(t) PROVE ClaimRecorded'
  <2> DEFINE picked == OldestN(Runnable(Requeued(Proc(t)), t) \ GivenUp(Proc(t)), BatchSize)
             lapsed == {j \in picked \ Requeued(Proc(t)) : status[j] = "running" /\ Spent(j)}
             claimed == picked \ lapsed
             abandoned == lapsed \cup GivenUp(Proc(t))
  <2>1. Proc(t) \in Procs /\ Proc(t) # NoOwner
    BY DEF Proc
  <2>2. /\ Orphans(Proc(t)) = Requeued(Proc(t)) \cup GivenUp(Proc(t))
        /\ claimed \cap abandoned = {}
    BY DEF OldestN, GivenUp, Requeued
  <2> HIDE DEF claimed, abandoned, picked
  <2>3. ASSUME NEW j \in Jobs, frag[j] = "stored"
        PROVE  status'[j] = "running" <=> owner'[j] # NoOwner
    <3>1. /\ status'[j] = IF j \in claimed THEN "running"
                           ELSE IF j \in abandoned THEN "failed"
                           ELSE IF j \in Requeued(Proc(t)) THEN "pending"
                           ELSE status[j]
          /\ owner'[j] = IF j \in claimed THEN Proc(t)
                          ELSE IF j \in abandoned \cup Orphans(Proc(t)) THEN NoOwner
                          ELSE owner[j]
      BY <1>5, <2>3 DEF ClaimBatch, claimed, abandoned, picked
    <3> QED
      BY <2>1, <2>2, <2>3, <3>1 DEF abandoned
  <2> QED
    BY <1>5, <2>3 DEF ClaimBatch
<1>6. ASSUME NEW t \in Threads, StopBatch(t) PROVE ClaimRecorded'
  BY <1>6 DEF StopBatch, Release, Unclaim, Releasable
<1>7. ASSUME NEW t \in Threads, StartJob(t) PROVE ClaimRecorded'
  BY <1>7 DEF StartJob
<1>8. ASSUME NEW t \in Threads, RecordFact(t) PROVE ClaimRecorded'
  BY <1>8 DEF RecordFact
<1>9. ASSUME NEW t \in Threads, CompleteJob(t) PROVE ClaimRecorded'
  BY <1>9 DEF CompleteJob, Settle
<1>10. ASSUME NEW t \in Threads, FailJob(t) PROVE ClaimRecorded'
  BY <1>10 DEF FailJob, Settle
<1>11. ASSUME NEW s \in Services, OpenService(s) PROVE ClaimRecorded'
  BY <1>11 DEF OpenService, Unclaim, GivenUp, Requeued, Orphans, OwnerIsDead
<1>12. ASSUME NEW s \in Services, GiveBack(s) PROVE ClaimRecorded'
  BY <1>12 DEF GiveBack, Release, Unclaim, Releasable
<1> QED
  BY RowsStay, <1>1, <1>2, <1>3, <1>4, <1>5, <1>6, <1>7, <1>8, <1>9, <1>10, <1>11, <1>12

(* A crashed holder can always be recognised, and a settled row never looks      *)
(* claimed: "running" and an owner row go together in every reachable state.      *)
THEOREM ClaimAlwaysRecorded == Spec => []ClaimRecorded
<1>1. Init => Typed /\ ClaimRecorded
  BY InitTypeOK DEF Init, Typed, CurInv, InJob, ClaimRecorded
<1> QED
  BY <1>1, StepTyped, StepClaimRecorded, PTL DEF Spec

-----------------------------------------------------------------------------
(* The ledger and the facts are written in one transaction and deleted in one,   *)
(* so a candidate has one live fact when it is in the ledger and none otherwise,  *)
(* even when several threads run the same job at once.                             *)
LEMMA StepOneFactPerKey == Typed /\ OneFactPerKey /\ [Next]_vars => OneFactPerKey'
<1> SUFFICES ASSUME Typed, OneFactPerKey, [Next]_vars PROVE OneFactPerKey'
  OBVIOUS
<1> USE JobsAssumption, OwnerAssumption, LayoutAssumption, LimitsAssumption
        DEF Typed, TypeOK, OneFactPerKey, rows
<1>1. CASE UNCHANGED <<ledger, facts>>
  BY <1>1
<1>2. ASSUME NEW j \in Jobs, Forget(j) PROVE OneFactPerKey'
  BY <1>2 DEF Forget
<1>3. ASSUME NEW t \in Threads, RecordFact(t) PROVE OneFactPerKey'
  <2>1. PICK c \in todo[t] :
           /\ ledger' = [ledger EXCEPT ![cur[t]] = @ \cup {c}]
           /\ facts' = IF NewFact(cur[t], c) THEN [facts EXCEPT ![cur[t]][c] = @ + 1] ELSE facts
    BY <1>3 DEF RecordFact
  <2>2. cur[t] \in Jobs /\ c \in Cands
    BY <1>3, <2>1 DEF RecordFact, AtStore, At, CurInv, InJob
  <2>3. CASE NewFact(cur[t], c)
    <3>1. facts[cur[t]] \in [Cands -> Nat] /\ facts[cur[t]][c] = 0
      BY <2>2, <2>3 DEF NewFact
    <3>2. facts' = [facts EXCEPT ![cur[t]] = [facts[cur[t]] EXCEPT ![c] = 1]]
      BY <2>1, <2>2, <2>3, <3>1
    <3> QED
      BY <2>1, <2>2, <3>1, <3>2
  <2>4. CASE ~NewFact(cur[t], c)
    BY <2>1, <2>2, <2>4 DEF NewFact
  <2> QED
    BY <2>3, <2>4
<1> QED
  <2>1. \/ UNCHANGED <<ledger, facts>>
        \/ \E j \in Jobs : Forget(j)
        \/ \E t \in Threads : RecordFact(t)
    BY RowsStay DEF Enqueue, Expire, ClaimBatch, StopBatch, StartJob, CompleteJob, FailJob,
                    OpenService, GiveBack, Release
  <2> QED
    BY <2>1, <1>1, <1>2, <1>3

(* Each assertion of a fragment becomes one fact, however often its job is run. *)
THEOREM EachKeyOnce == Spec => []OneFactPerKey
<1>1. Init => Typed /\ OneFactPerKey
  BY InitTypeOK DEF Init, Typed, CurInv, InJob, OneFactPerKey
<1> QED
  BY <1>1, StepTyped, StepOneFactPerKey, PTL DEF Spec

-----------------------------------------------------------------------------
(* DoneIsExtracted is not inductive: it needs that what a thread has gone        *)
(* through is in the ledger for as long as the fragment exists.                    *)
WorkInv == \A t \in Threads :
              pc[t] = "work" /\ frag[cur[t]] = "stored"
                 => Cands \ todo[t] \subseteq ledger[cur[t]]
ExtractInv == DoneIsExtracted /\ WorkInv

LEMMA StepExtractInv == Typed /\ ExtractInv /\ [Next]_vars => ExtractInv'
<1> SUFFICES ASSUME Typed, ExtractInv, [Next]_vars PROVE ExtractInv'
  OBVIOUS
<1> USE JobsAssumption, OwnerAssumption, LayoutAssumption, LimitsAssumption
        DEF Typed, TypeOK, CurInv, InJob, ExtractInv, DoneIsExtracted, WorkInv, At, AtStore,
            Goto, rows, frame, jobvars, Status, ThreadPc
<1>1. ASSUME NEW j \in Jobs, Enqueue(j) PROVE ExtractInv'
  BY <1>1 DEF Enqueue
<1>2. ASSUME NEW j \in Jobs, Forget(j) PROVE ExtractInv'
  BY <1>2 DEF Forget
<1>3. ASSUME NEW j \in Jobs, Expire(j) PROVE ExtractInv'
  BY <1>3 DEF Expire
<1>4. ASSUME NEW t \in Threads,
             \/ BeginPass(t) \/ WorkerEnds(t) \/ ClaimRefused(t) \/ TakeHold(t) \/ NextJob(t)
             \/ EndBatch(t) \/ JobInterrupted(t) \/ JobRaises(t) \/ LeaveJob(t)
      PROVE  ExtractInv'
  BY <1>4 DEF BeginPass, WorkerEnds, ClaimRefused, TakeHold, NextJob, EndBatch,
              JobInterrupted, JobRaises, LeaveJob
<1>5. ASSUME NEW t \in Threads, ClaimBatch(t) PROVE ExtractInv'
  BY <1>5 DEF ClaimBatch
<1>6. ASSUME NEW t \in Threads, StopBatch(t) PROVE ExtractInv'
  BY <1>6 DEF StopBatch, Release
<1>7. ASSUME NEW t \in Threads, StartJob(t) PROVE ExtractInv'
  BY <1>7 DEF StartJob
<1>8. ASSUME NEW t \in Threads, ReadFragment(t) PROVE ExtractInv'
  <2>1. UNCHANGED <<frag, status, ledger, cur>> /\ cur[t] \in Jobs
    BY <1>8 DEF ReadFragment
  <2>2. \A u \in Threads : u # t => pc'[u] = pc[u] /\ todo'[u] = todo[u]
    BY <1>8 DEF ReadFragment
  <2>3. frag[cur[t]] = "stored" => todo'[t] = Cands
    BY <1>8 DEF ReadFragment
  <2> QED
    BY <2>1, <2>2, <2>3
<1>9. ASSUME NEW t \in Threads, RecordFact(t) PROVE ExtractInv'
  <2>1. PICK c \in todo[t] : /\ ledger' = [ledger EXCEPT ![cur[t]] = @ \cup {c}]
                             /\ todo' = [todo EXCEPT ![t] = @ \ {c}]
    BY <1>9 DEF RecordFact
  <2>2. UNCHANGED <<frag, status, cur, pc>> /\ cur[t] \in Jobs /\ c \in Cands
    BY <1>9, <2>1 DEF RecordFact
  <2>3. \A j \in Jobs : ledger[j] \subseteq ledger'[j] /\ ledger'[j] \subseteq Cands
    BY <2>1, <2>2
  <2>4. DoneIsExtracted'
    <3>1. ASSUME NEW j \in Jobs, status[j] = "done", frag[j] = "stored"
          PROVE  ledger'[j] = Cands
      <4>1. ledger[j] = Cands
        BY <3>1
      <4>2. Cands \subseteq ledger'[j] /\ ledger'[j] \subseteq Cands
        BY <2>3, <4>1
      <4> QED
        BY <4>2, Zenon
    <3> QED
      BY <2>2, <3>1
  <2>5. ASSUME NEW u \in Threads, pc'[u] = "work", frag'[cur'[u]] = "stored"
        PROVE  Cands \ todo'[u] \subseteq ledger'[cur'[u]]
    <3>1. cur[u] \in Jobs /\ Cands \ todo[u] \subseteq ledger[cur[u]]
      BY <2>2, <2>5
    <3> QED
      BY <2>1, <2>2, <2>3, <3>1
  <2> QED
    BY <2>4, <2>5
<1>10. ASSUME NEW t \in Threads, CompleteJob(t) PROVE ExtractInv'
  <2>1. UNCHANGED <<frag, ledger, cur, todo>> /\ cur[t] \in Jobs
    BY <1>10 DEF CompleteJob
  <2>2. frag[cur[t]] = "stored" => ledger[cur[t]] = Cands
    <3>1. pc[t] = "work" /\ todo[t] = {}
      BY <1>10 DEF CompleteJob, Extracted
    <3>2. frag[cur[t]] = "stored" => Cands \subseteq ledger[cur[t]]
      BY <3>1
    <3>3. ledger[cur[t]] \subseteq Cands
      BY <2>1
    <3> QED
      BY <3>2, <3>3
  <2>3. \A j \in Jobs : status'[j] = "done" => status[j] = "done" \/ j = cur[t]
    BY <1>10, <2>1 DEF CompleteJob, Settle
  <2>4. \A u \in Threads : pc'[u] = "work" => pc[u] = "work"
    BY <1>10 DEF CompleteJob
  <2> QED
    BY <2>1, <2>2, <2>3, <2>4
<1>11. ASSUME NEW t \in Threads, FailJob(t) PROVE ExtractInv'
  <2>1. UNCHANGED <<frag, ledger, cur, todo>> /\ cur[t] \in Jobs
    BY <1>11 DEF FailJob
  <2>2. \A j \in Jobs : status'[j] = "done" => status[j] = "done"
    BY <1>11, <2>1 DEF FailJob, Settle
  <2>3. \A u \in Threads : pc'[u] = "work" => pc[u] = "work"
    BY <1>11 DEF FailJob
  <2> QED
    BY <2>1, <2>2, <2>3
<1>12. ASSUME NEW s \in Services, OpenService(s) \/ GiveBack(s) PROVE ExtractInv'
  <2>1. UNCHANGED <<frag, ledger, cur, todo, pc>>
    BY <1>12 DEF OpenService, GiveBack, Release
  <2>2. ASSUME NEW j \in Jobs, status'[j] = "done"
        PROVE  status[j] = "done"
    <3>1. CASE OpenService(s)
      BY <2>2, <3>1 DEF OpenService
    <3>2. CASE GiveBack(s)
      BY <2>2, <3>2 DEF GiveBack, Release
    <3> QED
      BY <1>12, <3>1, <3>2
  <2> QED
    BY <2>1, <2>2
<1>13. ASSUME NEW s \in Services, BeginClose(s) \/ EndJoin(s) \/ ShutStore(s)
       PROVE  ExtractInv'
  BY <1>13 DEF BeginClose, EndJoin, ShutStore
<1>14. ASSUME NEW p \in Procs, Crash(p) PROVE ExtractInv'
  BY <1>14 DEF Crash
<1>15. CASE UNCHANGED vars
  BY <1>15 DEF vars
<1> QED
  BY <1>1, <1>2, <1>3, <1>4, <1>5, <1>6, <1>7, <1>8, <1>9, <1>10, <1>11, <1>12, <1>13,
     <1>14, <1>15 DEF Next, ThreadStep, CloseStep

(* A job marked done has had every candidate of its fragment recorded.           *)
THEOREM DoneAlwaysExtracted == Spec => []DoneIsExtracted
<1>1. Init => Typed /\ ExtractInv
  BY InitTypeOK DEF Init, Typed, CurInv, InJob, ExtractInv, DoneIsExtracted, WorkInv
<1>2. ExtractInv => DoneIsExtracted
  BY DEF ExtractInv
<1> QED
  BY <1>1, <1>2, StepTyped, StepExtractInv, PTL DEF Spec
----------------------------------------------------------------------------
(* No two threads run one steady job.  The argument: a thread that has a steady  *)
(* job keeps its claim (HasClaim), so nobody else can claim it (ClaimBatch), and    *)
(* close() waits for it (StoppedInv, WaitingInv).                                     *)

(* close() joins workers only: no drain() caller uses a service that is closed.  *)
CallersStay == \A t \in Threads \ Workers : SvcOf[t] \notin MayClose

(* Thread t has job j still to run, or runs it. *)
Has(t, j) == j \in batch[t] \/ (cur[t] = j /\ pc[t] \in {"start", "read", "work", "failing"})

(* Who has a steady job has its claim, with a lease that has not lapsed. *)
HasClaim ==
    \A t \in Threads, j \in Steady : frag[j] = "stored" /\ Has(t, j) =>
        /\ status[j] = "running" /\ owner[j] = Proc(t) /\ ~expired[j]
        /\ Proc(t) \in alive

OneHas ==
    \A t, u \in Threads, j \in Steady :
        frag[j] = "stored" /\ Has(t, j) /\ Has(u, j) => t = u

(* A batch is run in order of ids. *)
Ordered == \A t \in Threads : cur[t] # NoJob => \A k \in batch[t] : cur[t] < k

(* Between jobs there is no current one, between passes no batch. *)
Where ==
    \A t \in Threads :
        /\ pc[t] \in {"idle", "claim", "take", "next", "ended"} => cur[t] = NoJob
        /\ pc[t] \in {"idle", "claim", "ended"} => batch[t] = {}

(* Once close() stopped waiting, the threads of the service have no steady job  *)
(* and get none.                                                                 *)
StoppedInv ==
    \A t \in Threads : svc[SvcOf[t]] \in {"giving", "closed", "shut"} =>
        /\ pc[t] \notin {"claim", "take"}
        /\ cur[t] \notin Steady /\ batch[t] \cap Steady = {}

(* _held names jobs some thread of the service has, or is leaving. *)
HeldInv ==
    \A s \in Services : \A j \in held[s] :
        \E t \in Threads : SvcOf[t] = s /\ j \in batch[t] \cup {cur[t]}

(* close() never hands back a steady job. *)
WaitingInv ==
    \A s \in Services :
        /\ svc[s] = "joining" => s \in MayClose
        /\ (waiting[s] \cup running[s]) \cap Steady = {}

AloneInv == /\ Typed /\ HasClaim /\ OneHas /\ Ordered /\ Where
            /\ StoppedInv /\ HeldInv /\ WaitingInv

----------------------------------------------------------------------------
(* Steps. *)
USE DEF At, AtStore, Goto, rows, jobvars, procs, sets, frame, InJob

(* The write path: only an absent row becomes pending, a forgotten job no longer   *)
(* counts, and a lease lapses only where no live thread is in time (Expire).       *)
LEMMA EnqueueAlone == ASSUME CallersStay, AloneInv, NEW j \in Jobs, Enqueue(j) PROVE AloneInv'
<1>. Typed /\ HasClaim /\ OneHas /\ Ordered /\ Where /\ StoppedInv /\ HeldInv /\ WaitingInv
  BY DEF AloneInv
<1>1. Typed'
  BY StepTyped DEF Next, ThreadStep, CloseStep
<1>2. HasClaim' /\ OneHas' /\ Ordered' /\ Where' /\ StoppedInv' /\ HeldInv' /\ WaitingInv'
  BY DEF HasClaim, Has, Steady, Proc, OneHas, Ordered, Where, StoppedInv, HeldInv, WaitingInv,
      Enqueue
<1>. QED
  BY <1>1, <1>2 DEF AloneInv

LEMMA ForgetAlone == ASSUME CallersStay, AloneInv, NEW j \in Jobs, Forget(j) PROVE AloneInv'
<1>. Typed /\ HasClaim /\ OneHas /\ Ordered /\ Where /\ StoppedInv /\ HeldInv /\ WaitingInv
  BY DEF AloneInv
<1>1. Typed'
  BY StepTyped DEF Next, ThreadStep, CloseStep
<1>2. HasClaim'  BY DEF HasClaim, Has, Steady, Proc, Typed, TypeOK, CurInv, Forget
<1>3. OneHas'  BY DEF OneHas, Has, Steady, Typed, TypeOK, CurInv, Forget
<1>4. Ordered'  BY DEF Ordered, Forget
<1>5. Where'  BY DEF Where, Forget
<1>6. StoppedInv'  BY DEF StoppedInv, Steady, Proc, Forget
<1>7. HeldInv'  BY DEF HeldInv, Forget
<1>8. WaitingInv'  BY DEF WaitingInv, Steady, Forget
<1>. QED
  BY <1>1, <1>2, <1>3, <1>4, <1>5, <1>6, <1>7, <1>8 DEF AloneInv

LEMMA ExpireAlone == ASSUME CallersStay, AloneInv, NEW j \in Jobs, Expire(j) PROVE AloneInv'
<1>. Typed /\ HasClaim /\ OneHas /\ Ordered /\ Where /\ StoppedInv /\ HeldInv /\ WaitingInv
  BY DEF AloneInv
<1>1. Typed'
  BY StepTyped DEF Next, ThreadStep, CloseStep
<1>2. HasClaim'
  <2> SUFFICES ASSUME NEW t \in Threads, NEW k \in Steady, frag'[k] = "stored", Has(t, k)'
              PROVE  /\ status'[k] = "running" /\ owner'[k] = Proc(t) /\ ~expired'[k]
                     /\ Proc(t) \in alive'
    BY DEF HasClaim, Proc
  <2>1. UNCHANGED <<frag, status, owner, alive, pc, batch, cur>> /\ Has(t, k) /\ k \in Jobs
    BY DEF Expire, Has, Steady
  <2>2. status[k] = "running" /\ owner[k] = Proc(t) /\ ~expired[k] /\ Proc(t) \in alive
    BY <2>1 DEF HasClaim
  <2>3. k # j
    <3> SUFFICES ASSUME k = j PROVE FALSE
      OBVIOUS
    <3>1. {k, cur[t]} \cap MayOverrun # {}
      BY <2>1, <2>2 DEF Expire, Holds, Has
    <3>2. \A o \in MayOverrun : k < o /\ o \in Nat
      BY JobsAssumption, LimitsAssumption DEF Steady
    <3>3. k \in Nat
      BY <2>1, JobsAssumption
    <3>4. cur[t] \in MayOverrun /\ cur[t] # k
      BY <3>1, <3>2, <3>3
    <3>5. k \in batch[t] /\ cur[t] # NoJob
      BY <2>1, <3>4, JobsAssumption, LimitsAssumption DEF Has
    <3>6. cur[t] < k
      BY <3>5 DEF Ordered
    <3> QED
      BY <3>2, <3>3, <3>4, <3>6
  <2> QED
    BY <2>1, <2>2, <2>3 DEF Expire, Typed, TypeOK
<1>3. OneHas'  BY DEF OneHas, Has, Steady, Expire, Holds
<1>4. Ordered'  BY DEF Ordered, Expire, Holds
<1>5. Where'  BY DEF Where, Expire, Holds
<1>6. StoppedInv'  BY DEF StoppedInv, Steady, Proc, Expire, Holds
<1>7. HeldInv'  BY DEF HeldInv, Expire, Holds
<1>8. WaitingInv'  BY DEF WaitingInv, Steady, Expire, Holds
<1>. QED
  BY <1>1, <1>2, <1>3, <1>4, <1>5, <1>6, <1>7, <1>8 DEF AloneInv

(* run_pending: a claim, the batch and its hand-back. *)
LEMMA BeginPassAlone == ASSUME CallersStay, AloneInv, NEW t \in Threads, BeginPass(t) PROVE AloneInv'
<1>. Typed /\ HasClaim /\ OneHas /\ Ordered /\ Where /\ StoppedInv /\ HeldInv /\ WaitingInv
  BY DEF AloneInv
<1>1. Typed'
  BY StepTyped DEF Next, ThreadStep, CloseStep
<1>2. HasClaim' /\ OneHas' /\ Ordered' /\ Where' /\ StoppedInv' /\ HeldInv' /\ WaitingInv'
  BY DEF HasClaim, Has, Steady, Proc, OneHas, Ordered, Where, StoppedInv, HeldInv, WaitingInv,
      BeginPass, Stopping
<1>. QED
  BY <1>1, <1>2 DEF AloneInv

LEMMA WorkerEndsAlone == ASSUME CallersStay, AloneInv, NEW t \in Threads, WorkerEnds(t) PROVE AloneInv'
<1>. Typed /\ HasClaim /\ OneHas /\ Ordered /\ Where /\ StoppedInv /\ HeldInv /\ WaitingInv
  BY DEF AloneInv
<1>1. Typed'
  BY StepTyped DEF Next, ThreadStep, CloseStep
<1>2. HasClaim' /\ OneHas' /\ Ordered' /\ Where' /\ StoppedInv' /\ HeldInv' /\ WaitingInv'
  BY DEF HasClaim, Has, Steady, Proc, OneHas, Ordered, Where, StoppedInv, HeldInv, WaitingInv,
      WorkerEnds
<1>. QED
  BY <1>1, <1>2 DEF AloneInv

(* A claim takes a steady job from nobody: it was not pending, its owner is alive *)
(* and its lease has not lapsed.                                                  *)
LEMMA ClaimsOnlyFree ==
  ASSUME AloneInv, NEW t \in Threads, ClaimBatch(t),
         NEW u \in Threads, NEW j \in Steady, frag[j] = "stored", Has(u, j)'
  PROVE  LET p == Proc(t)
             picked == OldestN(Runnable(Requeued(p), t) \ GivenUp(p), BatchSize)
             claimed == picked \ {k \in picked \ Requeued(p) : status[k] = "running" /\ Spent(k)}
         IN  \/ u = t /\ j \in claimed
             \/ j \notin picked \cup Orphans(p) /\ Has(u, j)
<1> DEFINE p == Proc(t)
           picked == OldestN(Runnable(Requeued(p), t) \ GivenUp(p), BatchSize)
           claimed == picked \ {k \in picked \ Requeued(p) : status[k] = "running" /\ Spent(k)}
<1>1. Typed /\ HasClaim
  BY DEF AloneInv
<1>2. batch' = [batch EXCEPT ![t] = claimed] /\ pc[t] = "claim" /\ cur' = cur
      /\ \E at \in {"idle", "take"} : pc' = [pc EXCEPT ![t] = at]
  BY DEF ClaimBatch
<1>3. ASSUME Has(u, j) PROVE j \notin picked \cup Orphans(p)
  <2>1. j \in Jobs /\ status[j] = "running" /\ owner[j] \in alive /\ ~expired[j]
    BY <1>1, <1>3 DEF HasClaim, Steady
  <2>2. j \notin Orphans(p)
    BY <2>1 DEF Orphans, OwnerIsDead
  <2>3. j \notin Runnable(Requeued(p), t)
    BY <2>1, <2>2 DEF Runnable, Requeued
  <2> QED
    BY <2>2, <2>3 DEF OldestN
<1>4. CASE u # t
  <2>1. Has(u, j)
    BY <1>1, <1>2, <1>4 DEF Has, Typed, TypeOK
  <2> QED
    BY <1>3, <2>1
<1>5. CASE u = t
  <2> HIDE DEF claimed
  <2>1. j \in claimed
    BY <1>1, <1>2, <1>5 DEF Has, Typed, TypeOK
  <2> QED
    BY <1>5, <2>1 DEF claimed
<1> QED
  BY <1>4, <1>5

LEMMA ClaimBatchAlone == ASSUME CallersStay, AloneInv, NEW t \in Threads, ClaimBatch(t) PROVE AloneInv'
<1>. Typed /\ HasClaim /\ OneHas /\ Ordered /\ Where /\ StoppedInv /\ HeldInv /\ WaitingInv
  BY DEF AloneInv
<1>1. Typed'
  BY StepTyped DEF Next, ThreadStep, CloseStep
<1>2. HasClaim'
  <2> DEFINE p == Proc(t)
             picked == OldestN(Runnable(Requeued(p), t) \ GivenUp(p), BatchSize)
             lapsed == {j \in picked \ Requeued(p) : status[j] = "running" /\ Spent(j)}
             claimed == picked \ lapsed
  <2> SUFFICES ASSUME NEW u \in Threads, NEW j \in Steady, frag'[j] = "stored", Has(u, j)'
              PROVE  /\ status'[j] = "running" /\ owner'[j] = Proc(u) /\ ~expired'[j]
                     /\ Proc(u) \in alive'
    BY DEF HasClaim, Proc
  <2>1. j \in Jobs /\ UNCHANGED <<frag, alive>> /\ p \in alive
    BY DEF ClaimBatch, Steady
  <2>2. (u = t /\ j \in claimed) \/ (j \notin picked \cup Orphans(p) /\ Has(u, j))
    BY <2>1, ClaimsOnlyFree DEF ClaimBatch
  <2>3. CASE u = t /\ j \in claimed
    BY <2>1, <2>3 DEF ClaimBatch
  <2>4. CASE j \notin picked \cup Orphans(p) /\ Has(u, j)
    <3>1. status[j] = "running" /\ owner[j] = Proc(u) /\ ~expired[j] /\ Proc(u) \in alive
      BY <2>1, <2>4 DEF HasClaim
    <3>2. j \notin claimed /\ j \notin lapsed \cup GivenUp(p) /\ j \notin Requeued(p)
      BY <2>4 DEF GivenUp, Requeued
    <3> HIDE DEF claimed, lapsed, picked
    <3> QED
      BY <2>1, <2>4, <3>1, <3>2 DEF ClaimBatch, claimed, lapsed, picked
  <2> QED
    BY <2>2, <2>3, <2>4
<1>3. OneHas'
  <2> DEFINE p == Proc(t)
             picked == OldestN(Runnable(Requeued(p), t) \ GivenUp(p), BatchSize)
             claimed == picked \ {j \in picked \ Requeued(p) : status[j] = "running" /\ Spent(j)}
  <2> SUFFICES ASSUME NEW u \in Threads, NEW v \in Threads, NEW j \in Steady,
                      frag'[j] = "stored", Has(u, j)', Has(v, j)'
              PROVE  u = v
    BY DEF OneHas
  <2>1. frag[j] = "stored"
    BY DEF ClaimBatch
  <2>2. \A x \in {u, v} : (x = t /\ j \in claimed) \/ (j \notin picked \cup Orphans(p) /\ Has(x, j))
    BY <2>1, ClaimsOnlyFree
  <2> QED
    BY <2>1, <2>2 DEF OneHas
<1>4. Ordered'  BY DEF Ordered, Where, ClaimBatch, StoreOpen
<1>5. Where'  BY DEF Where, Typed, TypeOK, CurInv, ClaimBatch, StoreOpen
<1>6. StoppedInv'  BY DEF StoppedInv, Steady, Proc, ClaimBatch, StoreOpen
<1>7. HeldInv'  BY DEF HeldInv, Where, ClaimBatch, StoreOpen
<1>8. WaitingInv'  BY DEF WaitingInv, Steady, ClaimBatch, StoreOpen
<1>. QED
  BY <1>1, <1>2, <1>3, <1>4, <1>5, <1>6, <1>7, <1>8 DEF AloneInv

LEMMA ClaimRefusedAlone == ASSUME CallersStay, AloneInv, NEW t \in Threads, ClaimRefused(t) PROVE AloneInv'
<1>. Typed /\ HasClaim /\ OneHas /\ Ordered /\ Where /\ StoppedInv /\ HeldInv /\ WaitingInv
  BY DEF AloneInv
<1>1. Typed'
  BY StepTyped DEF Next, ThreadStep, CloseStep
<1>2. HasClaim' /\ OneHas' /\ Ordered' /\ Where' /\ StoppedInv' /\ HeldInv' /\ WaitingInv'
  BY DEF HasClaim, Has, Steady, Proc, OneHas, Ordered, Where, StoppedInv, HeldInv, WaitingInv,
      ClaimRefused
<1>. QED
  BY <1>1, <1>2 DEF AloneInv

LEMMA TakeHoldAlone == ASSUME CallersStay, AloneInv, NEW t \in Threads, TakeHold(t) PROVE AloneInv'
<1>. Typed /\ HasClaim /\ OneHas /\ Ordered /\ Where /\ StoppedInv /\ HeldInv /\ WaitingInv
  BY DEF AloneInv
<1>1. Typed'
  BY StepTyped DEF Next, ThreadStep, CloseStep
<1>2. HasClaim' /\ OneHas' /\ Ordered' /\ Where' /\ StoppedInv' /\ HeldInv' /\ WaitingInv'
  BY DEF HasClaim, Has, Steady, Proc, OneHas, Ordered, Where, StoppedInv, HeldInv, WaitingInv,
      TakeHold
<1>. QED
  BY <1>1, <1>2 DEF AloneInv

LEMMA NextJobAlone == ASSUME CallersStay, AloneInv, NEW t \in Threads, NextJob(t) PROVE AloneInv'
<1>. Typed /\ HasClaim /\ OneHas /\ Ordered /\ Where /\ StoppedInv /\ HeldInv /\ WaitingInv
  BY DEF AloneInv
<1>1. Typed'
  BY StepTyped DEF Next, ThreadStep, CloseStep
<1>2. HasClaim'  BY DEF HasClaim, Has, Steady, Proc, Typed, TypeOK, CurInv, NextJob, Stopping
<1>3. OneHas'  BY DEF OneHas, Has, Steady, Typed, TypeOK, CurInv, NextJob, Stopping
<1>4. Ordered'
  <2>1. PICK j \in batch[t] : /\ \A k \in batch[t] : j <= k
                              /\ cur' = [cur EXCEPT ![t] = j]
                              /\ batch' = [batch EXCEPT ![t] = @ \ {j}]
    BY DEF NextJob
  <2>2. batch[t] \subseteq Nat
    BY JobsAssumption DEF Typed, TypeOK
  <2>3. \A k \in batch'[t] : cur'[t] < k
    <3> SUFFICES ASSUME NEW k \in batch'[t] PROVE j < k
      BY <2>1 DEF Typed, TypeOK
    <3>1. k \in batch[t] /\ k # j
      BY <2>1 DEF Typed, TypeOK
    <3> QED
      BY <2>1, <2>2, <3>1
  <2>4. \A u \in Threads \ {t} : cur'[u] = cur[u] /\ batch'[u] = batch[u]
    BY <2>1 DEF Typed, TypeOK
  <2> QED
    BY <2>3, <2>4 DEF Ordered
<1>5. Where'  BY DEF Where, Typed, TypeOK, CurInv, NextJob, Stopping
<1>6. StoppedInv'  BY DEF StoppedInv, Steady, Proc, NextJob, Stopping
<1>7. HeldInv'
  <2>1. PICK j \in batch[t] : /\ cur' = [cur EXCEPT ![t] = j]
                              /\ batch' = [batch EXCEPT ![t] = @ \ {j}]
    BY DEF NextJob
  <2>2. cur[t] = NoJob /\ held' = held /\ batch[t] \subseteq Jobs
    BY DEF NextJob, Where, Typed, TypeOK
  <2>3. ASSUME NEW u \in Threads, NEW k \in Jobs, k \in batch[u] \cup {cur[u]}
        PROVE  k \in batch'[u] \cup {cur'[u]}
    BY <2>1, <2>2, <2>3, JobsAssumption DEF Typed, TypeOK
  <2> QED
    BY <2>2, <2>3 DEF HeldInv, Typed, TypeOK
<1>8. WaitingInv'  BY DEF WaitingInv, Steady, NextJob, Stopping
<1>. QED
  BY <1>1, <1>2, <1>3, <1>4, <1>5, <1>6, <1>7, <1>8 DEF AloneInv

LEMMA StopBatchAlone == ASSUME CallersStay, AloneInv, NEW t \in Threads, StopBatch(t) PROVE AloneInv'
<1>. Typed /\ HasClaim /\ OneHas /\ Ordered /\ Where /\ StoppedInv /\ HeldInv /\ WaitingInv
  BY DEF AloneInv
<1>1. Typed'
  BY StepTyped DEF Next, ThreadStep, CloseStep
<1>2. HasClaim'
  BY DEF HasClaim, Has, Steady, Proc, OneHas, Ordered, Where, Typed, TypeOK, CurInv, StopBatch,
      Release, Unclaim, Releasable
<1>3. OneHas'  BY DEF OneHas, Has, Steady, StopBatch, Release, Unclaim, Releasable
<1>4. Ordered'  BY DEF Ordered, StopBatch, Release, Unclaim, Releasable
<1>5. Where'  BY DEF Where, Typed, TypeOK, CurInv, StopBatch, Release, Unclaim, Releasable
<1>6. StoppedInv'  BY DEF StoppedInv, Steady, Proc, StopBatch, Release, Unclaim, Releasable
<1>7. HeldInv'  BY DEF HeldInv, Typed, TypeOK, CurInv, StopBatch, Release, Unclaim, Releasable
<1>8. WaitingInv'  BY DEF WaitingInv, Steady, StopBatch, Release, Unclaim, Releasable
<1>. QED
  BY <1>1, <1>2, <1>3, <1>4, <1>5, <1>6, <1>7, <1>8 DEF AloneInv

LEMMA EndBatchAlone == ASSUME CallersStay, AloneInv, NEW t \in Threads, EndBatch(t) PROVE AloneInv'
<1>. Typed /\ HasClaim /\ OneHas /\ Ordered /\ Where /\ StoppedInv /\ HeldInv /\ WaitingInv
  BY DEF AloneInv
<1>1. Typed'
  BY StepTyped DEF Next, ThreadStep, CloseStep
<1>2. HasClaim' /\ OneHas' /\ Ordered' /\ Where' /\ StoppedInv' /\ HeldInv' /\ WaitingInv'
  BY DEF HasClaim, Has, Steady, Proc, OneHas, Ordered, Where, StoppedInv, HeldInv, WaitingInv,
      EndBatch, Stopping
<1>. QED
  BY <1>1, <1>2 DEF AloneInv

(* _run_job: the one that has the job settles it and lets go of it. *)
LEMMA JobInterruptedAlone == ASSUME CallersStay, AloneInv, NEW t \in Threads, JobInterrupted(t) PROVE AloneInv'
<1>. Typed /\ HasClaim /\ OneHas /\ Ordered /\ Where /\ StoppedInv /\ HeldInv /\ WaitingInv
  BY DEF AloneInv
<1>1. Typed'
  BY StepTyped DEF Next, ThreadStep, CloseStep
<1>2. HasClaim' /\ OneHas' /\ Ordered' /\ Where' /\ StoppedInv' /\ HeldInv' /\ WaitingInv'
  BY DEF HasClaim, Has, Steady, Proc, OneHas, Ordered, Where, StoppedInv, HeldInv, WaitingInv,
      JobInterrupted
<1>. QED
  BY <1>1, <1>2 DEF AloneInv

LEMMA StartJobAlone == ASSUME CallersStay, AloneInv, NEW t \in Threads, StartJob(t) PROVE AloneInv'
<1>. Typed /\ HasClaim /\ OneHas /\ Ordered /\ Where /\ StoppedInv /\ HeldInv /\ WaitingInv
  BY DEF AloneInv
<1>1. Typed'
  BY StepTyped DEF Next, ThreadStep, CloseStep
<1>2. HasClaim' /\ OneHas' /\ Ordered' /\ Where' /\ StoppedInv' /\ HeldInv' /\ WaitingInv'
  BY DEF HasClaim, Has, Steady, Proc, OneHas, Ordered, Where, StoppedInv, HeldInv, WaitingInv,
      StartJob
<1>. QED
  BY <1>1, <1>2 DEF AloneInv

LEMMA ReadFragmentAlone == ASSUME CallersStay, AloneInv, NEW t \in Threads, ReadFragment(t) PROVE AloneInv'
<1>. Typed /\ HasClaim /\ OneHas /\ Ordered /\ Where /\ StoppedInv /\ HeldInv /\ WaitingInv
  BY DEF AloneInv
<1>1. Typed'
  BY StepTyped DEF Next, ThreadStep, CloseStep
<1>2. HasClaim' /\ OneHas' /\ Ordered' /\ Where' /\ StoppedInv' /\ HeldInv' /\ WaitingInv'
  BY DEF HasClaim, Has, Steady, Proc, OneHas, Ordered, Where, StoppedInv, HeldInv, WaitingInv,
      ReadFragment
<1>. QED
  BY <1>1, <1>2 DEF AloneInv

LEMMA RecordFactAlone == ASSUME CallersStay, AloneInv, NEW t \in Threads, RecordFact(t) PROVE AloneInv'
<1>. Typed /\ HasClaim /\ OneHas /\ Ordered /\ Where /\ StoppedInv /\ HeldInv /\ WaitingInv
  BY DEF AloneInv
<1>1. Typed'
  BY StepTyped DEF Next, ThreadStep, CloseStep
<1>2. HasClaim' /\ OneHas' /\ Ordered' /\ Where' /\ StoppedInv' /\ HeldInv' /\ WaitingInv'
  BY DEF HasClaim, Has, Steady, Proc, OneHas, Ordered, Where, StoppedInv, HeldInv, WaitingInv,
      RecordFact
<1>. QED
  BY <1>1, <1>2 DEF AloneInv

LEMMA CompleteJobAlone == ASSUME CallersStay, AloneInv, NEW t \in Threads, CompleteJob(t) PROVE AloneInv'
<1>. Typed /\ HasClaim /\ OneHas /\ Ordered /\ Where /\ StoppedInv /\ HeldInv /\ WaitingInv
  BY DEF AloneInv
<1>1. Typed'
  BY StepTyped DEF Next, ThreadStep, CloseStep
<1>2. HasClaim'
  <2> SUFFICES ASSUME NEW u \in Threads, NEW j \in Steady, frag'[j] = "stored", Has(u, j)'
              PROVE  /\ status'[j] = "running" /\ owner'[j] = Proc(u) /\ ~expired'[j]
                     /\ Proc(u) \in alive'
    BY DEF HasClaim, Proc
  <2>1. UNCHANGED <<frag, alive, batch, cur>> /\ cur[t] \in Jobs /\ j \in Jobs
    BY DEF CompleteJob, Steady, Typed, CurInv
  <2>2. Has(u, j) /\ (u = t => j \in batch[t])
    BY <2>1 DEF CompleteJob, Has, Typed, TypeOK
  <2>3. j # cur[t]
    <3> SUFFICES ASSUME j = cur[t] PROVE FALSE
      OBVIOUS
    <3>1. Has(t, j)
      BY DEF CompleteJob, Has
    <3>2. j \in batch[t]
      BY <2>1, <2>2, <3>1 DEF OneHas
    <3>3. j < j /\ j \in Nat
      BY <2>1, <3>2, JobsAssumption DEF Ordered
    <3> QED
      BY <3>3
  <2>4. status[j] = "running" /\ owner[j] = Proc(u) /\ ~expired[j] /\ Proc(u) \in alive
    BY <2>1, <2>2 DEF HasClaim
  <2> QED
    BY <2>1, <2>3, <2>4 DEF CompleteJob, Settle, Typed, TypeOK
<1>3. OneHas'  BY DEF OneHas, Has, Steady, CompleteJob, Settle
<1>4. Ordered'  BY DEF Ordered, CompleteJob, Settle
<1>5. Where'  BY DEF Where, CompleteJob, Settle
<1>6. StoppedInv'  BY DEF StoppedInv, Steady, Proc, CompleteJob, Settle
<1>7. HeldInv'  BY DEF HeldInv, CompleteJob, Settle
<1>8. WaitingInv'  BY DEF WaitingInv, Steady, CompleteJob, Settle
<1>. QED
  BY <1>1, <1>2, <1>3, <1>4, <1>5, <1>6, <1>7, <1>8 DEF AloneInv

LEMMA JobRaisesAlone == ASSUME CallersStay, AloneInv, NEW t \in Threads, JobRaises(t) PROVE AloneInv'
<1>. Typed /\ HasClaim /\ OneHas /\ Ordered /\ Where /\ StoppedInv /\ HeldInv /\ WaitingInv
  BY DEF AloneInv
<1>1. Typed'
  BY StepTyped DEF Next, ThreadStep, CloseStep
<1>2. HasClaim' /\ OneHas' /\ Ordered' /\ Where' /\ StoppedInv' /\ HeldInv' /\ WaitingInv'
  BY DEF HasClaim, Has, Steady, Proc, OneHas, Ordered, Where, StoppedInv, HeldInv, WaitingInv,
      JobRaises
<1>. QED
  BY <1>1, <1>2 DEF AloneInv

LEMMA FailJobAlone == ASSUME CallersStay, AloneInv, NEW t \in Threads, FailJob(t) PROVE AloneInv'
<1>. Typed /\ HasClaim /\ OneHas /\ Ordered /\ Where /\ StoppedInv /\ HeldInv /\ WaitingInv
  BY DEF AloneInv
<1>1. Typed'
  BY StepTyped DEF Next, ThreadStep, CloseStep
<1>2. HasClaim'
  <2> SUFFICES ASSUME NEW u \in Threads, NEW j \in Steady, frag'[j] = "stored", Has(u, j)'
              PROVE  /\ status'[j] = "running" /\ owner'[j] = Proc(u) /\ ~expired'[j]
                     /\ Proc(u) \in alive'
    BY DEF HasClaim, Proc
  <2>1. UNCHANGED <<frag, alive, batch, cur>> /\ cur[t] \in Jobs /\ j \in Jobs
    BY DEF FailJob, Steady, Typed, CurInv
  <2>2. Has(u, j) /\ (u = t => j \in batch[t])
    BY <2>1 DEF FailJob, Has, Typed, TypeOK
  <2>3. j # cur[t]
    <3> SUFFICES ASSUME j = cur[t] PROVE FALSE
      OBVIOUS
    <3>1. Has(t, j)
      BY DEF FailJob, Has
    <3>2. j \in batch[t]
      BY <2>1, <2>2, <3>1 DEF OneHas
    <3>3. j < j /\ j \in Nat
      BY <2>1, <3>2, JobsAssumption DEF Ordered
    <3> QED
      BY <3>3
  <2>4. status[j] = "running" /\ owner[j] = Proc(u) /\ ~expired[j] /\ Proc(u) \in alive
    BY <2>1, <2>2 DEF HasClaim
  <2> QED
    BY <2>1, <2>3, <2>4 DEF FailJob, Settle, Typed, TypeOK
<1>3. OneHas'  BY DEF OneHas, Has, Steady, Typed, TypeOK, CurInv, FailJob, Settle
<1>4. Ordered'  BY DEF Ordered, FailJob, Settle
<1>5. Where'  BY DEF Where, FailJob, Settle
<1>6. StoppedInv'  BY DEF StoppedInv, Steady, Proc, FailJob, Settle
<1>7. HeldInv'  BY DEF HeldInv, FailJob, Settle
<1>8. WaitingInv'  BY DEF WaitingInv, Steady, FailJob, Settle
<1>. QED
  BY <1>1, <1>2, <1>3, <1>4, <1>5, <1>6, <1>7, <1>8 DEF AloneInv

LEMMA LeaveJobAlone == ASSUME CallersStay, AloneInv, NEW t \in Threads, LeaveJob(t) PROVE AloneInv'
<1>. Typed /\ HasClaim /\ OneHas /\ Ordered /\ Where /\ StoppedInv /\ HeldInv /\ WaitingInv
  BY DEF AloneInv
<1>1. Typed'
  BY StepTyped DEF Next, ThreadStep, CloseStep
<1>2. HasClaim'  BY DEF HasClaim, Has, Steady, Proc, Typed, TypeOK, CurInv, LeaveJob
<1>3. OneHas'  BY DEF OneHas, Has, Steady, LeaveJob
<1>4. Ordered'  BY DEF Ordered, LeaveJob
<1>5. Where'  BY DEF Where, Typed, TypeOK, CurInv, LeaveJob
<1>6. StoppedInv'
  <2>1. NoJob \notin Steady /\ UNCHANGED <<svc, batch>>
    BY JobsAssumption DEF LeaveJob, Steady
  <2> QED
    BY <2>1 DEF LeaveJob, StoppedInv, Typed, TypeOK
<1>7. HeldInv'  BY DEF HeldInv, Typed, TypeOK, CurInv, LeaveJob
<1>8. WaitingInv'  BY DEF WaitingInv, Steady, LeaveJob
<1>. QED
  BY <1>1, <1>2, <1>3, <1>4, <1>5, <1>6, <1>7, <1>8 DEF AloneInv

(* Services and processes: reclaims look at dead owners only, close() waits. *)
LEMMA OpenServiceAlone == ASSUME CallersStay, AloneInv, NEW s \in Services, OpenService(s) PROVE AloneInv'
<1>. Typed /\ HasClaim /\ OneHas /\ Ordered /\ Where /\ StoppedInv /\ HeldInv /\ WaitingInv
  BY DEF AloneInv
<1>1. Typed'
  BY StepTyped DEF Next, ThreadStep, CloseStep
<1>2. HasClaim'
  BY DEF HasClaim, Has, Steady, Proc, OpenService, Unclaim, Orphans, GivenUp, Requeued, OwnerIsDead
<1>3. OneHas'
  BY DEF OneHas, Has, Steady, OpenService, Unclaim, Orphans, GivenUp, Requeued, OwnerIsDead
<1>4. Ordered'  BY DEF Ordered, OpenService, Unclaim, Orphans, GivenUp, Requeued, OwnerIsDead
<1>5. Where'  BY DEF Where, OpenService, Unclaim, Orphans, GivenUp, Requeued, OwnerIsDead
<1>6. StoppedInv'
  BY DEF StoppedInv, Steady, Proc, OpenService, Unclaim, Orphans, GivenUp, Requeued, OwnerIsDead
<1>7. HeldInv'  BY DEF HeldInv, OpenService, Unclaim, Orphans, GivenUp, Requeued, OwnerIsDead
<1>8. WaitingInv'
  BY DEF WaitingInv, Steady, OpenService, Unclaim, Orphans, GivenUp, Requeued, OwnerIsDead
<1>. QED
  BY <1>1, <1>2, <1>3, <1>4, <1>5, <1>6, <1>7, <1>8 DEF AloneInv

LEMMA BeginCloseAlone == ASSUME CallersStay, AloneInv, NEW s \in Services, BeginClose(s) PROVE AloneInv'
<1>. Typed /\ HasClaim /\ OneHas /\ Ordered /\ Where /\ StoppedInv /\ HeldInv /\ WaitingInv
  BY DEF AloneInv
<1>1. Typed'
  BY StepTyped DEF Next, ThreadStep, CloseStep
<1>2. HasClaim' /\ OneHas' /\ Ordered' /\ Where' /\ StoppedInv' /\ HeldInv' /\ WaitingInv'
  BY DEF HasClaim, Has, Steady, Proc, OneHas, Ordered, Where, StoppedInv, HeldInv, WaitingInv,
      BeginClose
<1>. QED
  BY <1>1, <1>2 DEF AloneInv

(* When the join of close() returns, no thread of the service has a steady job:  *)
(* each ended, or runs a job that overruns, and what waits behind it is not       *)
(* steady either.                                                                  *)
LEMMA NothingLeft ==
  ASSUME CallersStay, AloneInv, NEW s \in Services, EndJoin(s), NEW t \in Threads, SvcOf[t] = s
  PROVE  /\ pc[t] \notin {"claim", "take"}
         /\ cur[t] \notin Steady /\ batch[t] \cap Steady = {}
<1>1. Typed /\ Ordered /\ Where /\ WaitingInv
  BY DEF AloneInv
<1>2. t \in Workers
  BY <1>1 DEF EndJoin, WaitingInv, CallersStay
<1>3. CASE pc[t] = "ended"
  BY <1>1, <1>3, JobsAssumption DEF Where, Steady
<1>4. CASE cur[t] \in MayOverrun
  <2>1. cur[t] \in Jobs /\ cur[t] \in Nat /\ cur[t] # NoJob
    BY <1>4, JobsAssumption, LimitsAssumption
  <2>2. cur[t] \notin Steady
    BY <1>4, <2>1 DEF Steady
  <2>3. ASSUME NEW j \in batch[t], j \in Steady PROVE FALSE
    <3>1. cur[t] < j /\ j < cur[t] /\ j \in Nat /\ cur[t] \in Nat
      BY <1>1, <1>4, <2>1, <2>3, JobsAssumption DEF Ordered, Steady
    <3> QED
      BY <3>1
  <2> QED
    BY <1>1, <2>1, <2>2, <2>3 DEF Where
<1> QED
  BY <1>2, <1>3, <1>4 DEF EndJoin

LEMMA EndJoinAlone == ASSUME CallersStay, AloneInv, NEW s \in Services, EndJoin(s) PROVE AloneInv'
<1>. Typed /\ HasClaim /\ OneHas /\ Ordered /\ Where /\ StoppedInv /\ HeldInv /\ WaitingInv
  BY DEF AloneInv
<1>1. Typed'
  BY StepTyped DEF Next, ThreadStep, CloseStep
<1>2. HasClaim'  BY DEF HasClaim, Has, Steady, Proc, EndJoin
<1>3. OneHas'  BY DEF OneHas, Has, Steady, EndJoin
<1>4. Ordered'  BY DEF Ordered, EndJoin
<1>5. Where'  BY DEF Where, EndJoin
<1>6. StoppedInv'
  <2> SUFFICES ASSUME NEW t \in Threads, svc'[SvcOf[t]] \in {"giving", "closed", "shut"}
              PROVE  /\ pc[t] \notin {"claim", "take"}
                     /\ cur[t] \notin Steady /\ batch[t] \cap Steady = {}
    BY DEF EndJoin, StoppedInv
  <2>1. CASE SvcOf[t] = s
    BY <2>1, NothingLeft
  <2>2. CASE SvcOf[t] # s
    <3>1. svc[SvcOf[t]] \in {"giving", "closed", "shut"}
      BY <2>2 DEF EndJoin, Typed, TypeOK
    <3> QED
      BY <3>1 DEF StoppedInv
  <2> QED
    BY <2>1, <2>2
<1>7. HeldInv'  BY DEF HeldInv, EndJoin
<1>8. WaitingInv'
  <2>1. held[s] \cap Steady = {}
    <3> SUFFICES ASSUME NEW j \in held[s], j \in Steady PROVE FALSE
      OBVIOUS
    <3>1. PICK t \in Threads : SvcOf[t] = s /\ j \in batch[t] \cup {cur[t]}
      BY DEF HeldInv
    <3> QED
      BY <3>1, NothingLeft
  <2> QED
    BY <2>1 DEF EndJoin, WaitingInv, Typed, TypeOK
<1>. QED
  BY <1>1, <1>2, <1>3, <1>4, <1>5, <1>6, <1>7, <1>8 DEF AloneInv

LEMMA GiveBackAlone == ASSUME CallersStay, AloneInv, NEW s \in Services, GiveBack(s) PROVE AloneInv'
<1>. Typed /\ HasClaim /\ OneHas /\ Ordered /\ Where /\ StoppedInv /\ HeldInv /\ WaitingInv
  BY DEF AloneInv
<1>1. Typed'
  BY StepTyped DEF Next, ThreadStep, CloseStep
<1>2. HasClaim'
  <2>1. UNCHANGED <<frag, alive, pc, batch, cur>>
    BY DEF GiveBack, Release
  <2>2. \A j \in Steady : j \notin Releasable(waiting[s], ProcOf[s]) \cup Releasable(running[s], ProcOf[s])
    BY DEF WaitingInv, Releasable
  <2>3. \A j \in Steady : status'[j] = status[j] /\ owner'[j] = owner[j] /\ expired'[j] = expired[j]
    BY <2>2 DEF GiveBack, Release, Unclaim, Steady, Typed, TypeOK
  <2> QED
    BY <2>1, <2>3 DEF HasClaim, Has, Proc
<1>3. OneHas'  BY DEF OneHas, Has, Steady, GiveBack, Release, Unclaim, Releasable
<1>4. Ordered'  BY DEF Ordered, GiveBack, Release, Unclaim, Releasable
<1>5. Where'  BY DEF Where, GiveBack, Release, Unclaim, Releasable
<1>6. StoppedInv'  BY DEF StoppedInv, Steady, Proc, GiveBack, Release, Unclaim, Releasable
<1>7. HeldInv'  BY DEF HeldInv, GiveBack, Release, Unclaim, Releasable
<1>8. WaitingInv'  BY DEF WaitingInv, Steady, GiveBack, Release, Unclaim, Releasable
<1>. QED
  BY <1>1, <1>2, <1>3, <1>4, <1>5, <1>6, <1>7, <1>8 DEF AloneInv

LEMMA ShutStoreAlone == ASSUME CallersStay, AloneInv, NEW s \in Services, ShutStore(s) PROVE AloneInv'
<1>. Typed /\ HasClaim /\ OneHas /\ Ordered /\ Where /\ StoppedInv /\ HeldInv /\ WaitingInv
  BY DEF AloneInv
<1>1. Typed'
  BY StepTyped DEF Next, ThreadStep, CloseStep
<1>2. HasClaim' /\ OneHas' /\ Ordered' /\ Where' /\ StoppedInv' /\ HeldInv' /\ WaitingInv'
  BY DEF HasClaim, Has, Steady, Proc, OneHas, Ordered, Where, StoppedInv, HeldInv, WaitingInv,
      ShutStore
<1>. QED
  BY <1>1, <1>2 DEF AloneInv

LEMMA CrashAlone == ASSUME CallersStay, AloneInv, NEW p \in Procs, Crash(p) PROVE AloneInv'
<1>. Typed /\ HasClaim /\ OneHas /\ Ordered /\ Where /\ StoppedInv /\ HeldInv /\ WaitingInv
  BY DEF AloneInv
<1>1. Typed'
  BY StepTyped DEF Next, ThreadStep, CloseStep
<1>2. HasClaim'  BY DEF HasClaim, Has, Steady, Proc, Crash
<1>3. OneHas'  BY DEF OneHas, Has, Steady, Crash
<1>4. Ordered'  BY DEF Ordered, Crash
<1>5. Where'  BY DEF Where, Crash
<1>6. StoppedInv'
  <2> SUFFICES ASSUME NEW t \in Threads, svc'[SvcOf[t]] \in {"giving", "closed", "shut"}
              PROVE  /\ pc'[t] \notin {"claim", "take"}
                     /\ cur'[t] \notin Steady /\ batch'[t] \cap Steady = {}
    BY DEF StoppedInv
  <2>1. CASE Proc(t) = p
    <3>1. pc'[t] = "ended" /\ batch'[t] = {} /\ cur'[t] = NoJob
      BY <2>1 DEF Crash
    <3> QED
      BY <3>1, JobsAssumption DEF Steady
  <2>2. CASE Proc(t) # p
    <3>1. pc'[t] = pc[t] /\ batch'[t] = batch[t] /\ cur'[t] = cur[t] /\ svc'[SvcOf[t]] = svc[SvcOf[t]]
      BY <2>2, LayoutAssumption DEF Crash, Proc
    <3> QED
      BY <3>1 DEF StoppedInv
  <2> QED
    BY <2>1, <2>2
<1>7. HeldInv'
  <2> SUFFICES ASSUME NEW s \in Services, NEW j \in held'[s]
              PROVE  \E t \in Threads : SvcOf[t] = s /\ j \in batch'[t] \cup {cur'[t]}
    BY DEF HeldInv
  <2>1. ProcOf[s] # p /\ held'[s] = held[s]
    BY DEF Crash
  <2>2. PICK t \in Threads : SvcOf[t] = s /\ j \in batch[t] \cup {cur[t]}
    BY <2>1 DEF HeldInv
  <2>3. batch'[t] = batch[t] /\ cur'[t] = cur[t]
    BY <2>1, <2>2 DEF Crash, Proc
  <2> QED
    BY <2>2, <2>3
<1>8. WaitingInv'  BY DEF WaitingInv, Steady, Crash
<1>. QED
  BY <1>1, <1>2, <1>3, <1>4, <1>5, <1>6, <1>7, <1>8 DEF AloneInv


LEMMA StepAlone == CallersStay /\ AloneInv /\ [Next]_vars => AloneInv'
<1> SUFFICES ASSUME CallersStay, AloneInv, [Next]_vars PROVE AloneInv'
  OBVIOUS
<1>1. CASE UNCHANGED vars
  BY <1>1 DEF vars, AloneInv, Typed, TypeOK, CurInv, HasClaim, OneHas, Ordered, Where, StoppedInv,
              HeldInv, WaitingInv, Has, Proc
<1>2. ASSUME NEW j \in Jobs, Enqueue(j) \/ Forget(j) \/ Expire(j) PROVE AloneInv'
  BY <1>2, EnqueueAlone, ForgetAlone, ExpireAlone
<1>3. ASSUME NEW t \in Threads, ThreadStep(t) \/ BeginPass(t) \/ JobRaises(t) PROVE AloneInv'
  BY <1>3, ClaimBatchAlone, ClaimRefusedAlone, TakeHoldAlone, NextJobAlone, StopBatchAlone,
     EndBatchAlone, JobInterruptedAlone, StartJobAlone, ReadFragmentAlone, RecordFactAlone,
     CompleteJobAlone, FailJobAlone, LeaveJobAlone, WorkerEndsAlone, BeginPassAlone, JobRaisesAlone
     DEF ThreadStep
<1>4. ASSUME NEW s \in Services, OpenService(s) \/ BeginClose(s) \/ CloseStep(s) PROVE AloneInv'
  BY <1>4, OpenServiceAlone, BeginCloseAlone, EndJoinAlone, GiveBackAlone, ShutStoreAlone DEF CloseStep
<1>5. ASSUME NEW p \in Procs, Crash(p) PROVE AloneInv'
  BY <1>5, CrashAlone
<1> QED
  BY <1>1, <1>2, <1>3, <1>4, <1>5 DEF Next

LEMMA InitAlone == Init => AloneInv
<1> SUFFICES ASSUME Init PROVE AloneInv
  OBVIOUS
<1>1. Typed
  BY InitTypeOK DEF Init, Typed, CurInv
<1> QED
  BY <1>1, JobsAssumption, LayoutAssumption
     DEF Init, AloneInv, HasClaim, OneHas, Ordered, Where, StoppedInv, HeldInv, WaitingInv, Has, Steady

(* However workers claim, overrun, crash, reclaim, fail and shut down, no two     *)
(* threads run one stored job whose lease is long enough (RunsAlone), provided no  *)
(* thread calls drain() on a service that is closed meanwhile.                      *)
THEOREM NeverRunTwiceAtOnce == CallersStay => (Spec => []RunsAlone)
<1> SUFFICES ASSUME CallersStay PROVE Spec => []RunsAlone
  OBVIOUS
<1>1. Init => AloneInv
  BY InitAlone
<1>2. AloneInv => RunsAlone
  BY DEF AloneInv, OneHas, RunsAlone, Runs, Has
<1>3. AloneInv /\ [Next]_vars => AloneInv'
  BY StepAlone
<1> QED
  BY <1>1, <1>2, <1>3, PTL DEF Spec
----------------------------------------------------------------------------
(* The queue implements JobPromise for steady jobs.  Who runs a steady job has its   *)
(* claim, so what a transaction does to its row is a move of the life cycle.  Added     *)
(* here: attempts stay within the limit while the job may still be claimed, and a        *)
(* verdict is still the right one when it is written.                                      *)

(* The attempts a row of each status may have. *)
CountedAt(j) ==
    /\ status[j] = "absent" => attempts[j] = 0
    /\ status[j] = "pending" => attempts[j] < MaxAttempts
    /\ status[j] = "running" => attempts[j] \in 1..MaxAttempts
Counted == \A j \in Steady : frag[j] = "stored" => CountedAt(j)

(* fact_job_fail reads the attempts in one statement and writes in another. *)
VerdictInv ==
    \A t \in Threads : pc[t] = "failing" /\ cur[t] \in Steady /\ frag[cur[t]] = "stored" =>
        verdict[t] = IF attempts[cur[t]] >= MaxAttempts THEN "failed" ELSE "pending"

PromiseInv == AloneInv /\ ExtractInv /\ Counted /\ VerdictInv

(* The life cycle read off the rows as they are, forgotten fragments included. *)
Row == INSTANCE JobPromise WITH extracted <- ledger

(* What a step does to each steady job whose fragment is there before and after. *)
Stored(j) == frag[j] = "stored" /\ frag'[j] = "stored"
EachMoves == \A j \in Steady : Stored(j) => Row!JobStep(j) /\ CountedAt(j)'
StillGone == \A j \in Jobs : frag[j] = "gone" => frag'[j] = "gone"


LEMMA SteadyJobs == Steady \subseteq Jobs /\ Jobs \subseteq Nat /\ NoJob \notin Steady
  BY JobsAssumption DEF Steady

(* A step that leaves the rows alone moves no job. *)
LEMMA RowsUnmoved ==
  ASSUME Counted, UNCHANGED <<frag, status, attempts, ledger>>
  PROVE  EachMoves /\ StillGone
<1> SUFFICES ASSUME NEW j \in Steady, Stored(j) PROVE Row!JobStep(j) /\ CountedAt(j)'
  BY DEF EachMoves, StillGone
<1>1. Row!Stay(j)
  BY DEF Row!Stay, Row!Keep
<1>2. CountedAt(j)
  BY DEF Counted, Stored
<1> QED
  BY <1>1, <1>2 DEF Row!JobStep, CountedAt

(* A verdict stays right while nobody else writes the attempts of its job. *)
LEMMA VerdictStays ==
  ASSUME VerdictInv, StillGone,
         \A t \in Threads : pc'[t] = "failing" =>
             /\ pc[t] = "failing" /\ cur'[t] = cur[t] /\ verdict'[t] = verdict[t]
             /\ cur[t] \in Steady /\ frag[cur[t]] = "stored" => attempts'[cur[t]] = attempts[cur[t]],
         frag \in [Jobs -> {"stored", "gone"}]
  PROVE  VerdictInv'
<1> SUFFICES ASSUME NEW t \in Threads, pc'[t] = "failing", cur'[t] \in Steady, frag'[cur'[t]] = "stored"
            PROVE  verdict'[t] = IF attempts'[cur'[t]] >= MaxAttempts THEN "failed" ELSE "pending"
  BY DEF VerdictInv
<1>1. pc[t] = "failing" /\ cur'[t] = cur[t] /\ verdict'[t] = verdict[t] /\ cur[t] \in Jobs
  BY SteadyJobs
<1>2. frag[cur[t]] = "stored"
  BY <1>1 DEF StillGone
<1>3. attempts'[cur[t]] = attempts[cur[t]]
  BY <1>1, <1>2
<1> QED
  BY <1>1, <1>2, <1>3 DEF VerdictInv

(* A thread that fails a steady job has its claim. *)
LEMMA RunnerHas ==
  ASSUME AloneInv, NEW t \in Threads, pc[t] \in {"start", "read", "work", "failing"},
         cur[t] \in Steady, frag[cur[t]] = "stored"
  PROVE  Has(t, cur[t]) /\ status[cur[t]] = "running"
  BY DEF AloneInv, HasClaim, Has

LEMMA EnqueueMoves ==
  ASSUME PromiseInv, NEW k \in Jobs, Enqueue(k) PROVE EachMoves /\ StillGone /\ VerdictInv'
<1>1. Typed /\ Counted /\ VerdictInv
  BY DEF PromiseInv, AloneInv
<1>2. UNCHANGED <<frag, attempts, ledger, pc, cur, verdict>>
  BY DEF Enqueue
<1>3. ASSUME NEW j \in Steady, Stored(j) PROVE Row!JobStep(j) /\ CountedAt(j)'
  <2>1. CountedAt(j) /\ j \in Jobs
    BY <1>1, <1>3, SteadyJobs DEF Counted, Stored
  <2>2. CASE j = k
    <3>1. status[j] = "absent" /\ status'[j] = "pending"
      BY <1>1, <2>2 DEF Enqueue, Typed, TypeOK
    <3>2. Row!Submit(j)
      BY <1>2, <3>1 DEF Row!Submit, Row!Move, Row!Keep
    <3> QED
      BY <1>2, <2>1, <3>1, <3>2, LimitsAssumption DEF Row!JobStep, CountedAt
  <2>3. CASE j # k
    <3>1. status'[j] = status[j]
      BY <1>1, <2>1, <2>3 DEF Enqueue, Typed, TypeOK
    <3>2. Row!Stay(j)
      BY <1>2, <3>1 DEF Row!Stay, Row!Keep
    <3> QED
      BY <1>2, <2>1, <3>1, <3>2 DEF Row!JobStep, CountedAt
  <2> QED
    BY <2>2, <2>3
<1>4. StillGone /\ frag \in [Jobs -> {"stored", "gone"}]
  BY <1>1, <1>2 DEF StillGone, Typed, TypeOK
<1>5. VerdictInv'
  BY <1>1, <1>2, <1>4, VerdictStays
<1> QED
  BY <1>3, <1>4, <1>5 DEF EachMoves

LEMMA ForgetMoves ==
  ASSUME PromiseInv, NEW k \in Jobs, Forget(k) PROVE EachMoves /\ StillGone /\ VerdictInv'
<1>1. Typed /\ Counted /\ VerdictInv
  BY DEF PromiseInv, AloneInv
<1>2. UNCHANGED <<pc, cur, verdict>> /\ frag'[k] = "gone" /\ StillGone
  BY <1>1 DEF Forget, StillGone, Typed, TypeOK
<1>3. \A j \in Jobs : j # k => /\ status'[j] = status[j] /\ attempts'[j] = attempts[j]
                               /\ ledger'[j] = ledger[j] /\ frag'[j] = frag[j]
  BY <1>1 DEF Forget, Typed, TypeOK
<1>4. ASSUME NEW j \in Steady, Stored(j) PROVE Row!JobStep(j) /\ CountedAt(j)'
  <2>1. CountedAt(j) /\ j \in Jobs /\ j # k
    BY <1>1, <1>2, <1>4, SteadyJobs DEF Counted, Stored
  <2>2. Row!Stay(j)
    BY <1>3, <2>1 DEF Row!Stay, Row!Keep
  <2> QED
    BY <1>3, <2>1, <2>2 DEF Row!JobStep, CountedAt
<1>5. VerdictInv'
  <2> SUFFICES ASSUME NEW t \in Threads, pc[t] = "failing", cur[t] \in Steady, frag'[cur[t]] = "stored"
              PROVE  verdict[t] = IF attempts'[cur[t]] >= MaxAttempts THEN "failed" ELSE "pending"
    BY <1>2 DEF VerdictInv
  <2>1. cur[t] \in Jobs /\ cur[t] # k
    BY <1>2, SteadyJobs
  <2> QED
    BY <1>1, <1>3, <2>1 DEF VerdictInv
<1> QED
  BY <1>2, <1>4, <1>5 DEF EachMoves
(* A claim moves the jobs it takes to a further attempt, and those at the limit to *)
(* "failed"; orphans it has no room for are requeued.                              *)
LEMMA ClaimBatchMoves ==
  ASSUME PromiseInv, NEW t \in Threads, ClaimBatch(t) PROVE EachMoves /\ StillGone /\ VerdictInv'
<1> DEFINE p == Proc(t)
           picked == OldestN(Runnable(Requeued(p), t) \ GivenUp(p), BatchSize)
           lapsed == {j \in picked \ Requeued(p) : status[j] = "running" /\ Spent(j)}
           claimed == picked \ lapsed
           abandoned == lapsed \cup GivenUp(p)
<1>1. Typed /\ Counted /\ VerdictInv /\ AloneInv
  BY DEF PromiseInv, AloneInv
<1>2. /\ UNCHANGED <<frag, ledger, cur, verdict>>
      /\ \A u \in Threads : pc'[u] = "failing" => pc[u] = "failing" /\ u # t
  BY <1>1 DEF ClaimBatch, Typed, TypeOK
<1>3. \A j \in Jobs : /\ status'[j] = IF j \in claimed THEN "running"
                                      ELSE IF j \in abandoned THEN "failed"
                                      ELSE IF j \in Requeued(p) THEN "pending" ELSE status[j]
                      /\ attempts'[j] = attempts[j] + (IF j \in claimed THEN 1 ELSE 0)
  BY DEF ClaimBatch
<1>4. \A j \in picked : /\ j \notin GivenUp(p)
                        /\ status[j] = "pending" \/ j \in Requeued(p) \/ status[j] = "running"
  BY DEF OldestN, Runnable
<1>5. /\ \A j \in Requeued(p) : status[j] = "running" /\ ~Spent(j)
      /\ \A j \in GivenUp(p) : status[j] = "running" /\ Spent(j) /\ j \notin Requeued(p)
  BY DEF Requeued, GivenUp, Orphans
<1>6. \A j \in lapsed : status[j] = "running" /\ Spent(j) /\ j \notin Requeued(p)
  OBVIOUS
<1>7. \A j \in claimed : /\ j \notin GivenUp(p) /\ j \notin lapsed
                         /\ status[j] = "pending" \/ (status[j] = "running" /\ ~Spent(j))
  BY <1>4, <1>5
<1> HIDE DEF claimed, lapsed, picked
<1>8. ASSUME NEW j \in Steady, Stored(j) PROVE Row!JobStep(j) /\ CountedAt(j)'
  <2>1. CountedAt(j) /\ j \in Jobs /\ attempts[j] \in Nat /\ MaxAttempts \in Nat /\ ledger'[j] = ledger[j]
    BY <1>1, <1>2, <1>8, SteadyJobs, LimitsAssumption DEF Counted, Stored, Typed, TypeOK
  <2>2. CASE j \in claimed
    <3>1. status'[j] = "running" /\ attempts'[j] = attempts[j] + 1
      BY <1>3, <2>1, <2>2
    <3>2. attempts[j] < MaxAttempts
      BY <1>7, <2>1, <2>2 DEF CountedAt, Spent
    <3>3. Row!Claim(j) \/ Row!Retake(j)
      BY <1>7, <2>1, <2>2, <3>1, <3>2 DEF Row!Claim, Row!Retake, Row!Move, Row!Charge
    <3>4. CountedAt(j)'
      BY <2>1, <3>1, <3>2 DEF CountedAt
    <3> QED
      BY <3>3, <3>4 DEF Row!JobStep
  <2>3. CASE j \notin claimed /\ j \in abandoned
    <3>1. status[j] = "running" /\ Spent(j) /\ status'[j] = "failed" /\ attempts'[j] = attempts[j]
      BY <1>3, <1>5, <1>6, <2>1, <2>3
    <3>2. attempts[j] = MaxAttempts
      BY <2>1, <3>1 DEF CountedAt, Spent
    <3>3. Row!GiveUp(j)
      BY <2>1, <3>1, <3>2 DEF Row!GiveUp, Row!Move, Row!Keep
    <3>4. CountedAt(j)'
      BY <3>1 DEF CountedAt
    <3> QED
      BY <3>3, <3>4 DEF Row!JobStep
  <2>4. CASE j \notin claimed /\ j \notin abandoned /\ j \in Requeued(p)
    <3>1. status[j] = "running" /\ ~Spent(j) /\ status'[j] = "pending" /\ attempts'[j] = attempts[j]
      BY <1>3, <1>5, <2>1, <2>4
    <3>2. attempts[j] < MaxAttempts
      BY <2>1, <3>1 DEF Spent
    <3>3. Row!Requeue(j)
      BY <2>1, <3>1, <3>2 DEF Row!Requeue, Row!Move, Row!Keep
    <3>4. CountedAt(j)'
      BY <3>1, <3>2 DEF CountedAt
    <3> QED
      BY <3>3, <3>4 DEF Row!JobStep
  <2>5. CASE j \notin claimed /\ j \notin abandoned /\ j \notin Requeued(p)
    <3>1. status'[j] = status[j] /\ attempts'[j] = attempts[j]
      BY <1>3, <2>1, <2>5
    <3>2. Row!Stay(j)
      BY <2>1, <3>1 DEF Row!Stay, Row!Keep
    <3>3. CountedAt(j)'
      BY <2>1, <3>1 DEF CountedAt
    <3> QED
      BY <3>2, <3>3 DEF Row!JobStep
  <2> QED
    BY <2>2, <2>3, <2>4, <2>5
<1>9. StillGone /\ frag \in [Jobs -> {"stored", "gone"}]
  BY <1>1, <1>2 DEF StillGone, Typed, TypeOK
<1>10. ASSUME NEW u \in Threads, pc'[u] = "failing", cur[u] \in Steady, frag[cur[u]] = "stored"
       PROVE  attempts'[cur[u]] = attempts[cur[u]]
  <2> SUFFICES ASSUME NEW j \in Steady, j = cur[u] PROVE attempts'[j] = attempts[j]
    BY <1>10
  <2>1. u # t /\ Has(u, j)' /\ j \in Jobs
    BY <1>2, <1>10, SteadyJobs DEF Has
  <2>2. j \notin picked
    BY <1>1, <1>10, <2>1, ClaimsOnlyFree DEF picked
  <2>3. j \notin claimed
    BY <2>2 DEF claimed
  <2> QED
    BY <1>1, <1>3, <2>1, <2>3 DEF Typed, TypeOK
<1>11. VerdictInv'
  BY <1>1, <1>2, <1>9, <1>10, VerdictStays
<1> QED
  BY <1>8, <1>9, <1>11 DEF EachMoves

(* A hand-back refunds the jobs that were not started. *)
LEMMA StopBatchMoves ==
  ASSUME PromiseInv, NEW t \in Threads, StopBatch(t) PROVE EachMoves /\ StillGone /\ VerdictInv'
<1>1. Typed /\ Counted /\ VerdictInv /\ AloneInv /\ OneHas
  BY DEF PromiseInv, AloneInv
<1>2. PICK back \in SUBSET batch[t] : /\ \A j \in back : status[j] = "running"
                                      /\ Release(back, {})
  <2>1. Releasable(batch[t], Proc(t)) \in SUBSET batch[t]
    BY DEF Releasable
  <2>2. CASE StoreOpen(SvcOf[t])
    BY <2>1, <2>2 DEF StopBatch, Releasable
  <2>3. CASE ~StoreOpen(SvcOf[t])
    BY <2>3 DEF StopBatch
  <2> QED
    BY <2>2, <2>3
<1>3. /\ UNCHANGED <<frag, ledger, cur, verdict>>
      /\ \A u \in Threads : pc'[u] = "failing" => pc[u] = "failing" /\ u # t
  BY <1>1, <1>2 DEF StopBatch, Release, Typed, TypeOK
<1>4. \A j \in Jobs : /\ status'[j] = IF j \in back THEN "pending" ELSE status[j]
                      /\ attempts'[j] = IF j \in back /\ attempts[j] > 0 THEN attempts[j] - 1 ELSE attempts[j]
  BY <1>2 DEF Release, Refund
<1>5. ASSUME NEW j \in Steady, Stored(j) PROVE Row!JobStep(j) /\ CountedAt(j)'
  <2>1. CountedAt(j) /\ j \in Jobs /\ attempts[j] \in Nat /\ MaxAttempts \in Nat /\ ledger'[j] = ledger[j]
    BY <1>1, <1>3, <1>5, SteadyJobs, LimitsAssumption DEF Counted, Stored, Typed, TypeOK
  <2>2. CASE j \in back
    <3>1. status[j] = "running" /\ attempts[j] \in 1..MaxAttempts
      BY <1>2, <2>1, <2>2 DEF CountedAt
    <3>2. status'[j] = "pending" /\ attempts'[j] = attempts[j] - 1
      BY <1>4, <2>1, <2>2, <3>1
    <3>3. Row!Refund(j)
      BY <2>1, <3>1, <3>2 DEF Row!Refund, Row!Move
    <3>4. CountedAt(j)'
      BY <2>1, <3>1, <3>2 DEF CountedAt
    <3> QED
      BY <3>3, <3>4 DEF Row!JobStep
  <2>3. CASE j \notin back
    <3>1. status'[j] = status[j] /\ attempts'[j] = attempts[j]
      BY <1>4, <2>1, <2>3
    <3>2. Row!Stay(j)
      BY <2>1, <3>1 DEF Row!Stay, Row!Keep
    <3>3. CountedAt(j)'
      BY <2>1, <3>1 DEF CountedAt
    <3> QED
      BY <3>2, <3>3 DEF Row!JobStep
  <2> QED
    BY <2>2, <2>3
<1>6. StillGone /\ frag \in [Jobs -> {"stored", "gone"}]
  BY <1>1, <1>3 DEF StillGone, Typed, TypeOK
<1>7. ASSUME NEW u \in Threads, pc'[u] = "failing", cur[u] \in Steady, frag[cur[u]] = "stored"
      PROVE  attempts'[cur[u]] = attempts[cur[u]]
  <2>1. u # t /\ Has(u, cur[u]) /\ cur[u] \in Jobs
    BY <1>3, <1>7, SteadyJobs DEF Has
  <2>2. cur[u] \notin batch[t]
    BY <1>1, <1>7, <2>1 DEF OneHas, Has
  <2> QED
    BY <1>2, <1>4, <2>1, <2>2
<1>8. VerdictInv'
  BY <1>1, <1>3, <1>6, <1>7, VerdictStays
<1> QED
  BY <1>5, <1>6, <1>8 DEF EachMoves

LEMMA GiveBackMoves ==
  ASSUME PromiseInv, NEW s \in Services, GiveBack(s) PROVE EachMoves /\ StillGone /\ VerdictInv'
<1>1. Typed /\ Counted /\ VerdictInv /\ WaitingInv
  BY DEF PromiseInv, AloneInv
<1>2. UNCHANGED <<frag, ledger, pc, cur, verdict>>
  BY DEF GiveBack, Release
<1>3. ASSUME NEW j \in Steady PROVE status'[j] = status[j] /\ attempts'[j] = attempts[j]
  <2>1. j \notin Releasable(waiting[s], ProcOf[s]) \cup Releasable(running[s], ProcOf[s]) /\ j \in Jobs
    BY <1>1, SteadyJobs DEF WaitingInv, Releasable
  <2> QED
    BY <2>1 DEF GiveBack, Release, Refund
<1>4. ASSUME NEW j \in Steady, Stored(j) PROVE Row!JobStep(j) /\ CountedAt(j)'
  <2>1. Row!Stay(j)
    BY <1>2, <1>3 DEF Row!Stay, Row!Keep
  <2>2. CountedAt(j)
    BY <1>1, <1>4 DEF Counted, Stored
  <2> QED
    BY <1>3, <2>1, <2>2 DEF Row!JobStep, CountedAt
<1>5. StillGone /\ frag \in [Jobs -> {"stored", "gone"}]
  BY <1>1, <1>2 DEF StillGone, Typed, TypeOK
<1>6. VerdictInv'
  BY <1>1, <1>2, <1>3, <1>5, VerdictStays
<1> QED
  BY <1>4, <1>5, <1>6 DEF EachMoves

LEMMA OpenServiceMoves ==
  ASSUME PromiseInv, NEW s \in Services, OpenService(s) PROVE EachMoves /\ StillGone /\ VerdictInv'
<1> DEFINE p == ProcOf[s]
<1>1. Typed /\ Counted /\ VerdictInv
  BY DEF PromiseInv, AloneInv
<1>2. UNCHANGED <<frag, ledger, attempts, pc, cur, verdict>>
  BY DEF OpenService
<1>3. \A j \in Jobs : status'[j] = IF j \in Requeued(p) THEN "pending"
                                   ELSE IF j \in GivenUp(p) THEN "failed" ELSE status[j]
  BY DEF OpenService, GivenUp
<1>4. /\ \A j \in Requeued(p) : status[j] = "running" /\ ~Spent(j)
      /\ \A j \in GivenUp(p) : status[j] = "running" /\ Spent(j)
  BY DEF Requeued, GivenUp, Orphans
<1>5. ASSUME NEW j \in Steady, Stored(j) PROVE Row!JobStep(j) /\ CountedAt(j)'
  <2>1. CountedAt(j) /\ j \in Jobs /\ attempts[j] \in Nat /\ MaxAttempts \in Nat
    BY <1>1, <1>5, SteadyJobs, LimitsAssumption DEF Counted, Stored, Typed, TypeOK
  <2>2. CASE j \in Requeued(p)
    <3>1. status[j] = "running" /\ attempts[j] < MaxAttempts /\ status'[j] = "pending"
      BY <1>3, <1>4, <2>1, <2>2 DEF Spent
    <3>2. Row!Requeue(j) /\ CountedAt(j)'
      BY <1>2, <2>1, <3>1 DEF Row!Requeue, Row!Move, Row!Keep, CountedAt
    <3> QED
      BY <3>2 DEF Row!JobStep
  <2>3. CASE j \notin Requeued(p) /\ j \in GivenUp(p)
    <3>1. status[j] = "running" /\ Spent(j) /\ status'[j] = "failed"
      BY <1>3, <1>4, <2>1, <2>3
    <3>2. attempts[j] = MaxAttempts
      BY <2>1, <3>1 DEF CountedAt, Spent
    <3>3. Row!GiveUp(j) /\ CountedAt(j)'
      BY <1>2, <2>1, <3>1, <3>2 DEF Row!GiveUp, Row!Move, Row!Keep, CountedAt
    <3> QED
      BY <3>3 DEF Row!JobStep
  <2>4. CASE j \notin Requeued(p) /\ j \notin GivenUp(p)
    <3>1. status'[j] = status[j]
      BY <1>3, <2>1, <2>4
    <3>2. Row!Stay(j) /\ CountedAt(j)'
      BY <1>2, <2>1, <3>1 DEF Row!Stay, Row!Keep, CountedAt
    <3> QED
      BY <3>2 DEF Row!JobStep
  <2> QED
    BY <2>2, <2>3, <2>4
<1>6. StillGone /\ frag \in [Jobs -> {"stored", "gone"}]
  BY <1>1, <1>2 DEF StillGone, Typed, TypeOK
<1>7. VerdictInv'
  BY <1>1, <1>2, <1>6, VerdictStays
<1> QED
  BY <1>5, <1>6, <1>7 DEF EachMoves
(* A steady job is settled by the thread that runs it, out of "running". *)
LEMMA RecordFactMoves ==
  ASSUME PromiseInv, NEW t \in Threads, RecordFact(t) PROVE EachMoves /\ StillGone /\ VerdictInv'
<1>1. Typed /\ Counted /\ VerdictInv /\ AloneInv
  BY DEF PromiseInv, AloneInv
<1>2. PICK c \in todo[t] : ledger' = [ledger EXCEPT ![cur[t]] = @ \cup {c}]
  BY DEF RecordFact
<1>3. c \in Cands /\ cur[t] \in Jobs /\ pc[t] = "work"
  BY <1>1, <1>2 DEF RecordFact, Typed, TypeOK, CurInv
<1>4. UNCHANGED <<frag, status, attempts, pc, cur, verdict>>
  BY DEF RecordFact
<1>5. ASSUME NEW j \in Steady, Stored(j) PROVE Row!JobStep(j) /\ CountedAt(j)'
  <2>1. CountedAt(j)' /\ j \in Jobs
    BY <1>1, <1>4, <1>5, SteadyJobs DEF Counted, CountedAt, Stored
  <2>2. CASE j = cur[t] /\ c \notin ledger[j]
    <3>1. status[j] = "running"
      BY <1>1, <1>3, <1>5, <2>2, RunnerHas DEF Stored
    <3>2. ledger'[j] = ledger[j] \cup {c}
      BY <1>1, <1>2, <1>3, <2>2 DEF Typed, TypeOK
    <3>3. Row!Record(j)
      BY <1>3, <1>4, <2>2, <3>1, <3>2 DEF Row!Record, Row!Keep
    <3> QED
      BY <2>1, <3>3 DEF Row!JobStep
  <2>3. CASE j # cur[t] \/ c \in ledger[j]
    <3>1. ledger'[j] = ledger[j]
      BY <1>1, <1>2, <1>3, <2>1, <2>3 DEF Typed, TypeOK
    <3>2. Row!Stay(j)
      BY <1>4, <3>1 DEF Row!Stay, Row!Keep
    <3> QED
      BY <2>1, <3>2 DEF Row!JobStep
  <2> QED
    BY <2>2, <2>3
<1>6. StillGone /\ frag \in [Jobs -> {"stored", "gone"}]
  BY <1>1, <1>4 DEF StillGone, Typed, TypeOK
<1>7. VerdictInv'
  BY <1>1, <1>4, <1>6, VerdictStays
<1> QED
  BY <1>5, <1>6, <1>7 DEF EachMoves

LEMMA CompleteJobMoves ==
  ASSUME PromiseInv, NEW t \in Threads, CompleteJob(t) PROVE EachMoves /\ StillGone /\ VerdictInv'
<1>1. Typed /\ Counted /\ VerdictInv /\ AloneInv /\ WorkInv
  BY DEF PromiseInv, AloneInv, ExtractInv
<1>2. cur[t] \in Jobs /\ pc[t] = "work" /\ todo[t] = {}
  BY <1>1 DEF CompleteJob, Extracted, Typed, CurInv
<1>3. /\ UNCHANGED <<frag, attempts, ledger, cur, verdict>>
      /\ \A u \in Threads : pc'[u] = "failing" => pc[u] = "failing"
  BY <1>1 DEF CompleteJob, Typed, TypeOK
<1>4. ASSUME NEW j \in Steady, Stored(j) PROVE Row!JobStep(j) /\ CountedAt(j)'
  <2>1. CountedAt(j) /\ j \in Jobs
    BY <1>1, <1>4, SteadyJobs DEF Counted, Stored
  <2>2. CASE j = cur[t]
    <3>1. status[j] = "running"
      BY <1>1, <1>2, <1>4, <2>2, RunnerHas DEF Stored
    <3>2. status'[j] = "done"
      BY <1>1, <2>1, <2>2, <3>1 DEF CompleteJob, Settle, Typed, TypeOK
    <3>3. ledger[j] = Cands
      BY <1>1, <1>2, <1>4, <2>1, <2>2 DEF WorkInv, Stored, Typed, TypeOK
    <3>4. Row!Finish(j) /\ CountedAt(j)'
      BY <1>3, <3>1, <3>2, <3>3 DEF Row!Finish, Row!Move, Row!Keep, CountedAt
    <3> QED
      BY <3>4 DEF Row!JobStep
  <2>3. CASE j # cur[t]
    <3>1. status'[j] = status[j]
      BY <1>1, <2>1, <2>3 DEF CompleteJob, Settle, Typed, TypeOK
    <3>2. Row!Stay(j) /\ CountedAt(j)'
      BY <1>3, <2>1, <3>1 DEF Row!Stay, Row!Keep, CountedAt
    <3> QED
      BY <3>2 DEF Row!JobStep
  <2> QED
    BY <2>2, <2>3
<1>5. StillGone /\ frag \in [Jobs -> {"stored", "gone"}]
  BY <1>1, <1>3 DEF StillGone, Typed, TypeOK
<1>6. VerdictInv'
  BY <1>1, <1>3, <1>5, VerdictStays
<1> QED
  BY <1>4, <1>5, <1>6 DEF EachMoves

(* The verdict read before is still the right one: nobody else charges the job. *)
LEMMA FailJobMoves ==
  ASSUME PromiseInv, NEW t \in Threads, FailJob(t) PROVE EachMoves /\ StillGone /\ VerdictInv'
<1>1. Typed /\ Counted /\ VerdictInv /\ AloneInv
  BY DEF PromiseInv, AloneInv
<1>2. cur[t] \in Jobs /\ pc[t] = "failing"
  BY <1>1 DEF FailJob, Typed, CurInv
<1>3. /\ UNCHANGED <<frag, attempts, ledger, cur, verdict>>
      /\ \A u \in Threads : pc'[u] = "failing" => pc[u] = "failing"
  BY <1>1 DEF FailJob, Typed, TypeOK
<1>4. ASSUME NEW j \in Steady, Stored(j) PROVE Row!JobStep(j) /\ CountedAt(j)'
  <2>1. CountedAt(j) /\ j \in Jobs /\ attempts[j] \in Nat /\ MaxAttempts \in Nat
    BY <1>1, <1>4, SteadyJobs, LimitsAssumption DEF Counted, Stored, Typed, TypeOK
  <2>2. CASE j = cur[t]
    <3>1. status[j] = "running"
      BY <1>1, <1>2, <1>4, <2>2, RunnerHas DEF Stored
    <3>2. status'[j] = verdict[t]
      BY <1>1, <2>1, <2>2, <3>1 DEF FailJob, Settle, Typed, TypeOK
    <3>3. verdict[t] = IF attempts[j] >= MaxAttempts THEN "failed" ELSE "pending"
      BY <1>1, <1>2, <1>4, <2>2 DEF VerdictInv, Stored
    <3>4. CASE attempts[j] >= MaxAttempts
      <4>1. status'[j] = "failed" /\ attempts[j] = MaxAttempts
        BY <2>1, <3>1, <3>2, <3>3, <3>4 DEF CountedAt
      <4>2. Row!GiveUp(j) /\ CountedAt(j)'
        BY <1>3, <3>1, <4>1 DEF Row!GiveUp, Row!Move, Row!Keep, CountedAt
      <4> QED
        BY <4>2 DEF Row!JobStep
    <3>5. CASE ~(attempts[j] >= MaxAttempts)
      <4>1. status'[j] = "pending" /\ attempts[j] < MaxAttempts
        BY <2>1, <3>2, <3>3, <3>5
      <4>2. Row!Requeue(j) /\ CountedAt(j)'
        BY <1>3, <3>1, <4>1 DEF Row!Requeue, Row!Move, Row!Keep, CountedAt
      <4> QED
        BY <4>2 DEF Row!JobStep
    <3> QED
      BY <3>4, <3>5
  <2>3. CASE j # cur[t]
    <3>1. status'[j] = status[j]
      BY <1>1, <2>1, <2>3 DEF FailJob, Settle, Typed, TypeOK
    <3>2. Row!Stay(j) /\ CountedAt(j)'
      BY <1>3, <2>1, <3>1 DEF Row!Stay, Row!Keep, CountedAt
    <3> QED
      BY <3>2 DEF Row!JobStep
  <2> QED
    BY <2>2, <2>3
<1>5. StillGone /\ frag \in [Jobs -> {"stored", "gone"}]
  BY <1>1, <1>3 DEF StillGone, Typed, TypeOK
<1>6. VerdictInv'
  BY <1>1, <1>3, <1>5, VerdictStays
<1> QED
  BY <1>4, <1>5, <1>6 DEF EachMoves

LEMMA JobRaisesMoves ==
  ASSUME PromiseInv, NEW t \in Threads, JobRaises(t) PROVE EachMoves /\ StillGone /\ VerdictInv'
<1>1. Typed /\ Counted /\ VerdictInv /\ AloneInv
  BY DEF PromiseInv, AloneInv
<1>2. UNCHANGED <<frag, status, attempts, ledger, cur>> /\ pc[t] \in {"read", "work"}
  BY DEF JobRaises
<1>3. ASSUME NEW u \in Threads, pc'[u] = "failing", cur[u] \in Steady, frag[cur[u]] = "stored"
      PROVE  verdict'[u] = IF attempts[cur[u]] >= MaxAttempts THEN "failed" ELSE "pending"
  <2>1. CASE u = t
    <3>1. status[cur[t]] = "running"
      BY <1>1, <1>2, <1>3, <2>1, RunnerHas
    <3> QED
      BY <1>1, <2>1, <3>1 DEF JobRaises, Verdict, Typed, TypeOK
  <2>2. CASE u # t
    BY <1>1, <1>3, <2>2 DEF JobRaises, VerdictInv, Typed, TypeOK
  <2> QED
    BY <2>1, <2>2
<1> QED
  BY <1>1, <1>2, <1>3, RowsUnmoved DEF VerdictInv

(* The other steps touch neither the rows the promise is about nor a verdict. *)
LEMMA OtherMoves ==
  ASSUME PromiseInv,
         UNCHANGED <<frag, status, attempts, ledger>>,
         \A t \in Threads : pc'[t] = "failing" =>
             pc[t] = "failing" /\ cur'[t] = cur[t] /\ verdict'[t] = verdict[t]
  PROVE  EachMoves /\ StillGone /\ VerdictInv'
<1>1. Typed /\ Counted /\ VerdictInv
  BY DEF PromiseInv, AloneInv
<1>2. EachMoves /\ StillGone
  BY <1>1, RowsUnmoved
<1> QED
  BY <1>1, <1>2, VerdictStays DEF Typed, TypeOK

LEMMA StepMoves == ASSUME PromiseInv, [Next]_vars PROVE EachMoves /\ StillGone /\ VerdictInv'
<1>1. Typed
  BY DEF PromiseInv, AloneInv
<1>2. CASE UNCHANGED vars
  BY <1>2, OtherMoves DEF vars
<1>3. ASSUME NEW j \in Jobs, Expire(j) PROVE EachMoves /\ StillGone /\ VerdictInv'
  BY <1>3, OtherMoves DEF Expire
<1>4. ASSUME NEW t \in Threads,
             \/ BeginPass(t) \/ WorkerEnds(t) \/ ClaimRefused(t) \/ TakeHold(t) \/ NextJob(t)
             \/ EndBatch(t) \/ JobInterrupted(t) \/ StartJob(t) \/ ReadFragment(t) \/ LeaveJob(t)
      PROVE  EachMoves /\ StillGone /\ VerdictInv'
  <2>1. UNCHANGED <<frag, status, attempts, ledger>>
    BY <1>4 DEF BeginPass, WorkerEnds, ClaimRefused, TakeHold, NextJob, EndBatch, JobInterrupted,
                StartJob, ReadFragment, LeaveJob
  <2>2. PICK at \in {"claim", "ended", "next", "start", "idle", "finally", "read", "work"} :
           pc' = [pc EXCEPT ![t] = at]
    BY <1>4 DEF BeginPass, WorkerEnds, ClaimRefused, TakeHold, NextJob, EndBatch, JobInterrupted,
                StartJob, ReadFragment, LeaveJob
  <2>3. \A u \in Threads : u # t => cur'[u] = cur[u] /\ verdict'[u] = verdict[u]
    BY <1>1, <1>4 DEF BeginPass, WorkerEnds, ClaimRefused, TakeHold, NextJob, EndBatch,
          JobInterrupted, StartJob, ReadFragment, LeaveJob, Typed, TypeOK
  <2> QED
    BY <1>1, <2>1, <2>2, <2>3, OtherMoves DEF Typed, TypeOK
<1>5. ASSUME NEW s \in Services, BeginClose(s) \/ EndJoin(s) \/ ShutStore(s)
      PROVE  EachMoves /\ StillGone /\ VerdictInv'
  BY <1>5, OtherMoves DEF BeginClose, EndJoin, ShutStore
<1>6. ASSUME NEW p \in Procs, Crash(p) PROVE EachMoves /\ StillGone /\ VerdictInv'
  BY <1>6, OtherMoves DEF Crash
<1> QED
  BY <1>2, <1>3, <1>4, <1>5, <1>6, EnqueueMoves, ForgetMoves, ClaimBatchMoves, StopBatchMoves,
     RecordFactMoves, CompleteJobMoves, FailJobMoves, JobRaisesMoves, OpenServiceMoves, GiveBackMoves
     DEF Next, ThreadStep, CloseStep

LEMMA StepPromiseInv == CallersStay /\ PromiseInv /\ [Next]_vars => PromiseInv'
<1> SUFFICES ASSUME CallersStay, PromiseInv, [Next]_vars PROVE PromiseInv'
  OBVIOUS
<1>1. AloneInv' /\ ExtractInv'
  BY StepAlone, StepExtractInv DEF PromiseInv, AloneInv
<1>2. Counted'
  <2> SUFFICES ASSUME NEW j \in Steady, frag'[j] = "stored" PROVE CountedAt(j)'
    BY DEF Counted
  <2>1. frag[j] = "stored"
    BY StepMoves, SteadyJobs DEF StillGone, PromiseInv, AloneInv, Typed, TypeOK
  <2> QED
    BY <2>1, StepMoves DEF EachMoves, Stored
<1> QED
  BY <1>1, <1>2, StepMoves DEF PromiseInv

----------------------------------------------------------------------------
(* From the rows to the promise: a forgotten fragment stays forgotten. *)
LEMMA MovesArePromised ==
  ASSUME Typed, Typed', EachMoves, StillGone PROVE Promise!Next
<1> SUFFICES ASSUME NEW j \in Steady PROVE Promise!JobStep(j)
  BY DEF Promise!Next
<1>1. frag[j] \in {"stored", "gone"} /\ frag'[j] \in {"stored", "gone"} /\ j \in Jobs
  BY SteadyJobs DEF Typed, TypeOK
<1>2. CASE frag[j] = "stored" /\ frag'[j] = "stored"
  <2>1. Row!JobStep(j)
    BY <1>2 DEF EachMoves, Stored
  <2> QED
    BY <1>2, <2>1
       DEF Kept, Row!JobStep, Row!Submit, Row!Claim, Row!Retake, Row!Requeue, Row!Refund, Row!GiveUp,
           Row!Finish, Row!Record, Row!Forget, Row!Stay, Row!Move, Row!Charge, Row!Keep,
           Promise!JobStep, Promise!Submit, Promise!Claim, Promise!Retake, Promise!Requeue,
           Promise!Refund, Promise!GiveUp, Promise!Finish, Promise!Record, Promise!Forget,
           Promise!Stay, Promise!Move, Promise!Charge, Promise!Keep
<1>3. CASE frag[j] = "stored" /\ frag'[j] = "gone"
  <2>1. status[j] # "forgotten"
    BY <1>1 DEF Typed, TypeOK, Status
  <2>2. Promise!Forget(j)
    BY <1>3, <2>1 DEF Promise!Forget, Kept
  <2> QED
    BY <2>2 DEF Promise!JobStep
<1>4. CASE frag[j] = "gone"
  <2>1. frag'[j] = "gone"
    BY <1>1, <1>4 DEF StillGone
  <2>2. Promise!Stay(j)
    BY <1>4, <2>1 DEF Promise!Stay, Promise!Keep, Kept
  <2> QED
    BY <2>2 DEF Promise!JobStep
<1> QED
  BY <1>1, <1>2, <1>3, <1>4

(* The queue keeps its documented promise (PromiseKept): attempts are charged at    *)
(* most MaxAttempts times, only unstarted jobs are refunded, settled jobs stay       *)
(* settled, done means extracted; provided no thread calls drain() on a service       *)
(* that is closed meanwhile.                                                          *)
THEOREM QueueKeepsItsPromise == CallersStay => (Spec => PromiseKept)
<1> SUFFICES ASSUME CallersStay PROVE Spec => PromiseKept
  OBVIOUS
<1>1. Init => PromiseInv
  BY InitAlone, SteadyJobs, LimitsAssumption
     DEF Init, PromiseInv, ExtractInv, DoneIsExtracted, WorkInv, Counted, CountedAt, VerdictInv
<1>2. Init => Promise!Init
  BY SteadyJobs DEF Init, Promise!Init, Kept
<1>3. PromiseInv /\ [Next]_vars => PromiseInv'
  BY StepPromiseInv
<1>4. PromiseInv /\ [Next]_vars => [Promise!Next]_Promise!promised
  <2> SUFFICES ASSUME PromiseInv, [Next]_vars PROVE Promise!Next
    OBVIOUS
  <2>1. Typed /\ Typed'
    BY StepTyped DEF PromiseInv, AloneInv
  <2> QED
    BY <2>1, StepMoves, MovesArePromised
<1> QED
  BY <1>1, <1>2, <1>3, <1>4, PTL DEF Spec, PromiseKept, Promise!Spec
================================================================================
