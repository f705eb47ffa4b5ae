------------------------------ MODULE CommandServer ------------------------------
(* The life of `mark serve` processes for one database: _cli/server.py.  A file is an   *)
(* inode: the lock file may be unlinked and created again while others have the old one   *)
(* open.  flock belongs to the open descriptor and ends with its process.                 *)
EXTENDS Integers, FiniteSets

CONSTANTS
    Servers,  \* processes that run serve() once
    MaxTries, \* how often _acquire_lock opens the lock file
    NoOne

ASSUME ServerAssumption == NoOne \notin Servers /\ MaxTries \in Nat \ {0}

VARIABLES
    path,    \* the inode at the path of the lock file, 0 for none
    files,   \* inodes 1..files were created
    state,   \* whose token the state file holds
    proc,    \* what each process is doing
    met      \* (history) starting processes during whose start another one was alive

serverVars == <<path, files, state, proc, met>>

Owning == {"held", "engine", "serving", "stopping", "closing", "shut", "stateless"}
Holding == Owning \cup {"locked", "unlinked"}
Steps == Holding \cup {"new", "opened", "again", "released", "refused", "gone", "killed"}
Proc == [pc : Steps, fd : Nat, tries : 0..MaxTries]
Over(how) == [pc |-> how, fd |-> 0, tries |-> 0]
Before == Over("new")

Starting(s) == proc[s].pc \in {"opened", "locked", "again"}
At(s, step) == proc[s].pc = step
Alive(s) == proc[s].pc \notin {"new", "refused", "gone", "killed"}

ServerTypeOK ==
    /\ path \in Nat /\ files \in Nat /\ path <= files
    /\ state \in Servers \cup {NoOne}
    /\ proc \in [Servers -> Proc]
    /\ \A s \in Servers : proc[s].fd <= files /\ (Alive(s) => proc[s].fd # 0)
    /\ met \subseteq Servers

ServerInit ==
    /\ path = 0 /\ files = 0 /\ state = NoOne
    /\ proc = [s \in Servers |-> Before]
    /\ met = {}

(* A lock is on the inode, held through the descriptor of a live process.             *)
Locked(f) == \E s \in Servers : proc[s].fd = f /\ proc[s].pc \in Holding
(* The socket takes connections: it is listening and serve_forever has not ended.      *)
Accepting(s) == proc[s].pc \in {"serving", "stopping"}
EngineOpen(s) == proc[s].pc \in {"engine", "serving", "stopping", "closing"}

Step(s, from, to) == proc[s].pc = from /\ proc' = [proc EXCEPT ![s].pc = to]
Ends(s, how) == proc' = [proc EXCEPT ![s] = Over(how)]
FilesKept == UNCHANGED <<path, files, state>>

----------------------------------------------------------------------------
(* _acquire_lock. *)

Opened(s, f) == proc' = [proc EXCEPT ![s] = [pc |-> "opened", fd |-> f, tries |-> proc[s].tries + 1]]
Meets(s) == LET others == {t \in Servers \ {s} : Alive(t)}
            IN  met' = met \cup {t \in others : Starting(t)} \cup (IF others = {} THEN {} ELSE {s})

(* Mutant: the file is not created. *)
OpenExisting(s) ==
    /\ At(s, "new") \/ At(s, "again")
    /\ Opened(s, path) /\ Meets(s) /\ FilesKept

(* O_RDWR | O_CREAT. *)
Open(s) ==
    /\ At(s, "new") \/ At(s, "again")
    /\ path' = IF path = 0 THEN files + 1 ELSE path
    /\ files' = IF path = 0 THEN files + 1 ELSE files
    /\ Opened(s, path')
    /\ Meets(s) /\ UNCHANGED state

(* "already running": the lock is held elsewhere. *)
Lock(s) ==
    /\ At(s, "opened")
    /\ IF Locked(proc[s].fd) THEN Ends(s, "refused") ELSE Step(s, "opened", "locked")
    /\ FilesKept /\ UNCHANGED met

Acquired(s) == /\ proc' = [proc EXCEPT ![s] = [pc |-> "held", fd |-> proc[s].fd, tries |-> 0]]
               /\ met' = met \ {s}

(* Mutant: the lock counts, whatever file is at the path by now. *)
NoRecheck(s) == At(s, "locked") /\ Acquired(s) /\ FilesKept
(* Only a lock on the file that is still at the path counts. *)
Recheck(s) ==
    /\ At(s, "locked")
    /\ IF proc[s].fd = path THEN Acquired(s)
       ELSE /\ IF proc[s].tries < MaxTries THEN Step(s, "locked", "again") ELSE Ends(s, "refused")
            /\ UNCHANGED met
    /\ FilesKept

----------------------------------------------------------------------------
(* serve(). *)

OpenEngine(s) == Step(s, "held", "engine") /\ FilesKept /\ UNCHANGED met
(* The store cannot be opened: only the lock is released. *)
EngineFails(s) == Step(s, "held", "stateless") /\ FilesKept /\ UNCHANGED met

(* Mutant: a state file that is already there is left alone. *)
PublishOnce(s) ==
    /\ Step(s, "engine", "serving")
    /\ state' = IF state = NoOne THEN s ELSE state
    /\ UNCHANGED <<path, files>> /\ UNCHANGED met

(* Listening, then the state file is renamed into place. *)
Publish(s) == Step(s, "engine", "serving") /\ state' = s /\ UNCHANGED <<path, files>> /\ UNCHANGED met

(* A stop request, a signal or stop_event: the loop ends within one poll interval. *)
AskStop(s) == Step(s, "serving", "stopping") /\ FilesKept /\ UNCHANGED met
EndLoop(s) == Step(s, "stopping", "closing") /\ FilesKept /\ UNCHANGED met

(* The snapshots are saved, the runtime shuts down and closes the store. *)
CloseEngine(s) == Step(s, "closing", "shut") /\ FilesKept /\ UNCHANGED met

RemoveState(s) ==
    /\ Step(s, "shut", "stateless")
    /\ state' = IF state = s THEN NoOne ELSE state
    /\ UNCHANGED <<path, files>> /\ UNCHANGED met

(* _release_lock: whatever is at the path is unlinked, or it cannot be (Windows). *)
Unlink(s) ==
    /\ Step(s, "stateless", "unlinked")
    /\ path' \in {0, path}
    /\ UNCHANGED <<files, state>> /\ UNCHANGED met

CloseFd(s) == Step(s, "unlinked", "released") /\ FilesKept /\ UNCHANGED met
Exit(s) == At(s, "released") /\ Ends(s, "gone") /\ FilesKept /\ UNCHANGED met

(* Killed, or an error nothing catches (the port is taken, the disk is full): the      *)
(* kernel closes the descriptor, the files stay.                                          *)
Crash(s) ==
    /\ Alive(s) /\ Ends(s, "killed")
    /\ FilesKept /\ UNCHANGED met

----------------------------------------------------------------------------
Start(s) == Open(s) \/ Lock(s) \/ Recheck(s) \/ OpenEngine(s) \/ EngineFails(s) \/ Publish(s)
End(s) == EndLoop(s) \/ CloseEngine(s) \/ RemoveState(s) \/ Unlink(s) \/ CloseFd(s) \/ Exit(s)

ServerNext == \E s \in Servers : Start(s) \/ End(s) \/ AskStop(s) \/ Crash(s)

ServerSpec == ServerInit /\ [][ServerNext]_serverVars

----------------------------------------------------------------------------
(* Properties. *)

(* One server per database: at most one process is past _acquire_lock and has not       *)
(* unlinked the lock file again, and its lock is on the file at the path, however files   *)
(* were unlinked and created between an open and a lock.                                   *)
OneServer ==
    /\ \A s, t \in Servers : proc[s].pc \in Owning /\ proc[t].pc \in Owning => s = t
    /\ \A s \in Servers : proc[s].pc \in Owning => proc[s].fd = path

(* The state file names the server that accepts requests, also after another was       *)
(* killed and left its own; a state file without a live server is left by a killed one.   *)
StateTellsTheServer ==
    /\ \A s \in Servers : Accepting(s) => state = s
    /\ state # NoOne => proc[state].pc \in {"serving", "stopping", "closing", "shut", "killed"}

(* "There is no stale lock to reclaim": a start is refused only when another process   *)
(* was alive during it, whatever files a killed server left behind.                       *)
StaleFilesNeverRefuse == \A s \in Servers : At(s, "refused") => s \in met

================================================================================
