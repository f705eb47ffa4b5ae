------------------------------ MODULE StoreUpgrade ------------------------------
(* Upgrading a store file that several processes open, of several builds:                 *)
(* store/_sqlite/upgrade.py, upgrade_backup.py, upgrade_files.py, upgrade_restore.py, the   *)
(* schema transaction of schema.py, the probe of server_guard.py and                        *)
(* `mark backups restore` (_cli/upgrade_cmd.py).  A transaction is one step from the write    *)
(* lock to the commit, except where files are written while it is held.                       *)
EXTENDS Integers, FiniteSets

CONSTANTS
    Openers,   \* processes that open the store (LocalMemoryStore)
    Serving,   \* those that are `mark serve`: they take the server lock first
    Restorers, \* processes that run `mark backups restore`
    Build,     \* the schema each of them was built for
    NoBackup,  \* those that may open with backup_on_upgrade=False
    OldRows,   \* how many memories are stored at the start
    MaxRows,   \* bound: memories are 1..MaxRows
    MaxNames,  \* bound: names of backup files
    NoOne, NoFile

Procs == Openers \cup Restorers

ASSUME ProcAssumption == /\ Openers \cap Restorers = {} /\ Serving \subseteq Openers /\ NoBackup \subseteq Openers
                         /\ NoOne \notin Procs /\ Build \in [Procs -> Nat \ {0}]
ASSUME SizeAssumption == OldRows \in Nat /\ MaxRows \in Nat /\ OldRows <= MaxRows /\ MaxNames \in Nat

VARIABLES
    store,     \* the committed content of the database file
    writer,    \* who holds its write lock
    server,    \* who holds the server lock
    files,     \* the backups under their final names
    partial,   \* what is written as <name>.partial
    proc,      \* the local state of each process
    made,      \* how many memories were ever stored
    forgotten, \* (history) memories that were deleted
    late       \* (history) memories stored while somebody was about to replace the store

vars == <<store, writer, server, files, partial, proc, made, forgotten, late>>

Ids == 1..MaxRows
Names == 1..MaxNames
Content == [schema : Nat \ {0}, rows : SUBSET Ids]
ASSUME FileAssumption == NoFile \notin Content

Locking == {"partial", "copy", "verify", "publish", "unlink", "migrate", "check"}
Steps == Locking \cup {"closed", "stamp", "guard", "begin", "confirm", "undo", "open", "replace", "ended"}
(* file: the backup to restore; name: the backup being made, 0 for none; count: the         *)
(* UpgradePlan; tx: the content the transaction would commit.                                *)
Proc == [pc : Steps, file : 0..MaxNames, name : 0..MaxNames, count : Nat, tx : Content]

TypeOK ==
    /\ store \in Content
    /\ writer \in Procs \cup {NoOne} /\ server \in Serving \cup {NoOne}
    /\ files \in [Names -> Content \cup {NoFile}] /\ partial \in [Names -> Content \cup {NoFile}]
    /\ proc \in [Procs -> Proc]
    /\ made \in OldRows..MaxRows /\ forgotten \subseteq Ids /\ late \subseteq Ids
    /\ \A p \in Procs : writer = p <=> proc[p].pc \in Locking

First == [schema |-> 1, rows |-> 1..OldRows]
Idle == [pc |-> "closed", file |-> 0, name |-> 0, count |-> 0, tx |-> First]

Init ==
    /\ store = First
    /\ writer = NoOne /\ server = NoOne
    /\ files = [n \in Names |-> NoFile] /\ partial = [n \in Names |-> NoFile]
    /\ proc = [p \in Procs |-> Idle]
    /\ made = OldRows /\ forgotten = {} /\ late = {}

At(p, step) == proc[p].pc = step
Goto(p, r) == proc' = [proc EXCEPT ![p] = r]
Step(p, from, to) == At(p, from) /\ Goto(p, [proc[p] EXCEPT !.pc = to])
HistoryKept == UNCHANGED <<made, forgotten, late>>
FilesKept == UNCHANGED <<files, partial>>
Free == writer = NoOne
(* Mutant: the transaction of a failed upgrade stays open. *)
KeepsLock(p) == /\ Goto(p, [Idle EXCEPT !.pc = "ended"])
                /\ server' = IF server = p THEN NoOne ELSE server
                /\ UNCHANGED <<store, writer>> /\ HistoryKept
(* The transaction is rolled back, if there is one; nothing in the file has changed.       *)
GivesUp(p) == /\ Goto(p, [Idle EXCEPT !.pc = "ended"])
              /\ writer' = IF writer = p THEN NoOne ELSE writer
              /\ server' = IF server = p THEN NoOne ELSE server
              /\ UNCHANGED store /\ HistoryKept

----------------------------------------------------------------------------
(* _init_schema: the guards before the transaction. *)

(* `mark serve` takes its lock before the engine opens the store. *)
Serve(p) ==
    /\ p \in Serving /\ At(p, "closed") /\ server = NoOne
    /\ server' = p /\ Goto(p, [Idle EXCEPT !.pc = "stamp"])
    /\ UNCHANGED <<store, writer>> /\ FilesKept /\ HistoryKept

Open(p) ==
    /\ p \in Openers \ Serving /\ Step(p, "closed", "stamp")
    /\ UNCHANGED <<store, writer, server>> /\ FilesKept /\ HistoryKept

RefuseNewer(p) ==
    /\ At(p, "stamp")
    /\ IF store.schema > Build[p] THEN GivesUp(p)
       ELSE Step(p, "stamp", "guard") /\ UNCHANGED <<store, writer, server>> /\ HistoryKept
    /\ FilesKept

(* Somebody else serves the store: OWN_LOCKS keeps the probe from failing on its own lock. *)
ForeignServer(p) == server \notin {NoOne, p}

RefuseUnderServer(p) ==
    /\ At(p, "guard")
    /\ IF store.schema < Build[p] /\ ForeignServer(p) THEN GivesUp(p)
       ELSE Step(p, "guard", "begin") /\ UNCHANGED <<store, writer, server>> /\ HistoryKept
    /\ FilesKept

(* BEGIN IMMEDIATE and _upgrade_begin: the stamp is read again under the lock.  Without     *)
(* an upgrade the transaction changes no memory and ends here.                                *)
Begin(p) ==
    /\ p \in Openers /\ Free
    /\ IF store.schema >= Build[p]
       THEN Step(p, "begin", "open") /\ UNCHANGED writer
       ELSE /\ At(p, "begin")
            /\ \E next \in {"partial"} \cup {"migrate" : q \in NoBackup \cap {p}} :
                 Goto(p, [proc[p] EXCEPT !.pc = next, !.count = Cardinality(store.rows)])
            /\ writer' = p
    /\ UNCHANGED <<store, server>> /\ FilesKept /\ HistoryKept

(* "database is locked" after the busy timeout. *)
Busy(p) == At(p, "begin") /\ ~Free /\ GivesUp(p) /\ FilesKept

----------------------------------------------------------------------------
(* create_backup, for an upgrade or before a restore; the write lock is held. *)

FreeName(n) == files[n] = NoFile /\ partial[n] = NoFile

(* The first free name, created with O_EXCL. *)
MakePartial(p) ==
    /\ At(p, "partial")
    /\ \E n \in Names :
         /\ FreeName(n) /\ \A m \in 1..n - 1 : ~FreeName(m)
         /\ partial' = [partial EXCEPT ![n] = [schema |-> store.schema, rows |-> {}]]
         /\ Goto(p, [proc[p] EXCEPT !.pc = "copy", !.name = n])
    /\ UNCHANGED <<store, writer, server, files>> /\ HistoryKept

(* Pages are copied as they are; some may be lost on the way. *)
Copy(p) ==
    /\ Step(p, "copy", "verify")
    /\ \E damage \in {{}} \cup {{i} : i \in store.rows} :
         partial' = [partial EXCEPT ![proc[p].name] = [store EXCEPT !.rows = @ \ damage]]
    /\ UNCHANGED <<store, writer, server, files>> /\ HistoryKept

RemovePartial(p) == partial' = [partial EXCEPT ![proc[p].name] = NoFile] /\ UNCHANGED files

(* Mutant: the copy is not compared with the store. *)
AnyCopy(p) == TRUE
(* The rows of every key table are counted in both. *)
Verified(p) == Cardinality(partial[proc[p].name].rows) = Cardinality(store.rows)

Verify(p) ==
    /\ At(p, "verify")
    /\ IF Verified(p)
       THEN Step(p, "verify", "publish") /\ UNCHANGED <<store, writer, server>> /\ FilesKept /\ HistoryKept
       ELSE GivesUp(p) /\ RemovePartial(p)

(* os.link, which never replaces a file; then the partial name goes. *)
Publish(p) ==
    LET n == proc[p].name IN
    /\ Step(p, "publish", "unlink") /\ files[n] = NoFile
    /\ files' = [files EXCEPT ![n] = partial[n]]
    /\ UNCHANGED <<store, writer, server, partial>> /\ HistoryKept

(* A restore lets go of the lock here. *)
Unlink(p) ==
    /\ Step(p, "unlink", IF p \in Restorers THEN "replace" ELSE "migrate")
    /\ writer' = IF p \in Restorers THEN NoOne ELSE writer
    /\ RemovePartial(p)
    /\ UNCHANGED <<store, server>> /\ HistoryKept

(* No space, no permission, a write error. *)
BackupFails(p) ==
    /\ GivesUp(p)
    /\ \/ At(p, "partial") /\ FilesKept
       \/ (At(p, "copy") \/ At(p, "publish")) /\ RemovePartial(p)

----------------------------------------------------------------------------
(* The migration, its checks and the undo. *)

(* A migration may lose rows (what _upgrade_verify is for) or raise. *)
Migrate(p) ==
    /\ At(p, "migrate")
    /\ \E lost \in {{}} \cup {{i} : i \in store.rows} :
         Goto(p, [proc[p] EXCEPT !.pc = "check",
                                 !.tx = [schema |-> Build[p], rows |-> store.rows \ lost]])
    /\ UNCHANGED <<store, writer, server>> /\ FilesKept /\ HistoryKept

MigrationFails(p) == At(p, "migrate") /\ GivesUp(p) /\ FilesKept

NothingLost(p) == Cardinality(proc[p].tx.rows) >= proc[p].count

VerifyAndCommit(p) ==
    /\ At(p, "check")
    /\ IF NothingLost(p)
       THEN /\ Step(p, "check", "confirm")
            /\ store' = proc[p].tx /\ writer' = NoOne /\ UNCHANGED server /\ HistoryKept
       ELSE GivesUp(p)
    /\ FilesKept

(* _upgrade_confirm: the counts are read again, without the lock. *)
Confirm(p) ==
    /\ Step(p, "confirm", IF Cardinality(store.rows) >= proc[p].count THEN "open"
                          ELSE IF proc[p].name # 0 THEN "undo" ELSE "ended")
    /\ server' = IF server = p /\ proc'[p].pc = "ended" THEN NoOne ELSE server
    /\ UNCHANGED <<store, writer>> /\ FilesKept /\ HistoryKept

(* _upgrade_failed after the commit: the backup goes over whatever is there by now. *)
Undo(p) ==
    /\ At(p, "undo") /\ Free
    /\ store' = files[proc[p].name]
    /\ Goto(p, [Idle EXCEPT !.pc = "ended"])
    /\ server' = IF server = p THEN NoOne ELSE server
    /\ UNCHANGED writer /\ FilesKept /\ HistoryKept

(* The restore reports an error: the upgraded store stays. *)
UndoFails(p) == At(p, "undo") /\ GivesUp(p) /\ FilesKept

----------------------------------------------------------------------------
(* mark backups restore FILE. *)

Choose(p, n) ==
    /\ p \in Restorers /\ At(p, "closed")
    /\ files[n] # NoFile /\ files[n].schema <= Build[p] /\ ~ForeignServer(p)
    /\ Goto(p, [Idle EXCEPT !.pc = "begin", !.file = n])
    /\ UNCHANGED <<store, writer, server>> /\ FilesKept /\ HistoryKept

KeepCurrent(p) ==
    /\ p \in Restorers /\ Step(p, "begin", "partial") /\ Free
    /\ writer' = p
    /\ UNCHANGED <<store, server>> /\ FilesKept /\ HistoryKept

Replace(p) ==
    /\ At(p, "replace") /\ Free
    /\ store' = files[proc[p].file]
    /\ Goto(p, [Idle EXCEPT !.pc = "ended"])
    /\ UNCHANGED <<writer, server>> /\ FilesKept /\ HistoryKept

----------------------------------------------------------------------------
(* What open stores do, and how processes end. *)

Replacing == \E q \in Procs : proc[q].pc \in {"confirm", "undo", "replace"}

Add(p) ==
    /\ At(p, "open") /\ Free /\ made < MaxRows
    /\ made' = made + 1
    /\ store' = [store EXCEPT !.rows = @ \cup {made + 1}]
    /\ late' = IF Replacing THEN late \cup {made + 1} ELSE late
    /\ UNCHANGED <<writer, server, proc, forgotten>> /\ FilesKept

Forget(p) ==
    /\ At(p, "open") /\ Free
    /\ \E i \in store.rows : /\ store' = [store EXCEPT !.rows = @ \ {i}]
                             /\ forgotten' = forgotten \cup {i}
    /\ UNCHANGED <<writer, server, proc, made, late>> /\ FilesKept

Close(p) == At(p, "open") /\ GivesUp(p) /\ FilesKept

(* SQLite rolls the transaction back; partial files stay. *)
Crash(p) == ~At(p, "closed") /\ ~At(p, "ended") /\ GivesUp(p) /\ FilesKept

(* The next command, or the next run of the same process. *)
Again(p) ==
    /\ Step(p, "ended", "closed")
    /\ UNCHANGED <<store, writer, server>> /\ FilesKept /\ HistoryKept

Opening(p) == RefuseNewer(p) \/ RefuseUnderServer(p) \/ Begin(p) \/ Busy(p)
Backup(p) == MakePartial(p) \/ Copy(p) \/ Verify(p) \/ Publish(p) \/ Unlink(p) \/ BackupFails(p)
Upgrade(p) == Migrate(p) \/ MigrationFails(p) \/ VerifyAndCommit(p) \/ Confirm(p) \/ Undo(p) \/ UndoFails(p)
Restore(p) == KeepCurrent(p) \/ Replace(p)

Next == \E p \in Procs :
    \/ Serve(p) \/ Open(p) \/ (\E n \in Names : Choose(p, n))
    \/ Opening(p) \/ Backup(p) \/ Upgrade(p) \/ Restore(p)
    \/ Add(p) \/ Forget(p) \/ Close(p) \/ Crash(p) \/ Again(p)

Spec == Init /\ [][Next]_vars

----------------------------------------------------------------------------
(* Properties. *)

Kept == store.rows \cup UNION {files[n].rows : n \in {m \in Names : files[m] # NoFile}}

(* A memory that was stored and not forgotten is in the store or in a backup under its     *)
(* final name, whatever fails or is killed at any point of any upgrade and restore; unless     *)
(* it was stored between the moment a process decided to replace the store and the moment it     *)
(* did.                                                                                            *)
KeptSomewhere == (1..made) \ (forgotten \cup late) \subseteq Kept

(* While an upgrade or a restore goes on behind its backup, that file is the store it is    *)
(* about to change, to the last row.                                                           *)
BackupIsTheStore ==
    \A p \in Procs : proc[p].pc \in {"unlink", "migrate", "check"} /\ proc[p].name # 0 =>
                       files[proc[p].name] = store

(* The schema of the store changes by an upgrade, which keeps every row, under the write    *)
(* lock of a build that knows it; or because a process puts a published backup back.          *)
SchemaMoves == [][store.schema # store'.schema =>
    \/ store.rows = store'.rows /\ \E p \in Openers : writer = p /\ Build[p] = store'.schema
    \/ \E n \in Names : store' = files[n]]_vars

================================================================================
