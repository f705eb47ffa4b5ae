------------------------------ MODULE VectorSnapshot ------------------------------
(* The vector index of each process and the vector snapshot of a large agent that spares   *)
(* the next process reading its rows: store/_sqlite/vector_snapshot.py,                       *)
(* intelligence/index_bulk_load.py, the sync of intelligence/retrieval_index.py and the save   *)
(* of `mark serve` on a graceful stop.  One agent, one embedder: a text is the number of the write that stored it, and so      *)
(* is its vector.  A transaction is one step, and so is a call on an index, which has a lock.     *)
(* (StoreProofs extends this module and others, so the names they would all have differ.)         *)
EXTENDS Integers, FiniteSets

CONSTANTS
    Ids,      \* memory ids
    Procs,    \* processes that open the store
    MaxWrites, \* bound: structural writes
    MinRows,  \* MIN_ROWS: a smaller agent never gets a snapshot
    FewRows   \* a snapshot that misses fewer rows than this is not rebuilt

ASSUME SizeAssumption == Ids # {} /\ MaxWrites \in Nat /\ MinRows \in Nat /\ FewRows \in Nat

VARIABLES
    rows,    \* fragments: the text, its stored vector (0: pending) and whether it is retrievable
    version, \* write_version: how many structural writes
    snap,    \* vector_snapshots: the vector of each id, 0 for none
    saved,   \* vector_snapshot_meta: there is a snapshot
    dirty,   \* vector_dirty
    scopeAt, \* the version the scope snapshot is exact at
    index,   \* the partition of each process, 0 for an id that is not in it
    proc,    \* the thread of each process that syncs and saves
    todo,    \* what the writing thread of each process still has to do to the index
    erased,  \* (history) texts forgotten with secure=True
    wrong    \* (history) ids of which the snapshot was taken from a process that had them wrong

snapshotVars == <<rows, version, snap, saved, dirty, scopeAt, index, proc, todo, erased, wrong>>
storeVars == <<rows, version, snap, saved, dirty, scopeAt>>

Text == 1..MaxWrites
Vec == 0..MaxWrites
NoRow == [text |-> 0, vec |-> 0, live |-> FALSE]
NoVecs == [i \in Ids |-> 0]
VecRow == [text : Vec, vec : Vec, live : BOOLEAN]
NothingOwed == [op |-> "none", id |-> CHOOSE i \in Ids : TRUE, vec |-> 0]
Todo == [op : {"none", "add", "remove"}, id : Ids, vec : Vec]
SyncSteps == {"down", "scoped", "parts", "rows", "embed", "embedding", "up", "sync", "export", "save"}
(* scope: the retrievable ids last synced; ver: the version read before; skip: the dirty ids     *)
(* read; due: a snapshot is to be saved; left: ids to embed; one: the id being embedded; out: the   *)
(* exported partition; stop: the process stops after it; bad: (history) ids this process had wrong.    *)
Proc == [pc : SyncSteps, scope : SUBSET Ids, ver : Int, skip : SUBSET Ids, due : BOOLEAN, left : SUBSET Ids,
         one : Todo, out : [Ids -> Vec], stop : BOOLEAN, bad : SUBSET Ids]

SnapshotTypeOK ==
    /\ rows \in [Ids -> VecRow] /\ version \in 0..MaxWrites /\ snap \in [Ids -> Vec] /\ saved \in BOOLEAN
    /\ dirty \subseteq Ids /\ scopeAt \in Int /\ index \in [Procs -> [Ids -> Vec]]
    /\ proc \in [Procs -> Proc] /\ todo \in [Procs -> Todo]
    /\ erased \subseteq Text /\ wrong \subseteq Ids
    /\ ~saved => dirty = {} /\ snap = NoVecs
    /\ \A i \in Ids : rows[i].text = 0 => rows[i] = NoRow

Down == [pc |-> "down", scope |-> {}, ver |-> -1, skip |-> {}, due |-> FALSE, left |-> {}, one |-> NothingOwed,
         out |-> NoVecs, stop |-> FALSE, bad |-> {}]

SnapshotInit ==
    /\ rows = [i \in Ids |-> NoRow] /\ version = 0
    /\ snap = NoVecs /\ saved = FALSE /\ dirty = {} /\ scopeAt = -1
    /\ index = [p \in Procs |-> NoVecs] /\ proc = [p \in Procs |-> Down] /\ todo = [p \in Procs |-> NothingOwed]
    /\ erased = {} /\ wrong = {}

Exists(i) == rows[i] # NoRow
Live == {i \in Ids : rows[i].live}
Indexed(p) == {i \in Ids : index[p][i] # 0}
SyncAt(p, step) == proc[p].pc = step
MovesTo(p, r) == proc' = [proc EXCEPT ![p] = r]
Writes == version' = version + 1
NewText == version + 1
Owes(p, op, i, v) == todo' = [todo EXCEPT ![p] = [op |-> op, id |-> i, vec |-> v]]
StoreKept == UNCHANGED storeVars
HistoryKept == UNCHANGED <<erased, wrong>>

(* _mark_vector_dirty: nothing to record without a snapshot. *)
MarkedDirty(i) == IF saved THEN dirty \cup {i} ELSE dirty

----------------------------------------------------------------------------
(* The writing thread: a structural transaction, then the index of its own process.        *)

Writer(p) == ~SyncAt(p, "down") /\ todo[p].op = "none" /\ version < MaxWrites

(* index_fragment; v = 0: the embedder is down and the vector pending.  The same id may be    *)
(* stored again with another text.                                                                *)
Put(p, i) ==
    /\ Writer(p)
    /\ \E v \in {0, NewText} :
         /\ rows' = [rows EXCEPT ![i] = [text |-> NewText, vec |-> v, live |-> TRUE]]
         /\ IF v = 0 THEN UNCHANGED todo ELSE Owes(p, "add", i, v)
    /\ Writes /\ dirty' = MarkedDirty(i)
    /\ UNCHANGED <<snap, saved, scopeAt, index, proc, erased, wrong>>

(* update_state, and back: the row and its vector stay. *)
SetState(p, i) ==
    /\ Writer(p) /\ Exists(i)
    /\ rows' = [rows EXCEPT ![i].live = ~@] /\ Writes
    /\ IF rows[i].live THEN Owes(p, "remove", i, 0) ELSE UNCHANGED todo
    /\ UNCHANGED <<snap, saved, dirty, scopeAt, index, proc>> /\ HistoryKept

ForgetRow(p, i) ==
    /\ Writer(p) /\ Exists(i)
    /\ rows' = [rows EXCEPT ![i] = NoRow] /\ Writes /\ Owes(p, "remove", i, 0)
    /\ UNCHANGED <<snap, saved, dirty, scopeAt, index, proc>> /\ HistoryKept

(* Mutant: the record of the changed ids stays. *)
KeepsDirty == snap' = NoVecs /\ saved' = FALSE /\ UNCHANGED dirty
DropSnapshot == snap' = NoVecs /\ saved' = FALSE /\ dirty' = {}

(* forget_fragment(secure=True) *)
Erase(p, i) ==
    /\ Writer(p) /\ Exists(i)
    /\ rows' = [rows EXCEPT ![i] = NoRow] /\ Writes /\ Owes(p, "remove", i, 0)
    /\ DropSnapshot /\ wrong' = {}
    /\ erased' = erased \cup {rows[i].text}
    /\ UNCHANGED <<scopeAt, index, proc>>

(* _index_add, or the listener that drops a memory from the index. *)
Catchup(p) ==
    /\ todo[p].op # "none" /\ ~SyncAt(p, "down")
    /\ index' = [index EXCEPT ![p][todo[p].id] = todo[p].vec]
    /\ todo' = [todo EXCEPT ![p] = NothingOwed]
    /\ UNCHANGED proc /\ StoreKept /\ HistoryKept

----------------------------------------------------------------------------
(* The first sync of a process (_load_missing with an empty partition). *)

(* Ids of which something this process would save is not the vector of the text: in its index,    *)
(* on the way to it, or in the row; or what it loads from the snapshot.                              *)
HasWrong(p) == wrong \cup {i \in Ids : Exists(i) /\ \E v \in {index[p][i], rows[i].vec} \cup
                              {todo[p].vec : q \in {todo[p].id} \cap {i}} : v \notin {0, rows[i].text}}

(* _allowed_ids, and _sync_index with an empty partition: in a new process, or before the     *)
(* agent had a memory.                                                                              *)
Open(p) ==
    /\ SyncAt(p, "down") \/ (SyncAt(p, "up") /\ Indexed(p) = {})
    /\ MovesTo(p, [Down EXCEPT !.pc = "scoped", !.scope = Live])
    /\ UNCHANGED <<index, todo>> /\ StoreKept /\ HistoryKept

(* restore_snapshot and load_vector_snapshot, up to the dirty ids.  A write of this process     *)
(* may already have filled the partition: then the rows it lacks are read.                         *)
ReadMeta(p) ==
    LET missing == proc[p].scope \ Indexed(p)
        cold == Indexed(p) = {} /\ Cardinality(missing) >= MinRows IN
    /\ SyncAt(p, "scoped")
    /\ MovesTo(p, [proc[p] EXCEPT !.pc = IF missing = {} THEN "up" ELSE IF cold /\ saved THEN "parts" ELSE "rows",
                               !.ver = version, !.skip = dirty, !.due = cold /\ ~saved, !.bad = HasWrong(p)])
    /\ UNCHANGED <<index, todo>> /\ StoreKept /\ HistoryKept

(* Mutant: the dirty ids are loaded as well. *)
SkipsNothing(p) == {i \in Ids : snap[i] # 0}
Loadable(p) == {i \in Ids : snap[i] # 0} \ proc[p].skip

(* The parts, read by a statement of their own; then what is not in the scope leaves. *)
LoadParts(p) ==
    LET kept == Loadable(p) \cap proc[p].scope
        part == [i \in Ids |-> IF i \in Loadable(p) THEN IF i \in kept THEN snap[i] ELSE 0 ELSE index[p][i]]
        left == {i \in proc[p].scope : part[i] = 0} IN
    /\ SyncAt(p, "parts")
    /\ index' = [index EXCEPT ![p] = part]
    /\ MovesTo(p, [proc[p] EXCEPT !.pc = "rows", !.due = Cardinality(left) >= FewRows, !.skip = {}, !.bad = @ \cup wrong])
    /\ UNCHANGED todo /\ StoreKept /\ HistoryKept

(* embedding_rows / embedding_pages and bulk_index, index_each: of a scope that is read now. *)
ReadRows(p, missing) ==
    /\ index' = [index EXCEPT ![p] = [i \in Ids |-> IF i \in missing /\ rows[i].vec # 0 THEN rows[i].vec ELSE @[i]]]
    /\ UNCHANGED todo /\ StoreKept /\ HistoryKept
ToEmbed(missing) == {i \in missing : rows[i].vec = 0}

LoadRows(p) ==
    LET missing == proc[p].scope \ Indexed(p) IN
    /\ SyncAt(p, "rows") /\ ReadRows(p, missing)
    /\ MovesTo(p, [proc[p] EXCEPT !.left = ToEmbed(missing),
            !.pc = IF ToEmbed(missing) # {} THEN "embed" ELSE IF proc[p].due THEN "export" ELSE "up"])

----------------------------------------------------------------------------
(* _embed_and_index, one id after the other; _PendingEmbeddingsMixin. *)

(* get_many and embed_batch. *)
ReadText(p, i) ==
    /\ SyncAt(p, "embed") /\ i \in proc[p].left
    /\ MovesTo(p, IF Exists(i) THEN [proc[p] EXCEPT !.left = @ \ {i}, !.pc = "embedding",
                                                    !.one = [op |-> "add", id |-> i, vec |-> rows[i].text]]
               ELSE [proc[p] EXCEPT !.left = @ \ {i}])
    /\ UNCHANGED <<index, todo>> /\ StoreKept /\ HistoryKept

(* mark_vectors_dirty, update_embedding (not a structural write) and _index_add; the row may     *)
(* hold another text by now, or be gone.                                                            *)
PutVector(p) ==
    LET i == proc[p].one.id  v == proc[p].one.vec IN
    /\ SyncAt(p, "embedding")
    /\ rows' = IF Exists(i) THEN [rows EXCEPT ![i].vec = v] ELSE rows
    /\ dirty' = MarkedDirty(i)
    /\ index' = [index EXCEPT ![p][i] = v]
    /\ proc' = [q \in Procs |->
                  LET r == [proc[q] EXCEPT !.bad = IF Exists(i) /\ v # rows[i].text THEN @ \cup {i} ELSE @] IN
                  IF q = p THEN [r EXCEPT !.pc = "embed", !.one = NothingOwed] ELSE r]
    /\ UNCHANGED <<version, snap, saved, scopeAt, todo>> /\ HistoryKept

(* All are done, or the embedder is down and the others stay pending. *)
Embedded(p) ==
    /\ SyncAt(p, "embed")
    /\ MovesTo(p, [proc[p] EXCEPT !.pc = IF proc[p].stop THEN "export" ELSE "up", !.left = {}, !.due = FALSE])
    /\ UNCHANGED <<index, todo>> /\ StoreKept /\ HistoryKept

----------------------------------------------------------------------------
(* A recall, or the save of a graceful stop: save_vector_snapshots. *)

(* snapshots_need_refresh, and the check of the scope snapshot. *)
Refreshes(p) == /\ Cardinality(Indexed(p)) >= MinRows /\ scopeAt # version
                /\ saved => Cardinality(dirty) >= FewRows

Sync(p, stop) ==
    /\ SyncAt(p, "up") /\ (stop => Refreshes(p))
    /\ MovesTo(p, [proc[p] EXCEPT !.pc = "sync", !.ver = version, !.stop = stop, !.bad = HasWrong(p)])
    /\ UNCHANGED <<index, todo>> /\ StoreKept /\ HistoryKept

(* _sync_index.  From the scope of the last sync (sync_delta) what is no longer retrievable     *)
(* leaves the partition; a scope that was scanned anew (a cache too old, too long a log) only       *)
(* adds what is missing.                                                                              *)
Synced(p, known) ==
    LET gone == IF known THEN proc[p].scope \ Live ELSE {}
        missing == Live \ (Indexed(p) \ gone) IN
    /\ SyncAt(p, "sync")
    /\ index' = [index EXCEPT ![p] = [i \in Ids |-> IF i \in gone THEN 0
                                                    ELSE IF i \in missing THEN rows[i].vec ELSE @[i]]]
    /\ MovesTo(p, [proc[p] EXCEPT !.scope = Live, !.left = ToEmbed(missing),
            !.pc = IF ToEmbed(missing) # {} THEN "embed" ELSE IF proc[p].stop THEN "export" ELSE "up"])
    /\ UNCHANGED todo /\ StoreKept /\ HistoryKept

(* save_snapshot: _export_rows, then save_vector_snapshot. *)
Export(p) ==
    /\ SyncAt(p, "export")
    /\ MovesTo(p, [proc[p] EXCEPT !.pc = "save", !.out = index[p]])
    /\ UNCHANGED <<index, todo>> /\ StoreKept /\ HistoryKept

(* Mutant: the write_version is not compared. *)
AnyVersion(p) == TRUE
Unchanged(p) == version = proc[p].ver

(* The process is gone, with its index (the end of a stop, a kill). *)
Ends(p, yes) == IF yes THEN /\ index' = [index EXCEPT ![p] = NoVecs] /\ todo' = [todo EXCEPT ![p] = NothingOwed]
                ELSE UNCHANGED <<index, todo>>

Save(p) ==
    /\ SyncAt(p, "save")
    /\ MovesTo(p, IF proc[p].stop THEN Down ELSE [proc[p] EXCEPT !.pc = "up", !.due = FALSE, !.out = NoVecs])
    /\ IF Unchanged(p)
       THEN /\ snap' = proc[p].out /\ saved' = TRUE /\ dirty' = {} /\ wrong' = proc[p].bad
            /\ scopeAt' = IF {i \in Ids : proc[p].out[i] # 0} = Live THEN version ELSE scopeAt
       ELSE UNCHANGED <<snap, saved, dirty, wrong, scopeAt>>
    /\ Ends(p, proc[p].stop)
    /\ UNCHANGED <<rows, version, erased>>

Stop(p) ==
    /\ ~SyncAt(p, "down")
    /\ MovesTo(p, Down) /\ Ends(p, TRUE)
    /\ StoreKept /\ HistoryKept

SnapshotNext == \E p \in Procs :
    \/ (\E i \in Ids : Put(p, i) \/ SetState(p, i) \/ ForgetRow(p, i) \/ Erase(p, i) \/ ReadText(p, i))
    \/ Catchup(p) \/ Open(p) \/ ReadMeta(p) \/ LoadParts(p) \/ LoadRows(p) \/ PutVector(p) \/ Embedded(p)
    \/ (\E yes \in BOOLEAN : Sync(p, yes) \/ Synced(p, yes))
    \/ Export(p) \/ Save(p) \/ Stop(p)

SnapshotSpec == SnapshotInit /\ [][SnapshotNext]_snapshotVars

----------------------------------------------------------------------------
(* Properties. *)

Served == {i \in Ids : snap[i] # 0 /\ i \notin dirty /\ Exists(i)}

(* The snapshot serves another vector than that of the text only of a memory that the saving   *)
(* process had wrong before it read the version it saved for (an update by another process does    *)
(* not reach an index), or whose row was given the vector of an older text: the dirty ids and the     *)
(* version check cover everything written since.                                                        *)
StaleOnlyIfKnownWrong == \A i \in Served : snap[i] = rows[i].text \/ i \in wrong

(* After a sync, and as long as nobody writes, a recall finds a memory by the vector of its      *)
(* text: the parts that were loaded leave out what was stored anew since the snapshot, a row is      *)
(* read for each of these, and an own write reaches the index before the next sync or is known to       *)
(* be on its way.                                                                                        *)
IndexedIsRight ==
    \A p \in Procs : SyncAt(p, "up") /\ proc[p].ver = version =>
        \A i \in Indexed(p) \cap Live : index[p][i] = rows[i].text \/ i \in proc[p].bad

(* SECURITY.md: "secure=True drops the agent's snapshot, so no vector of the forgotten text      *)
(* remains".                                                                                          *)
ErasedIsGone == \A i \in Ids : snap[i] \notin erased

================================================================================
