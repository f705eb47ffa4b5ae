------------------------------- MODULE ScopeCache -------------------------------
(* The cached retrievable-id set of one agent and filter: scope_delta.py, the       *)
(* write_version and write_log of connection.py, scope_snapshot.py.                 *)
(*                                                                                   *)
(* A call of retrievable_id_set is a sequence of SQL statements with no transaction  *)
(* around them: between any two of them other threads and other processes write,     *)
(* time passes and the cached entry is replaced.  Each process has a cache; the rows, *)
(* the log and the scope snapshot are in the database.                                *)
EXTENDS Naturals, FiniteSets

CONSTANTS
    Ids,        \* fragments of the agent
    Procs,      \* processes that have the store open
    Callers,    \* threads that call retrievable_id_set
    ProcOf,     \* the process of a caller
    NoEntry,
    LogKeep,    \* _LOG_KEEP
    PruneEvery, \* _PRUNE_EVERY
    MaxDelta,   \* MAX_DELTA_IDS; a snapshot may catch up with any number of ids
    MaxWrites,  \* bound: structural writes
    LastTime    \* bound: the clock is in 0..LastTime

ASSUME ProcAssumption  == ProcOf \in [Callers -> Procs]
ASSUME LimitAssumption == /\ LogKeep \in Nat /\ PruneEvery \in Nat \ {0}
                          /\ MaxDelta \in Nat /\ MaxWrites \in Nat /\ LastTime \in Nat

VARIABLES
    rows,    \* the fragment rows: does the filter match, and when does the TTL end?
    now,     \* the clock
    version, \* write_version
    log,     \* write_log: the ids of a version; NULL and missing rows are not in it
    snap,    \* the scope snapshot
    cache,   \* _ids_cache[key] of each process
    calls,   \* calls[c]: the local state of the call of c
    seen     \* seen[c]: how the rows stood at the moments of the call of c

vars == <<rows, now, version, log, snap, cache, calls, seen>>

Never == LastTime + 1
Times == 0..LastTime
Versions == 0..MaxWrites
Row == [match : BOOLEAN, end : Times \cup {Never}]
Entry == [ids : SUBSET Ids, version : Versions, expiry : 0..Never]
Steps == {"idle", "look", "log", "rows", "expire", "next", "snapshot", "scan", "save", "put"}

(* first: no entry was cached; touched: ids to read again; asked: the version read   *)
(* first; began: the clock at the start.                                              *)
Call == [pc : Steps, entry : Entry, asked : Versions, began : Times,
         touched : SUBSET Ids, first : BOOLEAN]

TypeOK ==
    /\ rows \in [Ids -> Row]
    /\ now \in Times
    /\ version \in Versions
    /\ DOMAIN log \subseteq 1..version /\ \A v \in DOMAIN log : log[v] \subseteq Ids
    /\ snap \in Entry \cup {NoEntry}
    /\ cache \in [Procs -> Entry \cup {NoEntry}]
    /\ calls \in [Callers -> Call]
    /\ seen \in [Callers -> SUBSET (Ids \X {"in", "out", "expired"})]

Blank == [ids |-> {}, version |-> 0, expiry |-> Never]
Resting == [pc |-> "idle", entry |-> Blank, asked |-> 0, began |-> 0, touched |-> {},
            first |-> FALSE]

Init ==
    /\ rows \in [Ids -> {[match |-> FALSE, end |-> Never], [match |-> TRUE, end |-> Never]}]
    /\ now = 0
    /\ version = 0
    /\ log = [v \in {} |-> {}]
    /\ snap = NoEntry
    /\ cache = [p \in Procs |-> NoEntry]
    /\ calls = [c \in Callers |-> Resting]
    /\ seen = [c \in Callers |-> {}]

Expired(i) == now > rows[i].end
Retrievable(i) == rows[i].match /\ ~Expired(i)
Status == {<<i, IF Retrievable(i) THEN "in" ELSE IF rows[i].match THEN "expired" ELSE "out">> :
           i \in Ids}
Witnessed == seen' = [c \in Callers |->
                IF calls[c].pc \in {"idle", "put"} THEN seen[c] ELSE seen[c] \cup Status']

----------------------------------------------------------------------------
(* Other statements on the store. *)

(* _log_structural_write: the noted ids, NULL or (older code) nothing; old rows go.  *)
Logged(noted, known) ==
    LET v == version + 1
        keep == IF v % PruneEvery = 0 THEN {u \in DOMAIN log : u + LogKeep > v} ELSE DOMAIN log
    IN [u \in keep \cup (IF known THEN {v} ELSE {}) |-> IF u = v THEN noted ELSE log[u]]

(* A structural write changes only rows whose ids it notes, if it notes any.          *)
Write(noted, known) ==
    /\ version < MaxWrites
    /\ rows' \in [Ids -> Row]
    /\ \A i \in Ids : \/ rows'[i] = rows[i]
                      \/ i \in noted /\ rows'[i].end \in {now, Never}   \* bound: short TTLs
    /\ version' = version + 1
    /\ log' = Logged(noted, known)
    /\ UNCHANGED <<now, snap, cache, calls>>
    /\ Witnessed

Tick ==
    /\ now < LastTime
    /\ now' = now + 1
    /\ UNCHANGED <<rows, version, log, snap, cache, calls>>
    /\ Witnessed

(* The entry leaves the FIFO cache, or the process starts again. *)
Evict(p) ==
    /\ cache[p] # NoEntry
    /\ cache' = [cache EXCEPT ![p] = NoEntry]
    /\ UNCHANGED <<rows, now, version, log, snap, calls, seen>>

(* save_vector_snapshot of the scope at the current version (_record_scope_if_exact). *)
RecordScope(p) ==
    /\ cache[p] # NoEntry
    /\ cache[p].version = version
    /\ snap' = [cache[p] EXCEPT !.expiry = Never]
    /\ UNCHANGED <<rows, now, version, log, cache, calls, seen>>

----------------------------------------------------------------------------
(* retrievable_id_set. *)

Set(c, f) == /\ calls' = [calls EXCEPT ![c] = f]
             /\ UNCHANGED <<rows, now, version, log>>
Local(c, f) == Set(c, f) /\ UNCHANGED <<snap, cache, seen>>

(* The version is read before anything else.                                          *)
Ask(c) ==
    /\ calls[c].pc = "idle"
    /\ Set(c, [Resting EXCEPT !.pc = "look", !.asked = version])
    /\ seen' = [seen EXCEPT ![c] = Status]
    /\ UNCHANGED <<snap, cache>>

(* The cached entry, or no entry (first use), or one whose refresh is due.            *)
Hit(c) ==
    LET e == cache[ProcOf[c]] IN
    /\ calls[c].pc = "look" /\ e # NoEntry
    /\ Local(c, [calls[c] EXCEPT !.entry = e, !.began = now,
                   !.pc = IF e.version # calls[c].asked THEN "log"
                          ELSE IF now >= e.expiry THEN "expire" ELSE "put"])
Miss(c) ==
    /\ calls[c].pc = "look" /\ cache[ProcOf[c]] = NoEntry
    /\ Local(c, [calls[c] EXCEPT !.began = now, !.first = TRUE, !.pc = "snapshot"])
RefreshDue(c) ==
    /\ calls[c].pc = "look" /\ cache[ProcOf[c]] # NoEntry
    /\ Local(c, [calls[c] EXCEPT !.began = now, !.pc = "scan"])

Touched(old, new) == UNION {log[v] : v \in (old + 1)..new \cap DOMAIN log}
(* Mutant: a missing row of the log is taken for a write that changed nothing.         *)
AnyLog(old, new) == old <= new /\ new <= old + LogKeep
Known(old, new) == /\ old <= new /\ new <= old + LogKeep
                   /\ (old + 1)..new \subseteq DOMAIN log

(* _changed_since; when the change set is unknown or too large: first use, else a scan. *)
ReadLog(c) ==
    LET k == calls[c]
        old == k.entry.version
        few == k.first \/ Cardinality(Touched(old, k.asked)) <= MaxDelta
        lost == ~k.first /\ cache[ProcOf[c]] = NoEntry
    IN
    /\ k.pc = "log"
    /\ Local(c, IF Known(old, k.asked) /\ few
                THEN [k EXCEPT !.touched = Touched(old, k.asked), !.pc = "rows"]
                ELSE [k EXCEPT !.entry = Blank, !.first = k.first \/ lost,
                               !.pc = IF lost THEN "snapshot" ELSE "scan"])

(* Rows that will expire, and when the soonest does, counted from the start of the call. *)
(* Mutant: rows that have expired are counted too.                                        *)
AnyTtl(S) == {i \in S : rows[i].end # Never}
Ttl(S) == {i \in S : rows[i].end # Never /\ ~Expired(i)}
Soonest(c, S) ==
    IF Ttl(S) = {} THEN Never
    ELSE LET e == CHOOSE t \in {rows[i].end : i \in Ttl(S)} :
                      \A i \in Ttl(S) : t <= rows[i].end
         IN calls[c].began + e - now

Label(c) == calls[c].asked
(* Mutant: the expiry of the cached entry is kept. *)
OldExpiry(a, b) == a
Sooner(a, b) == IF a < b THEN a ELSE b

(* _apply_log: the touched rows are read again. *)
ReadRows(c) ==
    LET k == calls[c]
        present == {i \in k.touched : Retrievable(i)}
        expiry == Sooner(k.entry.expiry, Soonest(c, present))
    IN
    /\ k.pc = "rows"
    /\ Local(c, [k EXCEPT !.entry = [ids |-> (k.entry.ids \ k.touched) \cup present,
                                     version |-> Label(c), expiry |-> expiry],
                          !.touched = {},
                          !.pc = IF k.first \/ k.began >= expiry THEN "expire" ELSE "put"])

(* _expire: what has expired leaves; then _next_expiry, a statement of its own. *)
DropExpired(c) ==
    /\ calls[c].pc = "expire"
    /\ Local(c, [calls[c] EXCEPT !.entry.ids = {i \in @ : ~Expired(i)}, !.pc = "next",
                                 !.touched = {}])
NextExpiry(c) ==
    LET k == calls[c] IN
    /\ k.pc = "next"
    /\ \/ Local(c, [k EXCEPT !.entry.expiry = Soonest(c, Ids), !.pc = "put"])
       \/ k.first /\ Local(c, [k EXCEPT !.entry.expiry = Soonest(c, Ids), !.pc = "save"])

(* _snapshot_scope: a snapshot of a later version, or an unusable one, means a scan. *)
LoadSnapshot(c) ==
    LET k == calls[c] IN
    /\ k.pc = "snapshot" /\ snap # NoEntry /\ snap.version <= k.asked
    /\ Local(c, [k EXCEPT !.entry = snap,
                          !.pc = IF snap.version # k.asked THEN "log" ELSE "expire"])
NoSnapshot(c) ==
    /\ calls[c].pc = "snapshot"
    /\ Local(c, [calls[c] EXCEPT !.pc = "scan"])

(* _full_scope. *)
Scan(c) ==
    LET k == calls[c] IN
    /\ k.pc = "scan"
    /\ Local(c, [k EXCEPT !.entry = [ids |-> {i \in Ids : Retrievable(i)}, version |-> Label(c),
                                     expiry |-> Never],
                          !.pc = "next"])

(* _save_scanned_scope, after the first scan of a large agent. *)
SaveScope(c) ==
    /\ calls[c].pc = "save"
    /\ snap' = [calls[c].entry EXCEPT !.expiry = Never]
    /\ Set(c, [calls[c] EXCEPT !.pc = "put"])
    /\ UNCHANGED <<cache, seen>>

(* The entry is cached and its ids are returned. *)
Put(c) ==
    /\ calls[c].pc = "put"
    /\ cache' = [cache EXCEPT ![ProcOf[c]] = calls[c].entry]
    /\ Set(c, Resting)
    /\ seen' = [seen EXCEPT ![c] = {}]
    /\ UNCHANGED snap

Next ==
    \/ \E noted \in SUBSET Ids, known \in BOOLEAN : Write(noted, known)
    \/ Tick
    \/ \E p \in Procs : Evict(p) \/ RecordScope(p)
    \/ \E c \in Callers :
          \/ Ask(c) \/ Hit(c) \/ Miss(c) \/ RefreshDue(c)
          \/ ReadLog(c) \/ ReadRows(c) \/ DropExpired(c) \/ NextExpiry(c)
          \/ LoadSnapshot(c) \/ NoSnapshot(c) \/ Scan(c) \/ SaveScope(c) \/ Put(c)

Spec == Init /\ [][Next]_vars

----------------------------------------------------------------------------
(* Properties. *)

(* A call answers, id by id, as the rows stood at some moment of the call, whatever     *)
(* was written, cached, evicted or saved meanwhile (a memory that has expired aside).     *)
AnswersAreCurrent ==
    \A c \in Callers : calls[c].pc = "put" =>
        \A i \in Ids : \/ <<i, "expired">> \in seen[c]
                        \/ <<i, IF i \in calls[c].entry.ids THEN "in" ELSE "out">> \in seen[c]

(* A cached entry is looked at again before the soonest of its members expires, as long *)
(* as the log tells what it holds.                                                          *)
ExpiryInTime ==
    \A p \in Procs : cache[p] # NoEntry /\ (cache[p].version + 1)..version \subseteq DOMAIN log =>
        \A i \in cache[p].ids \ Touched(cache[p].version, version) :
            Expired(i) \/ rows[i].end = Never \/ cache[p].expiry <= rows[i].end

================================================================================
