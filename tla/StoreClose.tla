------------------------------- MODULE StoreClose -------------------------------
(* Closing a store while its threads read and write: the statement gate (gate.py) *)
(* and the connections, the re-entrant lock and the close hooks (connection.py).  *)
(*                                                                                 *)
(* A thread nests statements: a write helper calls read helpers.  frames[t] is the *)
(* number of _reading / _writing blocks it is in, outermost first; the step of a   *)
(* thread is always one of its innermost block.  The gate's _active counter moves   *)
(* with _local.depth in enter() and leave(), so it is the sum of depth over the      *)
(* threads; _busy[c] is the sum of bound over the threads using connection c.        *)
EXTENDS Naturals, FiniteSets

CONSTANTS
    Threads,
    Conns,          \* connections that sqlite3.connect may return
    Hooks,          \* close hooks components may register
    Closers,        \* threads that call close()
    InsideClosers,  \* those that may call it from inside a statement of their own
    MaxDepth,       \* bound: statement blocks one thread nests
    NoThread, NoConn

ASSUME ThreadAssumption == NoThread \notin Threads
ASSUME ConnAssumption   == NoConn \notin Conns
ASSUME CloseAssumption  == /\ Closers \subseteq Threads
                           /\ InsideClosers \subseteq Closers
                           /\ MaxDepth \in Nat \ {0}

VARIABLES
    memory,    \* is the store ":memory:" (one connection for all threads)?
    slow,      \* may statements outlast the bounded waits of begin_close()?
    closing,   \* gate._closing
    orphans,   \* gate._orphans
    depth,     \* gate._local.depth
    bound,     \* statements of each thread counted in gate._busy
    closed,    \* store._closed
    shared,    \* store._shared_conn
    conns,     \* store._conns
    handle,    \* store._local.conn
    life,      \* the connections themselves: "new", "open", "closed"
    lock,      \* thread holding store._lock
    lockAt,    \* the block of that thread that took it first (0: not held)
    hook,      \* life of each close hook
    frames,    \* statement blocks a thread is in
    reading,   \* is the block being entered a _reading of the shared connection?
    using,     \* connection the thread's statements run on
    victim,    \* connection the thread is about to close
    targets,   \* connections close() has still to look at
    mine,      \* hooks close() took from the list and has still to run
    pc

gate == <<closing, orphans, depth, bound>>
kind == <<memory, slow>>
store == <<kind, closed, shared, conns, handle>>
locks == <<lock, lockAt>>
stack == <<frames, reading>>
closer == <<targets, mine>>
vars == <<gate, store, life, locks, hook, stack, using, victim, closer, pc>>

ThreadPc == {"idle", "lock", "enter", "conn", "open", "append", "bind", "run",
             "failed", "orphan", "unwind", "hooks", "wait", "shutting", "check", "shut"}
HookLife == {"new", "checked", "listed", "taken", "gone"}

TypeOK ==
    /\ memory \in BOOLEAN /\ slow \in BOOLEAN
    /\ closing \in BOOLEAN /\ closed \in BOOLEAN
    /\ orphans \in SUBSET Conns /\ conns \in SUBSET Conns
    /\ depth \in [Threads -> Nat] /\ bound \in [Threads -> Nat]
    /\ shared \in Conns \cup {NoConn}
    /\ handle \in [Threads -> Conns \cup {NoConn}]
    /\ life \in [Conns -> {"new", "open", "closed"}]
    /\ lock \in Threads \cup {NoThread}
    /\ lockAt \in [Threads -> Nat]
    /\ hook \in [Hooks -> HookLife]
    /\ frames \in [Threads -> Nat]
    /\ reading \in [Threads -> BOOLEAN]
    /\ using \in [Threads -> Conns \cup {NoConn}]
    /\ victim \in [Threads -> Conns \cup {NoConn}]
    /\ targets \in [Threads -> SUBSET Conns]
    /\ mine \in [Threads -> SUBSET Hooks]
    /\ pc \in [Threads -> ThreadPc]

(* LocalMemoryStore.__init__: only ":memory:" opens its connection here. *)
Init ==
    /\ memory \in BOOLEAN /\ slow \in BOOLEAN
    /\ closing = FALSE /\ closed = FALSE
    /\ orphans = {} /\ conns = {}
    /\ depth = [t \in Threads |-> 0] /\ bound = [t \in Threads |-> 0]
    /\ shared \in IF memory THEN Conns ELSE {NoConn}
    /\ handle = [t \in Threads |-> NoConn]
    /\ life = [c \in Conns |-> IF c = shared THEN "open" ELSE "new"]
    /\ lock = NoThread /\ lockAt = [t \in Threads |-> 0]
    /\ hook = [h \in Hooks |-> "new"]
    /\ frames = [t \in Threads |-> 0]
    /\ reading = [t \in Threads |-> FALSE]
    /\ using = [t \in Threads |-> NoConn]
    /\ victim = [t \in Threads |-> NoConn]
    /\ targets = [t \in Threads |-> {}]
    /\ mine = [t \in Threads |-> {}]
    /\ pc = [t \in Threads |-> "idle"]

----------------------------------------------------------------------------
At(t, at) == pc[t] = at
Goto(t, at) == pc' = [pc EXCEPT ![t] = at]
Resume(t, n) == Goto(t, IF n = 0 THEN "idle" ELSE "run")

(* The re-entrant lock, taken by block k of thread t and freed when the block that *)
(* took it first is left.                                                           *)
LockFree(t) == lock \in {NoThread, t}
Acquire(t, k) == /\ LockFree(t)
                 /\ lock' = t
                 /\ lockAt' = [lockAt EXCEPT ![t] = IF @ = 0 THEN k ELSE @]
Release(t, k) == IF lockAt[t] = k
                 THEN lock' = NoThread /\ lockAt' = [lockAt EXCEPT ![t] = 0]
                 ELSE UNCHANGED locks

(* id(conn) in gate._busy *)
Busy(c) == \E t \in Threads : bound[t] > 0 /\ using[t] = c

----------------------------------------------------------------------------
(* One statement: _reading / _writing around _statement. *)

MayBegin(t) == At(t, "idle") \/ (At(t, "run") /\ frames[t] < MaxDepth)

ReadsFrom == IF shared # NoConn THEN "lock" ELSE "enter"

BeginRead(t) ==
    /\ MayBegin(t)
    /\ frames' = [frames EXCEPT ![t] = @ + 1]
    /\ reading' = [reading EXCEPT ![t] = shared # NoConn]
    /\ Goto(t, ReadsFrom)
    /\ UNCHANGED <<gate, store, life, locks, hook, using, victim, closer>>

BeginWrite(t) ==
    /\ MayBegin(t)
    /\ frames' = [frames EXCEPT ![t] = @ + 1]
    /\ reading' = [reading EXCEPT ![t] = FALSE]
    /\ Goto(t, "lock")
    /\ UNCHANGED <<gate, store, life, locks, hook, using, victim, closer>>

(* A reader of the shared connection looks again once it has the lock. *)
TakeLock(t) ==
    /\ At(t, "lock") /\ Acquire(t, frames[t])
    /\ Goto(t, IF reading[t] /\ shared = NoConn THEN "unwind" ELSE "enter")
    /\ reading' = [reading EXCEPT ![t] = FALSE]
    /\ UNCHANGED <<gate, store, life, hook, frames, using, victim, closer>>

(* Mutant: only a store already closed refuses. *)
RefusesClosedOnly(t) == closed /\ depth[t] = 0
(* Inside a statement of its own a thread is admitted while closing. *)
Refuses(t) == closing /\ depth[t] = 0

Enter(t) ==
    /\ At(t, "enter")
    /\ IF Refuses(t)
       THEN Goto(t, "unwind") /\ UNCHANGED depth
       ELSE Goto(t, "conn") /\ depth' = [depth EXCEPT ![t] = @ + 1]
    /\ UNCHANGED <<closing, orphans, bound, store, life, locks, hook, stack, using, victim,
                   closer>>

(* _conn(): the shared connection, the thread's own, or a new one. *)
GetConn(t) ==
    LET found == IF shared # NoConn THEN shared ELSE handle[t]
        refused == shared = NoConn /\ (closed \/ memory) IN
    /\ At(t, "conn")
    /\ Goto(t, IF refused THEN "failed" ELSE IF found = NoConn THEN "open" ELSE "bind")
    /\ using' = IF refused THEN using ELSE [using EXCEPT ![t] = found]
    /\ UNCHANGED <<gate, store, life, locks, hook, stack, victim, closer>>

OpenConn(t) ==
    /\ At(t, "open")
    /\ \E c \in Conns : /\ life[c] = "new"
                        /\ life' = [life EXCEPT ![c] = "open"]
                        /\ using' = [using EXCEPT ![t] = c]
    /\ Goto(t, "append")
    /\ UNCHANGED <<gate, store, locks, hook, stack, victim, closer>>

(* sqlite3.connect or a pragma raises. *)
OpenFails(t) ==
    /\ At(t, "open")
    /\ Goto(t, "failed")
    /\ UNCHANGED <<gate, store, life, locks, hook, stack, using, victim, closer>>

(* Mutant: the store is not looked at again after the connection was opened. *)
NotLookedAtAgain == FALSE
ClosedWhileOpening == closed

AppendConn(t) ==
    /\ At(t, "append") /\ LockFree(t)
    /\ IF ClosedWhileOpening
       THEN /\ life' = [life EXCEPT ![using[t]] = "closed"]
            /\ Goto(t, "failed")
            /\ UNCHANGED <<conns, handle>>
       ELSE /\ conns' = conns \cup {using[t]}
            /\ handle' = [handle EXCEPT ![t] = using[t]]
            /\ Goto(t, "bind")
            /\ UNCHANGED life
    /\ UNCHANGED <<gate, kind, closed, shared, locks, hook, stack, using, victim, closer>>

Bind(t) ==
    /\ At(t, "bind")
    /\ bound' = [bound EXCEPT ![t] = @ + 1]
    /\ Goto(t, "run")
    /\ UNCHANGED <<closing, orphans, depth, store, life, locks, hook, stack, using, victim,
                   closer>>

LastUse(t) == /\ bound[t] = 1
              /\ \A u \in Threads \ {t} : bound[u] = 0 \/ using[u] # using[t]

LeftToUs(t) == LastUse(t) /\ using[t] \in orphans

(* The block's body is over: rows fetched, committed or rolled back. *)
Leave(t) ==
    /\ At(t, "run")
    /\ depth' = [depth EXCEPT ![t] = @ - 1]
    /\ bound' = [bound EXCEPT ![t] = @ - 1]
    /\ IF LeftToUs(t)
       THEN /\ orphans' = orphans \ {using[t]}
            /\ victim' = [victim EXCEPT ![t] = using[t]]
            /\ Goto(t, "orphan")
       ELSE /\ Goto(t, "unwind")
            /\ UNCHANGED <<orphans, victim>>
    /\ UNCHANGED <<closing, store, life, locks, hook, stack, using, closer>>

(* Mutants: leave(None) is skipped; leave(None) also ends a bound statement. *)
StillEntered(t) == depth
EndsBoth(t) == [depth EXCEPT ![t] = @ - 2]
EndsUnbound(t) == [depth EXCEPT ![t] = @ - 1]

(* leave(None): no connection could be had. *)
LeaveUnbound(t) ==
    /\ At(t, "failed")
    /\ depth' = EndsUnbound(t)
    /\ Goto(t, "unwind")
    /\ UNCHANGED <<closing, orphans, bound, store, life, locks, hook, stack, using, victim,
                   closer>>

CloseOrphan(t) ==
    /\ At(t, "orphan")
    /\ life' = [life EXCEPT ![victim[t]] = "closed"]
    /\ victim' = [victim EXCEPT ![t] = NoConn]
    /\ Goto(t, "unwind")
    /\ UNCHANGED <<gate, store, locks, hook, stack, using, closer>>

(* The block is left: its lock is released, an outer block goes on. *)
Unwind(t) ==
    /\ At(t, "unwind")
    /\ Release(t, frames[t])
    /\ frames' = [frames EXCEPT ![t] = @ - 1]
    /\ Resume(t, frames[t] - 1)
    /\ UNCHANGED <<gate, store, life, hook, reading, using, victim, closer>>

----------------------------------------------------------------------------
(* close(). *)

(* _run_close_hooks empties the list under the lock ... *)
TakeHooks(t) ==
    LET listed == {h \in Hooks : hook[h] = "listed"} IN
    /\ t \in Closers
    /\ At(t, "idle") \/ (At(t, "run") /\ t \in InsideClosers)
    /\ LockFree(t)
    /\ hook' = [h \in Hooks |-> IF h \in listed THEN "taken" ELSE hook[h]]
    /\ mine' = [mine EXCEPT ![t] = listed]
    /\ Goto(t, "hooks")
    /\ UNCHANGED <<gate, store, life, locks, stack, using, victim, targets>>

(* ... and calls them one after the other without it. *)
RunHook(t) ==
    /\ At(t, "hooks")
    /\ \E h \in mine[t] : /\ hook' = [hook EXCEPT ![h] = "gone"]
                          /\ mine' = [mine EXCEPT ![t] = @ \ {h}]
    /\ UNCHANGED <<gate, store, life, locks, stack, using, victim, targets, pc>>

HooksDone(t) == mine[t] = {}

BeginClose(t) ==
    /\ At(t, "hooks") /\ HooksDone(t)
    /\ closing' = TRUE
    /\ Goto(t, "wait")
    /\ UNCHANGED <<orphans, depth, bound, store, life, locks, hook, stack, using, victim,
                   closer>>

OthersLeft(t) == \A u \in Threads \ {t} : depth[u] = 0
(* close() inside a write of its own: the statements waited for wait for its lock. *)
Stuck(t) == /\ lock = t
            /\ \A u \in Threads \ {t} : depth[u] = 0 \/ pc[u] \in {"append", "lock"}

(* self._active <= own, or the timeout, the interrupts and the last second. *)
EndWait(t) ==
    /\ At(t, "wait")
    /\ OthersLeft(t) \/ Stuck(t) \/ slow
    /\ Goto(t, "shutting")
    /\ UNCHANGED <<gate, store, life, locks, hook, stack, using, victim, closer>>

MarkClosed(t) ==
    /\ At(t, "shutting") /\ Acquire(t, frames[t] + 1)
    /\ closed' = TRUE
    /\ targets' = [targets EXCEPT ![t] = conns \cup ({shared} \ {NoConn})]
    /\ Goto(t, "check")
    /\ UNCHANGED <<gate, kind, shared, conns, handle, life, hook, stack, using, victim, mine>>

(* close_or_orphan: a busy connection is left to its statement ... *)
CheckConn(t) ==
    /\ At(t, "check")
    /\ \E c \in targets[t] :
         /\ targets' = [targets EXCEPT ![t] = @ \ {c}]
         /\ IF Busy(c)
            THEN orphans' = orphans \cup {c} /\ UNCHANGED <<victim, pc>>
            ELSE victim' = [victim EXCEPT ![t] = c] /\ Goto(t, "shut") /\ UNCHANGED orphans
    /\ UNCHANGED <<closing, depth, bound, store, life, locks, hook, stack, using, mine>>

(* ... any other is closed, after the gate's own lock was released. *)
CloseConn(t) ==
    /\ At(t, "shut")
    /\ life' = [life EXCEPT ![victim[t]] = "closed"]
    /\ victim' = [victim EXCEPT ![t] = NoConn]
    /\ Goto(t, "check")
    /\ UNCHANGED <<gate, store, locks, hook, stack, using, closer>>

EndClose(t) ==
    /\ At(t, "check") /\ targets[t] = {}
    /\ conns' = {}
    /\ shared' = NoConn
    /\ handle' = [handle EXCEPT ![t] = NoConn]
    /\ Release(t, frames[t] + 1)
    /\ Resume(t, frames[t])
    /\ UNCHANGED <<gate, kind, closed, life, hook, stack, using, victim, closer>>

----------------------------------------------------------------------------
(* add_close_hook: _closed is read without the lock, the list written with it. *)

CheckHook(h) ==
    /\ hook[h] = "new"
    /\ hook' = [hook EXCEPT ![h] = IF closed THEN "gone" ELSE "checked"]
    /\ UNCHANGED <<gate, store, life, locks, stack, using, victim, closer, pc>>

ListHook(h) ==
    /\ hook[h] = "checked" /\ lock = NoThread
    /\ hook' = [hook EXCEPT ![h] = "listed"]
    /\ UNCHANGED <<gate, store, life, locks, stack, using, victim, closer, pc>>

Unregister(h) ==
    /\ hook[h] = "listed" /\ lock = NoThread
    /\ hook' = [hook EXCEPT ![h] = "gone"]
    /\ UNCHANGED <<gate, store, life, locks, stack, using, victim, closer, pc>>

----------------------------------------------------------------------------
StatementStep(t) ==
    \/ TakeLock(t) \/ Enter(t) \/ GetConn(t) \/ OpenConn(t) \/ AppendConn(t) \/ Bind(t)
    \/ Leave(t) \/ LeaveUnbound(t) \/ CloseOrphan(t) \/ Unwind(t)

CloseStep(t) ==
    \/ RunHook(t) \/ BeginClose(t) \/ EndWait(t) \/ MarkClosed(t) \/ CheckConn(t)
    \/ CloseConn(t) \/ EndClose(t)

Next ==
    \/ \E t \in Threads : \/ StatementStep(t) \/ CloseStep(t)
                          \/ BeginRead(t) \/ BeginWrite(t) \/ OpenFails(t) \/ TakeHooks(t)
    \/ \E h \in Hooks : CheckHook(h) \/ ListHook(h) \/ Unregister(h)

Spec == Init /\ [][Next]_vars

(* Threads run, an outermost block ends after finitely many inner ones and the lock *)
(* is granted to a thread that asks for it again and again; nobody has to begin a    *)
(* statement or to call close().                                                     *)
Fairness == \A t \in Threads : /\ SF_vars(StatementStep(t))
                               /\ SF_vars(frames[t] = 1 /\ Leave(t))
                               /\ SF_vars(CloseStep(t))

FairSpec == Spec /\ Fairness

----------------------------------------------------------------------------
(* Properties. *)

Shut == closed /\ \A t \in Threads : pc[t] \notin {"check", "shut"}

(* No connection is closed under a statement that runs on it, the crash the gate was   *)
(* written for ("so no connection is ever closed mid-statement", gate.py:14), while the  *)
(* bounded waits of begin_close() are long enough.                                        *)
NeverClosedInUse ==
    slow \/ \A t \in Threads : bound[t] > 0 => life[using[t]] = "open"

(* Once close() went through the connections no file descriptor is left: what is     *)
(* still open belongs to a statement that runs or to one that will close it          *)
(* (connection.py: "used to leak file descriptors").                                  *)
LeaksNothing ==
    Shut => \A c \in Conns :
        life[c] = "open" => \E t \in Threads : pc[t] # "idle" /\ c \in {using[t], victim[t]}

(* Liveness: close() returns, whoever reads, writes and closes meanwhile ("waits up to  *)
(* 5 s for running ones", ARCHITECTURE.md:189).                                         *)
CloseReturns ==
    \A t \in Closers : (pc[t] = "hooks") ~> (pc[t] \in {"idle", "run"})
================================================================================
