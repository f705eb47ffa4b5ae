------------------------------- MODULE StoreProofs -------------------------------
(* Three parts of the store.  For any number of threads, connections, hooks and closers: while   *)
(* the bounded waits of close() are long enough no connection is closed under a statement that      *)
(* runs on it.  For any number of callers, blocks, fragments and nodes: what was sealed undisturbed    *)
(* verifies, maintenance spares it, and the chain of seals holds.  For any number of processes and       *)
(* memories: a snapshot and an index hold the vectors of the texts, but for what the process that           *)
(* filled them had wrong and knew of.                                                                          *)
EXTENDS StoreClose, MemoryBlocks, VectorSnapshot, FiniteSetTheorems, WellFoundedInduction, TLAPS

----------------------------------------------------------------------------
(* Closing. *)

(* Where the innermost block of a thread has not been entered, or was left; where it was     *)
(* entered and has no connection counted; and where every block has one.                       *)
Outside == {"lock", "enter", "orphan", "unwind"}
Entered == {"conn", "open", "append", "bind", "failed"}
Even == ThreadPc \ (Outside \cup Entered)
Shutting == {"check", "shut"}

Framed == \A t \in Threads :
    /\ pc[t] \in Outside => frames[t] > 0 /\ depth[t] = frames[t] - 1 /\ bound[t] = frames[t] - 1
    /\ pc[t] \in Entered => frames[t] > 0 /\ depth[t] = frames[t] /\ bound[t] = frames[t] - 1
    /\ pc[t] \in Even => depth[t] = frames[t] /\ bound[t] = frames[t]
    /\ pc[t] = "run" => frames[t] > 0
    /\ pc[t] = "idle" => frames[t] = 0

LockHeld == \A t \in Threads : lockAt[t] > 0 => lock = t

(* What _conn() answers, unless it refuses.                                                    *)
Found(t) == IF shared # NoConn THEN shared ELSE handle[t]

(* A connection that was opened is in sight of its thread only, until it is appended.           *)
Made(c) == c # NoConn => life[c] # "new"
Known == Made(shared) /\ \A t \in Threads : Made(using[t]) /\ Made(handle[t])
Fresh == \A t \in Threads :
    /\ pc[t] \in {"open", "append"} => ~memory /\ bound[t] = 0
    /\ pc[t] = "append" =>
          /\ using[t] \in Conns /\ (~closed => life[using[t]] = "open")
          /\ \A u \in Threads : handle[u] # using[t] /\ (u # t => using[u] # using[t])

(* As long as statements are served those of one thread run on one connection, and it is open  *)
(* before the store is closed.                                                                   *)
OneConnection == \A t \in Threads :
    /\ (~closed \/ shared # NoConn) /\ (bound[t] > 0 \/ pc[t] = "bind") => using[t] = Found(t) /\ using[t] # NoConn
    /\ ~closed /\ Found(t) # NoConn => life[Found(t)] = "open"

(* What only happens once the store is marked closed, and what is so when it is shut.            *)
ClosedFirst ==
    /\ ~memory => shared = NoConn
    /\ orphans # {} => closed
    /\ \A t \in Threads : pc[t] \in Shutting \cup {"orphan"} => closed
    /\ closed /\ shared # NoConn => \E t \in Threads : pc[t] \in Shutting

(* Every open connection is one the store knows, or somebody is about to list or to close it,   *)
(* or a statement runs on it that will.                                                            *)
InUse(c) == \E t \in Threads : bound[t] > 0 /\ using[t] = c
InHand(c, t) == \/ pc[t] = "append" /\ using[t] = c
                \/ pc[t] \in {"shut", "orphan"} /\ victim[t] = c
                \/ pc[t] \in Shutting /\ c \in targets[t]
Accounted == \A c \in Conns : life[c] = "open" =>
    \/ ~closed /\ (c = shared \/ c \in conns)
    \/ c \in orphans /\ InUse(c)
    \/ \E t \in Threads : InHand(c, t)

(* A closer that has waited is alone: the others are out, or stuck behind its lock.             *)
Alone == \A t \in Threads :
    /\ pc[t] \in {"wait", "shutting"} \cup Shutting => closing
    /\ pc[t] \in {"shutting"} \cup Shutting =>
          \A u \in Threads \ {t} : depth[u] = 0 \/ (lock = t /\ pc[u] \in {"append", "lock"})
NoneBinds == closed => \A t \in Threads : pc[t] \notin {"open", "bind"}
VictimUnused == \A t \in Threads : pc[t] \in {"shut", "orphan"} => ~InUse(victim[t])
InUseOpen == \A t \in Threads : bound[t] > 0 => using[t] \in Conns /\ life[using[t]] = "open"

InTime == ~slow => Alone /\ NoneBinds /\ VictimUnused /\ InUseOpen

IInv == /\ TypeOK /\ Framed /\ LockHeld
        /\ Known /\ Fresh /\ OneConnection /\ ClosedFirst /\ Accounted
        /\ InTime

----------------------------------------------------------------------------
(* Steps: what one does not touch first, then what it has to keep.                               *)
USE DEF At, Goto, gate, kind, store, locks, stack, closer, Outside, Entered, Even, Shutting, ThreadPc, Made

(* Statements.                                                                                      *)
LEMMA BeginReadOK == ASSUME IInv, NEW t \in Threads, BeginRead(t) PROVE IInv'
<1>. TypeOK /\ Framed /\ LockHeld /\ Known /\ Fresh /\ OneConnection /\ ClosedFirst /\ Accounted  BY DEF IInv
<1>1. TypeOK' /\ LockHeld' /\ Known' /\ Fresh' /\ OneConnection' /\ ClosedFirst' /\ Accounted'
  BY DEF TypeOK, LockHeld, Known, Fresh, OneConnection, Found, ClosedFirst, Accounted, InHand, InUse,
      BeginRead, MayBegin, ReadsFrom
<1>2. Framed'  BY DEF TypeOK, Framed, BeginRead, MayBegin, ReadsFrom
<1>3. ASSUME ~slow, Alone, NoneBinds, VictimUnused, InUseOpen
      PROVE  Alone' /\ NoneBinds' /\ VictimUnused' /\ InUseOpen'
  BY <1>3 DEF Alone, NoneBinds, VictimUnused, InUse, InUseOpen, BeginRead, MayBegin, ReadsFrom
<1>. QED  BY <1>1, <1>2, <1>3 DEF IInv, InTime, BeginRead

LEMMA BeginWriteOK == ASSUME IInv, NEW t \in Threads, BeginWrite(t) PROVE IInv'
<1>. TypeOK /\ Framed /\ LockHeld /\ Known /\ Fresh /\ OneConnection /\ ClosedFirst /\ Accounted  BY DEF IInv
<1>1. TypeOK' /\ LockHeld' /\ Known' /\ Fresh' /\ OneConnection' /\ ClosedFirst' /\ Accounted'
  BY DEF TypeOK, LockHeld, Known, Fresh, OneConnection, Found, ClosedFirst, Accounted, InHand, InUse,
      BeginWrite, MayBegin
<1>2. Framed'  BY DEF TypeOK, Framed, BeginWrite, MayBegin
<1>3. ASSUME ~slow, Alone, NoneBinds, VictimUnused, InUseOpen
      PROVE  Alone' /\ NoneBinds' /\ VictimUnused' /\ InUseOpen'
  BY <1>3 DEF Alone, NoneBinds, VictimUnused, InUse, InUseOpen, BeginWrite, MayBegin
<1>. QED  BY <1>1, <1>2, <1>3 DEF IInv, InTime, BeginWrite

LEMMA TakeLockOK == ASSUME IInv, NEW t \in Threads, TakeLock(t) PROVE IInv'
<1>. TypeOK /\ Framed /\ LockHeld /\ Known /\ Fresh /\ OneConnection /\ ClosedFirst /\ Accounted  BY DEF IInv
<1>1. TypeOK' /\ Framed' /\ Known' /\ Fresh' /\ OneConnection' /\ ClosedFirst' /\ Accounted'
  BY
     DEF TypeOK, Framed, Known, Fresh, OneConnection, Found, ClosedFirst, Accounted, InHand, InUse,
         TakeLock,
      Acquire, LockFree
<1>2. LockHeld'  BY ThreadAssumption DEF LockHeld, TakeLock, Acquire, LockFree
<1>3. ASSUME ~slow, Alone, NoneBinds, VictimUnused, InUseOpen
      PROVE  Alone' /\ NoneBinds' /\ VictimUnused' /\ InUseOpen'
  <2>1. NoneBinds' /\ VictimUnused' /\ InUseOpen'
    BY <1>3 DEF NoneBinds, VictimUnused, InUse, InUseOpen, TakeLock, Acquire, LockFree
  <2>2. Alone'  BY <1>3, ThreadAssumption DEF Alone, TakeLock, Acquire, LockFree
  <2>. QED  BY <2>1, <2>2
<1>. QED  BY <1>1, <1>2, <1>3 DEF IInv, InTime, TakeLock

LEMMA EnterOK == ASSUME IInv, NEW t \in Threads, Enter(t) PROVE IInv'
<1>. TypeOK /\ Framed /\ LockHeld /\ Known /\ Fresh /\ OneConnection /\ ClosedFirst /\ Accounted  BY DEF IInv
<1>1. TypeOK' /\ LockHeld' /\ Known' /\ Accounted'
  BY DEF TypeOK, LockHeld, Known, Accounted, InHand, InUse, Enter, Refuses
<1>2. Framed'  BY DEF TypeOK, Framed, Enter, Refuses
<1>3. Fresh'  BY DEF TypeOK, Fresh, Enter, Refuses
<1>4. OneConnection'  BY DEF TypeOK, OneConnection, Found, Enter, Refuses
<1>5. ClosedFirst'  BY DEF TypeOK, ClosedFirst, Enter, Refuses
<1>6. ASSUME ~slow, Alone, NoneBinds, VictimUnused, InUseOpen
      PROVE  Alone' /\ NoneBinds' /\ VictimUnused' /\ InUseOpen'
  <2>1. InUseOpen'  BY <1>6 DEF InUseOpen, Enter, Refuses
  <2>2. Alone'  BY <1>6 DEF TypeOK, Alone, Enter, Refuses
  <2>3. NoneBinds'  BY <1>6 DEF TypeOK, NoneBinds, Enter, Refuses
  <2>4. VictimUnused'  BY <1>6 DEF TypeOK, VictimUnused, InUse, Enter, Refuses
  <2>. QED  BY <2>1, <2>2, <2>3, <2>4
<1>. QED  BY <1>1, <1>2, <1>3, <1>4, <1>5, <1>6 DEF IInv, InTime, Enter

(* Once the store is closed a thread gets a connection only while a closer is at work, which is      *)
(* then Alone.*)
LEMMA GetConnOK == ASSUME IInv, NEW t \in Threads, GetConn(t) PROVE IInv'
<1>. TypeOK /\ Framed /\ LockHeld /\ Known /\ Fresh /\ OneConnection /\ ClosedFirst /\ Accounted  BY DEF IInv
<1>1. TypeOK' /\ Framed' /\ LockHeld' /\ Known' /\ ClosedFirst'
  BY DEF TypeOK, Framed, LockHeld, Known, ClosedFirst, GetConn
<1>2. Fresh'  BY DEF TypeOK, Fresh, Known, Found, OneConnection, ClosedFirst, GetConn
<1>3. OneConnection'  BY DEF TypeOK, OneConnection, Found, GetConn
<1>4. Accounted'  BY ConnAssumption DEF TypeOK, OneConnection, Found, Accounted, InHand, InUse, GetConn
<1>5. ASSUME ~slow, Alone, NoneBinds, VictimUnused, InUseOpen
      PROVE  Alone' /\ NoneBinds' /\ VictimUnused' /\ InUseOpen'
  <2>1. Alone'  BY <1>5 DEF Alone, GetConn
  <2>2. NoneBinds'  BY <1>5 DEF TypeOK, NoneBinds, Alone, Framed, ClosedFirst, GetConn
  <2>3. VictimUnused'  BY <1>5 DEF TypeOK, VictimUnused, InUse, NoneBinds, ClosedFirst, Alone, Framed, GetConn
  <2>4. InUseOpen'
    BY <1>5
       DEF TypeOK, InUseOpen, InUse, OneConnection, Found, NoneBinds, ClosedFirst, Alone, Framed,
           GetConn
  <2>. QED  BY <2>1, <2>2, <2>3, <2>4
<1>. QED  BY <1>1, <1>2, <1>3, <1>4, <1>5 DEF IInv, InTime, GetConn

(* A thread that opens a connection had none, so it runs no statement.                              *)
LEMMA OpenConnOK == ASSUME IInv, NEW t \in Threads, OpenConn(t) PROVE IInv'
<1>. TypeOK /\ Framed /\ LockHeld /\ Known /\ Fresh /\ OneConnection /\ ClosedFirst /\ Accounted  BY DEF IInv
<1>1. TypeOK' /\ Framed' /\ LockHeld' /\ ClosedFirst'  BY DEF TypeOK, Framed, LockHeld, ClosedFirst, OpenConn
<1>2. Known'  BY DEF TypeOK, Known, OpenConn
<1>3. Fresh'  BY ConnAssumption DEF TypeOK, Fresh, Known, Found, OpenConn
<1>4. OneConnection'  BY DEF TypeOK, OneConnection, Found, Fresh, Known, ClosedFirst, OpenConn
<1>5. Accounted'
  BY ConnAssumption
     DEF TypeOK, Framed, Fresh, OneConnection, Found, ClosedFirst, Accounted, InHand, InUse,
      OpenConn
<1>6. ASSUME ~slow, Alone, NoneBinds, VictimUnused, InUseOpen
      PROVE  Alone' /\ NoneBinds' /\ VictimUnused' /\ InUseOpen'
  <2>1. Alone' /\ NoneBinds'  BY <1>6 DEF Alone, NoneBinds, OpenConn
  <2>2. VictimUnused'  BY <1>6 DEF TypeOK, VictimUnused, InUse, ClosedFirst, NoneBinds, OpenConn
  <2>3. InUseOpen'  BY <1>6 DEF TypeOK, InUseOpen, OpenConn
  <2>. QED  BY <2>1, <2>2, <2>3
<1>. QED  BY <1>1, <1>2, <1>3, <1>4, <1>5, <1>6 DEF IInv, InTime, OpenConn

LEMMA OpenFailsOK == ASSUME IInv, NEW t \in Threads, OpenFails(t) PROVE IInv'
<1>. TypeOK /\ Framed /\ LockHeld /\ Known /\ Fresh /\ OneConnection /\ ClosedFirst /\ Accounted  BY DEF IInv
<1>1. TypeOK' /\ Framed' /\ LockHeld' /\ Known' /\ Fresh' /\ OneConnection' /\ ClosedFirst' /\ Accounted'
  BY
     DEF TypeOK, Framed, LockHeld, Known, Fresh, OneConnection, Found, ClosedFirst, Accounted, InHand,
         InUse,
      OpenFails
<1>2. ASSUME ~slow, Alone, NoneBinds, VictimUnused, InUseOpen
      PROVE  Alone' /\ NoneBinds' /\ VictimUnused' /\ InUseOpen'
  BY <1>2 DEF Alone, NoneBinds, VictimUnused, InUse, InUseOpen, OpenFails
<1>. QED  BY <1>1, <1>2 DEF IInv, InTime, OpenFails

(* Closed in the meantime: the connection that is given up is Fresh, so nobody uses it.             *)
LEMMA AppendConnOK == ASSUME IInv, NEW t \in Threads, AppendConn(t) PROVE IInv'
<1>. TypeOK /\ Framed /\ LockHeld /\ Known /\ Fresh /\ OneConnection /\ ClosedFirst /\ Accounted  BY DEF IInv
<1>1. LockHeld'  BY DEF LockHeld, AppendConn, LockFree, ClosedWhileOpening
<1>2. TypeOK'  BY DEF TypeOK, Framed, Fresh, HookLife, AppendConn, LockFree, ClosedWhileOpening
<1>3. Framed'  BY DEF TypeOK, Framed, AppendConn, LockFree, ClosedWhileOpening
<1>4. Known'  BY DEF TypeOK, Known, AppendConn, LockFree, ClosedWhileOpening
<1>5. Fresh'  BY DEF TypeOK, Fresh, AppendConn, LockFree, ClosedWhileOpening
<1>6. OneConnection'
  BY ConnAssumption DEF TypeOK, OneConnection, Found, Fresh, Known, ClosedFirst, AppendConn, LockFree,
      ClosedWhileOpening
<1>7. ClosedFirst'  BY DEF TypeOK, ClosedFirst, AppendConn, LockFree, ClosedWhileOpening
<1>8. Accounted'  BY DEF TypeOK, Accounted, InHand, InUse, AppendConn, LockFree, ClosedWhileOpening
<1>9. ASSUME ~slow, Alone, NoneBinds, VictimUnused, InUseOpen
      PROVE  Alone' /\ NoneBinds' /\ VictimUnused' /\ InUseOpen'
  <2>1. Alone'  BY <1>9, ThreadAssumption DEF TypeOK, Alone, AppendConn, LockFree, ClosedWhileOpening
  <2>2. NoneBinds'  BY <1>9 DEF TypeOK, NoneBinds, AppendConn, LockFree, ClosedWhileOpening
  <2>3. VictimUnused'  BY <1>9 DEF TypeOK, VictimUnused, InUse, AppendConn, LockFree, ClosedWhileOpening
  <2>4. InUseOpen'
    <3> SUFFICES ASSUME NEW u \in Threads, bound[u] > 0
                 PROVE  using[u] \in Conns /\ life'[using[u]] = "open"
      BY DEF InUseOpen, AppendConn
    <3>1. u # t /\ using[u] # using[t]  BY DEF TypeOK, Fresh, AppendConn
    <3>2. using[u] \in Conns /\ life[using[u]] = "open"  BY <1>9 DEF InUseOpen
    <3>3. life' = life \/ life' = [life EXCEPT ![using[t]] = "closed"]  BY DEF AppendConn
    <3>. QED  BY <3>1, <3>2, <3>3 DEF TypeOK
  <2>. QED  BY <2>1, <2>2, <2>3, <2>4
<1>. QED  BY <1>1, <1>2, <1>3, <1>4, <1>5, <1>6, <1>7, <1>8, <1>9 DEF IInv, InTime, AppendConn

(* Nobody binds a connection once the store is closed (NoneBinds), so a victim stays unused.        *)
LEMMA BindOK == ASSUME IInv, NEW t \in Threads, Bind(t) PROVE IInv'
<1>. TypeOK /\ Framed /\ LockHeld /\ Known /\ Fresh /\ OneConnection /\ ClosedFirst /\ Accounted  BY DEF IInv
<1>1. TypeOK' /\ LockHeld' /\ Known' /\ Fresh' /\ OneConnection' /\ ClosedFirst' /\ Accounted'
  BY
     DEF TypeOK, LockHeld, Known, Fresh, OneConnection, Found, ClosedFirst, Accounted, InHand, InUse,
         Bind
<1>2. Framed'  BY DEF TypeOK, Framed, Bind
<1>3. ASSUME ~slow, Alone, NoneBinds, VictimUnused, InUseOpen
      PROVE  Alone' /\ NoneBinds' /\ VictimUnused' /\ InUseOpen'
  <2>1. Alone' /\ NoneBinds'  BY <1>3 DEF Alone, NoneBinds, Bind
  <2>2. VictimUnused'  BY <1>3 DEF TypeOK, VictimUnused, InUse, ClosedFirst, NoneBinds, Bind
  <2>3. InUseOpen'  BY <1>3 DEF TypeOK, InUseOpen, OneConnection, Found, NoneBinds, Bind
  <2>. QED  BY <2>1, <2>2, <2>3
<1>. QED  BY <1>1, <1>2, <1>3 DEF IInv, InTime, Bind

(* The last statement on an orphan takes it as its victim.                                          *)
LEMMA LeaveOK == ASSUME IInv, NEW t \in Threads, Leave(t) PROVE IInv'
<1>. TypeOK /\ Framed /\ LockHeld /\ Known /\ Fresh /\ OneConnection /\ ClosedFirst /\ Accounted  BY DEF IInv
<1>1. LockHeld' /\ Known'  BY DEF LockHeld, Known, Leave, LeftToUs, LastUse
<1>2. TypeOK'  BY DEF TypeOK, Framed, Fresh, HookLife, Leave, LeftToUs, LastUse
<1>3. Framed'  BY DEF TypeOK, Framed, Leave, LeftToUs, LastUse
<1>4. Fresh'  BY DEF TypeOK, Fresh, Leave, LeftToUs, LastUse
<1>5. OneConnection'  BY DEF TypeOK, OneConnection, Found, Leave, LeftToUs, LastUse
<1>6. ClosedFirst'  BY DEF TypeOK, ClosedFirst, Leave, LeftToUs, LastUse
<1>7. Accounted'  BY DEF TypeOK, Accounted, InHand, InUse, Leave, LeftToUs, LastUse
<1>8. ASSUME ~slow, Alone, NoneBinds, VictimUnused, InUseOpen
      PROVE  Alone' /\ NoneBinds' /\ VictimUnused' /\ InUseOpen'
  <2>1. Alone'  BY <1>8 DEF TypeOK, Alone, Framed, Leave, LeftToUs, LastUse
  <2>2. NoneBinds'  BY <1>8 DEF TypeOK, NoneBinds, Leave, LeftToUs, LastUse
  <2>3. VictimUnused'  BY <1>8 DEF TypeOK, VictimUnused, InUse, Leave, LeftToUs, LastUse
  <2>4. InUseOpen'  BY <1>8 DEF TypeOK, InUseOpen, Leave, LeftToUs, LastUse
  <2>. QED  BY <2>1, <2>2, <2>3, <2>4
<1>. QED  BY <1>1, <1>2, <1>3, <1>4, <1>5, <1>6, <1>7, <1>8 DEF IInv, InTime, Leave

LEMMA LeaveUnboundOK == ASSUME IInv, NEW t \in Threads, LeaveUnbound(t) PROVE IInv'
<1>. TypeOK /\ Framed /\ LockHeld /\ Known /\ Fresh /\ OneConnection /\ ClosedFirst /\ Accounted  BY DEF IInv
<1>1. LockHeld' /\ Known' /\ Fresh' /\ OneConnection' /\ ClosedFirst' /\ Accounted'
  BY
     DEF LockHeld, Known, Fresh, OneConnection, Found, ClosedFirst, Accounted, InHand, InUse,
         LeaveUnbound,
      EndsUnbound
<1>2. TypeOK'  BY DEF TypeOK, Framed, Fresh, HookLife, LeaveUnbound, EndsUnbound
<1>3. Framed'  BY DEF TypeOK, Framed, LeaveUnbound, EndsUnbound
<1>4. ASSUME ~slow, Alone, NoneBinds, VictimUnused, InUseOpen
      PROVE  Alone' /\ NoneBinds' /\ VictimUnused' /\ InUseOpen'
  <2>1. NoneBinds' /\ VictimUnused' /\ InUseOpen'
    BY <1>4 DEF NoneBinds, VictimUnused, InUse, InUseOpen, LeaveUnbound, EndsUnbound
  <2>2. Alone'  BY <1>4 DEF TypeOK, Alone, Framed, LeaveUnbound, EndsUnbound
  <2>. QED  BY <2>1, <2>2
<1>. QED  BY <1>1, <1>2, <1>3, <1>4 DEF IInv, InTime, LeaveUnbound

LEMMA CloseOrphanOK == ASSUME IInv, NEW t \in Threads, CloseOrphan(t) PROVE IInv'
<1>. TypeOK /\ Framed /\ LockHeld /\ Known /\ Fresh /\ OneConnection /\ ClosedFirst /\ Accounted  BY DEF IInv
<1>1. TypeOK'  BY DEF TypeOK, CloseOrphan
<1>2. Framed'  BY DEF Framed, CloseOrphan
<1>3. LockHeld'  BY DEF LockHeld, CloseOrphan
<1>4. Known'  BY DEF Known, CloseOrphan
<1>5. Fresh'  BY DEF TypeOK, Fresh, Known, Found, OneConnection, ClosedFirst, CloseOrphan
<1>6. OneConnection'  BY DEF TypeOK, OneConnection, Found, ClosedFirst, CloseOrphan
<1>7. ClosedFirst'  BY DEF ClosedFirst, CloseOrphan
<1>8. Accounted'  BY DEF TypeOK, Accounted, InHand, InUse, CloseOrphan
<1>9. ASSUME ~slow, Alone, NoneBinds, VictimUnused, InUseOpen
      PROVE  Alone' /\ NoneBinds' /\ VictimUnused' /\ InUseOpen'
  <2>1. Alone' /\ NoneBinds'  BY <1>9 DEF Alone, NoneBinds, CloseOrphan
  <2>2. VictimUnused'  BY <1>9 DEF TypeOK, VictimUnused, InUse, CloseOrphan
  <2>3. InUseOpen'  BY <1>9 DEF TypeOK, InUseOpen, InUse, VictimUnused, CloseOrphan
  <2>. QED  BY <2>1, <2>2, <2>3
<1>. QED  BY <1>1, <1>2, <1>3, <1>4, <1>5, <1>6, <1>7, <1>8, <1>9 DEF IInv, InTime, CloseOrphan

LEMMA UnwindOK == ASSUME IInv, NEW t \in Threads, Unwind(t) PROVE IInv'
<1>. TypeOK /\ Framed /\ LockHeld /\ Known /\ Fresh /\ OneConnection /\ ClosedFirst /\ Accounted  BY DEF IInv
<1>1. Known' /\ Fresh' /\ OneConnection' /\ ClosedFirst' /\ Accounted'
  BY
     DEF Known, Fresh, OneConnection, Found, ClosedFirst, Accounted, InHand, InUse, Unwind, Release,
         Resume
<1>2. TypeOK'  BY DEF TypeOK, Framed, Fresh, HookLife, Unwind, Release, Resume
<1>3. Framed'  BY DEF TypeOK, Framed, Unwind, Release, Resume
<1>4. LockHeld'  BY ThreadAssumption DEF TypeOK, LockHeld, Framed, Unwind, Release, Resume
<1>5. ASSUME ~slow, Alone, NoneBinds, VictimUnused, InUseOpen
      PROVE  Alone' /\ NoneBinds' /\ VictimUnused' /\ InUseOpen'
  <2>1. NoneBinds' /\ VictimUnused' /\ InUseOpen'
    BY <1>5 DEF NoneBinds, VictimUnused, InUse, InUseOpen, Unwind, Release, Resume
  <2>2. Alone'  BY <1>5 DEF TypeOK, Alone, Framed, LockHeld, Unwind, Release, Resume
  <2>. QED  BY <2>1, <2>2
<1>. QED  BY <1>1, <1>2, <1>3, <1>4, <1>5 DEF IInv, InTime, Unwind

(* close().                                                                                         *)
LEMMA TakeHooksOK == ASSUME IInv, NEW t \in Threads, TakeHooks(t) PROVE IInv'
<1>. TypeOK /\ Framed /\ LockHeld /\ Known /\ Fresh /\ OneConnection /\ ClosedFirst /\ Accounted  BY DEF IInv
<1>1. Framed' /\ LockHeld' /\ Known' /\ Fresh' /\ OneConnection' /\ ClosedFirst' /\ Accounted'
  BY DEF Framed, LockHeld, Known, Fresh, OneConnection, Found, ClosedFirst, Accounted, InHand, InUse,
      TakeHooks, LockFree
<1>2. TypeOK'  BY DEF TypeOK, HookLife, TakeHooks, LockFree
<1>3. ASSUME ~slow, Alone, NoneBinds, VictimUnused, InUseOpen
      PROVE  Alone' /\ NoneBinds' /\ VictimUnused' /\ InUseOpen'
  BY <1>3 DEF Alone, NoneBinds, VictimUnused, InUse, InUseOpen, TakeHooks, LockFree
<1>. QED  BY <1>1, <1>2, <1>3 DEF IInv, InTime, TakeHooks

LEMMA RunHookOK == ASSUME IInv, NEW t \in Threads, RunHook(t) PROVE IInv'
<1>. TypeOK /\ Framed /\ LockHeld /\ Known /\ Fresh /\ OneConnection /\ ClosedFirst /\ Accounted  BY DEF IInv
<1>1. Framed' /\ LockHeld' /\ Known' /\ Fresh' /\ OneConnection' /\ ClosedFirst' /\ Accounted'
  BY
     DEF Framed, LockHeld, Known, Fresh, OneConnection, Found, ClosedFirst, Accounted, InHand, InUse,
         RunHook
<1>2. TypeOK'  BY DEF TypeOK, HookLife, RunHook
<1>3. ASSUME ~slow, Alone, NoneBinds, VictimUnused, InUseOpen
      PROVE  Alone' /\ NoneBinds' /\ VictimUnused' /\ InUseOpen'
  BY <1>3 DEF Alone, NoneBinds, VictimUnused, InUse, InUseOpen, RunHook
<1>. QED  BY <1>1, <1>2, <1>3 DEF IInv, InTime, RunHook

LEMMA BeginCloseOK == ASSUME IInv, NEW t \in Threads, BeginClose(t) PROVE IInv'
<1>. TypeOK /\ Framed /\ LockHeld /\ Known /\ Fresh /\ OneConnection /\ ClosedFirst /\ Accounted  BY DEF IInv
<1>1. TypeOK' /\ Framed' /\ LockHeld' /\ Known' /\ Fresh' /\ OneConnection' /\ ClosedFirst' /\ Accounted'
  BY
     DEF TypeOK, Framed, LockHeld, Known, Fresh, OneConnection, Found, ClosedFirst, Accounted, InHand,
         InUse,
      BeginClose
<1>2. ASSUME ~slow, Alone, NoneBinds, VictimUnused, InUseOpen
      PROVE  Alone' /\ NoneBinds' /\ VictimUnused' /\ InUseOpen'
  BY <1>2 DEF Alone, NoneBinds, VictimUnused, InUse, InUseOpen, BeginClose
<1>. QED  BY <1>1, <1>2 DEF IInv, InTime, BeginClose

(* The bounded wait makes a closer Alone, unless statements outlast it.                             *)
LEMMA EndWaitOK == ASSUME IInv, NEW t \in Threads, EndWait(t) PROVE IInv'
<1>. TypeOK /\ Framed /\ LockHeld /\ Known /\ Fresh /\ OneConnection /\ ClosedFirst /\ Accounted  BY DEF IInv
<1>1. TypeOK' /\ Framed' /\ LockHeld' /\ Known' /\ Fresh' /\ OneConnection' /\ ClosedFirst' /\ Accounted'
  BY
     DEF TypeOK, Framed, LockHeld, Known, Fresh, OneConnection, Found, ClosedFirst, Accounted, InHand,
         InUse,
      EndWait, OthersLeft, Stuck
<1>2. ASSUME ~slow, Alone, NoneBinds, VictimUnused, InUseOpen
      PROVE  Alone' /\ NoneBinds' /\ VictimUnused' /\ InUseOpen'
  BY <1>2 DEF Alone, NoneBinds, VictimUnused, InUse, InUseOpen, EndWait, OthersLeft, Stuck
<1>. QED  BY <1>1, <1>2 DEF IInv, InTime, EndWait

LEMMA MarkClosedOK == ASSUME IInv, NEW t \in Threads, MarkClosed(t) PROVE IInv'
<1>. TypeOK /\ Framed /\ LockHeld /\ Known /\ Fresh /\ OneConnection /\ ClosedFirst /\ Accounted  BY DEF IInv
<1>1. TypeOK' /\ Framed' /\ Known' /\ Fresh' /\ OneConnection'
  BY DEF TypeOK, Framed, Known, Fresh, OneConnection, Found, MarkClosed, Acquire, LockFree
<1>2. LockHeld'  BY ThreadAssumption DEF LockHeld, MarkClosed, Acquire, LockFree
<1>3. ClosedFirst'  BY DEF TypeOK, ClosedFirst, MarkClosed, Acquire, LockFree
<1>4. Accounted'
  BY ConnAssumption
     DEF TypeOK, OneConnection, Found, Accounted, InHand, InUse, MarkClosed, Acquire, LockFree
<1>5. ASSUME ~slow, Alone, NoneBinds, VictimUnused, InUseOpen
      PROVE  Alone' /\ NoneBinds' /\ VictimUnused' /\ InUseOpen'
  <2>1. Alone' /\ VictimUnused' /\ InUseOpen'
    BY <1>5 DEF Alone, VictimUnused, InUse, InUseOpen, MarkClosed, Acquire, LockFree
  <2>2. NoneBinds'  BY <1>5 DEF TypeOK, NoneBinds, Alone, Framed, ClosedFirst, MarkClosed, Acquire, LockFree
  <2>. QED  BY <2>1, <2>2
<1>. QED  BY <1>1, <1>2, <1>3, <1>4, <1>5 DEF IInv, InTime, MarkClosed

(* A connection that is not busy becomes the victim, any other an orphan that is in use.            *)
LEMMA CheckConnOK == ASSUME IInv, NEW t \in Threads, CheckConn(t) PROVE IInv'
<1>. TypeOK /\ Framed /\ LockHeld /\ Known /\ Fresh /\ OneConnection /\ ClosedFirst /\ Accounted  BY DEF IInv
<1>1. TypeOK' /\ LockHeld' /\ Known' /\ Accounted'
  BY DEF TypeOK, LockHeld, Known, Accounted, InHand, InUse, CheckConn, Busy
<1>2. Framed'  BY DEF TypeOK, Framed, CheckConn, Busy
<1>3. Fresh'  BY DEF TypeOK, Fresh, CheckConn, Busy
<1>4. OneConnection'  BY DEF TypeOK, OneConnection, Found, CheckConn, Busy
<1>5. ClosedFirst'  BY DEF TypeOK, ClosedFirst, CheckConn, Busy
<1>6. ASSUME ~slow, Alone, NoneBinds, VictimUnused, InUseOpen
      PROVE  Alone' /\ NoneBinds' /\ VictimUnused' /\ InUseOpen'
  <2>1. InUseOpen'  BY <1>6 DEF InUseOpen, CheckConn, Busy
  <2>2. Alone'  BY <1>6 DEF TypeOK, Alone, CheckConn, Busy
  <2>3. NoneBinds'  BY <1>6 DEF TypeOK, NoneBinds, CheckConn, Busy
  <2>4. VictimUnused'  BY <1>6 DEF TypeOK, VictimUnused, InUse, CheckConn, Busy
  <2>. QED  BY <2>1, <2>2, <2>3, <2>4
<1>. QED  BY <1>1, <1>2, <1>3, <1>4, <1>5, <1>6 DEF IInv, InTime, CheckConn

LEMMA CloseConnOK == ASSUME IInv, NEW t \in Threads, CloseConn(t) PROVE IInv'
<1>. TypeOK /\ Framed /\ LockHeld /\ Known /\ Fresh /\ OneConnection /\ ClosedFirst /\ Accounted  BY DEF IInv
<1>1. TypeOK'  BY DEF TypeOK, CloseConn
<1>2. Framed'  BY DEF Framed, CloseConn
<1>3. LockHeld'  BY DEF LockHeld, CloseConn
<1>4. Known'  BY DEF Known, CloseConn
<1>5. Fresh'  BY DEF TypeOK, Fresh, Known, Found, OneConnection, ClosedFirst, CloseConn
<1>6. OneConnection'  BY DEF TypeOK, OneConnection, Found, ClosedFirst, CloseConn
<1>7. ClosedFirst'  BY DEF ClosedFirst, CloseConn
<1>8. Accounted'  BY DEF TypeOK, Accounted, InHand, InUse, CloseConn
<1>9. ASSUME ~slow, Alone, NoneBinds, VictimUnused, InUseOpen
      PROVE  Alone' /\ NoneBinds' /\ VictimUnused' /\ InUseOpen'
  <2>1. Alone' /\ NoneBinds'  BY <1>9 DEF Alone, NoneBinds, CloseConn
  <2>2. VictimUnused'  BY <1>9 DEF TypeOK, VictimUnused, InUse, CloseConn
  <2>3. InUseOpen'  BY <1>9 DEF TypeOK, InUseOpen, InUse, VictimUnused, CloseConn
  <2>. QED  BY <2>1, <2>2, <2>3
<1>. QED  BY <1>1, <1>2, <1>3, <1>4, <1>5, <1>6, <1>7, <1>8, <1>9 DEF IInv, InTime, CloseConn

LEMMA EndCloseOK == ASSUME IInv, NEW t \in Threads, EndClose(t) PROVE IInv'
<1>. TypeOK /\ Framed /\ LockHeld /\ Known /\ Fresh /\ OneConnection /\ ClosedFirst /\ Accounted  BY DEF IInv
<1>1. TypeOK' /\ Known' /\ ClosedFirst' /\ Accounted'
  BY DEF TypeOK, Known, ClosedFirst, Accounted, InHand, InUse, EndClose, Release, Resume
<1>2. Framed'  BY DEF TypeOK, Framed, EndClose, Release, Resume
<1>3. LockHeld'  BY DEF TypeOK, LockHeld, EndClose, Release, Resume
<1>4. Fresh'  BY ConnAssumption DEF Fresh, EndClose, Release, Resume
<1>5. OneConnection'  BY DEF TypeOK, OneConnection, Found, ClosedFirst, EndClose, Release, Resume
<1>6. ASSUME ~slow, Alone, NoneBinds, VictimUnused, InUseOpen
      PROVE  Alone' /\ NoneBinds' /\ VictimUnused' /\ InUseOpen'
  <2>1. NoneBinds' /\ VictimUnused' /\ InUseOpen'
    BY <1>6 DEF NoneBinds, VictimUnused, InUse, InUseOpen, EndClose, Release, Resume
  <2>2. Alone'  BY <1>6 DEF TypeOK, Alone, EndClose, Release, Resume
  <2>. QED  BY <2>1, <2>2
<1>. QED  BY <1>1, <1>2, <1>3, <1>4, <1>5, <1>6 DEF IInv, InTime, EndClose

(* Hooks come and go beside the statements.                                                        *)
LEMMA HookOK == ASSUME IInv, NEW h \in Hooks, CheckHook(h) \/ ListHook(h) \/ Unregister(h) PROVE IInv'
<1>1. UNCHANGED <<gate, store, life, locks, stack, using, victim, closer, pc>>
  BY DEF CheckHook, ListHook, Unregister
<1>2. hook' \in [Hooks -> HookLife]  BY DEF IInv, TypeOK, HookLife, CheckHook, ListHook, Unregister
<1>3. TypeOK'  BY <1>1, <1>2 DEF IInv, TypeOK
<1>4. Framed' /\ LockHeld' /\ Known' /\ Fresh' /\ OneConnection' /\ ClosedFirst'
  BY <1>1 DEF IInv, Framed, LockHeld, Known, Fresh, OneConnection, ClosedFirst, Found
<1>5. Accounted'  BY <1>1 DEF IInv, Accounted, InUse, InHand
<1>6. InTime'  BY <1>1 DEF IInv, InTime, Alone, NoneBinds, VictimUnused, InUseOpen, InUse
<1>. QED  BY <1>3, <1>4, <1>5, <1>6 DEF IInv

LEMMA InitOK == Init => IInv
<1> SUFFICES ASSUME Init PROVE IInv  OBVIOUS
<1>1. TypeOK  BY ConnAssumption DEF Init, TypeOK, HookLife
<1>2. Framed /\ LockHeld /\ Known /\ Fresh /\ ClosedFirst  BY ConnAssumption DEF Init, Framed, LockHeld, Known, Fresh, ClosedFirst
<1>3. OneConnection  BY ConnAssumption DEF Init, OneConnection, Found
<1>4. Accounted  BY DEF Init, Accounted
<1>5. InTime  BY DEF Init, InTime, Alone, NoneBinds, VictimUnused, InUseOpen
<1>. QED  BY <1>1, <1>2, <1>3, <1>4, <1>5 DEF IInv

LEMMA StepOK == IInv /\ [Next]_vars => IInv'
<1> SUFFICES ASSUME IInv, [Next]_vars PROVE IInv'  OBVIOUS
<1>1. ASSUME NEW t \in Threads, StatementStep(t) PROVE IInv'
  BY <1>1, TakeLockOK, EnterOK, GetConnOK, OpenConnOK, AppendConnOK, BindOK, LeaveOK, LeaveUnboundOK,
     CloseOrphanOK, UnwindOK DEF StatementStep
<1>2. ASSUME NEW t \in Threads, CloseStep(t) PROVE IInv'
  BY <1>2, RunHookOK, BeginCloseOK, EndWaitOK, MarkClosedOK, CheckConnOK, CloseConnOK, EndCloseOK
     DEF CloseStep
<1>3. ASSUME NEW t \in Threads, BeginRead(t) \/ BeginWrite(t) \/ OpenFails(t) \/ TakeHooks(t)
      PROVE  IInv'
  BY <1>3, BeginReadOK, BeginWriteOK, OpenFailsOK, TakeHooksOK
<1>4. ASSUME NEW h \in Hooks, CheckHook(h) \/ ListHook(h) \/ Unregister(h) PROVE IInv'
  BY <1>4, HookOK
<1>5. CASE UNCHANGED vars
  <2>1. UNCHANGED <<gate, store, life, locks, hook, stack, using, victim, closer, pc>>  BY <1>5 DEF vars
  <2>2. TypeOK' /\ Framed' /\ LockHeld' /\ Known' /\ Fresh' /\ OneConnection' /\ ClosedFirst'
    BY <2>1 DEF IInv, TypeOK, Framed, LockHeld, Known, Fresh, OneConnection, ClosedFirst, Found
  <2>3. Accounted'  BY <2>1 DEF IInv, Accounted, InUse, InHand
  <2>4. InTime'  BY <2>1 DEF IInv, InTime, Alone, NoneBinds, VictimUnused, InUseOpen, InUse
  <2>. QED  BY <2>2, <2>3, <2>4 DEF IInv
<1>. QED  BY <1>1, <1>2, <1>3, <1>4, <1>5 DEF Next

LEMMA StoreInv == Spec => []IInv
<1>. QED  BY InitOK, StepOK, PTL DEF Spec

(* Every field keeps its type, however blocks nest: no counter of the gate goes below zero          *)
(* (gate.py: enter, bind, leave).                                                                      *)
THEOREM StoreTyped == Spec => []TypeOK
<1>1. IInv => TypeOK  BY DEF IInv
<1>. QED  BY <1>1, StoreInv, PTL

(* While the bounded waits are long enough no connection is closed under a statement that runs      *)
(* on it, by however many closers, from outside or inside a statement (gate.py: begin_close,            *)
(* close_or_orphan, leave; connection.py: close, _conn).                                                *)
THEOREM NeverClosedUnderAStatement == Spec => []NeverClosedInUse
<1>1. IInv => NeverClosedInUse  BY DEF IInv, InTime, InUseOpen, NeverClosedInUse
<1>. QED  BY <1>1, StoreInv, PTL

(* Once close() is through every connection still open is in the hands of a thread that is in a     *)
(* statement or is closing it, however long statements take (connection.py: close; gate.py: leave).      *)
THEOREM NoDescriptorLeaks == Spec => []LeaksNothing
<1>1. IInv => LeaksNothing
  <2> SUFFICES ASSUME IInv, Shut, NEW c \in Conns, life[c] = "open"
               PROVE  \E t \in Threads : pc[t] # "idle" /\ c \in {using[t], victim[t]}
    BY DEF LeaksNothing
  <2>1. InUse(c) \/ \E t \in Threads : InHand(c, t)  BY DEF IInv, Accounted, Shut
  <2>2. CASE InUse(c)  BY <2>2 DEF IInv, Framed, InUse
  <2>3. ASSUME NEW t \in Threads, InHand(c, t) PROVE pc[t] # "idle" /\ c \in {using[t], victim[t]}
    BY <2>3 DEF InHand, Shut
  <2>. QED  BY <2>1, <2>2, <2>3
<1>. QED  BY <1>1, StoreInv, PTL

----------------------------------------------------------------------------
(* Memory blocks. *)
HIDE DEF At, Goto, gate, kind, store, locks, stack, closer, Outside, Entered, Even, Shutting, ThreadPc, Made

ChainTyped == BlocksTypeOK /\ calls \in [Callers -> Call]

Sealing == {"fragments", "nodes", "previous"}
Changing == {"owner", "status", "assign", "node"}

(* An open block has no seal, in the table and in a row about to be stored.                  *)
Opened(row) == row.status = "OPEN" => row.seal = NoSeal

(* What a call has to have where it is.                                                       *)
ShapedCall(k) ==
    /\ k.pc = "idle" => k = Resting
    /\ k.pc \in Sealing \cup Changing \cup {"store"} => k.on \in Blocks
    /\ k.pc \in {"owner", "status", "assign", "floor"} => k.member \in Frags
    /\ k.pc = "node" => k.member \in Nodes
    /\ k.pc \in {"nodes", "previous"} => k.found \subseteq Members
    /\ Opened(k.row)

(* No call is about to disturb a block that was sealed undisturbed: who adds to a block or      *)
(* seals it has another in hand, a fragment about to be assigned is in none unless it was         *)
(* forgotten, and copies of rows say where their fragments are.                                     *)
ApartCall(k) ==
    /\ k.pc \in Sealing \cup Changing => k.on \notin quiet
    /\ k.pc = "store" /\ k.on \in quiet => k.row.seal = block[k.on].seal
    /\ k.pc = "status" /\ k.member \notin lost /\ place[k.member] \in quiet => place[k.member] = k.from
    /\ k.pc = "assign" /\ k.member \notin lost => place[k.member] \notin quiet
    /\ \A f \in DOMAIN k.copies, b \in quiet :
          /\ f \notin lost => (k.copies[f] = b <=> place[f] = b)
          /\ k.copies[f] = b => f \in block[b].seal.members

(* What was in such blocks when a pass asked for them is protected, and then not in its hands. *)
SparingCall(k) ==
    /\ k.pc \in {"protect", "filter"} => k.sealed \subseteq k.found
    /\ k.pc \in {"maintain", "floor"} => k.sealed \cap DOMAIN k.copies = {}

(* A set of members that was hashed is what is in the block, but for forgotten fragments.       *)
FragsAgree(S, b) == In(b) \subseteq S /\ (Frags \cap S) \ lost \subseteq In(b)
NodesAgree(S, b) == Nodes \cap S = nodes[b]

(* The members a call has hashed are right as long as it is the only one.                        *)
HashedCall(k) ==
    /\ k.pc = "nodes" => FragsAgree(k.found, k.on) /\ k.found \subseteq Frags
    /\ k.pc = "previous" => FragsAgree(k.found, k.on) /\ NodesAgree(k.found, k.on)
    /\ k.pc = "store" /\ k.row.seal # NoSeal /\ ~IsSealed(k.on) =>
          FragsAgree(k.row.seal.members, k.on) /\ NodesAgree(k.row.seal.members, k.on)
AloneHashed == \A c \in alone : HashedCall(calls[c]) /\ \A d \in Callers \ {c} : Doing(d, "idle")
QuietVerified == \A b \in quiet : /\ IsSealed(b) /\ FragsAgree(block[b].seal.members, b)
                                  /\ NodesAgree(block[b].seal.members, b)

RightCalls == \A c \in Callers : ApartCall(calls[c]) /\ SparingCall(calls[c])
ChainShaped == (\A b \in Blocks : Opened(block[b])) /\ \A c \in Callers : ShapedCall(calls[c])
ChainInv == ChainTyped /\ ChainShaped /\ RightCalls /\ AloneHashed /\ QuietVerified

----------------------------------------------------------------------------

(* A nonempty set of natural numbers has a least element. *)
LEMMA LeastOf == ASSUME NEW S \in SUBSET Nat, S # {} PROVE \E x \in S : \A y \in S : x <= y
<1> DEFINE T == {0..x : x \in S}
<1>1. T \subseteq FiniteSubsetsOf(Nat) /\ T # {}
  <2>1. \A x \in S : IsFiniteSet(0..x) /\ 0..x \in SUBSET Nat
    BY FS_Interval
  <2> QED
    BY <2>1 DEF FiniteSubsetsOf
<1>2. PICK m \in T : \A u \in T : ~(<<u, m>> \in StrictSubsetOrdering(Nat))
  BY <1>1, WFMin, FS_StrictSubsetOrderingWellFounded
<1>3. PICK x \in S : m = 0..x
  BY <1>2
<1>4. ASSUME NEW y \in S, y < x PROVE FALSE
  <2>1. 0..y \in T /\ 0..y \subseteq 0..x /\ x \in 0..x /\ x \notin 0..y
    BY <1>4
  <2>2. <<0..y, 0..x>> \in StrictSubsetOrdering(Nat)
    BY <2>1 DEF StrictSubsetOrdering
  <2> QED
    BY <1>2, <1>3, <2>1, <2>2
<1> QED
  BY <1>4

(* A nonempty bounded set of natural numbers has a greatest one. *)
LEMMA GreatestOf ==
    ASSUME NEW n \in Nat, NEW S \in SUBSET (0..n), S # {} PROVE \E x \in S : \A y \in S : y <= x
<1> DEFINE T == {n - y : y \in S}
<1>1. T \in SUBSET Nat /\ T # {}
  <2>1. \A y \in S : n - y \in Nat
    OBVIOUS
  <2> QED
    BY <2>1
<1>2. PICK m \in T : \A y \in T : m <= y
  BY <1>1, LeastOf
<1>3. PICK x \in S : m = n - x
  BY <1>2
<1>4. \A y \in S : n - x <= n - y
  BY <1>2, <1>3
<1> QED
  BY <1>3, <1>4

LEMMA CopiesAre ==
    \A r : r \in Copies <=>
               /\ DOMAIN r \in SUBSET Frags /\ \A f \in DOMAIN r : r[f] \in Places
               /\ r = [f \in DOMAIN r |-> r[f]]
<1>1. ASSUME NEW r \in Copies
      PROVE  /\ DOMAIN r \in SUBSET Frags /\ \A f \in DOMAIN r : r[f] \in Places
             /\ r = [f \in DOMAIN r |-> r[f]]
  <2>1. PICK S \in SUBSET Frags : r \in [S -> Places]
    BY <1>1 DEF Copies
  <2> QED
    BY <2>1
<1>2. ASSUME NEW r, DOMAIN r \in SUBSET Frags, \A f \in DOMAIN r : r[f] \in Places,
             r = [f \in DOMAIN r |-> r[f]]
      PROVE  r \in Copies
  <2>1. r \in [DOMAIN r -> Places]
    BY <1>2
  <2> QED
    BY <1>2, <2>1 DEF Copies
<1> QED
  BY <1>1, <1>2

LEMMA OpenRowIsRow == OpenRow \in Row /\ OpenRow.seal = NoSeal /\ Opened(OpenRow)
BY DEF OpenRow, Row, Opened

LEMMA RestingIsCall == Resting \in Call /\ Resting.pc = "idle" /\ ShapedCall(Resting)
<1>1. Nothing \in Copies
  <2>1. DOMAIN Nothing = {} /\ Nothing = [f \in DOMAIN Nothing |-> Nothing[f]]
    BY DEF Nothing
  <2> QED
    BY <2>1, CopiesAre
<1>2. Resting \in Call /\ Resting.pc = "idle" /\ Resting.row = OpenRow
  BY <1>1, OpenRowIsRow DEF Resting, Call, Steps, Places
<1> QED
  BY <1>2, OpenRowIsRow DEF ShapedCall, Sealing, Changing

(* A call that does nothing disturbs nothing.                                                     *)
LEMMA RestingIsRight == ApartCall(Resting) /\ SparingCall(Resting) /\ HashedCall(Resting)
<1>1. Resting.pc = "idle" /\ DOMAIN Resting.copies = {}
  BY DEF Resting, Nothing
<1> QED
  BY <1>1 DEF ApartCall, SparingCall, HashedCall, Sealing, Changing

Becomes(c, k) ==
    /\ calls' \in [Callers -> Call] /\ calls'[c] = k
    /\ \A d \in Callers \ {c} : calls'[d] = calls[d]

LEMMA BecomeOne == ASSUME ChainTyped, NEW c \in Callers, NEW k \in Call, Become(c, k)
PROVE  Becomes(c, k)
BY DEF ChainTyped, Become, Becomes

(* A step after the first is that of the only call, if there is one.                               *)
LEMMA OnlyOneActs ==
    ASSUME AloneHashed, NEW c \in Callers, ~Doing(c, "idle"), NEW a \in alone PROVE a = c
BY DEF AloneHashed

LEMMA ShapedNext ==
    ASSUME ChainShaped, NEW c \in Callers, NEW k \in Call, ShapedCall(k), Becomes(c, k)
    PROVE  \A d \in Callers : ShapedCall(calls'[d])
BY DEF ChainShaped, Becomes

(* Who begins a call or goes on in it, and changes no table.                                          *)
Proceeds(c) == \/ alone' = alone /\ ~Doing(c, "idle")
               \/ alone' = {}
               \/ alone' = {c} /\ \A d \in Callers : Doing(d, "idle")

LEMMA LocalStep ==
    ASSUME ChainInv, NEW c \in Callers, NEW k \in Call, Become(c, k), Proceeds(c),
           UNCHANGED <<block, place, nodes, quiet, lost>>, clock' \in 0..MaxSeals,
           ShapedCall(k), ApartCall(k), SparingCall(k), c \in alone' => HashedCall(k)
    PROVE  ChainInv'
<1>1. Becomes(c, k)
  BY BecomeOne DEF ChainInv
<1>2. alone' \in SUBSET Callers
  BY DEF Proceeds, ChainInv, ChainTyped, BlocksTypeOK
<1>3. ChainTyped'
  BY <1>1, <1>2, MemberAssumption, CallerAssumption, SealAssumption
     DEF ChainInv, ChainTyped, BlocksTypeOK, Becomes
<1>4. ChainShaped'
  BY <1>1, ShapedNext DEF ChainInv, ChainShaped
<1>5. RightCalls'
  <2>1. SUFFICES ASSUME NEW d \in Callers PROVE (ApartCall(calls[d]) /\ SparingCall(calls[d]))'
    BY DEF RightCalls
  <2>2. CASE d = c
    BY <1>1, <2>2 DEF ApartCall, SparingCall, Becomes
  <2>3. CASE d # c
    BY <1>1, <2>3 DEF ApartCall, SparingCall, Becomes, ChainInv, RightCalls
  <2> QED
    BY <2>2, <2>3
<1>6. AloneHashed'
  <2>1. SUFFICES ASSUME NEW a \in alone'
                 PROVE  HashedCall(calls[a])' /\ \A d \in Callers \ {a} : Doing(d, "idle")'
    BY DEF AloneHashed
  <2>2. a = c
    BY <2>1, OnlyOneActs DEF Proceeds, ChainInv
  <2>3. \A d \in Callers \ {c} : Doing(d, "idle")
    BY <2>1, <2>2 DEF Proceeds, ChainInv, AloneHashed
  <2>4. HashedCall(calls[c])'
    BY <1>1, <2>1, <2>2 DEF HashedCall, Becomes, FragsAgree, NodesAgree, In, IsSealed
  <2> QED
    BY <1>1, <2>2, <2>3, <2>4 DEF Doing, Becomes
<1>7. QuietVerified'
  BY DEF ChainInv, QuietVerified, FragsAgree, NodesAgree, In, IsSealed
<1> QED
  BY <1>3, <1>4, <1>5, <1>6, <1>7 DEF ChainInv

LEMMA BeginStep ==
    ASSUME ChainInv, NEW c \in Callers, NEW k \in Call, Start(c, k),
           ShapedCall(k), ApartCall(k), SparingCall(k), HashedCall(k)
    PROVE  ChainInv'
<1>1. Become(c, k) /\ UNCHANGED <<block, place, nodes, quiet, lost, clock>>
  BY DEF Start, tables
<1>2. Proceeds(c)
  BY DEF Start, Proceeds
<1>3. clock' \in 0..MaxSeals
  BY <1>1 DEF ChainInv, ChainTyped, BlocksTypeOK
<1> QED
  BY <1>1, <1>2, <1>3, LocalStep

LEMMA GoOnStep ==
    ASSUME ChainInv, NEW c \in Callers, NEW k \in Call, ~Doing(c, "idle"), Local(c, k),
           ShapedCall(k), ApartCall(k), SparingCall(k), c \in alone => HashedCall(k)
    PROVE  ChainInv'
<1>1. Become(c, k) /\ alone' = alone /\ UNCHANGED <<block, place, nodes, quiet, lost, clock>>
  BY DEF Local, tables, past
<1>2. Proceeds(c)
  BY <1>1 DEF Proceeds
<1>3. clock' \in 0..MaxSeals
  BY <1>1 DEF ChainInv, ChainTyped, BlocksTypeOK
<1> QED
  BY <1>1, <1>2, <1>3, LocalStep

(* What the steps below have in hand. *)
LEMMA CallInHand ==
    ASSUME ChainInv, NEW c \in Callers
    PROVE  /\ calls[c] \in Call /\ ShapedCall(calls[c])
           /\ ApartCall(calls[c]) /\ SparingCall(calls[c])
           /\ c \in alone => HashedCall(calls[c])
BY DEF ChainInv, ChainTyped, ChainShaped, RightCalls, AloneHashed

LEMMA BlockInHand ==
    ASSUME ChainInv, NEW b \in Blocks
    PROVE  /\ block[b] \in Row /\ Opened(block[b]) /\ place \in [Frags -> Places]
           /\ (b \in quiet => IsSealed(b) /\ FragsAgree(block[b].seal.members, b))
           /\ block[b].status = "OPEN" => b \notin quiet
BY DEF ChainInv, ChainTyped, BlocksTypeOK, ChainShaped, Opened, QuietVerified, IsSealed

----------------------------------------------------------------------------
(* seal(), quarantine(), release(). *)

LEMMA BeginSealStep ==
    ASSUME ChainInv, NEW c \in Callers, NEW b \in Blocks, BeginSeal(c, b) PROVE ChainInv'
<1> DEFINE k == [Resting EXCEPT !.pc = "fragments", !.on = b]
<1>1. Start(c, k) /\ b \notin quiet
  BY BlockInHand DEF BeginSeal, MaySeal
<1>2. /\ k \in Call /\ k.pc = "fragments" /\ k.on = b /\ k.row = OpenRow
      /\ DOMAIN k.copies = {}
  BY RestingIsCall DEF Call, Steps, Resting, Nothing
<1> HIDE DEF k
<1>3. ShapedCall(k) /\ ApartCall(k) /\ SparingCall(k) /\ HashedCall(k)
  BY <1>1, <1>2, OpenRowIsRow DEF ShapedCall, ApartCall, SparingCall, HashedCall, Sealing, Changing
<1> QED
  BY <1>1, <1>2, <1>3, BeginStep

LEMMA HashFragmentsStep ==
    ASSUME ChainInv, NEW c \in Callers, HashFragments(c) PROVE ChainInv'
<1> DEFINE k == [calls[c] EXCEPT !.pc = "nodes", !.found = In(calls[c].on)]
<1>1. Local(c, k) /\ calls[c].pc = "fragments"
  BY DEF HashFragments, Doing
<1>2. /\ k \in Call /\ k.pc = "nodes" /\ k.on = calls[c].on /\ k.row = calls[c].row
      /\ k.found = In(calls[c].on) /\ k.copies = calls[c].copies
  BY CallInHand DEF Call, Steps, In, Members
<1> HIDE DEF k
<1>3. ShapedCall(k) /\ ApartCall(k) /\ SparingCall(k)
  BY <1>1, <1>2, CallInHand DEF ShapedCall, ApartCall, SparingCall, Sealing, Changing, In, Members
<1>4. HashedCall(k)
  BY <1>2 DEF HashedCall, FragsAgree, In
<1> QED
  BY <1>1, <1>2, <1>3, <1>4, GoOnStep DEF Doing

LEMMA HashNodesStep ==
    ASSUME ChainInv, NEW c \in Callers, HashNodes(c) PROVE ChainInv'
<1> DEFINE k == [calls[c] EXCEPT !.pc = "previous", !.found = @ \cup nodes[calls[c].on]]
<1>1. Local(c, k) /\ calls[c].pc = "nodes" /\ calls[c].on \in Blocks
  BY CallInHand DEF HashNodes, Doing, ShapedCall, Sealing
<1>2. nodes[calls[c].on] \in SUBSET Nodes /\ calls[c].found \in SUBSET Members
  BY <1>1, CallInHand DEF ChainInv, ChainTyped, BlocksTypeOK, ShapedCall
<1>3. /\ k \in Call /\ k.pc = "previous" /\ k.on = calls[c].on /\ k.row = calls[c].row
      /\ k.found = calls[c].found \cup nodes[calls[c].on] /\ k.copies = calls[c].copies
  BY <1>2, CallInHand DEF Call, Steps, Members
<1> HIDE DEF k
<1>4. ShapedCall(k)
  BY <1>1, <1>2, <1>3, CallInHand DEF ShapedCall, Sealing, Changing, Members
<1>5. ApartCall(k) /\ SparingCall(k)
  BY <1>1, <1>3, CallInHand DEF ApartCall, SparingCall, Sealing, Changing
<1>6. c \in alone => HashedCall(k)
  <2>1. Frags \cap Nodes = {}
    BY MemberAssumption, CallerAssumption, SealAssumption DEF ChainInv, ChainTyped
  <2> QED
    BY <1>1, <1>2, <1>3, <2>1, CallInHand DEF HashedCall, FragsAgree, NodesAgree, In
<1> QED
  BY <1>1, <1>3, <1>4, <1>5, <1>6, GoOnStep DEF Doing

(* The greatest sealed_at of some sealed blocks belongs to one of them.                            *)
LEMMA LatestOne ==
    ASSUME ChainTyped, NEW S \in SUBSET Blocks, S # {}, \A p \in S : block[p].status = "SEALED"
    PROVE  Latest(S) \in S
<1>1. \A p \in S : block[p].seal.at \in 1..MaxSeals
  <2>1. ASSUME NEW p \in S PROVE block[p].seal \in Seal
    BY DEF ChainTyped, BlocksTypeOK, Row
  <2> QED
    BY <2>1 DEF Seal
<1> DEFINE T == {block[p].seal.at : p \in S}
<1>2. T \in SUBSET (0..MaxSeals) /\ T # {} /\ MaxSeals \in Nat
  BY <1>1, MemberAssumption, CallerAssumption, SealAssumption DEF ChainTyped
<1>3. PICK x \in T : \A y \in T : y <= x
  <2> HIDE DEF T
  <2> QED
    BY <1>2, GreatestOf
<1>4. PICK p \in S : x = block[p].seal.at
  BY <1>3
<1>5. \A q \in S : block[q].seal.at <= block[p].seal.at
  BY <1>3, <1>4
<1> QED
  BY <1>4, <1>5 DEF Latest

(* The row that seal() stores. *)
NextSeal(k) ==
    LET prev == Latest(Candidates(k.on)) IN
    [members |-> k.found, prev |-> prev,
     prevHash |-> IF prev = NoBlock THEN {} ELSE block[prev].seal.members, at |-> clock + 1]

LEMMA SealMade ==
    ASSUME ChainInv, NEW c \in Callers, FindPrevious(c)
    PROVE  /\ NextSeal(calls[c]) \in Seal
           /\ LET C == Candidates(calls[c].on) IN
              NextSeal(calls[c]).prev \in IF C = {} THEN {NoBlock} ELSE C
<1> DEFINE C == Candidates(calls[c].on)
           prev == Latest(C)
<1>1. C # {} => prev \in C
  <2>1. C \in SUBSET Blocks /\ \A p \in C : block[p].status = "SEALED"
    BY DEF Candidates
  <2> HIDE DEF C
  <2> QED
    BY <2>1, LatestOne DEF ChainInv
<1>2. C = {} => prev = NoBlock
  BY DEF Latest
<1>3. prev \in Blocks /\ block[prev].status = "SEALED" => block[prev].seal.members \in SUBSET Members
  <2> HIDE DEF prev
  <2>1. block \in [Blocks -> Row]
    BY DEF ChainInv, ChainTyped, BlocksTypeOK
  <2>2. ASSUME prev \in Blocks, block[prev].status = "SEALED" PROVE block[prev].seal \in Seal
    BY <2>1, <2>2 DEF Row
  <2> QED
    BY <2>2 DEF Seal
<1>4. NoBlock \notin C /\ \A p \in C : p \in Blocks /\ block[p].status = "SEALED"
  BY MemberAssumption, CallerAssumption, SealAssumption DEF Candidates, ChainInv, ChainTyped
<1>5. calls[c].found \in SUBSET Members
  BY CallInHand DEF FindPrevious, Doing, ShapedCall
<1>6. clock + 1 \in 1..MaxSeals
  BY MemberAssumption, CallerAssumption, SealAssumption
     DEF FindPrevious, ChainInv, ChainTyped, BlocksTypeOK
<1>7. NextSeal(calls[c]).prev = prev
  BY DEF NextSeal
<1>8. NextSeal(calls[c]) = [members |-> calls[c].found, prev |-> prev,
          prevHash |-> IF prev = NoBlock THEN {} ELSE block[prev].seal.members, at |-> clock + 1]
  BY DEF NextSeal
<1> HIDE DEF C, prev
<1>9. NextSeal(calls[c]) \in Seal
  BY <1>1, <1>2, <1>3, <1>4, <1>5, <1>6, <1>8 DEF Seal
<1> QED
  BY <1>1, <1>2, <1>7, <1>9 DEF C

LEMMA FindPreviousStep ==
    ASSUME ChainInv, NEW c \in Callers, FindPrevious(c) PROVE ChainInv'
<1> DEFINE s == NextSeal(calls[c])
           r == [status |-> "SEALED", seal |-> s]
           k == [calls[c] EXCEPT !.pc = "store", !.found = {}, !.row = r]
<1>1. Become(c, k) /\ calls[c].pc = "previous" /\ UNCHANGED <<block, place, nodes, quiet, lost, alone>>
  BY DEF FindPrevious, NextSeal, Doing, past
<1>2. clock' \in 0..MaxSeals
  BY MemberAssumption, CallerAssumption, SealAssumption
     DEF FindPrevious, ChainInv, ChainTyped, BlocksTypeOK
<1>3. s.members = calls[c].found
  BY DEF NextSeal
<1>4. s \in Seal /\ s # NoSeal
  BY SealMade, MemberAssumption, CallerAssumption, SealAssumption DEF ChainInv, ChainTyped
<1> HIDE DEF s
<1>5. r \in Row /\ Opened(r) /\ r.seal = s
  BY <1>4 DEF Row, Opened
<1> HIDE DEF r
<1>6. /\ k \in Call /\ k.pc = "store" /\ k.on = calls[c].on /\ k.row = r /\ k.copies = calls[c].copies
  BY <1>5, CallInHand DEF Call, Steps
<1> HIDE DEF k
<1>7. ShapedCall(k) /\ SparingCall(k)
  BY <1>1, <1>5, <1>6, CallInHand DEF ShapedCall, SparingCall, Sealing, Changing
<1>8. ApartCall(k)
  BY <1>1, <1>6, CallInHand DEF ApartCall, Sealing, Changing
<1>9. c \in alone => HashedCall(k)
  BY <1>1, <1>3, <1>5, <1>6, CallInHand DEF HashedCall
<1>10. Proceeds(c)
  BY <1>1 DEF Proceeds, Doing
<1> QED
  BY <1>1, <1>2, <1>6, <1>7, <1>8, <1>9, <1>10, LocalStep

(* Quarantine and release keep the seal of the row they read. *)
LEMMA BeginStoreStep ==
    ASSUME ChainInv, NEW c \in Callers, NEW b \in Blocks,
           NEW r \in {Quarantined(block[b]), Released(block[b])},
           Start(c, [Resting EXCEPT !.pc = "store", !.on = b, !.row = r])
    PROVE  ChainInv'
<1> DEFINE k == [Resting EXCEPT !.pc = "store", !.on = b, !.row = r]
<1>1. Start(c, k)
  OBVIOUS
<1>2. block[b] \in Row /\ Opened(block[b])
  BY BlockInHand
<1>3. r \in Row /\ Opened(r) /\ r.seal = block[b].seal
  BY <1>2 DEF Row, Opened, Quarantined, Released
<1>4. /\ k \in Call /\ k.pc = "store" /\ k.on = b /\ k.row = r /\ DOMAIN k.copies = {}
  BY <1>3, RestingIsCall DEF Call, Steps, Resting, Nothing
<1> HIDE DEF k
<1>5. ShapedCall(k) /\ ApartCall(k) /\ SparingCall(k) /\ HashedCall(k)
  BY <1>3, <1>4 DEF ShapedCall, ApartCall, SparingCall, HashedCall, Sealing, Changing, IsSealed
<1> QED
  BY <1>1, <1>4, <1>5, BeginStep

LEMMA StoreBlockStep ==
    ASSUME ChainInv, NEW c \in Callers, StoreBlock(c) PROVE ChainInv'
<1> DEFINE k == calls[c]
           r == calls[c].row
           b == calls[c].on
           seals == r.seal # NoSeal /\ ~IsSealed(b) /\ c \in alone
<1>1. /\ k.pc = "store" /\ block' = [block EXCEPT ![b] = r] /\ Become(c, Resting)
      /\ quiet' = (IF seals THEN quiet \cup {b} ELSE quiet)
      /\ UNCHANGED <<place, nodes, clock, alone, lost>>
  BY DEF StoreBlock, Doing
<1>2. b \in Blocks /\ r \in Row /\ Opened(r)
  BY <1>1, CallInHand DEF ShapedCall, Call
<1>3. Becomes(c, Resting)
  BY <1>1, RestingIsCall, BecomeOne DEF ChainInv
<1>4. b \in quiet => r.seal = block[b].seal /\ IsSealed(b)
  BY <1>1, <1>2, CallInHand, BlockInHand DEF ApartCall
<1>5. /\ block' \in [Blocks -> Row] /\ block'[b] = r
      /\ \A d \in Blocks \ {b} : block'[d] = block[d]
  BY <1>1, <1>2 DEF ChainInv, ChainTyped, BlocksTypeOK
<1>6. quiet \subseteq quiet' /\ quiet' \subseteq quiet \cup {b} /\ quiet \subseteq Blocks
  BY <1>1 DEF ChainInv, ChainTyped, BlocksTypeOK
<1>7. ASSUME NEW d \in quiet PROVE d \in Blocks /\ block'[d].seal = block[d].seal
  BY <1>4, <1>5, <1>6, <1>7
<1>8. b \in quiet' /\ b \notin quiet => seals
  BY <1>1
<1>9. seals => \A d \in Callers \ {c} : calls[d] = Resting
  BY DEF ChainInv, AloneHashed, ChainShaped, ShapedCall, Doing
<1>10. ChainTyped'
  <2>1. quiet' \in SUBSET Blocks
    BY <1>2, <1>6
  <2> QED
    BY <1>1, <1>3, <1>5, <2>1, MemberAssumption, CallerAssumption, SealAssumption
       DEF ChainInv, ChainTyped, BlocksTypeOK, Becomes
<1>11. ChainShaped'
  <2>1. \A d \in Blocks : Opened(block'[d])
    BY <1>2, <1>5 DEF ChainInv, ChainShaped
  <2>2. \A d \in Callers : ShapedCall(calls'[d])
    BY <1>3, RestingIsCall, ShapedNext DEF ChainInv
  <2> QED
    BY <2>1, <2>2 DEF ChainShaped, ShapedCall, Opened
<1>12. RightCalls'
  <2>1. SUFFICES ASSUME NEW d \in Callers PROVE (ApartCall(calls[d]) /\ SparingCall(calls[d]))'
    BY DEF RightCalls
  <2>2. CASE calls'[d] = Resting
    BY <2>2, RestingIsRight DEF ApartCall, SparingCall, Resting, Nothing, Sealing, Changing
  <2>3. CASE calls'[d] # Resting
    <3> HIDE DEF seals, r, b
    <3>1. d # c /\ calls'[d] = calls[d] /\ ~seals
      BY <1>3, <1>9, <2>3 DEF Becomes
    <3>2. quiet' = quiet
      BY <1>1, <3>1
    <3>3. ApartCall(calls[d]) /\ SparingCall(calls[d])
      BY DEF ChainInv, RightCalls
    <3>4. \A e \in quiet : block'[e].seal = block[e].seal
      BY <1>7
    <3>5. ApartCall(calls[d])'
      BY <1>1, <3>1, <3>2, <3>3, <3>4 DEF ApartCall
    <3> QED
      BY <3>1, <3>3, <3>5 DEF SparingCall
  <2> QED
    BY <2>2, <2>3
<1>13. AloneHashed'
  <2>1. SUFFICES ASSUME NEW a \in alone'
                 PROVE  HashedCall(calls[a])' /\ \A d \in Callers \ {a} : Doing(d, "idle")'
    BY DEF AloneHashed
  <2>2. a = c /\ \A d \in Callers \ {c} : Doing(d, "idle")
    BY <1>1, <2>1, OnlyOneActs DEF ChainInv, AloneHashed, Doing
  <2>3. HashedCall(calls[c])'
    BY <1>3, RestingIsCall DEF HashedCall, Becomes
  <2> QED
    BY <1>3, <2>2, <2>3 DEF Doing, Becomes
<1>14. QuietVerified'
  <2>1. SUFFICES ASSUME NEW d \in quiet'
                 PROVE  (/\ IsSealed(d) /\ FragsAgree(block[d].seal.members, d)
                         /\ NodesAgree(block[d].seal.members, d))'
    BY DEF QuietVerified
  <2>2. CASE d \in quiet
    BY <1>1, <1>7, <2>2 DEF ChainInv, QuietVerified, IsSealed, FragsAgree, NodesAgree, In
  <2>3. CASE d \notin quiet
    <3>1. d = b /\ seals
      BY <1>1, <2>1, <2>3
    <3>2. FragsAgree(r.seal.members, b) /\ NodesAgree(r.seal.members, b)
      BY <1>1, <3>1, CallInHand DEF HashedCall
    <3> QED
      BY <1>1, <1>5, <3>1, <3>2 DEF IsSealed, FragsAgree, NodesAgree, In
  <2> QED
    BY <2>2, <2>3
<1> QED
  BY <1>10, <1>11, <1>12, <1>13, <1>14 DEF ChainInv

----------------------------------------------------------------------------
(* Steps that write fragment rows. *)

(* A write of rows leaves undisturbed blocks with what they had, but for forgotten fragments. *)
RowsWritten ==
    /\ place' \in [Frags -> Places] /\ lost' \in SUBSET Frags /\ lost \subseteq lost'
    /\ UNCHANGED <<block, nodes, clock, alone, quiet>>
    /\ \A f \in Frags \ lost', b \in quiet : place'[f] = b <=> place[f] = b
    /\ \A f \in Frags, b \in quiet : place'[f] = b => place[f] = b \/ f \in block[b].seal.members

LEMMA RowsVerify == ASSUME ChainInv, RowsWritten PROVE QuietVerified'
<1>1. SUFFICES ASSUME NEW b \in quiet
               PROVE  (/\ IsSealed(b) /\ FragsAgree(block[b].seal.members, b)
                       /\ NodesAgree(block[b].seal.members, b))'
  BY DEF QuietVerified, RowsWritten
<1> DEFINE S == block[b].seal.members
<1>2. IsSealed(b) /\ FragsAgree(S, b) /\ NodesAgree(S, b)
  BY DEF ChainInv, QuietVerified
<1>3. block' = block /\ nodes' = nodes /\ lost \subseteq lost'
  BY DEF RowsWritten
<1>4. \A f \in Frags : place'[f] = b => f \in S
  BY <1>2 DEF RowsWritten, FragsAgree, In
<1>5. \A f \in Frags \ lost' : f \in S => place'[f] = b
  BY <1>2, <1>3 DEF RowsWritten, FragsAgree, In
<1> QED
  BY <1>2, <1>3, <1>4, <1>5 DEF IsSealed, FragsAgree, NodesAgree, In

(* Who has copies or a fragment in hand still has them right. *)
LEMMA RowsCopied ==
    ASSUME ChainInv, RowsWritten, NEW c \in Callers, NEW k \in Call,
           \A f \in DOMAIN k.copies : f \in DOMAIN calls[c].copies /\ k.copies[f] = calls[c].copies[f],
           k = calls[c] \/ k.pc \in {"idle", "maintain", "floor"}
    PROVE  ApartCall(k)'
<1>1. ApartCall(calls[c]) /\ ShapedCall(calls[c]) /\ calls[c] \in Call
  BY CallInHand
<1>2. block' = block /\ lost \subseteq lost' /\ quiet' = quiet
  BY DEF RowsWritten
<1>3. ASSUME NEW f \in DOMAIN k.copies, NEW b \in quiet
      PROVE  /\ f \notin lost' => (k.copies[f] = b <=> place'[f] = b)
             /\ k.copies[f] = b => f \in block[b].seal.members
  <2>1. f \in Frags /\ f \in DOMAIN calls[c].copies /\ k.copies[f] = calls[c].copies[f]
    BY CopiesAre DEF Call
  <2>2. /\ f \notin lost => (k.copies[f] = b <=> place[f] = b)
        /\ k.copies[f] = b => f \in block[b].seal.members
    BY <1>1, <2>1 DEF ApartCall
  <2> QED
    BY <1>2, <2>1, <2>2 DEF RowsWritten
<1>4. CASE k.pc \in {"idle", "maintain", "floor"}
  BY <1>2, <1>3, <1>4 DEF ApartCall, Sealing, Changing
<1>5. CASE k = calls[c]
  <2>1. k.pc \in {"status", "assign"} /\ k.member \notin lost' =>
          k.member \in Frags \ lost' /\ k.member \notin lost
    BY <1>1, <1>2, <1>5 DEF ShapedCall
  <2>2. k.pc = "status" /\ k.member \notin lost' /\ place'[k.member] \in quiet =>
          place'[k.member] = k.from
    BY <1>1, <1>5, <2>1 DEF ApartCall, RowsWritten
  <2>3. k.pc = "assign" /\ k.member \notin lost' => place'[k.member] \notin quiet
    BY <1>1, <1>5, <2>1 DEF ApartCall, RowsWritten
  <2> QED
    BY <1>1, <1>2, <1>3, <1>5, <2>2, <2>3 DEF ApartCall
<1> QED
  BY <1>4, <1>5

(* The step of a call that writes rows. *)
LEMMA WriteStep ==
    ASSUME ChainInv, RowsWritten, NEW c \in Callers, NEW k \in Call,
           ~Doing(c, "idle"), Become(c, k), ShapedCall(k), k.pc \in {"idle", "maintain", "floor"},
           \A f \in DOMAIN k.copies : f \in DOMAIN calls[c].copies /\ k.copies[f] = calls[c].copies[f],
           SparingCall(k)
    PROVE  ChainInv'
<1>1. Becomes(c, k)
  BY BecomeOne DEF ChainInv
<1>2. ChainTyped'
  BY <1>1, MemberAssumption, CallerAssumption, SealAssumption
     DEF ChainInv, ChainTyped, BlocksTypeOK, Becomes, RowsWritten
<1>3. ChainShaped'
  BY <1>1, ShapedNext DEF ChainInv, ChainShaped, RowsWritten
<1>4. RightCalls'
  <2>1. SUFFICES ASSUME NEW d \in Callers PROVE (ApartCall(calls[d]) /\ SparingCall(calls[d]))'
    BY DEF RightCalls
  <2>2. PICK l \in Call : l = calls'[d]
    BY <1>1 DEF Becomes
  <2>3. \/ d # c /\ l = calls[d] /\ SparingCall(l)
        \/ d = c /\ l = k
    BY <1>1, <2>2, CallInHand DEF Becomes
  <2>4. ApartCall(l)' /\ SparingCall(l)
    BY <2>3, RowsCopied
  <2> QED
    BY <2>2, <2>4 DEF ApartCall, SparingCall
<1>5. AloneHashed'
  <2>1. SUFFICES ASSUME NEW a \in alone'
                 PROVE  HashedCall(calls[a])' /\ \A d \in Callers \ {a} : Doing(d, "idle")'
    BY DEF AloneHashed
  <2>2. a = c /\ \A d \in Callers \ {c} : Doing(d, "idle")
    BY <2>1, OnlyOneActs DEF ChainInv, AloneHashed, Doing, RowsWritten
  <2>3. HashedCall(calls[c])'
    BY <1>1 DEF HashedCall, Becomes
  <2> QED
    BY <1>1, <2>2, <2>3 DEF Doing, Becomes
<1>6. QuietVerified'
  BY RowsVerify
<1> QED
  BY <1>2, <1>3, <1>4, <1>5, <1>6 DEF ChainInv

LEMMA RowForgotten ==
    ASSUME ChainInv, NEW f \in Frags, Delete(f), UNCHANGED <<block, nodes, clock, alone, quiet>>
    PROVE  RowsWritten
<1>1. /\ place \in [Frags -> Places] /\ lost \in SUBSET Frags
      /\ quiet \subseteq Blocks /\ Gone \notin Blocks
  BY MemberAssumption, CallerAssumption, SealAssumption DEF ChainInv, ChainTyped, BlocksTypeOK
<1> QED
  BY <1>1 DEF RowsWritten, Delete, Places

(* A row stored from a copy. *)
LEMMA RowFromCopy ==
    ASSUME ChainInv, NEW c \in Callers, NEW f \in DOMAIN calls[c].copies, Upsert(c, f),
           UNCHANGED <<block, nodes, clock, alone, quiet, lost>>
    PROVE  RowsWritten
<1>1. /\ place \in [Frags -> Places] /\ lost \in SUBSET Frags
  BY DEF ChainInv, ChainTyped, BlocksTypeOK
<1>2. f \in Frags /\ calls[c].copies[f] \in Places
  BY CallInHand, CopiesAre DEF Call
<1>3. \A b \in quiet : /\ f \notin lost => (calls[c].copies[f] = b <=> place[f] = b)
                       /\ calls[c].copies[f] = b => f \in block[b].seal.members
  BY CallInHand DEF ApartCall
<1> QED
  BY <1>1, <1>2, <1>3 DEF RowsWritten, Upsert

LEMMA ForgetStep ==
    ASSUME ChainInv, NEW f \in Frags, Forget(f) PROVE ChainInv'
<1>1. Delete(f) /\ UNCHANGED <<block, nodes, clock, calls, alone, quiet>>
  BY DEF Forget
<1>2. RowsWritten
  BY <1>1, RowForgotten
<1>3. ChainTyped' /\ ChainShaped'
  BY <1>1, <1>2, MemberAssumption, CallerAssumption, SealAssumption
     DEF ChainInv, ChainTyped, BlocksTypeOK, ChainShaped, RowsWritten
<1>4. RightCalls'
  <2>1. SUFFICES ASSUME NEW d \in Callers PROVE (ApartCall(calls[d]) /\ SparingCall(calls[d]))'
    BY DEF RightCalls
  <2>2. PICK l \in Call : l = calls[d] /\ SparingCall(l)
    BY CallInHand
  <2>3. ApartCall(l)'
    BY <1>2, <2>2, RowsCopied
  <2> QED
    BY <1>1, <2>2, <2>3 DEF ApartCall, SparingCall
<1>5. AloneHashed'
  <2>1. \A S, b : FragsAgree(S, b) /\ b \in Blocks => FragsAgree(S, b)'
    <3>1. Gone \notin Blocks /\ place \in [Frags -> Places]
      BY MemberAssumption, CallerAssumption, SealAssumption DEF ChainInv, ChainTyped, BlocksTypeOK
    <3>2. ASSUME NEW b \in Blocks PROVE In(b)' = In(b) \ {f}
      BY <1>1, <3>1 DEF Delete, In
    <3> QED
      BY <1>1, <3>2 DEF FragsAgree, Delete
  <2>2. ASSUME NEW a \in alone PROVE HashedCall(calls[a])'
    <3>1. HashedCall(calls[a]) /\ ShapedCall(calls[a])
      BY CallInHand DEF ChainInv, ChainTyped, BlocksTypeOK
    <3>2. calls[a].pc \in {"nodes", "previous", "store"} => calls[a].on \in Blocks
      BY <3>1 DEF ShapedCall, Sealing
    <3> QED
      BY <1>1, <2>1, <3>1, <3>2 DEF HashedCall, NodesAgree, IsSealed
  <2> QED
    BY <1>1, <2>2 DEF ChainInv, AloneHashed, Doing
<1>6. QuietVerified'
  BY <1>2, RowsVerify
<1> QED
  BY <1>3, <1>4, <1>5, <1>6 DEF ChainInv

(* A call that ends. *)
LEMMA LastWriteStep ==
    ASSUME ChainInv, RowsWritten, NEW c \in Callers, ~Doing(c, "idle"), Become(c, Resting)
    PROVE  ChainInv'
<1>1. DOMAIN Resting.copies = {}
  BY DEF Resting, Nothing
<1> QED
  BY <1>1, RestingIsCall, RestingIsRight, WriteStep

LEMMA AssignStep ==
    ASSUME ChainInv, NEW c \in Callers, Assign(c) PROVE ChainInv'
<1> DEFINE k == calls[c]
<1>1. /\ k.pc = "assign" /\ Become(c, Resting)
      /\ UNCHANGED <<block, nodes, clock, alone, quiet, lost>>
      /\ place' = place \/ place' = [place EXCEPT ![k.member] = k.on]
  BY DEF Assign, Doing, past
<1>2. k.member \in Frags /\ k.on \in Blocks /\ k.on \notin quiet
  BY <1>1, CallInHand DEF ShapedCall, ApartCall, Changing
<1>3. k.member \notin lost => place[k.member] \notin quiet
  BY <1>1, CallInHand DEF ApartCall
<1>4. place \in [Frags -> Places] /\ lost \in SUBSET Frags
  BY DEF ChainInv, ChainTyped, BlocksTypeOK
<1> HIDE DEF k
<1>5. RowsWritten
  BY <1>1, <1>2, <1>3, <1>4 DEF RowsWritten, Places
<1> QED
  BY <1>1, <1>5, LastWriteStep DEF k, Doing

LEMMA WriteBackStep ==
    ASSUME ChainInv, NEW c \in Callers, WriteBack(c) PROVE ChainInv'
<1>1. RowsWritten
  BY RowFromCopy DEF WriteBack, past
<1> QED
  BY <1>1, LastWriteStep DEF WriteBack, Doing

LEMMA RewriteStep ==
    ASSUME ChainInv, NEW c \in Callers, NEW f \in Frags, Rewrite(c, f) PROVE ChainInv'
<1> DEFINE k == [calls[c] EXCEPT !.pc = "floor", !.member = f]
<1>1. RowsWritten
  BY RowFromCopy DEF Rewrite, past
<1>2. calls[c].pc = "maintain" /\ Become(c, k)
  BY DEF Rewrite, Doing
<1>3. /\ k \in Call /\ k.pc = "floor" /\ k.member = f /\ k.row = calls[c].row
      /\ k.copies = calls[c].copies /\ k.sealed = calls[c].sealed
  BY CallInHand DEF Call, Steps, Members
<1> HIDE DEF k
<1>4. ShapedCall(k) /\ SparingCall(k)
  BY <1>2, <1>3, CallInHand DEF ShapedCall, SparingCall, Sealing, Changing
<1> QED
  BY <1>1, <1>2, <1>3, <1>4, WriteStep DEF Doing

(* What a pass goes on with when it is through with a fragment. *)
LEMMA PassGoesOn ==
    ASSUME ChainInv, NEW c \in Callers, NEW f \in Frags, InTurn(c, f)
    PROVE  /\ Done(c, f) \in Call /\ Done(c, f).pc = "maintain" /\ ~Doing(c, "idle")
           /\ ShapedCall(Done(c, f)) /\ SparingCall(Done(c, f))
           /\ \A g \in DOMAIN Done(c, f).copies :
                 g \in DOMAIN calls[c].copies /\ Done(c, f).copies[g] = calls[c].copies[g]
<1> DEFINE k == Done(c, f)
           r == Without(c, f)
<1>1. calls[c].pc \in {"maintain", "floor"}
  BY DEF InTurn, Doing
<1>2. /\ r \in Copies /\ DOMAIN r = DOMAIN calls[c].copies \ {f}
      /\ \A g \in DOMAIN r : r[g] = calls[c].copies[g]
  <2>1. /\ DOMAIN calls[c].copies \in SUBSET Frags
        /\ \A g \in DOMAIN calls[c].copies : calls[c].copies[g] \in Places
    BY CallInHand, CopiesAre DEF Call
  <2> QED
    BY <2>1, CopiesAre DEF Without
<1> HIDE DEF r
<1>3. /\ k \in Call /\ k.pc = "maintain" /\ k.copies = r /\ k.row = calls[c].row
      /\ k.sealed = calls[c].sealed
  BY <1>2, CallInHand DEF Call, Steps, Done, r
<1> HIDE DEF k
<1>4. ShapedCall(k) /\ SparingCall(k)
  BY <1>1, <1>2, <1>3, CallInHand DEF ShapedCall, SparingCall, Sealing, Changing
<1> QED
  BY <1>1, <1>2, <1>3, <1>4 DEF k, Doing

LEMMA PruneStep ==
    ASSUME ChainInv, NEW c \in Callers, NEW f \in Frags, Prune(c, f) PROVE ChainInv'
<1>1. RowsWritten /\ InTurn(c, f) /\ Become(c, Done(c, f))
  BY RowForgotten DEF Prune
<1> QED
  BY <1>1, PassGoesOn, WriteStep

LEMMA SpareStep ==
    ASSUME ChainInv, NEW c \in Callers, NEW f \in Frags, Spare(c, f) PROVE ChainInv'
<1>1. InTurn(c, f) /\ Local(c, Done(c, f))
  BY DEF Spare
<1>2. ApartCall(Done(c, f)) /\ HashedCall(Done(c, f))
  BY <1>1, PassGoesOn, CallInHand DEF ApartCall, HashedCall, Sealing, Changing
<1> QED
  BY <1>1, <1>2, PassGoesOn, GoOnStep

LEMMA EndMaintenanceStep ==
    ASSUME ChainInv, NEW c \in Callers, EndMaintenance(c) PROVE ChainInv'
BY RestingIsCall, RestingIsRight, GoOnStep DEF EndMaintenance, Doing

----------------------------------------------------------------------------
(* Changes of members. *)

LEMMA BeginChangeStep ==
    ASSUME ChainInv, NEW c \in Callers, NEW b \in Blocks, NEW m \in Members, BeginChange(c, b, m)
    PROVE  ChainInv'
<1> DEFINE k == [Resting EXCEPT !.pc = IF m \in Frags THEN "owner" ELSE "node", !.on = b, !.member = m]
<1>1. Start(c, k) /\ b \notin quiet
  BY BlockInHand DEF BeginChange
<1>2. /\ k \in Call /\ k.pc = (IF m \in Frags THEN "owner" ELSE "node") /\ k.on = b
      /\ k.member = m /\ k.row = OpenRow /\ DOMAIN k.copies = {}
  BY RestingIsCall DEF Call, Steps, Resting, Nothing
<1> HIDE DEF k
<1>3. ShapedCall(k) /\ ApartCall(k) /\ SparingCall(k) /\ HashedCall(k)
  BY <1>1, <1>2, OpenRowIsRow
     DEF ShapedCall, ApartCall, SparingCall, HashedCall, Sealing, Changing, Members
<1> QED
  BY <1>1, <1>2, <1>3, BeginStep

LEMMA ReadOwnerStep ==
    ASSUME ChainInv, NEW c \in Callers, ReadOwner(c) PROVE ChainInv'
<1> DEFINE m == calls[c].member
           elsewhere == place[m] \in Blocks \ {calls[c].on}
           k == [calls[c] EXCEPT !.pc = IF elsewhere THEN "status" ELSE "assign",
                                 !.from = IF elsewhere THEN place[m] ELSE NoBlock]
<1>1. Local(c, k) /\ calls[c].pc = "owner"
  BY DEF ReadOwner, Doing
<1>2. calls[c].on \in Blocks /\ calls[c].on \notin quiet /\ m \in Frags /\ quiet \subseteq Blocks
  BY <1>1, CallInHand DEF ShapedCall, ApartCall, Changing, ChainInv, ChainTyped, BlocksTypeOK
<1>3. /\ k \in Call /\ k.pc = (IF elsewhere THEN "status" ELSE "assign") /\ k.on = calls[c].on
      /\ k.member = m /\ k.row = calls[c].row /\ k.copies = calls[c].copies
      /\ elsewhere => k.from = place[m]
  BY CallInHand DEF Call, Steps, Places
<1> HIDE DEF k
<1>4. ShapedCall(k) /\ SparingCall(k) /\ HashedCall(k)
  BY <1>2, <1>3, CallInHand DEF ShapedCall, SparingCall, HashedCall, Sealing, Changing
<1>5. ApartCall(k)
  BY <1>1, <1>2, <1>3, CallInHand DEF ApartCall, Changing
<1> QED
  BY <1>1, <1>3, <1>4, <1>5, GoOnStep DEF Doing

LEMMA CheckOwnerStep ==
    ASSUME ChainInv, NEW c \in Callers, CheckOwner(c) PROVE ChainInv'
<1> DEFINE k == [calls[c] EXCEPT !.pc = "assign", !.from = NoBlock]
<1>1. calls[c].pc = "status" /\ Local(c, IF MayLeave(calls[c].from) THEN k ELSE Resting)
  BY DEF CheckOwner, Doing
<1>2. CASE ~MayLeave(calls[c].from)
  BY <1>1, <1>2, RestingIsCall, RestingIsRight, GoOnStep DEF Doing
<1>3. CASE MayLeave(calls[c].from)
  <2>1. calls[c].from \notin quiet
    BY <1>3, BlockInHand DEF MayLeave, ChainInv, ChainTyped, BlocksTypeOK
  <2>2. /\ k \in Call /\ k.pc = "assign" /\ k.on = calls[c].on /\ k.member = calls[c].member
        /\ k.row = calls[c].row /\ k.copies = calls[c].copies
    BY CallInHand DEF Call, Steps, Places
  <2> HIDE DEF k
  <2>3. ShapedCall(k) /\ SparingCall(k) /\ HashedCall(k)
    BY <1>1, <2>2, CallInHand DEF ShapedCall, SparingCall, HashedCall, Sealing, Changing
  <2>4. ApartCall(k)
    BY <1>1, <2>1, <2>2, CallInHand DEF ApartCall, Changing
  <2> QED
    BY <1>1, <1>3, <2>2, <2>3, <2>4, GoOnStep DEF Doing
<1> QED
  BY <1>2, <1>3

LEMMA ChangeNodeStep ==
    ASSUME ChainInv, NEW c \in Callers, ChangeNode(c) PROVE ChainInv'
<1> DEFINE b == calls[c].on
<1>1. /\ calls[c].pc = "node" /\ Become(c, Resting)
      /\ UNCHANGED <<block, place, clock, alone, quiet, lost>>
      /\ \E S \in {nodes[b] \cup {calls[c].member}, nodes[b] \ {calls[c].member}} :
            nodes' = [nodes EXCEPT ![b] = S]
  BY DEF ChangeNode, Doing, past
<1>2. b \in Blocks /\ b \notin quiet /\ calls[c].member \in Nodes
  BY <1>1, CallInHand DEF ShapedCall, ApartCall, Changing
<1>3. nodes' \in [Blocks -> SUBSET Nodes] /\ \A d \in quiet : nodes'[d] = nodes[d]
  <2>1. nodes \in [Blocks -> SUBSET Nodes] /\ quiet \subseteq Blocks
    BY DEF ChainInv, ChainTyped, BlocksTypeOK
  <2> QED
    BY <1>1, <1>2, <2>1
<1>4. Becomes(c, Resting)
  BY <1>1, RestingIsCall, BecomeOne DEF ChainInv
<1>5. ChainTyped'
  BY <1>1, <1>3, <1>4, MemberAssumption, CallerAssumption, SealAssumption
     DEF ChainInv, ChainTyped, BlocksTypeOK, Becomes
<1>6. ChainShaped'
  BY <1>1, <1>4, RestingIsCall, ShapedNext DEF ChainInv, ChainShaped
<1>7. RightCalls'
  <2>1. SUFFICES ASSUME NEW d \in Callers PROVE (ApartCall(calls[d]) /\ SparingCall(calls[d]))'
    BY DEF RightCalls
  <2>2. ApartCall(calls'[d]) /\ SparingCall(calls'[d])
    BY <1>4, RestingIsRight, CallInHand DEF Becomes
  <2> QED
    BY <1>1, <2>2 DEF ApartCall, SparingCall
<1>8. AloneHashed'
  <2>1. SUFFICES ASSUME NEW a \in alone'
                 PROVE  HashedCall(calls[a])' /\ \A d \in Callers \ {a} : Doing(d, "idle")'
    BY DEF AloneHashed
  <2>2. a = c /\ \A d \in Callers \ {c} : Doing(d, "idle")
    BY <1>1, <2>1, OnlyOneActs DEF ChainInv, AloneHashed, Doing
  <2>3. HashedCall(calls[c])'
    BY <1>4, RestingIsCall DEF HashedCall, Becomes
  <2> QED
    BY <1>4, <2>2, <2>3 DEF Doing, Becomes
<1>9. QuietVerified'
  BY <1>1, <1>3 DEF ChainInv, QuietVerified, IsSealed, FragsAgree, NodesAgree, In
<1> QED
  BY <1>5, <1>6, <1>7, <1>8, <1>9 DEF ChainInv

----------------------------------------------------------------------------
(* Copies, and passes that spare. *)

(* A copy that is made now says where its fragment is. *)
LEMMA CopiedNow ==
    ASSUME ChainInv, NEW r, DOMAIN r \subseteq Frags, \A f \in DOMAIN r : r[f] = place[f],
           NEW f \in DOMAIN r, NEW b \in quiet
    PROVE  /\ f \notin lost => (r[f] = b <=> place[f] = b)
           /\ r[f] = b => f \in block[b].seal.members
BY DEF ChainInv, QuietVerified, FragsAgree, In

LEMMA ReadFragmentStep ==
    ASSUME ChainInv, NEW c \in Callers, NEW f \in Frags, ReadFragment(c, f) PROVE ChainInv'
<1> DEFINE r == [g \in {f} |-> place[f]]
           k == [Resting EXCEPT !.pc = "rewrite", !.copies = r]
<1>1. Start(c, k)
  BY DEF ReadFragment
<1>2. r \in Copies /\ DOMAIN r = {f} /\ \A g \in DOMAIN r : r[g] = place[g]
  BY CopiesAre DEF ChainInv, ChainTyped, BlocksTypeOK
<1> HIDE DEF r
<1>3. k \in Call /\ k.pc = "rewrite" /\ k.row = OpenRow /\ k.copies = r
  BY <1>2, RestingIsCall DEF Call, Steps, Resting
<1> HIDE DEF k
<1>4. ShapedCall(k) /\ SparingCall(k) /\ HashedCall(k)
  BY <1>3, OpenRowIsRow DEF ShapedCall, SparingCall, HashedCall, Sealing, Changing
<1>5. ApartCall(k)
  BY <1>2, <1>3, CopiedNow DEF ApartCall, Sealing, Changing
<1> QED
  BY <1>1, <1>3, <1>4, <1>5, BeginStep

LEMMA ListedNow ==
    ASSUME ChainInv
    PROVE  /\ Listed \in Copies /\ DOMAIN Listed \subseteq Frags
           /\ \A f \in DOMAIN Listed : Listed[f] = place[f]
<1>1. /\ DOMAIN Listed \subseteq Frags /\ \A f \in DOMAIN Listed : Listed[f] = place[f]
      /\ Listed = [f \in DOMAIN Listed |-> Listed[f]]
  BY DEF Listed
<1>2. place \in [Frags -> Places]
  BY DEF ChainInv, ChainTyped, BlocksTypeOK
<1> QED
  BY <1>1, <1>2, CopiesAre

(* What a pass asks for first covers what was sealed undisturbed. *)
LEMMA MembershipAsked ==
    ASSUME ChainInv, NEW k \in Call, ShapedCall(k), NEW p \in {"protect", "filter"}
    PROVE  LET m == Membership(k, p) IN
           /\ m \in Call /\ m.pc = p /\ m.row = k.row /\ m.copies = k.copies
           /\ ShapedCall(m) /\ SparingCall(m) /\ HashedCall(m)
<1> DEFINE m == Membership(k, p)
           S == Protecting \cup UNION {block[b].seal.members : b \in Protecting}
           T == {f \in Frags : \E b \in quiet : IsSealed(b) /\ place[f] = b}
<1>1. S \in SUBSET (Members \cup Blocks)
  <2>1. ASSUME NEW b \in Protecting PROVE block[b].seal.members \in SUBSET Members
    <3>1. block[b].seal \in Seal
      BY BlockInHand DEF Protecting, IsSealed, Row
    <3> QED
      BY <3>1 DEF Seal
  <2>2. Protecting \subseteq Blocks
    BY DEF Protecting
  <2> HIDE DEF Protecting
  <2> QED
    BY <2>1, <2>2
<1>2. T \subseteq S
  <2>1. ASSUME NEW f \in Frags, NEW b \in quiet, IsSealed(b), place[f] = b PROVE f \in S
    BY <2>1 DEF ChainInv, ChainTyped, BlocksTypeOK, QuietVerified, FragsAgree, In, Protecting
  <2> HIDE DEF S
  <2> QED
    BY <2>1
<1>3. T \in SUBSET Frags /\ Protecting \in SUBSET Blocks
  BY DEF Protecting
<1>4. m = [k EXCEPT !.pc = p, !.left = Protecting, !.found = S, !.sealed = T]
  BY DEF Membership
<1> HIDE DEF S, T
<1>5. /\ m \in Call /\ m.pc = p /\ m.row = k.row /\ m.copies = k.copies
      /\ m.found = S /\ m.sealed = T
  BY <1>1, <1>3, <1>4 DEF Call, Steps
<1> HIDE DEF m
<1>6. ShapedCall(m) /\ SparingCall(m) /\ HashedCall(m)
  BY <1>2, <1>5 DEF ShapedCall, SparingCall, HashedCall, Sealing, Changing
<1> QED
  BY <1>5, <1>6 DEF m

LEMMA BeginWithMembershipStep ==
    ASSUME ChainInv, NEW c \in Callers, BeginWithMembership(c) PROVE ChainInv'
<1> DEFINE m == Membership(Resting, "protect")
<1>1. Start(c, m)
  BY DEF BeginWithMembership
<1>2. /\ m \in Call /\ m.pc = "protect" /\ m.copies = Resting.copies
      /\ ShapedCall(m) /\ SparingCall(m) /\ HashedCall(m)
  BY RestingIsCall, MembershipAsked
<1> HIDE DEF m
<1>3. ApartCall(m)
  BY <1>2 DEF ApartCall, Sealing, Changing, Resting, Nothing
<1> QED
  BY <1>1, <1>2, <1>3, BeginStep

LEMMA BeginWithListStep ==
    ASSUME ChainInv, NEW c \in Callers, BeginWithList(c) PROVE ChainInv'
<1> DEFINE k == [Resting EXCEPT !.pc = "membership", !.copies = Listed]
<1>1. Start(c, k)
  BY DEF BeginWithList
<1>2. k \in Call /\ k.pc = "membership" /\ k.row = OpenRow /\ k.copies = Listed
  BY ListedNow, RestingIsCall DEF Call, Steps, Resting
<1> HIDE DEF k
<1>3. ShapedCall(k) /\ SparingCall(k) /\ HashedCall(k)
  BY <1>2, OpenRowIsRow DEF ShapedCall, SparingCall, HashedCall, Sealing, Changing
<1>4. ApartCall(k)
  BY <1>2, ListedNow, CopiedNow DEF ApartCall, Sealing, Changing
<1> QED
  BY <1>1, <1>2, <1>3, <1>4, BeginStep

LEMMA ReadMembershipStep ==
    ASSUME ChainInv, NEW c \in Callers, ReadMembership(c) PROVE ChainInv'
<1> DEFINE m == Membership(calls[c], "filter")
<1>1. Local(c, m) /\ calls[c].pc = "membership"
  BY DEF ReadMembership, Doing
<1>2. /\ m \in Call /\ m.pc = "filter" /\ m.copies = calls[c].copies
      /\ ShapedCall(m) /\ SparingCall(m) /\ HashedCall(m)
  BY CallInHand, MembershipAsked
<1> HIDE DEF m
<1>3. ApartCall(m)
  BY <1>2, CallInHand DEF ApartCall, Sealing, Changing
<1> QED
  BY <1>1, <1>2, <1>3, GoOnStep DEF Doing

LEMMA ReadMembersStep ==
    ASSUME ChainInv, NEW c \in Callers, ReadMembers(c) PROVE ChainInv'
<1>1. PICK b \in calls[c].left :
           Local(c, [calls[c] EXCEPT !.left = @ \ {b}, !.found = @ \cup In(b)])
  BY DEF ReadMembers
<1> DEFINE k == [calls[c] EXCEPT !.left = @ \ {b}, !.found = @ \cup In(b)]
<1>2. Local(c, k) /\ calls[c].pc \in {"protect", "filter"}
  BY <1>1 DEF ReadMembers, Doing
<1>3. /\ k \in Call /\ k.pc = calls[c].pc /\ k.row = calls[c].row /\ k.copies = calls[c].copies
      /\ k.found = calls[c].found \cup In(b) /\ k.sealed = calls[c].sealed
  BY CallInHand DEF Call, In, Members
<1> HIDE DEF k
<1>4. ShapedCall(k) /\ SparingCall(k) /\ HashedCall(k)
  BY <1>2, <1>3, CallInHand DEF ShapedCall, SparingCall, HashedCall, Sealing, Changing
<1>5. ApartCall(k)
  BY <1>2, <1>3, CallInHand DEF ApartCall, Sealing, Changing
<1> QED
  BY <1>2, <1>3, <1>4, <1>5, GoOnStep DEF Doing

LEMMA ListFragmentsStep ==
    ASSUME ChainInv, NEW c \in Callers, ListFragments(c) PROVE ChainInv'
<1> DEFINE k == [calls[c] EXCEPT !.pc = "filter", !.copies = Listed]
<1>1. Local(c, k) /\ calls[c].pc = "protect"
  BY DEF ListFragments, Doing
<1>2. /\ k \in Call /\ k.pc = "filter" /\ k.row = calls[c].row /\ k.copies = Listed
      /\ k.found = calls[c].found /\ k.sealed = calls[c].sealed
  BY ListedNow, CallInHand DEF Call, Steps
<1> HIDE DEF k
<1>3. ShapedCall(k) /\ SparingCall(k) /\ HashedCall(k)
  BY <1>1, <1>2, CallInHand DEF ShapedCall, SparingCall, HashedCall, Sealing, Changing
<1>4. ApartCall(k)
  BY <1>2, ListedNow, CopiedNow DEF ApartCall, Sealing, Changing
<1> QED
  BY <1>1, <1>2, <1>3, <1>4, GoOnStep DEF Doing

LEMMA FilterStep ==
    ASSUME ChainInv, NEW c \in Callers, Filter(c) PROVE ChainInv'
<1> DEFINE kept == {f \in DOMAIN calls[c].copies : {f, calls[c].copies[f]} \cap calls[c].found = {}}
           r == [f \in kept |-> calls[c].copies[f]]
           k == [calls[c] EXCEPT !.pc = "maintain", !.found = {}, !.copies = r]
<1>1. Local(c, k) /\ calls[c].pc = "filter"
  BY DEF Filter, Doing
<1>2. /\ r \in Copies /\ DOMAIN r = kept /\ \A f \in DOMAIN r : r[f] = calls[c].copies[f]
  <2>1. /\ DOMAIN calls[c].copies \in SUBSET Frags
        /\ \A f \in DOMAIN calls[c].copies : calls[c].copies[f] \in Places
    BY CallInHand, CopiesAre DEF Call
  <2> QED
    BY <2>1, CopiesAre
<1>3. \A f \in kept : f \in DOMAIN calls[c].copies /\ f \notin calls[c].found
  OBVIOUS
<1> HIDE DEF r, kept
<1>4. /\ k \in Call /\ k.pc = "maintain" /\ k.row = calls[c].row /\ k.copies = r
      /\ k.sealed = calls[c].sealed
  BY <1>2, CallInHand DEF Call, Steps
<1> HIDE DEF k
<1>5. ShapedCall(k) /\ SparingCall(k) /\ HashedCall(k)
  BY <1>1, <1>2, <1>3, <1>4, CallInHand DEF ShapedCall, SparingCall, HashedCall, Sealing, Changing
<1>6. ApartCall(k)
  BY <1>2, <1>3, <1>4, CallInHand DEF ApartCall, Sealing, Changing
<1> QED
  BY <1>1, <1>4, <1>5, <1>6, GoOnStep DEF Doing

----------------------------------------------------------------------------
(* The invariant, and what it gives. *)

LEMMA ChainInit == BlocksInit => ChainInv
<1> SUFFICES ASSUME BlocksInit PROVE ChainInv
  OBVIOUS
<1>1. ChainTyped
  BY OpenRowIsRow, RestingIsCall, MemberAssumption, CallerAssumption, SealAssumption
     DEF BlocksInit, ChainTyped, BlocksTypeOK, Places
<1>2. ChainShaped
  BY OpenRowIsRow, RestingIsCall DEF BlocksInit, ChainShaped
<1>3. RightCalls
  BY RestingIsRight DEF BlocksInit, RightCalls
<1> QED
  BY <1>1, <1>2, <1>3 DEF ChainInv, AloneHashed, QuietVerified, BlocksInit

LEMMA ChainStep == ChainInv /\ [BlocksNext]_blocksVars => ChainInv'
<1> SUFFICES ASSUME ChainInv, [BlocksNext]_blocksVars PROVE ChainInv'
  OBVIOUS
<1>1. CASE UNCHANGED blocksVars
  <2>1. UNCHANGED <<block, place, nodes, clock, calls, alone, quiet, lost>>
    BY <1>1 DEF blocksVars, tables, past
  <2>2. ChainTyped' /\ ChainShaped'
    BY <2>1, MemberAssumption, CallerAssumption, SealAssumption
       DEF ChainInv, ChainTyped, BlocksTypeOK, ChainShaped
  <2>3. RightCalls' /\ QuietVerified'
    BY <2>1
       DEF ChainInv, RightCalls, ApartCall, SparingCall, QuietVerified, IsSealed, FragsAgree,
           NodesAgree, In
  <2>4. AloneHashed'
    BY <2>1 DEF ChainInv, AloneHashed, HashedCall, IsSealed, FragsAgree, NodesAgree, In, Doing
  <2> QED
    BY <2>2, <2>3, <2>4 DEF ChainInv
<1>2. ASSUME NEW f \in Frags, Forget(f) PROVE ChainInv'
  BY <1>2, ForgetStep
<1>3. ASSUME NEW c \in Callers, NEW b \in Blocks, BeginSeal(c, b) PROVE ChainInv'
  BY <1>3, BeginSealStep
<1>4. ASSUME NEW c \in Callers, NEW b \in Blocks, BeginQuarantine(c, b) \/ BeginRelease(c, b)
      PROVE  ChainInv'
  BY <1>4, BeginStoreStep DEF BeginQuarantine, BeginRelease
<1>5. ASSUME NEW c \in Callers, NEW b \in Blocks, NEW m \in Members, BeginChange(c, b, m)
      PROVE  ChainInv'
  BY <1>5, BeginChangeStep
<1>6. ASSUME NEW c \in Callers,
             \/ HashFragments(c) \/ HashNodes(c) \/ FindPrevious(c) \/ StoreBlock(c)
      PROVE  ChainInv'
  BY <1>6, HashFragmentsStep, HashNodesStep, FindPreviousStep, StoreBlockStep
<1>7. ASSUME NEW c \in Callers,
             \/ ReadOwner(c) \/ CheckOwner(c) \/ Assign(c)
             \/ ChangeNode(c) \/ WriteBack(c)
      PROVE  ChainInv'
  BY <1>7, ReadOwnerStep, CheckOwnerStep, AssignStep, ChangeNodeStep, WriteBackStep
<1>8. ASSUME NEW c \in Callers,
             \/ BeginWithMembership(c) \/ BeginWithList(c) \/ ReadMembership(c)
             \/ ReadMembers(c) \/ ListFragments(c) \/ Filter(c) \/ EndMaintenance(c)
      PROVE  ChainInv'
  BY <1>8, BeginWithMembershipStep, BeginWithListStep, ReadMembershipStep, ReadMembersStep,
     ListFragmentsStep, FilterStep, EndMaintenanceStep
<1>9. ASSUME NEW c \in Callers, NEW f \in Frags,
             \/ ReadFragment(c, f) \/ Rewrite(c, f) \/ Prune(c, f) \/ Spare(c, f)
      PROVE  ChainInv'
  BY <1>9, ReadFragmentStep, RewriteStep, PruneStep, SpareStep
<1> QED
  BY <1>1, <1>2, <1>3, <1>4, <1>5, <1>6, <1>7, <1>8, <1>9 DEF BlocksNext

LEMMA ChainAlways == BlocksSpec => []ChainInv
<1>1. BlocksInit => ChainInv
  BY ChainInit
<1> QED
  BY <1>1, ChainStep, PTL DEF BlocksSpec

(* Blocks, places of fragments and the local state of each call keep their types: seal() finds a  *)
(* predecessor among the sealed blocks, and an open block never has a seal.                           *)
THEOREM BlocksTyped == BlocksSpec => []BlocksTypeOK
<1>1. ChainInv => BlocksTypeOK
  BY DEF ChainInv, ChainTyped
<1> QED
  BY <1>1, ChainAlways, PTL

(* A block that seal() sealed while no other call was under way verifies from then on, whoever     *)
(* adds, moves, rewrites, prunes, quarantines and releases: only a member that was forgotten may be  *)
(* missing (block_chain.py: verify).                                                                    *)
THEOREM SealedAlwaysVerifies == BlocksSpec => []SealedVerifies
<1>1. ChainInv => SealedVerifies
  BY DEF ChainInv, QuietVerified, SealedVerifies, FragsAgree, NodesAgree, In
<1> QED
  BY <1>1, ChainAlways, PTL

(* What was in such a block when sealed_membership() asked is in no pass's hands when it rewrites     *)
(* and prunes, though the block be put into quarantine and released meanwhile.                           *)
THEOREM MaintenanceAlwaysSpares == BlocksSpec => []MaintenanceSparesSealed
<1>1. ChainInv => MaintenanceSparesSealed
  BY DEF ChainInv, RightCalls, SparingCall, MaintenanceSparesSealed, Doing
<1> QED
  BY <1>1, ChainAlways, PTL

----------------------------------------------------------------------------
(* The chain. *)

(* Nobody else seals, quarantines or releases a block at the same time.                           *)
OneKeeper == \A b \in Blocks : \A c, d \in Keepers[b] : c = d

LinkedSeal(s) ==
    /\ s.at <= clock
    /\ s.prev # NoBlock => /\ IsSealed(s.prev) /\ block[s.prev].seal.members = s.prevHash
                           /\ block[s.prev].seal.at < s.at

(* A call that seals does so once, and whatever it stores keeps a seal that is there.                *)
LinkedCall(c, k) ==
    /\ k.pc \in Sealing \cup {"store"} => c \in Keepers[k.on]
    /\ k.pc \in Sealing => ~IsSealed(k.on)
    /\ k.pc = "store" => /\ IsSealed(k.on) => k.row.seal = block[k.on].seal
                         /\ k.row.seal # NoSeal => LinkedSeal(k.row.seal)

ChainLinked == /\ \A b \in Blocks : IsSealed(b) => LinkedSeal(block[b].seal)
               /\ \A c \in Callers : LinkedCall(c, calls[c])

LEMMA SealIsSeal == ASSUME ChainInv, NEW r \in Row, r.seal # NoSeal PROVE r.seal \in Seal
BY DEF Row

LEMMA BecameOne ==
    ASSUME ChainInv, NEW c \in Callers, NEW k, Become(c, k)
    PROVE  calls'[c] = k /\ \A d \in Callers \ {c} : calls'[d] = calls[d]
BY DEF ChainInv, ChainTyped, Become

LEMMA LinkedLocal ==
    ASSUME ChainInv, ChainLinked, NEW c \in Callers, NEW k, Become(c, k), UNCHANGED <<block, clock>>,
           LinkedCall(c, k)
    PROVE  ChainLinked'
<1>1. calls'[c] = k /\ \A d \in Callers \ {c} : calls'[d] = calls[d]
  BY BecameOne
<1>2. \A d \in Callers : LinkedCall(d, calls'[d])
  BY <1>1 DEF ChainLinked
<1> QED
  BY <1>2 DEF ChainLinked, LinkedCall, LinkedSeal, IsSealed

(* Most calls do not touch the rows of blocks. *)
LEMMA LinkedElsewhere ==
    ASSUME ChainInv, ChainLinked, NEW c \in Callers, NEW k, Become(c, k), UNCHANGED <<block, clock>>,
           k.pc \notin Sealing \cup {"store"}
    PROVE  ChainLinked'
BY LinkedLocal DEF LinkedCall, Sealing

LEMMA BeginSealLinked ==
    ASSUME ChainInv, ChainLinked, NEW c \in Callers, NEW b \in Blocks, BeginSeal(c, b)
    PROVE  ChainLinked'
<1> DEFINE k == [Resting EXCEPT !.pc = "fragments", !.on = b]
<1>1. Become(c, k) /\ UNCHANGED <<block, clock>> /\ c \in Keepers[b] /\ ~IsSealed(b)
  BY BlockInHand DEF BeginSeal, MaySeal, Start, tables, Opened, IsSealed
<1>2. k.pc = "fragments" /\ k.on = b
  BY DEF Resting
<1> HIDE DEF k
<1> QED
  BY <1>1, <1>2, LinkedLocal DEF LinkedCall, Sealing

LEMMA HashingLinked ==
    ASSUME ChainInv, ChainLinked, NEW c \in Callers, HashFragments(c) \/ HashNodes(c)
    PROVE  ChainLinked'
<1>1. ASSUME NEW p \in {"nodes", "previous"}, NEW S,
             Local(c, [calls[c] EXCEPT !.pc = p, !.found = S]), calls[c].pc \in Sealing
      PROVE  ChainLinked'
  <2> DEFINE k == [calls[c] EXCEPT !.pc = p, !.found = S]
  <2>1. k.pc = p /\ k.on = calls[c].on
    BY CallInHand DEF Call
  <2>2. Become(c, k) /\ UNCHANGED <<block, clock>>
    BY <1>1 DEF Local, tables
  <2> HIDE DEF k
  <2>3. LinkedCall(c, k)
    BY <1>1, <2>1 DEF ChainLinked, LinkedCall, Sealing
  <2> QED
    BY <2>2, <2>3, LinkedLocal
<1> QED
  BY <1>1 DEF HashFragments, HashNodes, Doing, Sealing

LEMMA BeginStoreLinked ==
    ASSUME ChainInv, ChainLinked, NEW c \in Callers, NEW b \in Blocks, c \in Keepers[b],
           NEW r \in {Quarantined(block[b]), Released(block[b])},
           Start(c, [Resting EXCEPT !.pc = "store", !.on = b, !.row = r])
    PROVE  ChainLinked'
<1> DEFINE k == [Resting EXCEPT !.pc = "store", !.on = b, !.row = r]
<1>1. Become(c, k) /\ UNCHANGED <<block, clock>>
  BY DEF Start, tables
<1>2. r.seal = block[b].seal
  BY BlockInHand DEF Row, Quarantined, Released
<1>3. k.pc = "store" /\ k.on = b /\ k.row = r
  BY DEF Resting
<1> HIDE DEF k
<1>4. LinkedCall(c, k)
  BY <1>2, <1>3 DEF LinkedCall, Sealing, ChainLinked, IsSealed
<1> QED
  BY <1>1, <1>4, LinkedLocal

LEMMA FindPreviousLinked ==
    ASSUME ChainInv, ChainLinked, NEW c \in Callers, FindPrevious(c) PROVE ChainLinked'
<1>0. PICK s \in Seal : s = NextSeal(calls[c])
  BY SealMade
<1> DEFINE k == [calls[c] EXCEPT !.pc = "store", !.found = {}, !.row = [status |-> "SEALED", seal |-> s]]
<1>1. Become(c, k) /\ calls[c].pc = "previous" /\ block' = block /\ clock' = clock + 1 /\ clock \in Nat
  BY <1>0 DEF FindPrevious, NextSeal, Doing, ChainInv, ChainTyped, BlocksTypeOK
<1>3. s.prev # NoBlock => /\ IsSealed(s.prev) /\ block[s.prev].seal.members = s.prevHash
                          /\ block[s.prev].seal.at <= clock /\ block[s.prev].seal.at \in Nat
  <2>1. SUFFICES ASSUME s.prev # NoBlock
                 PROVE  /\ IsSealed(s.prev) /\ block[s.prev].seal.members = s.prevHash
                        /\ block[s.prev].seal.at <= clock /\ block[s.prev].seal.at \in Nat
    OBVIOUS
  <2>2. s.prevHash = block[s.prev].seal.members
    BY <1>0, <2>1 DEF NextSeal
  <2>3. s.prev \in Blocks /\ block[s.prev].status = "SEALED"
    BY <1>0, <2>1, SealMade DEF Candidates
  <2>4. block[s.prev] \in Row /\ IsSealed(s.prev)
    BY <2>3, BlockInHand DEF Row, IsSealed
  <2>5. block[s.prev].seal \in Seal /\ LinkedSeal(block[s.prev].seal)
    BY <2>3, <2>4, SealIsSeal DEF IsSealed, ChainLinked
  <2> QED
    BY <2>2, <2>4, <2>5 DEF LinkedSeal, Seal
<1>4. s.at = clock + 1
  BY <1>0 DEF NextSeal
<1>5. k.pc = "store" /\ k.on = calls[c].on /\ k.row.seal = s
  BY CallInHand DEF Call
<1>6. calls'[c] = k /\ \A d \in Callers \ {c} : calls'[d] = calls[d]
  BY <1>1, BecameOne
<1> HIDE DEF k
<1>7. ASSUME NEW t \in Seal, LinkedSeal(t) PROVE LinkedSeal(t)'
  BY <1>1, <1>7, MemberAssumption, CallerAssumption, SealAssumption
     DEF LinkedSeal, IsSealed, Seal, ChainInv, ChainTyped
<1>8. LinkedSeal(s)'
  BY <1>1, <1>3, <1>4 DEF LinkedSeal, IsSealed
<1>9. ASSUME NEW b \in Blocks, IsSealed(b)' PROVE LinkedSeal(block[b].seal)'
  <2>1. block[b].seal \in Seal /\ LinkedSeal(block[b].seal) /\ block'[b] = block[b]
    BY <1>1, <1>9, SealIsSeal, BlockInHand DEF IsSealed, ChainLinked
  <2>2. PICK t \in Seal : t = block[b].seal
    BY <2>1
  <2>3. LinkedSeal(t)'
    BY <1>7, <2>1, <2>2
  <2> QED
    BY <2>1, <2>2, <2>3 DEF LinkedSeal
<1>10. ASSUME NEW d \in Callers PROVE LinkedCall(d, calls[d])'
  <2>1. LinkedCall(d, calls[d]) /\ calls[d] \in Call
    BY CallInHand DEF ChainLinked
  <2>2. CASE d = c
    <3>1. PICK l : l = k /\ l = calls'[c]
      BY <1>6
    <3>2. l.on = calls[c].on /\ l.pc = "store" /\ l.row.seal = s
      BY <1>5, <3>1
    <3>3. c \in Keepers[l.on] /\ ~IsSealed(l.on)
      BY <1>1, <2>1, <2>2, <3>2 DEF LinkedCall, Sealing
    <3>4. LinkedCall(c, l)'
      BY <1>1, <1>8, <3>2, <3>3 DEF LinkedCall, Sealing, IsSealed
    <3> QED
      BY <2>2, <3>1, <3>4 DEF LinkedCall, LinkedSeal
  <2>3. CASE d # c
    <3>1. PICK l \in Call : l = calls[d] /\ l = calls'[d]
      BY <1>6, <2>1, <2>3
    <3>2. l.row \in Row /\ (l.row.seal # NoSeal => l.row.seal \in Seal)
      BY SealIsSeal DEF Call
    <3>3. LinkedCall(d, l)'
      BY <1>1, <1>7, <2>1, <3>1, <3>2 DEF LinkedCall, IsSealed
    <3> QED
      BY <3>1, <3>3 DEF LinkedCall, LinkedSeal
  <2> QED
    BY <2>2, <2>3
<1> QED
  BY <1>9, <1>10 DEF ChainLinked

(* A seal that is there is never replaced: that takes one keeper. *)
LEMMA StoreBlockLinked ==
    ASSUME ChainInv, ChainLinked, OneKeeper, NEW c \in Callers, StoreBlock(c) PROVE ChainLinked'
<1>1. PICK k \in Call : k = calls[c]
  BY CallInHand
<1> DEFINE b == k.on
           r == k.row
<1>2. k.pc = "store" /\ b \in Blocks /\ r \in Row /\ c \in Keepers[b] /\ LinkedCall(c, k)
  BY <1>1, CallInHand DEF StoreBlock, Doing, ShapedCall, Call, ChainLinked, LinkedCall
<1>3. /\ Become(c, Resting) /\ clock' = clock
      /\ block'[b] = r /\ \A d \in Blocks \ {b} : block'[d] = block[d]
  BY <1>1, <1>2 DEF StoreBlock, ChainInv, ChainTyped, BlocksTypeOK
<1>4. calls'[c] = Resting /\ \A d \in Callers \ {c} : calls'[d] = calls[d]
  BY <1>3, BecameOne
<1>5. ASSUME NEW d \in Blocks, IsSealed(d) PROVE block'[d].seal = block[d].seal
  BY <1>2, <1>3, <1>5 DEF LinkedCall
<1>6. ASSUME NEW s \in Seal, LinkedSeal(s) PROVE LinkedSeal(s)'
  <2>1. s.prev # NoBlock => s.prev \in Blocks
    BY DEF Seal
  <2> QED
    BY <1>3, <1>5, <1>6, <2>1 DEF LinkedSeal, IsSealed
<1>7. ASSUME NEW d \in Blocks, IsSealed(d)' PROVE LinkedSeal(block[d].seal)'
  <2>1. CASE IsSealed(d)
    <3>1. PICK s \in Seal : s = block[d].seal
      BY <2>1, BlockInHand, SealIsSeal DEF IsSealed
    <3>2. LinkedSeal(s)'
      BY <1>6, <2>1, <3>1 DEF ChainLinked
    <3> QED
      BY <1>5, <2>1, <3>1, <3>2 DEF LinkedSeal
  <2>2. CASE ~IsSealed(d)
    <3>1. d = b /\ r.seal # NoSeal
      BY <1>3, <1>7, <2>2 DEF IsSealed
    <3>2. PICK s \in Seal : s = r.seal
      BY <1>2, <3>1, SealIsSeal
    <3>3. LinkedSeal(s)'
      BY <1>2, <1>6, <3>1, <3>2 DEF LinkedCall
    <3> QED
      BY <1>3, <3>1, <3>2, <3>3 DEF LinkedSeal
  <2> QED
    BY <2>1, <2>2
<1>8. ASSUME NEW d \in Callers PROVE LinkedCall(d, calls[d])'
  <2>1. CASE d = c
    BY <1>4, <2>1 DEF LinkedCall, Resting, Sealing
  <2>2. CASE d # c
    <3>1. PICK l \in Call : l = calls[d] /\ l = calls'[d] /\ LinkedCall(d, l) /\ ShapedCall(l)
      BY <1>4, <2>2, CallInHand DEF ChainLinked
    <3>2. ASSUME l.pc \in Sealing \cup {"store"} PROVE l.on \in Blocks \ {b}
      BY <1>2, <2>2, <3>1, <3>2 DEF LinkedCall, ShapedCall, OneKeeper
    <3>3. l.row.seal # NoSeal => l.row.seal \in Seal
      BY SealIsSeal DEF Call
    <3>4. LinkedCall(d, l)'
      BY <1>3, <1>6, <3>1, <3>2, <3>3 DEF LinkedCall, IsSealed
    <3> QED
      BY <3>1, <3>4 DEF LinkedCall, LinkedSeal
  <2> QED
    BY <2>1, <2>2
<1> QED
  BY <1>7, <1>8 DEF ChainLinked

LEMMA ChangesLinked ==
    ASSUME ChainInv, ChainLinked, NEW c \in Callers,
           \/ \E b \in Blocks, m \in Members : BeginChange(c, b, m)
           \/ ReadOwner(c) \/ CheckOwner(c) \/ Assign(c)
           \/ ChangeNode(c) \/ WriteBack(c)
    PROVE  ChainLinked'
<1>1. Resting.pc = "idle"
  BY RestingIsCall
<1>2. CASE \E b \in Blocks, m \in Members : BeginChange(c, b, m)
  <2>1. PICK b \in Blocks, m \in Members : BeginChange(c, b, m)
    BY <1>2
  <2> DEFINE k == [Resting EXCEPT !.pc = IF m \in Frags THEN "owner" ELSE "node", !.on = b, !.member = m]
  <2>2. Become(c, k) /\ UNCHANGED <<block, clock>>
    BY <2>1 DEF BeginChange, Start, tables
  <2>3. k.pc \in {"owner", "node"}
    BY DEF Resting
  <2> HIDE DEF k
  <2> QED
    BY <2>2, <2>3, LinkedElsewhere DEF Sealing
<1>3. CASE ReadOwner(c)
  <2> DEFINE elsewhere == place[calls[c].member] \in Blocks \ {calls[c].on}
             k == [calls[c] EXCEPT !.pc = IF elsewhere THEN "status" ELSE "assign",
                                   !.from = IF elsewhere THEN place[calls[c].member] ELSE NoBlock]
  <2>1. Become(c, k) /\ UNCHANGED <<block, clock>>
    BY <1>3 DEF ReadOwner, Local, tables
  <2>2. k.pc \in {"status", "assign"}
    BY CallInHand DEF Call
  <2> HIDE DEF k
  <2> QED
    BY <2>1, <2>2, LinkedElsewhere DEF Sealing
<1>4. CASE CheckOwner(c)
  <2> DEFINE k == IF MayLeave(calls[c].from) THEN [calls[c] EXCEPT !.pc = "assign", !.from = NoBlock]
                  ELSE Resting
  <2>1. Become(c, k) /\ UNCHANGED <<block, clock>> /\ k.pc \in {"assign", "idle"}
    BY <1>1, <1>4, CallInHand DEF CheckOwner, Local, tables, Call
  <2> HIDE DEF k
  <2> QED
    BY <2>1, LinkedElsewhere DEF Sealing
<1>5. CASE Assign(c) \/ ChangeNode(c) \/ WriteBack(c)
  <2>1. Become(c, Resting) /\ UNCHANGED <<block, clock>>
    BY <1>5 DEF Assign, ChangeNode, WriteBack
  <2> QED
    BY <1>1, <2>1, LinkedElsewhere DEF Sealing
<1> QED
  BY <1>2, <1>3, <1>4, <1>5

LEMMA PassesLinked ==
    ASSUME ChainInv, ChainLinked, NEW c \in Callers,
           \/ BeginWithMembership(c) \/ BeginWithList(c) \/ ReadMembership(c)
           \/ ReadMembers(c) \/ ListFragments(c) \/ Filter(c) \/ EndMaintenance(c)
           \/ \E f \in Frags : \/ ReadFragment(c, f) \/ Rewrite(c, f)
                               \/ Prune(c, f) \/ Spare(c, f)
    PROVE  ChainLinked'
<1>1. Resting \in Call /\ Resting.pc = "idle" /\ calls[c] \in Call
  BY RestingIsCall, CallInHand
<1>2. \A k \in Call, p \in Steps : Membership(k, p).pc = p
  BY DEF Membership, Call
<1>3. CASE BeginWithMembership(c) \/ ReadMembership(c)
  <2>1. PICK k \in Call, p \in {"protect", "filter"} :
             Become(c, Membership(k, p)) /\ UNCHANGED <<block, clock>>
    BY <1>1, <1>3 DEF BeginWithMembership, ReadMembership, Start, Local, tables
  <2>2. Membership(k, p).pc = p
    BY <1>2 DEF Steps
  <2> QED
    BY <2>1, <2>2, LinkedElsewhere DEF Sealing
<1>4. CASE ReadMembers(c)
  <2>1. PICK b \in calls[c].left :
             Local(c, [calls[c] EXCEPT !.left = @ \ {b}, !.found = @ \cup In(b)])
    BY <1>4 DEF ReadMembers
  <2> DEFINE k == [calls[c] EXCEPT !.left = @ \ {b}, !.found = @ \cup In(b)]
  <2>2. Become(c, k) /\ UNCHANGED <<block, clock>> /\ k.pc \in {"protect", "filter"}
    BY <1>1, <1>4, <2>1 DEF ReadMembers, Local, tables, Doing, Call
  <2> HIDE DEF k
  <2> QED
    BY <2>2, LinkedElsewhere DEF Sealing
<1>5. CASE BeginWithList(c) \/ \E f \in Frags : ReadFragment(c, f)
  <2>1. PICK p, r : /\ p \in {"membership", "rewrite"}
                     /\ Become(c, [Resting EXCEPT !.pc = p, !.copies = r])
                     /\ UNCHANGED <<block, clock>>
    BY <1>5 DEF BeginWithList, ReadFragment, Start, tables
  <2>2. [Resting EXCEPT !.pc = p, !.copies = r].pc = p
    BY DEF Resting
  <2> QED
    BY <2>1, <2>2, LinkedElsewhere DEF Sealing
<1>6. CASE ListFragments(c) \/ Filter(c)
  <2>1. PICK k : Become(c, k) /\ UNCHANGED <<block, clock>>
                 /\ \/ k = [calls[c] EXCEPT !.pc = "filter", !.copies = Listed]
                    \/ \E r : k = [calls[c] EXCEPT !.pc = "maintain", !.found = {}, !.copies = r]
    BY <1>6 DEF ListFragments, Filter, Local, tables
  <2>2. k.pc \in {"filter", "maintain"}
    BY <1>1, <2>1 DEF Call
  <2> QED
    BY <2>1, <2>2, LinkedElsewhere DEF Sealing
<1>7. CASE \E f \in Frags : Rewrite(c, f)
  <2>1. PICK f \in Frags : Rewrite(c, f)
    BY <1>7
  <2> DEFINE k == [calls[c] EXCEPT !.pc = "floor", !.member = f]
  <2>2. Become(c, k) /\ UNCHANGED <<block, clock>> /\ k.pc = "floor"
    BY <1>1, <2>1 DEF Rewrite, Call
  <2> HIDE DEF k
  <2> QED
    BY <2>2, LinkedElsewhere DEF Sealing
<1>8. CASE \E f \in Frags : Prune(c, f) \/ Spare(c, f)
  <2>1. PICK f \in Frags : /\ Become(c, Done(c, f)) /\ InTurn(c, f)
                           /\ UNCHANGED <<block, clock>>
    BY <1>8 DEF Prune, Spare, Local, tables
  <2>2. Done(c, f).pc = "maintain"
    BY <2>1, PassGoesOn
  <2> QED
    BY <2>1, <2>2, LinkedElsewhere DEF Sealing
<1>9. CASE EndMaintenance(c)
  BY <1>1, <1>9, LinkedElsewhere DEF EndMaintenance, Local, tables, Sealing
<1> QED
  BY <1>3, <1>4, <1>5, <1>6, <1>7, <1>8, <1>9

LEMMA LinkedInit == BlocksInit => ChainLinked
BY OpenRowIsRow, RestingIsCall DEF BlocksInit, ChainLinked, LinkedCall, IsSealed, Sealing

LEMMA LinkedStep == ChainInv /\ ChainLinked /\ OneKeeper /\ [BlocksNext]_blocksVars => ChainLinked'
<1> SUFFICES ASSUME ChainInv, ChainLinked, OneKeeper, [BlocksNext]_blocksVars PROVE ChainLinked'
  OBVIOUS
<1>1. CASE UNCHANGED <<block, clock, calls>>
  BY <1>1 DEF ChainLinked, LinkedCall, LinkedSeal, IsSealed
<1>2. CASE UNCHANGED blocksVars
  BY <1>1, <1>2 DEF blocksVars, tables
<1>3. ASSUME NEW f \in Frags, Forget(f) PROVE ChainLinked'
  BY <1>1, <1>3 DEF Forget
<1>4. ASSUME NEW c \in Callers, NEW b \in Blocks, BeginSeal(c, b) PROVE ChainLinked'
  BY <1>4, BeginSealLinked
<1>5. ASSUME NEW c \in Callers, NEW b \in Blocks, BeginQuarantine(c, b) \/ BeginRelease(c, b)
      PROVE  ChainLinked'
  BY <1>5, BeginStoreLinked DEF BeginQuarantine, BeginRelease
<1>6. ASSUME NEW c \in Callers,
             \/ HashFragments(c) \/ HashNodes(c) \/ FindPrevious(c) \/ StoreBlock(c)
      PROVE  ChainLinked'
  BY <1>6, HashingLinked, FindPreviousLinked, StoreBlockLinked
<1>7. ASSUME NEW c \in Callers,
             \/ \E b \in Blocks, m \in Members : BeginChange(c, b, m)
             \/ ReadOwner(c) \/ CheckOwner(c) \/ Assign(c)
             \/ ChangeNode(c) \/ WriteBack(c)
      PROVE  ChainLinked'
  BY <1>7, ChangesLinked
<1>8. ASSUME NEW c \in Callers,
             \/ BeginWithMembership(c) \/ BeginWithList(c) \/ ReadMembership(c)
             \/ ReadMembers(c) \/ ListFragments(c) \/ Filter(c) \/ EndMaintenance(c)
             \/ \E f \in Frags : \/ ReadFragment(c, f) \/ Rewrite(c, f)
                                 \/ Prune(c, f) \/ Spare(c, f)
      PROVE  ChainLinked'
  BY <1>8, PassesLinked
<1> QED
  BY <1>2, <1>3, <1>4, <1>5, <1>6, <1>7, <1>8 DEF BlocksNext

(* verify_chain() finds no broken link: a predecessor is sealed, with the hash that its successor         *)
(* recorded, and was sealed before it, in whatever order calls on different blocks interleave.             *)
THEOREM LinksAlwaysHold == OneKeeper => (BlocksSpec => []LinksHold)
<1>1. ChainInv /\ ChainLinked => LinksHold
  BY DEF ChainLinked, LinkedSeal, LinksHold
<1>2. BlocksInit => ChainInv /\ ChainLinked
  BY ChainInit, LinkedInit
<1>3. OneKeeper /\ ChainInv /\ ChainLinked /\ [BlocksNext]_blocksVars => (ChainInv /\ ChainLinked)'
  BY ChainStep, LinkedStep
<1>4. OneKeeper => OneKeeper'
  BY DEF OneKeeper
<1> QED
  BY <1>1, <1>2, <1>3, <1>4, PTL DEF BlocksSpec

----------------------------------------------------------------------------
(* Vector snapshots. *)

(* No vector, or that of the text that the memory has now.                                    *)
Fits(i, v) == v \in {0, rows[i].text}

(* As long as nobody has written since the version it read, a process has nothing wrong but what    *)
(* it knows of: in its index, on the way to it, in the rows it may read, and in what it exported.      *)
HereRight(p) == proc[p].ver = version => \A i \in Ids \ proc[p].bad : Exists(i) =>
    /\ Fits(i, index[p][i]) /\ Fits(i, rows[i].vec)
    /\ todo[p].id = i => Fits(i, todo[p].vec)
    /\ SyncAt(p, "save") => Fits(i, proc[p].out[i])

(* Nor does the snapshot hold anything wrong outside the dirty ids it has read.                    *)
PartsRight(p) == proc[p].ver = version /\ SyncAt(p, "parts") =>
    \A i \in Ids \ (proc[p].skip \cup wrong) : Exists(i) => Fits(i, snap[i])

ReadEarlier(p) == proc[p].ver <= version
Informed(p) == ReadEarlier(p) /\ HereRight(p) /\ PartsRight(p)

SnapInv == SnapshotTypeOK /\ StaleOnlyIfKnownWrong /\ \A p \in Procs : Informed(p)

LEMMA SnapValues == /\ NoRow \in VecRow /\ NothingOwed \in Todo /\ NothingOwed.vec = 0
                    /\ NoVecs \in [Ids -> Vec] /\ Down \in Proc /\ Down.ver = -1
<1>1. NoRow \in VecRow /\ NoVecs \in [Ids -> Vec]
  BY SizeAssumption DEF NoRow, VecRow, NoVecs, Vec
<1>2. NothingOwed \in Todo /\ NothingOwed.vec = 0
  BY SizeAssumption DEF NothingOwed, Todo, Vec
<1>. QED  BY <1>1, <1>2 DEF Down, Proc, SyncSteps

LEMMA Moved ==
    ASSUME SnapshotTypeOK, NEW p \in Procs, NEW r \in Proc, MovesTo(p, r)
    PROVE  proc' \in [Procs -> Proc] /\ proc'[p] = r /\ \A q \in Procs \ {p} : proc'[q] = proc[q]
BY DEF SnapshotTypeOK, MovesTo

LEMMA ProcIs == ASSUME SnapInv, NEW p \in Procs PROVE proc[p] \in Proc /\ index[p] \in [Ids -> Vec]
BY DEF SnapInv, SnapshotTypeOK

LEMMA StoreIs == ASSUME SnapInv PROVE version \in Int /\ dirty \subseteq Ids /\ wrong \subseteq Ids
BY SizeAssumption DEF SnapInv, SnapshotTypeOK

LEMMA Told == ASSUME SnapshotTypeOK, NEW i \in Ids PROVE rows[i].text # 0 <=> Exists(i)
BY DEF SnapshotTypeOK, Exists, NoRow

(* A structural write: nobody's version is the current one any more.                            *)
LEMMA WriteInforms ==
    ASSUME SnapInv, Writes, UNCHANGED proc PROVE \A p \in Procs : Informed(p)'
BY DEF SnapInv, SnapshotTypeOK, Writes, Informed, ReadEarlier, HereRight, PartsRight, Proc

(* A step of one process that leaves the store alone.                                              *)
LEMMA LocalInforms ==
    ASSUME SnapInv, NEW p \in Procs, StoreKept, HistoryKept, Informed(p)', SnapshotTypeOK',
           \A q \in Procs \ {p} : proc'[q] = proc[q] /\ index'[q] = index[q] /\ todo'[q] = todo[q]
    PROVE  SnapInv'
<1>1. StaleOnlyIfKnownWrong'
  BY DEF SnapInv, StoreKept, HistoryKept, storeVars, StaleOnlyIfKnownWrong, Served, Exists
<1>2. ASSUME NEW q \in Procs \ {p} PROVE Informed(q)'
  BY <1>2 DEF SnapInv, StoreKept, HistoryKept, storeVars, Informed, ReadEarlier, HereRight, PartsRight,
              Exists, Fits, SyncAt
<1>. QED  BY <1>1, <1>2 DEF SnapInv

----------------------------------------------------------------------------
LEMMA PutSnap == ASSUME SnapInv, NEW p \in Procs, NEW i \in Ids, Put(p, i) PROVE SnapInv'
<1>1. PICK v \in {0, NewText} :
         /\ rows' = [rows EXCEPT ![i] = [text |-> NewText, vec |-> v, live |-> TRUE]]
         /\ IF v = 0 THEN UNCHANGED todo ELSE Owes(p, "add", i, v)
  BY DEF Put
<1>2. NewText \in Text /\ v \in Vec /\ version' \in 0..MaxWrites
  BY SizeAssumption DEF SnapInv, SnapshotTypeOK, Put, Writer, Writes, NewText, Text, Vec
<1>3. SnapshotTypeOK'
  <2>1. rows' \in [Ids -> VecRow] /\ \A j \in Ids : rows'[j].text = 0 => rows'[j] = NoRow
    <3> DEFINE r == [text |-> NewText, vec |-> v, live |-> TRUE]
    <3>1. r \in VecRow /\ r.text # 0
      BY <1>2 DEF VecRow, Text, Vec
    <3> HIDE DEF r
    <3>2. rows' = [rows EXCEPT ![i] = r]
      BY <1>1 DEF r
    <3>. QED  BY <3>1, <3>2 DEF SnapInv, SnapshotTypeOK
  <2>2. todo' \in [Procs -> Todo]
    BY <1>1, <1>2 DEF SnapInv, SnapshotTypeOK, Owes, Todo
  <2>. QED  BY <1>2, <2>1, <2>2 DEF SnapInv, SnapshotTypeOK, Put, MarkedDirty
<1>4. StaleOnlyIfKnownWrong'
  BY <1>1 DEF SnapInv, SnapshotTypeOK, Put, StaleOnlyIfKnownWrong, Served, Exists, MarkedDirty, NoVecs
<1>. QED  BY <1>3, <1>4, WriteInforms DEF SnapInv, Put

LEMMA SetStateSnap == ASSUME SnapInv, NEW p \in Procs, NEW i \in Ids, SetState(p, i) PROVE SnapInv'
<1>1. SnapshotTypeOK'
  <2>1. rows' \in [Ids -> VecRow] /\ \A j \in Ids : rows'[j].text = 0 => rows'[j] = NoRow
    BY Told DEF SnapInv, SnapshotTypeOK, SetState, VecRow
  <2>2. todo' \in [Procs -> Todo]
    BY SizeAssumption DEF SnapInv, SnapshotTypeOK, SetState, Owes, Todo, Vec
  <2>3. version' \in 0..MaxWrites
    BY SizeAssumption DEF SnapInv, SnapshotTypeOK, SetState, Writer, Writes
  <2>. QED  BY <2>1, <2>2, <2>3 DEF SnapInv, SnapshotTypeOK, SetState, HistoryKept
<1>2. StaleOnlyIfKnownWrong'
  BY DEF SnapInv, SnapshotTypeOK, SetState, StaleOnlyIfKnownWrong, Served, Exists, HistoryKept
<1>. QED  BY <1>1, <1>2, WriteInforms DEF SnapInv, SetState

LEMMA ForgetSnap == ASSUME SnapInv, NEW p \in Procs, NEW i \in Ids, ForgetRow(p, i) PROVE SnapInv'
<1>1. SnapshotTypeOK'
  <2>1. rows' \in [Ids -> VecRow] /\ \A j \in Ids : rows'[j].text = 0 => rows'[j] = NoRow
    BY SnapValues DEF SnapInv, SnapshotTypeOK, ForgetRow
  <2>2. todo' \in [Procs -> Todo]
    BY SizeAssumption DEF SnapInv, SnapshotTypeOK, ForgetRow, Owes, Todo, Vec
  <2>3. version' \in 0..MaxWrites
    BY SizeAssumption DEF SnapInv, SnapshotTypeOK, ForgetRow, Writer, Writes
  <2>. QED  BY <2>1, <2>2, <2>3 DEF SnapInv, SnapshotTypeOK, ForgetRow, HistoryKept
<1>2. StaleOnlyIfKnownWrong'
  BY DEF SnapInv, SnapshotTypeOK, ForgetRow, StaleOnlyIfKnownWrong, Served, Exists, HistoryKept
<1>. QED  BY <1>1, <1>2, WriteInforms DEF SnapInv, ForgetRow

LEMMA EraseSnap == ASSUME SnapInv, NEW p \in Procs, NEW i \in Ids, Erase(p, i) PROVE SnapInv'
<1>1. SnapshotTypeOK'
  <2>1. rows' \in [Ids -> VecRow] /\ \A j \in Ids : rows'[j].text = 0 => rows'[j] = NoRow
    BY SnapValues DEF SnapInv, SnapshotTypeOK, Erase
  <2>2. todo' \in [Procs -> Todo]
    BY SizeAssumption DEF SnapInv, SnapshotTypeOK, Erase, Owes, Todo, Vec
  <2>3. version' \in 0..MaxWrites
    BY SizeAssumption DEF SnapInv, SnapshotTypeOK, Erase, Writer, Writes
  <2>4. erased' \subseteq Text
    <3>1. rows[i].text \in Vec /\ rows[i].text # 0
      BY Told DEF SnapInv, SnapshotTypeOK, Erase, VecRow
    <3>2. rows[i].text \in Text
      BY <3>1, SizeAssumption DEF Vec, Text
    <3>. QED  BY <3>2 DEF SnapInv, SnapshotTypeOK, Erase
  <2>. QED  BY <2>1, <2>2, <2>3, <2>4, SnapValues DEF SnapInv, SnapshotTypeOK, Erase, DropSnapshot
<1>2. StaleOnlyIfKnownWrong'
  BY DEF Erase, DropSnapshot, StaleOnlyIfKnownWrong, Served, NoVecs
<1>. QED  BY <1>1, <1>2, WriteInforms DEF SnapInv, Erase

LEMMA CatchupSnap == ASSUME SnapInv, NEW p \in Procs, Catchup(p) PROVE SnapInv'
<1>1. todo[p] \in Todo /\ todo'[p] = NothingOwed /\ proc' = proc
  BY DEF SnapInv, SnapshotTypeOK, Catchup
<1>2. SnapshotTypeOK'
  <2>1. index' \in [Procs -> [Ids -> Vec]] /\ todo' \in [Procs -> Todo]
    BY <1>1, SnapValues DEF SnapInv, SnapshotTypeOK, Catchup, Todo
  <2>. QED  BY <2>1 DEF SnapInv, SnapshotTypeOK, Catchup, StoreKept, HistoryKept, storeVars
<1>3. \A i \in Ids : index'[p][i] = IF i = todo[p].id THEN todo[p].vec ELSE index[p][i]
  BY DEF SnapInv, SnapshotTypeOK, Catchup, Todo
<1>4. Informed(p)'
  BY <1>1, <1>3, SnapValues
     DEF SnapInv, Informed, ReadEarlier, HereRight, PartsRight, Exists, Fits, SyncAt, Catchup,
         StoreKept,
                    HistoryKept, storeVars
<1>5. \A q \in Procs \ {p} : index'[q] = index[q] /\ todo'[q] = todo[q]
  BY DEF SnapInv, SnapshotTypeOK, Catchup
<1>. QED  BY <1>1, <1>2, <1>4, <1>5, LocalInforms DEF Catchup

----------------------------------------------------------------------------
(* Loading, syncing and embedding. *)

LEMMA OpenSnap == ASSUME SnapInv, NEW p \in Procs, Open(p) PROVE SnapInv'
<1> DEFINE r == [Down EXCEPT !.pc = "scoped", !.scope = Live]
<1>1. r \in Proc /\ r.ver = -1
  BY SnapValues DEF Proc, SyncSteps, Live
<1> HIDE DEF r
<1>2. MovesTo(p, r) /\ UNCHANGED <<index, todo>> /\ StoreKept /\ HistoryKept
  BY DEF Open, r
<1>3. proc' \in [Procs -> Proc] /\ proc'[p] = r /\ \A q \in Procs \ {p} : proc'[q] = proc[q]
  BY <1>1, <1>2, Moved DEF SnapInv
<1>4. SnapshotTypeOK'
  BY <1>2, <1>3 DEF SnapInv, SnapshotTypeOK, StoreKept, HistoryKept, storeVars
<1>5. Informed(p)'
  BY <1>1, <1>2, <1>3
     DEF SnapInv, SnapshotTypeOK, Informed, ReadEarlier, HereRight, PartsRight, StoreKept, storeVars
<1>. QED  BY <1>2, <1>3, <1>4, <1>5, LocalInforms

(* What a process has wrong, it now knows of.                                                      *)
LEMMA KnowsWrong ==
    ASSUME SnapInv, NEW p \in Procs, NEW r \in Proc, MovesTo(p, r), UNCHANGED <<index, todo>>, StoreKept,
           HistoryKept, r.ver = version, r.bad = HasWrong(p), r.pc # "save",
           r.pc = "parts" => r.skip = dirty
    PROVE  SnapInv'
<1>1. proc' \in [Procs -> Proc] /\ proc'[p] = r /\ \A q \in Procs \ {p} : proc'[q] = proc[q]
  BY Moved DEF SnapInv
<1>2. SnapshotTypeOK'
  BY <1>1 DEF SnapInv, SnapshotTypeOK, StoreKept, HistoryKept, storeVars
<1>3. ReadEarlier(p)' /\ PartsRight(p)'
  BY <1>1
     DEF SnapInv, SnapshotTypeOK, ReadEarlier, PartsRight, SyncAt, StaleOnlyIfKnownWrong, Served, Fits,
         Exists,
              StoreKept, HistoryKept, storeVars
<1>4. ASSUME NEW i \in Ids, i \notin HasWrong(p), Exists(i)
      PROVE  /\ Fits(i, index[p][i]) /\ Fits(i, rows[i].vec)
             /\ todo[p].id = i => Fits(i, todo[p].vec)
  BY <1>4 DEF HasWrong, Fits
<1>5. HereRight(p)'
  BY <1>1, <1>4 DEF HereRight, SyncAt, Fits, Exists, StoreKept, storeVars
<1>. QED  BY <1>1, <1>2, <1>3, <1>5, LocalInforms DEF Informed

LEMMA HasWrongIds == ASSUME SnapInv, NEW p \in Procs PROVE HasWrong(p) \subseteq Ids
BY DEF SnapInv, SnapshotTypeOK, HasWrong

LEMMA ReadMetaSnap == ASSUME SnapInv, NEW p \in Procs, ReadMeta(p) PROVE SnapInv'
<1> DEFINE missing == proc[p].scope \ Indexed(p)
           cold == Indexed(p) = {} /\ Cardinality(missing) >= MinRows
           next == IF missing = {} THEN "up" ELSE IF cold /\ saved THEN "parts" ELSE "rows"
           due == cold /\ ~saved
           r == [proc[p] EXCEPT !.pc = next, !.ver = version, !.skip = dirty, !.due = due, !.bad = HasWrong(p)]
<1>1. next \in {"up", "parts", "rows"} /\ due \in BOOLEAN
  OBVIOUS
<1>2. MovesTo(p, r) /\ UNCHANGED <<index, todo>> /\ StoreKept /\ HistoryKept
  BY DEF ReadMeta
<1> HIDE DEF next, due
<1>3. r \in Proc /\ r.ver = version /\ r.bad = HasWrong(p) /\ r.pc # "save" /\ r.skip = dirty
  BY <1>1, ProcIs, StoreIs, HasWrongIds DEF Proc, SyncSteps
<1> HIDE DEF r
<1>. QED  BY <1>2, <1>3, KnowsWrong

LEMMA SyncSnap ==
    ASSUME SnapInv, NEW p \in Procs, NEW stop \in BOOLEAN, Sync(p, stop) PROVE SnapInv'
<1> DEFINE r == [proc[p] EXCEPT !.pc = "sync", !.ver = version, !.stop = stop, !.bad = HasWrong(p)]
<1>1. r \in Proc /\ r.ver = version /\ r.bad = HasWrong(p) /\ r.pc = "sync"
  BY ProcIs, StoreIs, HasWrongIds DEF Proc, SyncSteps
<1> HIDE DEF r
<1>2. MovesTo(p, r) /\ UNCHANGED <<index, todo>> /\ StoreKept /\ HistoryKept
  BY DEF Sync, r
<1>. QED  BY <1>1, <1>2, KnowsWrong

(* A step that knows no less, and fills the index with what fits.                                  *)
LEMMA FillsRight ==
    ASSUME SnapInv, NEW p \in Procs, NEW r \in Proc, NEW part \in [Ids -> Vec], MovesTo(p, r),
           index' = [index EXCEPT ![p] = part], UNCHANGED todo, StoreKept, HistoryKept,
           r.ver = proc[p].ver, proc[p].bad \subseteq r.bad, r.pc # "parts",
           proc[p].ver = version => \A i \in Ids \ r.bad : Exists(i) =>
               Fits(i, part[i]) /\ (r.pc = "save" => Fits(i, r.out[i]))
    PROVE  SnapInv'
<1>1. proc' \in [Procs -> Proc] /\ proc'[p] = r /\ \A q \in Procs \ {p} : proc'[q] = proc[q]
  BY Moved DEF SnapInv
<1>2. index' \in [Procs -> [Ids -> Vec]] /\ index'[p] = part /\ \A q \in Procs \ {p} : index'[q] = index[q]
  BY DEF SnapInv, SnapshotTypeOK
<1>3. SnapshotTypeOK'
  BY <1>1, <1>2 DEF SnapInv, SnapshotTypeOK, StoreKept, HistoryKept, storeVars
<1>4. Informed(p)'
  BY <1>1, <1>2
     DEF SnapInv, Informed, ReadEarlier, HereRight, PartsRight, SyncAt, Fits, Exists, StoreKept,
         storeVars
<1>. QED  BY <1>1, <1>2, <1>3, <1>4, LocalInforms

LEMMA LoadPartsSnap == ASSUME SnapInv, NEW p \in Procs, LoadParts(p) PROVE SnapInv'
<1> DEFINE kept == Loadable(p) \cap proc[p].scope
           part == [i \in Ids |-> IF i \in Loadable(p) THEN IF i \in kept THEN snap[i] ELSE 0 ELSE index[p][i]]
           due == Cardinality({i \in proc[p].scope : part[i] = 0}) >= FewRows
           r == [proc[p] EXCEPT !.pc = "rows", !.due = due, !.skip = {}, !.bad = @ \cup wrong]
<1>1. part \in [Ids -> Vec] /\ due \in BOOLEAN
  BY SizeAssumption DEF SnapInv, SnapshotTypeOK, Vec
<1>2. MovesTo(p, r) /\ index' = [index EXCEPT ![p] = part] /\ UNCHANGED todo /\ StoreKept /\ HistoryKept
  BY DEF LoadParts
<1>3. ASSUME NEW i \in Ids, i \notin proc[p].bad \cup wrong, proc[p].ver = version, Exists(i)
      PROVE  Fits(i, part[i])
  BY <1>3 DEF SnapInv, Informed, HereRight, PartsRight, LoadParts, Loadable, Fits
<1> HIDE DEF part, due
<1>4. r \in Proc /\ r.ver = proc[p].ver /\ r.bad = proc[p].bad \cup wrong /\ r.pc = "rows"
  BY <1>1, ProcIs, StoreIs DEF Proc, SyncSteps
<1> HIDE DEF r
<1>. QED  BY <1>1, <1>2, <1>3, <1>4, FillsRight

LEMMA LoadRowsSnap == ASSUME SnapInv, NEW p \in Procs, LoadRows(p) PROVE SnapInv'
<1> DEFINE missing == proc[p].scope \ Indexed(p)
           part == [i \in Ids |-> IF i \in missing /\ rows[i].vec # 0 THEN rows[i].vec ELSE index[p][i]]
           next == IF ToEmbed(missing) # {} THEN "embed" ELSE IF proc[p].due THEN "export" ELSE "up"
           r == [proc[p] EXCEPT !.left = ToEmbed(missing), !.pc = next]
<1>1. part \in [Ids -> Vec] /\ next \in {"embed", "export", "up"} /\ ToEmbed(missing) \subseteq Ids
  BY DEF SnapInv, SnapshotTypeOK, VecRow, Proc, ToEmbed
<1>2. MovesTo(p, r) /\ index' = [index EXCEPT ![p] = part] /\ UNCHANGED todo /\ StoreKept /\ HistoryKept
  BY DEF LoadRows, ReadRows, SnapInv, SnapshotTypeOK
<1>3. ASSUME NEW i \in Ids, i \notin proc[p].bad, proc[p].ver = version, Exists(i)
      PROVE  Fits(i, part[i])
  BY <1>3 DEF SnapInv, Informed, HereRight, Fits
<1> HIDE DEF part, next, missing
<1>4. r \in Proc /\ r.ver = proc[p].ver /\ r.bad = proc[p].bad /\ r.pc = next
  BY <1>1, ProcIs DEF Proc, SyncSteps
<1> HIDE DEF r
<1>. QED  BY <1>1, <1>2, <1>3, <1>4, FillsRight

LEMMA SyncedSnap ==
    ASSUME SnapInv, NEW p \in Procs, NEW known \in BOOLEAN, Synced(p, known) PROVE SnapInv'
<1> DEFINE gone == IF known THEN proc[p].scope \ Live ELSE {}
           missing == Live \ (Indexed(p) \ gone)
           part == [i \in Ids |-> IF i \in gone THEN 0 ELSE IF i \in missing THEN rows[i].vec ELSE index[p][i]]
           next == IF ToEmbed(missing) # {} THEN "embed" ELSE IF proc[p].stop THEN "export" ELSE "up"
           r == [proc[p] EXCEPT !.scope = Live, !.left = ToEmbed(missing), !.pc = next]
<1>1. part \in [Ids -> Vec] /\ next \in {"embed", "export", "up"} /\ ToEmbed(missing) \subseteq Ids
  BY SizeAssumption DEF SnapInv, SnapshotTypeOK, VecRow, Vec, ToEmbed, Live
<1>2. MovesTo(p, r) /\ index' = [index EXCEPT ![p] = part] /\ UNCHANGED todo /\ StoreKept /\ HistoryKept
  BY DEF Synced, SnapInv, SnapshotTypeOK
<1>3. ASSUME NEW i \in Ids, i \notin proc[p].bad, proc[p].ver = version, Exists(i)
      PROVE  Fits(i, part[i])
  BY <1>3 DEF SnapInv, Informed, HereRight, Fits
<1> HIDE DEF part, next, missing, gone
<1>4. r \in Proc /\ r.ver = proc[p].ver /\ r.bad = proc[p].bad /\ r.pc = next
  BY <1>1, ProcIs DEF Proc, SyncSteps, Live
<1> HIDE DEF r
<1>. QED  BY <1>1, <1>2, <1>3, <1>4, FillsRight

(* A step that does nothing to the index.                                                            *)
LEMMA GoesOn ==
    ASSUME SnapInv, NEW p \in Procs, NEW r \in Proc, MovesTo(p, r), UNCHANGED <<index, todo>>, StoreKept,
           HistoryKept, r.ver = proc[p].ver, r.bad = proc[p].bad, r.pc # "parts",
           r.pc = "save" => r.out = index[p]
    PROVE  SnapInv'
<1>1. index[p] \in [Ids -> Vec] /\ index' = [index EXCEPT ![p] = index[p]]
  BY DEF SnapInv, SnapshotTypeOK
<1>2. proc[p].ver = version => \A i \in Ids \ proc[p].bad : Exists(i) => Fits(i, index[p][i])
  BY DEF SnapInv, Informed, HereRight
<1>. QED  BY <1>1, <1>2, FillsRight

LEMMA ReadTextSnap == ASSUME SnapInv, NEW p \in Procs, NEW i \in Ids, ReadText(p, i) PROVE SnapInv'
<1> DEFINE one == [op |-> "add", id |-> i, vec |-> rows[i].text]
           read == [proc[p] EXCEPT !.left = @ \ {i}, !.pc = "embedding", !.one = one]
           skipped == [proc[p] EXCEPT !.left = @ \ {i}]
<1>1. one \in Todo
  BY DEF SnapInv, SnapshotTypeOK, VecRow, Todo
<1>2. MovesTo(p, IF Exists(i) THEN read ELSE skipped)
      /\ UNCHANGED <<index, todo>> /\ StoreKept /\ HistoryKept
  BY DEF ReadText
<1> HIDE DEF one
<1>3. read \in Proc /\ read.ver = proc[p].ver /\ read.bad = proc[p].bad /\ read.pc = "embedding"
  BY <1>1, ProcIs DEF Proc, SyncSteps
<1>4. skipped \in Proc /\ skipped.ver = proc[p].ver /\ skipped.bad = proc[p].bad /\ skipped.pc = "embed"
  BY ProcIs DEF Proc, ReadText, SyncAt
<1> HIDE DEF read, skipped
<1>5. CASE Exists(i)
  BY <1>2, <1>3, <1>5, GoesOn
<1>6. CASE ~Exists(i)
  BY <1>2, <1>4, <1>6, GoesOn
<1>. QED  BY <1>5, <1>6

LEMMA EmbeddedSnap == ASSUME SnapInv, NEW p \in Procs, Embedded(p) PROVE SnapInv'
<1> DEFINE next == IF proc[p].stop THEN "export" ELSE "up"
           r == [proc[p] EXCEPT !.pc = next, !.left = {}, !.due = FALSE]
<1>1. next \in {"export", "up"}
  OBVIOUS
<1>2. MovesTo(p, r) /\ UNCHANGED <<index, todo>> /\ StoreKept /\ HistoryKept
  BY DEF Embedded
<1> HIDE DEF next
<1>3. r \in Proc /\ r.ver = proc[p].ver /\ r.bad = proc[p].bad /\ r.pc = next
  BY <1>1, ProcIs DEF Proc, SyncSteps
<1> HIDE DEF r
<1>. QED  BY <1>1, <1>2, <1>3, GoesOn

LEMMA ExportSnap == ASSUME SnapInv, NEW p \in Procs, Export(p) PROVE SnapInv'
<1> DEFINE r == [proc[p] EXCEPT !.pc = "save", !.out = index[p]]
<1>1. r \in Proc /\ r.ver = proc[p].ver /\ r.bad = proc[p].bad /\ r.pc = "save" /\ r.out = index[p]
  BY ProcIs DEF Proc, SyncSteps
<1> HIDE DEF r
<1>2. MovesTo(p, r) /\ UNCHANGED <<index, todo>> /\ StoreKept /\ HistoryKept
  BY DEF Export, r
<1>. QED  BY <1>1, <1>2, GoesOn

(* A vector that is put late is known to be wrong by everyone who has not read since.                *)
LEMMA PutVectorSnap == ASSUME SnapInv, NEW p \in Procs, PutVector(p) PROVE SnapInv'
<1>1. PICK i \in Ids, v \in Vec : i = proc[p].one.id /\ v = proc[p].one.vec
  BY ProcIs DEF Proc, Todo
<1>2. rows' = (IF Exists(i) THEN [rows EXCEPT ![i].vec = v] ELSE rows) /\ dirty' = MarkedDirty(i)
      /\ index' = [index EXCEPT ![p][i] = v] /\ SyncAt(p, "embedding")
      /\ UNCHANGED <<version, snap, saved, scopeAt, todo, erased, wrong>>
  BY <1>1 DEF PutVector, HistoryKept
<1> DEFINE noted(q) == IF Exists(i) /\ v # rows[i].text THEN proc[q].bad \cup {i} ELSE proc[q].bad
           knows(q) == [proc[q] EXCEPT !.bad = noted(q)]
           done(q) == [knows(q) EXCEPT !.pc = "embed", !.one = NothingOwed]
<1>3. proc' = [q \in Procs |-> IF q = p THEN done(q) ELSE knows(q)]
  BY <1>1 DEF PutVector
<1>4. \A q \in Procs : noted(q) \subseteq Ids
  BY ProcIs DEF Proc
<1> HIDE DEF noted
<1>5. ASSUME NEW q \in Procs
      PROVE  /\ knows(q) \in Proc /\ knows(q).bad = noted(q) /\ knows(q).ver = proc[q].ver
             /\ knows(q).pc = proc[q].pc /\ knows(q).out = proc[q].out /\ knows(q).skip = proc[q].skip
  BY <1>4, ProcIs DEF Proc
<1> HIDE DEF knows
<1>6. done(p) \in Proc /\ done(p).bad = noted(p) /\ done(p).ver = proc[p].ver /\ done(p).pc = "embed"
  BY <1>5, SnapValues DEF Proc, SyncSteps
<1> HIDE DEF done
<1>7. proc' \in [Procs -> Proc]
  BY <1>3, <1>5, <1>6
<1>8. /\ rows' \in [Ids -> VecRow]
      /\ \A j \in Ids : rows'[j].text = rows[j].text /\ (rows'[j].text = 0 => rows'[j] = NoRow)
      /\ \A j \in Ids : rows'[j].vec = rows[j].vec \/ (j = i /\ rows'[j].vec = v)
  <2>1. CASE Exists(i)
    <3>1. rows[i] \in VecRow /\ rows[i].text # 0
      BY <2>1, Told DEF SnapInv, SnapshotTypeOK
    <3> DEFINE new == [rows[i] EXCEPT !.vec = v]
    <3>2. new \in VecRow /\ new.text = rows[i].text /\ new.vec = v
      BY <3>1 DEF VecRow
    <3>3. rows' = [rows EXCEPT ![i] = new]
      BY <1>2, <2>1
    <3> HIDE DEF new
    <3>. QED  BY <3>1, <3>2, <3>3 DEF SnapInv, SnapshotTypeOK
  <2>2. CASE ~Exists(i)
    BY <1>2, <2>2 DEF SnapInv, SnapshotTypeOK
  <2>. QED  BY <2>1, <2>2
<1>9. SnapshotTypeOK'
  <2>1. index' \in [Procs -> [Ids -> Vec]]
    BY <1>2 DEF SnapInv, SnapshotTypeOK
  <2>. QED  BY <1>2, <1>7, <1>8, <2>1 DEF SnapInv, SnapshotTypeOK, MarkedDirty
<1>10. \A j \in Ids : Exists(j)' <=> Exists(j)
  <2>1. \A j \in Ids : rows[j].text # 0 <=> Exists(j)
    BY Told DEF SnapInv
  <2>2. \A j \in Ids : Exists(j)' => rows'[j].text # 0
    BY <1>8 DEF Exists
  <2>3. \A j \in Ids : rows'[j].text # 0 => Exists(j)'
    BY DEF Exists, NoRow
  <2>. QED  BY <1>8, <2>1, <2>2, <2>3
<1>11. StaleOnlyIfKnownWrong'
  BY <1>2, <1>8, <1>10 DEF SnapInv, StaleOnlyIfKnownWrong, Served, MarkedDirty
<1>12. ASSUME NEW q \in Procs PROVE Informed(q)'
  <2>1. proc'[q].bad = noted(q) /\ proc'[q].ver = proc[q].ver
        /\ (proc'[q].pc # "embed" => /\ proc'[q].pc = proc[q].pc
                                     /\ proc'[q].out = proc[q].out /\ proc'[q].skip = proc[q].skip)
    BY <1>3, <1>5, <1>6
  <2>2. \A j \in Ids : index'[q][j] = index[q][j] \/ (j = i /\ index'[q][j] = v)
    BY <1>2 DEF SnapInv, SnapshotTypeOK
  <2>3. proc[q].bad \subseteq noted(q) /\ (Exists(i) /\ i \notin noted(q) => v = rows[i].text)
    BY DEF noted
  <2>4. ReadEarlier(q)' /\ PartsRight(q)'
    BY <1>2, <1>8, <1>10, <2>1 DEF SnapInv, Informed, ReadEarlier, PartsRight, SyncAt, Fits
  <2>5. ASSUME proc[q].ver = version, NEW j \in Ids, j \notin noted(q), Exists(j)
        PROVE  /\ index'[q][j] \in {0, rows[j].text} /\ rows'[j].vec \in {0, rows[j].text}
               /\ todo[q].id = j => todo[q].vec \in {0, rows[j].text}
               /\ SyncAt(q, "save") => proc[q].out[j] \in {0, rows[j].text}
    <3>1. /\ index[q][j] \in {0, rows[j].text} /\ rows[j].vec \in {0, rows[j].text}
          /\ todo[q].id = j => todo[q].vec \in {0, rows[j].text}
          /\ SyncAt(q, "save") => proc[q].out[j] \in {0, rows[j].text}
      BY <2>3, <2>5 DEF SnapInv, Informed, HereRight, Fits
    <3>. QED  BY <1>8, <2>2, <2>3, <2>5, <3>1
  <2>6. HereRight(q)'
    BY <1>2, <1>8, <1>10, <2>1, <2>5 DEF HereRight, SyncAt, Fits
  <2>. QED  BY <2>4, <2>6 DEF Informed
<1>. QED  BY <1>9, <1>11, <1>12 DEF SnapInv

LEMMA EndsTyped ==
    ASSUME SnapInv, NEW p \in Procs, NEW yes \in BOOLEAN, Ends(p, yes)
    PROVE  /\ index' \in [Procs -> [Ids -> Vec]] /\ todo' \in [Procs -> Todo]
           /\ \A q \in Procs : q # p \/ ~yes => index'[q] = index[q] /\ todo'[q] = todo[q]
BY SnapValues DEF SnapInv, SnapshotTypeOK, Ends

LEMMA StopSnap == ASSUME SnapInv, NEW p \in Procs, Stop(p) PROVE SnapInv'
<1>1. proc' \in [Procs -> Proc] /\ proc'[p] = Down /\ \A q \in Procs \ {p} : proc'[q] = proc[q]
  BY Moved, SnapValues DEF SnapInv, Stop
<1>2. /\ index' \in [Procs -> [Ids -> Vec]] /\ todo' \in [Procs -> Todo]
      /\ \A q \in Procs \ {p} : index'[q] = index[q] /\ todo'[q] = todo[q]
  BY EndsTyped DEF Stop
<1>3. SnapshotTypeOK'
  BY <1>1, <1>2 DEF SnapInv, SnapshotTypeOK, Stop, StoreKept, HistoryKept, storeVars
<1>4. Informed(p)'
  BY <1>1, SnapValues
     DEF SnapInv, SnapshotTypeOK, Informed, ReadEarlier, HereRight, PartsRight, Stop, StoreKept,
         storeVars
<1>. QED  BY <1>1, <1>2, <1>3, <1>4, LocalInforms DEF Stop

(* The check of the version before a save.                                                          *)
LEMMA SaveSnap == ASSUME SnapInv, NEW p \in Procs, Save(p) PROVE SnapInv'
<1> DEFINE up == [proc[p] EXCEPT !.pc = "up", !.due = FALSE, !.out = NoVecs]
<1>1. up \in Proc /\ up.ver = proc[p].ver /\ up.bad = proc[p].bad /\ up.pc = "up"
  BY ProcIs, SnapValues DEF Proc, SyncSteps
<1> HIDE DEF up
<1>2. PICK r \in {Down, up} : MovesTo(p, r) /\ (proc[p].stop => r = Down) /\ (~proc[p].stop => r = up)
  BY DEF Save, up
<1>3. proc' \in [Procs -> Proc] /\ proc'[p] = r /\ \A q \in Procs \ {p} : proc'[q] = proc[q]
  BY <1>1, <1>2, Moved, SnapValues DEF SnapInv
<1>4. proc[p].stop \in BOOLEAN /\ proc[p].out \in [Ids -> Vec] /\ proc[p].bad \subseteq Ids
  BY ProcIs DEF Proc
<1>5. /\ index' \in [Procs -> [Ids -> Vec]] /\ todo' \in [Procs -> Todo]
      /\ \A q \in Procs : q # p \/ ~proc[p].stop => index'[q] = index[q] /\ todo'[q] = todo[q]
  BY <1>4, EndsTyped DEF Save
<1>6. UNCHANGED <<rows, version, erased>> /\ SyncAt(p, "save")
  BY DEF Save
<1>7. SnapshotTypeOK' /\ StaleOnlyIfKnownWrong'
      /\ \/ snap' = snap /\ wrong' = wrong
         \/ \A i \in Ids \ wrong' : Exists(i) => Fits(i, snap'[i])
  <2>1. CASE Unchanged(p)
    <3>1. snap' = proc[p].out /\ saved' = TRUE /\ dirty' = {} /\ wrong' = proc[p].bad
          /\ scopeAt' \in {version, scopeAt} /\ proc[p].ver = version
      BY <2>1 DEF Save, Unchanged
    <3>2. \A i \in Ids \ wrong' : Exists(i) => Fits(i, snap'[i])
      BY <1>6, <3>1 DEF SnapInv, Informed, HereRight
    <3>3. SnapshotTypeOK'
      BY <1>3, <1>4, <1>5, <1>6, <3>1, StoreIs DEF SnapInv, SnapshotTypeOK
    <3>4. StaleOnlyIfKnownWrong'
      BY <1>6, <3>2 DEF StaleOnlyIfKnownWrong, Served, Fits, Exists
    <3>. QED  BY <3>2, <3>3, <3>4
  <2>2. CASE ~Unchanged(p)
    <3>1. UNCHANGED <<snap, saved, dirty, wrong, scopeAt>>
      BY <2>2 DEF Save
    <3>2. SnapshotTypeOK'
      BY <1>3, <1>5, <1>6, <3>1 DEF SnapInv, SnapshotTypeOK
    <3>. QED  BY <1>6, <3>1, <3>2 DEF SnapInv, StaleOnlyIfKnownWrong, Served, Exists
  <2>. QED  BY <2>1, <2>2
<1>8. ASSUME NEW q \in Procs PROVE PartsRight(q)'
  <2>1. SyncAt(q, "parts")' => q # p
    BY <1>1, <1>2, <1>3 DEF SyncAt, Down
  <2>. QED  BY <1>3, <1>6, <1>7, <2>1 DEF SnapInv, Informed, PartsRight, SyncAt, Fits, Exists
<1>9. ASSUME NEW q \in Procs, q # p \/ r = up PROVE ReadEarlier(q)' /\ HereRight(q)'
  <2>1. index'[q] = index[q] /\ todo'[q] = todo[q]
    BY <1>1, <1>2, <1>5, <1>9, SnapValues DEF Down
  <2>2. proc'[q].ver = proc[q].ver /\ proc'[q].bad = proc[q].bad /\ (SyncAt(q, "save")' => proc'[q] = proc[q])
    BY <1>1, <1>3, <1>9 DEF SyncAt
  <2>. QED  BY <1>6, <2>1, <2>2 DEF SnapInv, Informed, ReadEarlier, HereRight, SyncAt, Fits, Exists
<1>10. r = Down => ReadEarlier(p)' /\ HereRight(p)'
  BY <1>3, <1>6, SnapValues DEF SnapInv, SnapshotTypeOK, ReadEarlier, HereRight
<1>. QED  BY <1>7, <1>8, <1>9, <1>10 DEF SnapInv, Informed

----------------------------------------------------------------------------
(* The invariant, and what it gives. *)

LEMMA SnapStarts == SnapshotInit => SnapInv
<1> SUFFICES ASSUME SnapshotInit PROVE SnapInv
  OBVIOUS
<1>1. SnapshotTypeOK
  <2>1. version \in 0..MaxWrites /\ scopeAt \in Int
    BY SizeAssumption DEF SnapshotInit
  <2>2. saved = FALSE /\ dirty = {} /\ erased = {} /\ wrong = {} /\ snap = NoVecs
    BY Zenon DEF SnapshotInit
  <2>3. rows \in [Ids -> VecRow] /\ (\A i \in Ids : rows[i] = NoRow) /\ snap \in [Ids -> Vec]
    BY SnapValues DEF SnapshotInit
  <2>4. /\ index \in [Procs -> [Ids -> Vec]] /\ proc \in [Procs -> Proc] /\ todo \in [Procs -> Todo]
    BY SnapValues DEF SnapshotInit
  <2>. QED  BY <2>1, <2>2, <2>3, <2>4 DEF SnapshotTypeOK
<1>2. StaleOnlyIfKnownWrong
  BY DEF SnapshotInit, StaleOnlyIfKnownWrong, Served, NoVecs
<1>3. \A p \in Procs : Informed(p)
  BY SnapValues DEF SnapshotInit, Informed, ReadEarlier, HereRight, PartsRight
<1>. QED  BY <1>1, <1>2, <1>3 DEF SnapInv

LEMMA SnapStep == SnapInv /\ [SnapshotNext]_snapshotVars => SnapInv'
<1> SUFFICES ASSUME SnapInv, [SnapshotNext]_snapshotVars PROVE SnapInv'
  OBVIOUS
<1>1. CASE UNCHANGED snapshotVars
  BY <1>1
     DEF snapshotVars, SnapInv, SnapshotTypeOK, StaleOnlyIfKnownWrong, Served, Exists, Informed,
         ReadEarlier,
              HereRight, PartsRight, SyncAt, Fits
<1>2. ASSUME NEW p \in Procs, NEW i \in Ids,
             Put(p, i) \/ SetState(p, i) \/ ForgetRow(p, i) \/ Erase(p, i) \/ ReadText(p, i)
      PROVE  SnapInv'
  BY <1>2, PutSnap, SetStateSnap, ForgetSnap, EraseSnap, ReadTextSnap
<1>3. ASSUME NEW p \in Procs,
             \/ Catchup(p) \/ Open(p) \/ ReadMeta(p) \/ LoadParts(p) \/ LoadRows(p) \/ PutVector(p)
             \/ Embedded(p) \/ Export(p) \/ Save(p) \/ Stop(p)
      PROVE  SnapInv'
  BY <1>3, CatchupSnap, OpenSnap, ReadMetaSnap, LoadPartsSnap, LoadRowsSnap, PutVectorSnap, EmbeddedSnap,
     ExportSnap, SaveSnap, StopSnap
<1>4. ASSUME NEW p \in Procs, NEW yes \in BOOLEAN, Sync(p, yes) \/ Synced(p, yes) PROVE SnapInv'
  BY <1>4, SyncSnap, SyncedSnap
<1>. QED  BY <1>1, <1>2, <1>3, <1>4 DEF SnapshotNext

LEMMA SnapAlways == SnapshotSpec => []SnapInv
BY SnapStarts, SnapStep, PTL DEF SnapshotSpec

(* Rows, snapshot and indexes keep their types, and without a snapshot there is nothing recorded   *)
(* against it (vector_snapshot.py: _mark_vector_dirty, drop_vector_snapshot).                        *)
THEOREM SnapshotTyped == SnapshotSpec => []SnapshotTypeOK
<1>1. SnapInv => SnapshotTypeOK  BY DEF SnapInv
<1>. QED  BY <1>1, SnapAlways, PTL

(* What a snapshot serves is the vector of the text, unless the process that saved it had it wrong    *)
(* before it read the version it compares (vector_snapshot.py: save_vector_snapshot).                   *)
THEOREM SnapshotsAreRight == SnapshotSpec => []StaleOnlyIfKnownWrong
<1>1. SnapInv => StaleOnlyIfKnownWrong  BY DEF SnapInv
<1>. QED  BY <1>1, SnapAlways, PTL

(* A recall after a sync finds a memory by the vector of its text, unless the process had it wrong    *)
(* or loaded what was wrong (index_bulk_load.py, retrieval_index.py: _load_missing, sync_delta).          *)
THEOREM IndexesAreRight == SnapshotSpec => []IndexedIsRight
<1>1. SnapInv => IndexedIsRight
  <2> SUFFICES ASSUME SnapInv, NEW p \in Procs, proc[p].ver = version,
                      NEW i \in Indexed(p) \cap Live, i \notin proc[p].bad
               PROVE  index[p][i] = rows[i].text
    BY DEF IndexedIsRight
  <2>1. i \in Ids /\ index[p][i] # 0 /\ Exists(i)
    BY DEF Indexed, Live, Exists, NoRow
  <2>. QED  BY <2>1 DEF SnapInv, Informed, HereRight, Fits
<1>. QED  BY <1>1, SnapAlways, PTL

==================================================================================
