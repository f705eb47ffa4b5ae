------------------------------ MODULE StoreUpgradeProofs ------------------------------
(* No upgrade or restore loses a memory, for any number of processes, builds, memories    *)
(* and backups: what StoreUpgrade checks on two processes and a restore.                   *)
EXTENDS StoreUpgrade, FiniteSetTheorems, TLAPS

(* What is known of a process from where it is.  A restore never reaches the migration,    *)
(* an upgrade never overwrites the store outright.                                            *)
Role(p) ==
    /\ p \in Restorers => proc[p].pc \in {"closed", "begin", "partial", "copy", "verify", "publish", "unlink",
                                          "replace", "ended"}
    /\ p \in Openers => proc[p].pc # "replace"

(* A backup has a name while it is made, and a file under it once it is relied upon.       *)
Named(p) ==
    /\ proc[p].pc \in {"copy", "verify", "publish", "unlink", "undo"} => proc[p].name \in Names
    /\ proc[p].pc \in {"closed", "stamp", "guard", "begin", "partial", "ended"} => proc[p].name = 0
    /\ proc[p].pc \in {"confirm", "undo"} /\ proc[p].name # 0 => files[proc[p].name] # NoFile
    /\ p \in Restorers /\ ~At(p, "closed") /\ ~At(p, "ended") =>
         proc[p].file \in Names /\ files[proc[p].file] # NoFile

(* The plan counts the rows of the store, which nobody else changes under the lock.        *)
Counted(p) == p \in Openers /\ proc[p].pc \in Locking => proc[p].count = Cardinality(store.rows)

(* A partial copy holds no row the store does not; one that was verified is the store.     *)
Copied(p) ==
    /\ At(p, "verify") => LET c == partial[proc[p].name] IN
         c \in Content /\ c.schema = store.schema /\ c.rows \subseteq store.rows
    /\ At(p, "publish") => partial[proc[p].name] = store

Backed(p) == proc[p].pc \in {"unlink", "migrate", "check"} /\ proc[p].name # 0 => files[proc[p].name] = store

Migrated(p) == At(p, "check") => proc[p].tx.schema = Build[p] /\ proc[p].tx.rows \subseteq store.rows

Published == UNION {files[n].rows : n \in {m \in Names : files[m] # NoFile}}

(* Whoever may put a backup over the store has published one that holds all of it but what *)
(* was stored meanwhile.                                                                       *)
Covered(p) == (proc[p].pc \in {"confirm", "undo"} /\ proc[p].name # 0) \/ At(p, "replace") =>
                store.rows \subseteq Published \cup late

Knows(p) == Role(p) /\ Named(p) /\ Counted(p) /\ Copied(p) /\ Backed(p) /\ Migrated(p) /\ Covered(p)

IInv == TypeOK /\ (\A p \in Procs : Knows(p)) /\ KeptSomewhere

(* A subset of the memories that has as many of them is all of them.                       *)
LEMMA SameSize ==
  ASSUME NEW S \in SUBSET Ids, NEW T \in SUBSET S, Cardinality(T) >= Cardinality(S)
  PROVE  S = T
<1>1. IsFiniteSet(Ids)
  BY FS_Interval, SizeAssumption DEF Ids
<1>2. IsFiniteSet(S)
  BY <1>1, FS_Subset
<1>3. IsFiniteSet(T) /\ Cardinality(T) <= Cardinality(S) /\ (Cardinality(S) = Cardinality(T) => S = T)
  BY <1>2, FS_Subset
<1>4. Cardinality(S) \in Nat /\ Cardinality(T) \in Nat
  BY <1>2, <1>3, FS_CardinalityType
<1> QED BY <1>3, <1>4

LEMMA Counts ==
  ASSUME NEW S \in SUBSET Ids
  PROVE  Cardinality(S) \in Nat
<1>1. IsFiniteSet(Ids)
  BY FS_Interval, SizeAssumption DEF Ids
<1> QED BY <1>1, FS_Subset, FS_CardinalityType

LEMMA InitOK == Init => IInv
<1> SUFFICES ASSUME Init PROVE IInv
  OBVIOUS
<1>1. First \in Content
  BY SizeAssumption DEF First, Content, Ids
<1>2. Idle \in Proc
  BY <1>1, SizeAssumption DEF Idle, Proc, Steps, Locking
<1>3. TypeOK
  BY <1>1, <1>2, ProcAssumption, SizeAssumption DEF Init, TypeOK, Idle, Locking, Ids
<1>4. \A p \in Procs : Knows(p)
  BY ProcAssumption DEF Init, Idle, Knows, Role, Named, Counted, Copied, Backed, Migrated, Covered, At, Locking
<1>5. KeptSomewhere
  BY SizeAssumption DEF Init, KeptSomewhere, Kept, First
<1> QED BY <1>3, <1>4, <1>5 DEF IInv

----------------------------------------------------------------------------
(* The process that steps, and the others. *)

(* The record of p after the step; the other records stay.                                  *)
Becomes(p, pc, file, name, count, tx) ==
    /\ proc' \in [Procs -> Proc]
    /\ \A q \in Procs \ {p} : proc'[q] = proc[q]
    /\ proc'[p].pc = pc /\ proc'[p].file = file /\ proc'[p].name = name
    /\ proc'[p].count = count /\ proc'[p].tx = tx

LEMMA StepRecord ==
  ASSUME TypeOK, NEW p \in Procs, NEW from, NEW to \in Steps, Step(p, from, to)
  PROVE  proc[p].pc = from /\ Becomes(p, to, proc[p].file, proc[p].name, proc[p].count, proc[p].tx)
BY DEF TypeOK, Step, At, Goto, Becomes, Proc

LEMMA IdleRecord ==
  ASSUME TypeOK, NEW p \in Procs, NEW to \in Steps, NEW f \in 0..MaxNames,
         Goto(p, [Idle EXCEPT !.pc = to, !.file = f])
  PROVE  Becomes(p, to, f, 0, 0, First)
<1>1. First \in Content
  BY SizeAssumption DEF First, Content, Ids
<1>2. Idle \in Proc
  BY <1>1, SizeAssumption DEF Idle, Proc, Steps, Locking
<1>3. [Idle EXCEPT !.pc = to, !.file = f] \in Proc
  BY <1>2 DEF Proc
<1> QED BY <1>3 DEF TypeOK, Goto, Becomes, Idle

LEMMA EndRecord ==
  ASSUME TypeOK, NEW p \in Procs, NEW to \in Steps, Goto(p, [Idle EXCEPT !.pc = to])
  PROVE  Becomes(p, to, 0, 0, 0, First)
<1>1. First \in Content
  BY SizeAssumption DEF First, Content, Ids
<1> QED BY <1>1, SizeAssumption DEF TypeOK, Goto, Becomes, Proc, Idle


(* The write lock goes with the place of the process.                                       *)
Turn(p) ==
    IF proc'[p].pc \in Locking THEN writer \in {p, NoOne} /\ writer' = p
    ELSE writer' = IF writer = p THEN NoOne ELSE writer

LEMMA TypedStep ==
  ASSUME TypeOK, NEW p \in Procs, NEW pc, NEW file, NEW name, NEW count, NEW tx,
         Becomes(p, pc, file, name, count, tx), Turn(p), server' \in {server, p, NoOne} \cap (Serving \cup {NoOne}),
         store' \in Content, files' \in [Names -> Content \cup {NoFile}],
         partial' \in [Names -> Content \cup {NoFile}],
         made' \in OldRows..MaxRows, forgotten' \subseteq Ids, late' \subseteq Ids
  PROVE  TypeOK'
<1>1. \A q \in Procs : writer' = q <=> proc'[q].pc \in Locking
  BY ProcAssumption DEF TypeOK, Becomes, Turn
<1> QED BY <1>1 DEF TypeOK, Becomes, Turn

(* What no step of p does to the others.                                                    *)
Spares(p) ==
    /\ \A n \in Names : files[n] # NoFile => files'[n] = files[n]
    /\ \A q \in Procs \ {p} : proc[q].pc \in Locking => store' = store /\ partial' = partial
    /\ late \subseteq late'
    /\ \A q \in Procs \ {p} : proc[q].pc \in {"confirm", "undo", "replace"} =>
         store'.rows \subseteq store.rows \cup Published \cup late'

LEMMA PublishedStays ==
  ASSUME \A n \in Names : files[n] # NoFile => files'[n] = files[n]
  PROVE  Published \subseteq Published'
BY DEF Published

LEMMA Others ==
  ASSUME NEW p \in Procs, NEW q \in Procs \ {p}, TypeOK, Knows(q), proc'[q] = proc[q], Spares(p)
  PROVE  Knows(q)'
<1>1. Role(q)' /\ Migrated(q)'
  BY DEF Knows, Role, Migrated, Spares, At, Locking
<1>2. Named(q)'
  BY DEF TypeOK, Proc, Names, Knows, Named, Spares, At
<1>3. Counted(q)' /\ Copied(q)'
  BY DEF Knows, Counted, Copied, Spares, At, Locking
<1>4. Backed(q)'
  <2> SUFFICES ASSUME proc[q].pc \in {"unlink", "migrate", "check"}, proc[q].name # 0
               PROVE  files'[proc[q].name] = store'
    BY DEF Backed
  <2>1. proc[q].name \in Names /\ files[proc[q].name] = store /\ store' = store
    BY DEF TypeOK, Proc, Names, Knows, Backed, Spares, Locking
  <2> QED BY <2>1, FileAssumption DEF TypeOK, Spares
<1>5. Covered(q)'
  BY PublishedStays DEF Knows, Covered, Spares, At
<1> QED BY <1>1, <1>2, <1>3, <1>4, <1>5 DEF Knows

(* What every action is shown to keep.                                                      *)
After(p) == TypeOK' /\ (\A q \in Procs \ {p} : proc'[q] = proc[q]) /\ Spares(p) /\ Knows(p)' /\ KeptSomewhere'

LEMMA InvStep ==
  ASSUME IInv, NEW p \in Procs, After(p)
  PROVE  IInv'
<1>1. \A q \in Procs \ {p} : Knows(q)'
  BY Others DEF IInv, After
<1> QED BY <1>1 DEF IInv, After

(* A step that changes no memory, no file and no backup.                                    *)
LEMMA QuietStep ==
  ASSUME IInv, NEW p \in Procs, NEW pc, NEW file, NEW name, NEW count, NEW tx,
         Becomes(p, pc, file, name, count, tx), Turn(p), server' \in {server, p, NoOne} \cap (Serving \cup {NoOne}),
         UNCHANGED store, FilesKept, HistoryKept, Knows(p)'
  PROVE  After(p)
<1>1. TypeOK'
  BY TypedStep DEF IInv, TypeOK, FilesKept, HistoryKept
<1>2. Spares(p)
  BY DEF Spares, FilesKept, HistoryKept
<1>3. KeptSomewhere'
  BY DEF IInv, KeptSomewhere, Kept, FilesKept, HistoryKept
<1> QED BY <1>1, <1>2, <1>3 DEF After, Becomes

(* A step under the write lock that writes backups only: nobody else is at work there.      *)
LEMMA BackupStep ==
  ASSUME IInv, NEW p \in Procs, NEW pc, NEW file, NEW name, NEW count, NEW tx,
         Becomes(p, pc, file, name, count, tx), Turn(p), server' \in {server, p, NoOne} \cap (Serving \cup {NoOne}),
         proc[p].pc \in Locking, UNCHANGED store, HistoryKept,
         partial' \in [Names -> Content \cup {NoFile}], files' \in [Names -> Content \cup {NoFile}],
         \A n \in Names : files[n] # NoFile => files'[n] = files[n],
         Knows(p)'
  PROVE  After(p)
<1>1. TypeOK'
  BY TypedStep DEF IInv, TypeOK, HistoryKept
<1>2. \A q \in Procs \ {p} : proc[q].pc \notin Locking
  BY ProcAssumption DEF IInv, TypeOK
<1>3. Spares(p)
  BY <1>2 DEF Spares, HistoryKept
<1>4. KeptSomewhere'
  BY DEF IInv, KeptSomewhere, Kept, HistoryKept
<1> QED BY <1>1, <1>3, <1>4 DEF After, Becomes

LEMMA GivesUpStep ==
  ASSUME IInv, NEW p \in Procs, GivesUp(p), UNCHANGED files,
         partial' = partial \/ (proc[p].pc \in Locking /\ partial' \in [Names -> Content \cup {NoFile}])
  PROVE  After(p)
<1>1. Becomes(p, "ended", 0, 0, 0, First)
  BY EndRecord DEF IInv, GivesUp, Steps
<1>2. Turn(p) /\ server' \in {server, p, NoOne} \cap (Serving \cup {NoOne}) /\ UNCHANGED store /\ HistoryKept
  BY <1>1 DEF IInv, TypeOK, Becomes, Turn, GivesUp, Locking
<1>3. Knows(p)'
  BY <1>1, ProcAssumption
     DEF Becomes, Knows, Role, Named, Counted, Copied, Backed, Migrated, Covered, At, Locking
<1>4. CASE partial' = partial
  BY <1>1, <1>2, <1>3, <1>4, QuietStep DEF FilesKept
<1>5. CASE proc[p].pc \in Locking /\ partial' \in [Names -> Content \cup {NoFile}]
  BY <1>1, <1>2, <1>3, <1>5, BackupStep DEF IInv, TypeOK
<1> QED BY <1>4, <1>5

----------------------------------------------------------------------------
(* One lemma per group of actions. *)

LEMMA Openings ==
  ASSUME IInv, NEW p \in Procs, Serve(p) \/ Open(p) \/ (\E n \in Names : Choose(p, n)) \/ Again(p)
  PROVE  After(p)
<1>1. CASE Serve(p)
  <2>1. Becomes(p, "stamp", 0, 0, 0, First)
    BY <1>1, EndRecord DEF IInv, Serve, Steps
  <2>2. Turn(p) /\ server' \in {server, p, NoOne} \cap (Serving \cup {NoOne}) /\ writer' = writer
    BY <1>1, <2>1, ProcAssumption DEF IInv, TypeOK, Serve, Becomes, Turn, Locking, At
  <2>3. Knows(p)'
    BY <1>1, <2>1, ProcAssumption
       DEF Becomes, Serve, Knows, Role, Named, Counted, Copied, Backed, Migrated, Covered, At, Locking
  <2> QED BY <1>1, <2>1, <2>2, <2>3, QuietStep DEF Serve
<1>2. CASE Open(p)
  <2>1. Becomes(p, "stamp", proc[p].file, proc[p].name, proc[p].count, proc[p].tx) /\ proc[p].pc = "closed"
    BY <1>2, StepRecord DEF IInv, Open, Steps
  <2>2. Turn(p) /\ server' \in {server, p, NoOne} \cap (Serving \cup {NoOne})
    BY <1>2, <2>1, ProcAssumption DEF IInv, TypeOK, Open, Becomes, Turn, Locking
  <2>3. Knows(p)'
    BY <1>2, <2>1, ProcAssumption
       DEF IInv, Becomes, Open, Knows, Role, Named, Counted, Copied, Backed, Migrated, Covered, At, Locking
  <2> QED BY <1>2, <2>1, <2>2, <2>3, QuietStep DEF Open
<1>3. ASSUME NEW n \in Names, Choose(p, n) PROVE After(p)
  <2>1. Becomes(p, "begin", n, 0, 0, First) /\ proc[p].pc = "closed"
    <3>1. n \in 0..MaxNames /\ "begin" \in Steps
      BY SizeAssumption DEF Names, Steps
    <3>2. Goto(p, [Idle EXCEPT !.pc = "begin", !.file = n])
      BY <1>3 DEF Choose
    <3>3. Becomes(p, "begin", n, 0, 0, First)
      BY <3>1, <3>2, IdleRecord DEF IInv
    <3> QED BY <1>3, <3>3 DEF Choose, At
  <2>2. Turn(p) /\ server' \in {server, p, NoOne} \cap (Serving \cup {NoOne})
    BY <1>3, <2>1, ProcAssumption DEF IInv, TypeOK, Choose, Becomes, Turn, Locking
  <2>3. Knows(p)'
    BY <1>3, <2>1, ProcAssumption
       DEF Becomes, Choose, FilesKept, Knows, Role, Named, Counted, Copied, Backed, Migrated, Covered, At, Locking
  <2> QED BY <1>3, <2>1, <2>2, <2>3, QuietStep DEF Choose
<1>4. CASE Again(p)
  <2>1. Becomes(p, "closed", proc[p].file, proc[p].name, proc[p].count, proc[p].tx) /\ proc[p].pc = "ended"
    BY <1>4, StepRecord DEF IInv, Again, Steps
  <2>2. Turn(p) /\ server' \in {server, p, NoOne} \cap (Serving \cup {NoOne})
    BY <1>4, <2>1, ProcAssumption DEF IInv, TypeOK, Again, Becomes, Turn, Locking
  <2>3. Knows(p)'
    BY <1>4, <2>1, ProcAssumption
       DEF IInv, Becomes, Again, Knows, Role, Named, Counted, Copied, Backed, Migrated, Covered, At, Locking
  <2> QED BY <1>4, <2>1, <2>2, <2>3, QuietStep DEF Again
<1> QED BY <1>1, <1>2, <1>3, <1>4

LEMMA Guards ==
  ASSUME IInv, NEW p \in Procs, Opening(p)
  PROVE  After(p)
<1>1. CASE FilesKept /\ GivesUp(p)
  BY <1>1, GivesUpStep DEF FilesKept
<1>2. ASSUME NEW from \in {"stamp", "guard", "begin"}, NEW to \in {"guard", "begin", "open"}, Step(p, from, to),
             UNCHANGED <<store, writer, server>>, FilesKept, HistoryKept,
             p \in Restorers => <<from, to>> \notin {<<"stamp", "guard">>, <<"guard", "begin">>, <<"begin", "open">>},
             <<from, to>> \in {<<"stamp", "guard">>, <<"guard", "begin">>, <<"begin", "open">>}
      PROVE  After(p)
  <2>1. Becomes(p, to, proc[p].file, proc[p].name, proc[p].count, proc[p].tx) /\ proc[p].pc = from
    BY <1>2, StepRecord DEF IInv, Steps
  <2>2. Turn(p) /\ server' \in {server, p, NoOne} \cap (Serving \cup {NoOne})
    BY <1>2, <2>1, ProcAssumption DEF IInv, TypeOK, Becomes, Turn, Locking
  <2>3. Knows(p)'
    BY <1>2, <2>1, ProcAssumption
       DEF IInv, Becomes, Knows, Role, Named, Counted, Copied, Backed, Migrated, Covered, At, Locking, Procs
  <2> QED BY <1>2, <2>1, <2>2, <2>3, QuietStep
<1>3. p \in Restorers => proc[p].pc \notin {"stamp", "guard"}
  BY DEF IInv, Knows, Role
<1>4. CASE RefuseNewer(p)
  BY <1>1, <1>2, <1>3, <1>4 DEF RefuseNewer, Step, At
<1>5. CASE RefuseUnderServer(p)
  BY <1>1, <1>2, <1>3, <1>5 DEF RefuseUnderServer, Step, At
<1>6. CASE Busy(p)
  BY <1>1, <1>6 DEF Busy
<1>7. CASE Begin(p) /\ store.schema >= Build[p]
  BY <1>2, <1>7, ProcAssumption DEF Begin
<1>8. CASE Begin(p) /\ ~(store.schema >= Build[p])
  <2> DEFINE c == Cardinality(store.rows)
  <2>1. PICK next \in {"partial", "migrate"} : Goto(p, [proc[p] EXCEPT !.pc = next, !.count = c])
    BY <1>8 DEF Begin
  <2>2. c \in Nat
    BY Counts DEF IInv, TypeOK, Content
  <2> HIDE DEF c
  <2>3. Becomes(p, next, proc[p].file, proc[p].name, c, proc[p].tx)
    <3>1. [proc[p] EXCEPT !.pc = next, !.count = c] \in Proc
      BY <2>2 DEF IInv, TypeOK, Proc, Steps, Locking
    <3> QED BY <2>1, <3>1 DEF Goto, Becomes, IInv, TypeOK, Proc
  <2>4. Turn(p) /\ server' \in {server, p, NoOne} \cap (Serving \cup {NoOne})
    BY <1>8, <2>3 DEF IInv, TypeOK, Begin, Free, Becomes, Turn, Locking
  <2>5. Knows(p)'
    BY <1>8, <2>3, ProcAssumption
       DEF c, Begin, Becomes, IInv, Knows, Role, Named, Counted, Copied, Backed, Migrated, Covered, At, Locking
  <2> QED BY <1>8, <2>3, <2>4, <2>5, QuietStep DEF Begin
<1> QED BY <1>4, <1>5, <1>6, <1>7, <1>8 DEF Opening

(* A process at a step under the lock has it.                                                *)
LEMMA Holder ==
  ASSUME IInv, NEW p \in Procs, proc[p].pc \in Locking
  PROVE  writer = p /\ server \in {server, p, NoOne} \cap (Serving \cup {NoOne})
BY DEF IInv, TypeOK

LEMMA Backups ==
  ASSUME IInv, NEW p \in Procs, Backup(p)
  PROVE  After(p)
<1> DEFINE n == proc[p].name
<1>1. CASE MakePartial(p)
  <2>1. PICK m \in Names : /\ FreeName(m)
                           /\ partial' = [partial EXCEPT ![m] = [schema |-> store.schema, rows |-> {}]]
                           /\ Goto(p, [proc[p] EXCEPT !.pc = "copy", !.name = m])
    BY <1>1 DEF MakePartial
  <2>2. proc[p].pc = "partial" /\ writer = p /\ UNCHANGED <<store, writer, server, files>> /\ HistoryKept
    BY <1>1, Holder DEF MakePartial, At, Locking
  <2>3. Becomes(p, "copy", proc[p].file, m, proc[p].count, proc[p].tx)
    <3>1. [proc[p] EXCEPT !.pc = "copy", !.name = m] \in Proc
      <4>1. m \in 0..MaxNames /\ "copy" \in Steps
        BY SizeAssumption DEF Names, Steps, Locking
      <4>2. proc[p] \in Proc
        BY DEF IInv, TypeOK
      <4> QED BY <4>1, <4>2 DEF Proc
    <3>2. proc \in [Procs -> Proc] /\ proc' = [proc EXCEPT ![p] = [proc[p] EXCEPT !.pc = "copy", !.name = m]]
      BY <2>1 DEF Goto, IInv, TypeOK
    <3>3. proc' \in [Procs -> Proc] /\ \A q \in Procs \ {p} : proc'[q] = proc[q]
      BY <3>1, <3>2
    <3>4. proc[p] \in Proc /\ proc'[p] = [proc[p] EXCEPT !.pc = "copy", !.name = m]
      BY <3>2
    <3> QED BY <3>3, <3>4 DEF Becomes, Proc
  <2>4. Turn(p) /\ server' \in {server, p, NoOne} \cap (Serving \cup {NoOne})
    BY <2>2, <2>3 DEF IInv, TypeOK, Becomes, Turn, Locking
  <2>5. partial' \in [Names -> Content \cup {NoFile}]
    BY <2>1 DEF IInv, TypeOK, Content
  <2>6. Knows(p)'
    BY <2>2, <2>3, ProcAssumption
       DEF IInv, Becomes, Knows, Role, Named, Counted, Copied, Backed, Migrated, Covered, At, Locking
  <2> QED BY <2>2, <2>3, <2>4, <2>5, <2>6, BackupStep DEF IInv, TypeOK, Locking
<1>2. CASE Copy(p)
  <2>1. PICK damage : partial' = [partial EXCEPT ![n] = [store EXCEPT !.rows = @ \ damage]]
    BY <1>2 DEF Copy
  <2>2. /\ proc[p].pc = "copy" /\ n \in Names
        /\ Becomes(p, "verify", proc[p].file, n, proc[p].count, proc[p].tx)
    BY <1>2, StepRecord DEF IInv, Copy, Steps, Locking, Knows, Named
  <2>3. Turn(p) /\ server' \in {server, p, NoOne} \cap (Serving \cup {NoOne})
    BY <1>2, <2>2, Holder DEF Copy, Becomes, Turn, Locking
  <2> DEFINE c == [store EXCEPT !.rows = @ \ damage]
  <2>4. c \in Content /\ c.schema = store.schema /\ c.rows \subseteq store.rows
    BY DEF IInv, TypeOK, Content
  <2>5. partial' \in [Names -> Content \cup {NoFile}] /\ partial'[n] = c
    BY <2>1, <2>2, <2>4 DEF IInv, TypeOK
  <2>6. Knows(p)'
    <3> HIDE DEF c
    <3> QED BY <1>2, <2>2, <2>4, <2>5, ProcAssumption
            DEF Copy, IInv, Becomes, Knows, Role, Named, Counted, Copied, Backed, Migrated, Covered, At, Locking
  <2> QED BY <1>2, <2>2, <2>3, <2>5, <2>6, BackupStep DEF Copy, IInv, TypeOK, Locking
<1>3. CASE Verify(p) /\ Verified(p)
  <2>1. /\ proc[p].pc = "verify" /\ n \in Names
        /\ Becomes(p, "publish", proc[p].file, n, proc[p].count, proc[p].tx)
        /\ UNCHANGED <<store, writer, server>> /\ FilesKept /\ HistoryKept
    BY <1>3, StepRecord DEF IInv, Verify, At, Steps, Locking, Knows, Named
  <2>2. Turn(p) /\ server' \in {server, p, NoOne} \cap (Serving \cup {NoOne})
    BY <2>1, Holder DEF Becomes, Turn, Locking
  <2>3. partial[n] = store
    <3>1. /\ partial[n] \in Content /\ partial[n].schema = store.schema
          /\ partial[n].rows \subseteq store.rows /\ store.rows \subseteq Ids
      BY <2>1 DEF IInv, TypeOK, Content, Knows, Copied, At
    <3>2. partial[n].rows = store.rows
      <4>1. Cardinality(partial[n].rows) = Cardinality(store.rows) /\ Cardinality(store.rows) \in Nat
        BY <1>3, <3>1, Counts DEF Verified
      <4> HIDE DEF n
      <4> QED BY <3>1, <4>1, SameSize
    <3> QED BY <3>1, <3>2 DEF IInv, TypeOK, Content
  <2>4. Knows(p)'
    BY <2>1, <2>3, ProcAssumption
       DEF IInv, FilesKept, Becomes, Knows, Role, Named, Counted, Copied, Backed, Migrated, Covered, At, Locking
  <2> QED BY <2>1, <2>2, <2>4, QuietStep
<1>4. CASE Verify(p) /\ ~Verified(p)
  <2>1. GivesUp(p) /\ RemovePartial(p) /\ proc[p].pc = "verify"
    BY <1>4 DEF Verify, At
  <2>2. partial' \in [Names -> Content \cup {NoFile}] /\ UNCHANGED files
    BY <2>1 DEF RemovePartial, IInv, TypeOK
  <2> QED BY <2>1, <2>2, GivesUpStep DEF Locking
<1>5. CASE Publish(p)
  <2>1. /\ proc[p].pc = "publish" /\ n \in Names /\ partial[n] = store
        /\ Becomes(p, "unlink", proc[p].file, n, proc[p].count, proc[p].tx)
        /\ files' = [files EXCEPT ![n] = partial[n]] /\ files[n] = NoFile
        /\ UNCHANGED <<store, writer, server, partial>> /\ HistoryKept
    BY <1>5, StepRecord DEF IInv, Publish, At, Steps, Locking, Knows, Named, Copied
  <2>2. Turn(p) /\ server' \in {server, p, NoOne} \cap (Serving \cup {NoOne})
    BY <2>1, Holder DEF Becomes, Turn, Locking
  <2>3. files' \in [Names -> Content \cup {NoFile}] /\ files'[n] = store
        /\ \A m \in Names : files[m] # NoFile => files'[m] = files[m]
    BY <2>1 DEF IInv, TypeOK
  <2>4. Knows(p)'
    BY <2>1, <2>3, ProcAssumption
       DEF IInv, TypeOK, Proc, Becomes, Knows, Role, Named, Counted, Copied, Backed, Migrated, Covered, At, Locking
  <2> QED BY <2>1, <2>2, <2>3, <2>4, BackupStep DEF IInv, TypeOK, Locking
<1>6. CASE Unlink(p)
  <2> DEFINE to == IF p \in Restorers THEN "replace" ELSE "migrate"
  <2>1. /\ proc[p].pc = "unlink" /\ n \in Names /\ n # 0 /\ files[n] = store
        /\ Becomes(p, to, proc[p].file, n, proc[p].count, proc[p].tx)
        /\ UNCHANGED <<store, server, files>> /\ HistoryKept
        /\ partial' = [partial EXCEPT ![n] = NoFile]
    <3>1. to \in Steps /\ Step(p, "unlink", to)
      BY <1>6 DEF Unlink, Steps, Locking
    <3>2. proc[p].pc = "unlink" /\ Becomes(p, to, proc[p].file, n, proc[p].count, proc[p].tx)
      BY <3>1, StepRecord DEF IInv
    <3>3. n \in Names /\ n # 0 /\ files[n] = store
      BY <3>2, SizeAssumption DEF IInv, Knows, Named, Backed, Names
    <3> QED BY <1>6, <3>2, <3>3 DEF Unlink, RemovePartial
  <2>2. Turn(p) /\ server' \in {server, p, NoOne} \cap (Serving \cup {NoOne})
    BY <1>6, <2>1, Holder DEF Unlink, Becomes, Turn, Locking
  <2>3. partial' \in [Names -> Content \cup {NoFile}]
    BY <2>1 DEF IInv, TypeOK
  <2>4. store.rows \subseteq Published
    BY <2>1, FileAssumption DEF IInv, TypeOK, Published
  <2>5. Covered(p)'
    <3>1. Published \subseteq Published'
      BY <2>1, PublishedStays
    <3> QED BY <2>1, <2>4, <3>1 DEF Covered
  <2>6. Knows(p)'
    BY <2>1, <2>5, ProcAssumption
       DEF IInv, Becomes, Knows, Role, Named, Counted, Copied, Backed, Migrated, At, Locking, Procs
  <2> QED BY <2>1, <2>2, <2>3, <2>6, BackupStep DEF IInv, TypeOK, Locking
<1>7. CASE BackupFails(p)
  <2>1. GivesUp(p) /\ proc[p].pc \in Locking /\ (FilesKept \/ RemovePartial(p))
    BY <1>7 DEF BackupFails, At, Locking
  <2>2. partial' \in [Names -> Content \cup {NoFile}] /\ UNCHANGED files
    BY <2>1 DEF RemovePartial, FilesKept, IInv, TypeOK
  <2> QED BY <2>1, <2>2, GivesUpStep
<1> QED BY <1>1, <1>2, <1>3, <1>4, <1>5, <1>6, <1>7 DEF Backup

(* A step that changes the memories of the store, and no backup.                            *)
LEMMA StoreStep ==
  ASSUME IInv, NEW p \in Procs, NEW pc, NEW file, NEW name, NEW count, NEW tx,
         Becomes(p, pc, file, name, count, tx), Turn(p), server' \in {server, p, NoOne} \cap (Serving \cup {NoOne}),
         writer \in {p, NoOne}, FilesKept, store' \in Content,
         made' \in OldRows..MaxRows, forgotten' \subseteq Ids, late' \subseteq Ids,
         late \subseteq late', store'.rows \subseteq store.rows \cup Published \cup late',
         KeptSomewhere', Knows(p)'
  PROVE  After(p)
<1>1. TypeOK'
  BY TypedStep DEF IInv, TypeOK, FilesKept
<1>2. \A q \in Procs \ {p} : proc[q].pc \notin Locking
  BY ProcAssumption DEF IInv, TypeOK
<1>3. Spares(p)
  BY <1>2 DEF Spares, FilesKept
<1> QED BY <1>1, <1>3 DEF After, Becomes

(* A process that puts a backup over the store.                                             *)
LEMMA PutBack ==
  ASSUME IInv, NEW p \in Procs, NEW n \in Names, files[n] # NoFile, store' = files[n], Free,
         store.rows \subseteq Published \cup late,
         Goto(p, [Idle EXCEPT !.pc = "ended"]), UNCHANGED writer, FilesKept, HistoryKept,
         server' \in {server, p, NoOne} \cap (Serving \cup {NoOne})
  PROVE  After(p)
<1>1. Becomes(p, "ended", 0, 0, 0, First)
  BY EndRecord DEF IInv, Steps
<1>2. Turn(p) /\ writer \in {p, NoOne}
  BY <1>1 DEF Free, Becomes, Turn, Locking
<1>3. Knows(p)'
  BY <1>1, ProcAssumption
     DEF Becomes, Knows, Role, Named, Counted, Copied, Backed, Migrated, Covered, At, Locking
<1>4. store' \in Content /\ store'.rows \subseteq Published
  BY DEF IInv, TypeOK, Published
<1>5. KeptSomewhere'
  BY DEF IInv, KeptSomewhere, Kept, Published, FilesKept, HistoryKept
<1> QED BY <1>1, <1>2, <1>3, <1>4, <1>5, StoreStep DEF IInv, TypeOK, HistoryKept

LEMMA Upgrades ==
  ASSUME IInv, NEW p \in Procs, Upgrade(p)
  PROVE  After(p)
<1> DEFINE n == proc[p].name
<1>1. CASE Migrate(p)
  <2>1. PICK lost : Goto(p, [proc[p] EXCEPT !.pc = "check",
                                            !.tx = [schema |-> Build[p], rows |-> store.rows \ lost]])
    BY <1>1 DEF Migrate
  <2> DEFINE c == [schema |-> Build[p], rows |-> store.rows \ lost]
  <2>2. c \in Content /\ c.schema = Build[p] /\ c.rows \subseteq store.rows
    BY ProcAssumption DEF IInv, TypeOK, Content
  <2> HIDE DEF c
  <2>3. Becomes(p, "check", proc[p].file, n, proc[p].count, c)
    <3>1. [proc[p] EXCEPT !.pc = "check", !.tx = c] \in Proc
      <4>1. proc[p] \in Proc /\ "check" \in Steps
        BY DEF IInv, TypeOK, Steps, Locking
      <4> QED BY <2>2, <4>1 DEF Proc
    <3>2. proc \in [Procs -> Proc] /\ proc' = [proc EXCEPT ![p] = [proc[p] EXCEPT !.pc = "check", !.tx = c]]
      BY <2>1 DEF Goto, IInv, TypeOK, c
    <3>3. proc' \in [Procs -> Proc] /\ \A q \in Procs \ {p} : proc'[q] = proc[q]
      BY <3>1, <3>2
    <3>4. proc[p] \in Proc /\ proc'[p] = [proc[p] EXCEPT !.pc = "check", !.tx = c]
      BY <3>2
    <3> QED BY <3>3, <3>4 DEF Becomes, Proc
  <2>4. proc[p].pc = "migrate" /\ UNCHANGED <<store, writer, server>> /\ FilesKept /\ HistoryKept
    BY <1>1 DEF Migrate, At
  <2>5. Turn(p) /\ server' \in {server, p, NoOne} \cap (Serving \cup {NoOne})
    BY <2>3, <2>4, Holder DEF Becomes, Turn, Locking
  <2>6. Knows(p)'
    BY <2>2, <2>3, <2>4, ProcAssumption
       DEF IInv, FilesKept, Becomes, Knows, Role, Named, Counted, Copied, Backed, Migrated, Covered, At, Locking
  <2> QED BY <2>3, <2>4, <2>5, <2>6, QuietStep
<1>2. CASE MigrationFails(p) \/ UndoFails(p)
  BY <1>2, GivesUpStep DEF MigrationFails, UndoFails, FilesKept
<1>3. CASE VerifyAndCommit(p) /\ NothingLost(p)
  <2>1. /\ proc[p].pc = "check" /\ p \in Openers
        /\ Becomes(p, "confirm", proc[p].file, n, proc[p].count, proc[p].tx)
        /\ store' = proc[p].tx /\ writer' = NoOne /\ UNCHANGED server /\ HistoryKept /\ FilesKept
    BY <1>3, StepRecord DEF IInv, VerifyAndCommit, At, Steps, Knows, Role, Procs
  <2>2. store'.rows = store.rows
    <3>1. /\ proc[p].tx.rows \subseteq store.rows /\ store.rows \in SUBSET Ids
          /\ proc[p].count = Cardinality(store.rows)
      BY <2>1 DEF IInv, TypeOK, Content, Knows, Migrated, Counted, At, Locking
    <3>2. Cardinality(proc[p].tx.rows) >= Cardinality(store.rows)
      BY <1>3, <3>1 DEF NothingLost
    <3> QED BY <2>1, <3>1, <3>2, SameSize
  <2>3. Turn(p) /\ writer = p /\ server' \in {server, p, NoOne} \cap (Serving \cup {NoOne})
    BY <2>1, Holder DEF Becomes, Turn, Locking
  <2>4. Covered(p)'
    <3>1. CASE n # 0
      <4>1. n \in Names /\ files[n] = store
        BY <2>1, <3>1, SizeAssumption DEF IInv, TypeOK, Proc, Names, Knows, Backed
      <4>2. store.rows \subseteq Published
        BY <4>1, FileAssumption DEF IInv, TypeOK, Published
      <4>3. Published' = Published
        BY <2>1 DEF Published, FilesKept
      <4> QED BY <2>2, <4>2, <4>3 DEF Covered
    <3>2. CASE n = 0
      BY <2>1, <3>2 DEF Covered, Becomes, At
    <3> QED BY <3>1, <3>2
  <2>5. Knows(p)'
    <3>1. n # 0 => files'[n] # NoFile
      BY <2>1, FileAssumption DEF IInv, TypeOK, Knows, Backed, FilesKept
    <3> QED BY <2>1, <2>4, <3>1, ProcAssumption
            DEF IInv, Becomes, Knows, Role, Named, Counted, Copied, Backed, Migrated, At, Locking, Procs
  <2>6. KeptSomewhere'
    BY <2>1, <2>2 DEF IInv, KeptSomewhere, Kept, FilesKept, HistoryKept
  <2>7. store' \in Content
    BY <2>1 DEF IInv, TypeOK, Proc
  <2> QED BY <2>1, <2>2, <2>3, <2>5, <2>6, <2>7, StoreStep DEF IInv, TypeOK, HistoryKept
<1>4. CASE VerifyAndCommit(p) /\ ~NothingLost(p)
  BY <1>4, GivesUpStep DEF VerifyAndCommit, FilesKept
<1>5. CASE Confirm(p)
  <2> DEFINE to == IF Cardinality(store.rows) >= proc[p].count THEN "open" ELSE IF n # 0 THEN "undo" ELSE "ended"
  <2>1. to \in {"open", "undo", "ended"} /\ to \in Steps /\ (to = "undo" => n # 0) /\ (to = "ended" => n = 0)
    BY DEF Steps
  <2>2. /\ Step(p, "confirm", to) /\ UNCHANGED <<store, writer>> /\ FilesKept /\ HistoryKept
        /\ server' \in {server, NoOne}
    BY <1>5 DEF Confirm, Step, At
  <2> HIDE DEF to
  <2>3. proc[p].pc = "confirm" /\ Becomes(p, to, proc[p].file, n, proc[p].count, proc[p].tx)
    BY <2>1, <2>2, StepRecord DEF IInv
  <2>4. Turn(p) /\ server' \in {server, p, NoOne} \cap (Serving \cup {NoOne})
    <3>1. writer # p /\ to \notin Locking
      BY <2>1, <2>3 DEF IInv, TypeOK, Locking
    <3>2. writer' = writer /\ proc'[p].pc \notin Locking
      BY <2>2, <2>3, <3>1 DEF Becomes
    <3> QED BY <2>2, <3>1, <3>2 DEF Turn, IInv, TypeOK
  <2>5. p \in Openers /\ p \notin Restorers /\ (n # 0 => n \in Names)
    <3>1. p \notin Restorers
      BY <2>3 DEF IInv, Knows, Role
    <3>2. n \in 0..MaxNames
      BY DEF IInv, TypeOK, Proc
    <3> QED BY <3>1, <3>2, SizeAssumption DEF Procs, Names
  <2>6. Covered(p)'
    BY <2>1, <2>2, <2>3 DEF IInv, Knows, Covered, Published, Becomes, FilesKept, HistoryKept, At
  <2>7. Named(p)'
    BY <2>1, <2>2, <2>3, <2>5 DEF IInv, Knows, Named, Becomes, FilesKept, At
  <2>8. Knows(p)'
    BY <2>1, <2>3, <2>5, <2>6, <2>7
       DEF Becomes, Knows, Role, Counted, Copied, Backed, Migrated, At, Locking
  <2> QED BY <2>2, <2>3, <2>4, <2>8, QuietStep
<1>6. CASE Undo(p)
  <2>1. /\ proc[p].pc = "undo" /\ n \in Names /\ n # 0 /\ files[n] # NoFile
        /\ store.rows \subseteq Published \cup late
    BY <1>6, SizeAssumption DEF IInv, Undo, At, Knows, Named, Covered, Names
  <2> QED BY <1>6, <2>1, PutBack DEF Undo, IInv, TypeOK
<1> QED BY <1>1, <1>2, <1>3, <1>4, <1>5, <1>6 DEF Upgrade

LEMMA Restores ==
  ASSUME IInv, NEW p \in Procs, Restore(p)
  PROVE  After(p)
<1>1. CASE KeepCurrent(p)
  <2>1. proc[p].pc = "begin" /\ Becomes(p, "partial", proc[p].file, proc[p].name, proc[p].count, proc[p].tx)
    BY <1>1, StepRecord DEF IInv, KeepCurrent, Steps, Locking
  <2>2. Turn(p) /\ server' \in {server, p, NoOne} \cap (Serving \cup {NoOne})
    BY <1>1, <2>1 DEF IInv, TypeOK, KeepCurrent, Free, Becomes, Turn, Locking
  <2>3. Knows(p)'
    BY <1>1, <2>1, ProcAssumption
       DEF IInv, KeepCurrent, FilesKept, Becomes, Knows, Role, Named, Counted, Copied, Backed, Migrated, Covered,
           At, Locking
  <2> QED BY <1>1, <2>1, <2>2, <2>3, QuietStep DEF KeepCurrent
<1>2. CASE Replace(p)
  <2>1. /\ proc[p].pc = "replace" /\ p \in Restorers /\ store.rows \subseteq Published \cup late
        /\ proc[p].file \in Names /\ files[proc[p].file] # NoFile
    BY <1>2 DEF IInv, Replace, At, Knows, Role, Named, Covered, Procs
  <2> QED BY <1>2, <2>1, PutBack DEF Replace, IInv, TypeOK
<1> QED BY <1>1, <1>2 DEF Restore

LEMMA Uses ==
  ASSUME IInv, NEW p \in Procs, Add(p) \/ Forget(p) \/ Close(p) \/ Crash(p)
  PROVE  After(p)
<1>1. CASE Close(p) \/ Crash(p)
  BY <1>1, GivesUpStep DEF Close, Crash, FilesKept
<1>2. ASSUME Add(p) \/ Forget(p)
      PROVE  /\ proc[p].pc = "open" /\ UNCHANGED proc /\ UNCHANGED <<writer, server>> /\ FilesKept /\ writer = NoOne
             /\ Becomes(p, "open", proc[p].file, proc[p].name, proc[p].count, proc[p].tx)
             /\ Turn(p) /\ server' \in {server, p, NoOne} \cap (Serving \cup {NoOne})
             /\ Knows(p)'
  <2>1. /\ proc[p].pc = "open" /\ UNCHANGED proc /\ UNCHANGED <<writer, server>> /\ FilesKept /\ writer = NoOne
        /\ Becomes(p, "open", proc[p].file, proc[p].name, proc[p].count, proc[p].tx)
    BY <1>2 DEF Add, Forget, At, Free, IInv, TypeOK, Becomes
  <2>2. Turn(p) /\ server' \in {server, p, NoOne} \cap (Serving \cup {NoOne})
    BY <2>1, ProcAssumption DEF Turn, Locking, IInv, TypeOK
  <2>3. Knows(p)'
    BY <2>1
       DEF IInv, FilesKept, Knows, Role, Named, Counted, Copied, Backed, Migrated, Covered, At, Locking
  <2> QED BY <2>1, <2>2, <2>3
<1>3. CASE Add(p)
  <2>1. made + 1 \in Ids /\ made' = made + 1 /\ made' \in OldRows..MaxRows
    BY <1>3, SizeAssumption DEF Add, IInv, TypeOK, Ids
  <2>2. /\ store' = [store EXCEPT !.rows = @ \cup {made + 1}]
        /\ forgotten' = forgotten /\ late' = IF Replacing THEN late \cup {made + 1} ELSE late
    BY <1>3 DEF Add
  <2>3. store' \in Content /\ store'.rows = store.rows \cup {made + 1}
    BY <2>1, <2>2 DEF IInv, TypeOK, Content
  <2>4. late' \subseteq Ids /\ late \subseteq late'
    BY <2>1, <2>2 DEF IInv, TypeOK
  <2>5. KeptSomewhere'
    <3>1. Kept' = Kept \cup {made + 1}
      BY <1>2, <1>3, <2>3 DEF Kept, FilesKept
    <3>2. 1..made' \subseteq (1..made) \cup {made + 1}
      BY <2>1, SizeAssumption DEF IInv, TypeOK
    <3> QED BY <2>2, <2>4, <3>1, <3>2 DEF IInv, KeptSomewhere
  <2>6. Spares(p)
    <3>1. \A q \in Procs \ {p} : proc[q].pc \notin Locking
      BY <1>2, <1>3, ProcAssumption DEF IInv, TypeOK
    <3>2. ASSUME NEW q \in Procs, proc[q].pc \in {"confirm", "undo", "replace"}
          PROVE  store'.rows \subseteq store.rows \cup Published \cup late'
      BY <2>2, <2>3, <3>2 DEF Replacing
    <3> QED BY <1>2, <1>3, <2>4, <3>1, <3>2 DEF Spares, FilesKept
  <2>7. TypeOK'
    BY <1>2, <1>3, <2>1, <2>2, <2>3, <2>4, TypedStep DEF IInv, TypeOK, FilesKept
  <2> QED BY <1>2, <1>3, <2>5, <2>6, <2>7 DEF After
<1>4. CASE Forget(p)
  <2>1. PICK i \in store.rows : store' = [store EXCEPT !.rows = @ \ {i}] /\ forgotten' = forgotten \cup {i}
    BY <1>4 DEF Forget
  <2>2. store' \in Content /\ store'.rows = store.rows \ {i} /\ i \in Ids /\ made' = made /\ late' = late
    BY <1>4, <2>1 DEF IInv, TypeOK, Content, Forget
  <2>3. KeptSomewhere'
    BY <1>2, <1>4, <2>1, <2>2 DEF IInv, KeptSomewhere, Kept, FilesKept
  <2> QED BY <1>2, <1>4, <2>1, <2>2, <2>3, StoreStep DEF IInv, TypeOK
<1> QED BY <1>1, <1>3, <1>4

----------------------------------------------------------------------------
(* The theorems. *)

LEMMA Stutters == ASSUME IInv, UNCHANGED vars PROVE IInv'
BY DEF vars, IInv, TypeOK, Knows, Role, Named, Counted, Copied, Backed, Migrated, Covered, Published, KeptSomewhere,
       Kept, At

LEMMA Preserved == IInv /\ [Next]_vars => IInv'
<1> SUFFICES ASSUME IInv, Next PROVE IInv'
  BY Stutters
<1>1. PICK p \in Procs :
        \/ Serve(p) \/ Open(p) \/ (\E n \in Names : Choose(p, n))
        \/ Opening(p) \/ Backup(p) \/ Upgrade(p) \/ Restore(p)
        \/ Add(p) \/ Forget(p) \/ Close(p) \/ Crash(p) \/ Again(p)
  BY DEF Next
<1>2. After(p)
  BY <1>1, Openings, Guards, Backups, Upgrades, Restores, Uses
<1> QED BY <1>2, InvStep

LEMMA Invariant == Spec => []IInv
BY InitOK, Preserved, PTL DEF Spec

(* Every variable keeps its type, and the write lock is held by the process at a step that  *)
(* needs it (schema.py, upgrade_backup.py).                                                    *)
THEOREM UpgradeTyped == Spec => []TypeOK
BY Invariant, PTL DEF IInv

(* upgrade.py, upgrade_restore.py: whatever fails or is killed, a memory that was stored and *)
(* not forgotten is in the store or in a published backup.                                      *)
THEOREM NothingLostForGood == Spec => []KeptSomewhere
BY Invariant, PTL DEF IInv

(* upgrade_backup.py: the backup an upgrade or a restore relies on is the store it changes.  *)
THEOREM BackupAlwaysTheStore == Spec => []BackupIsTheStore
<1>1. IInv => BackupIsTheStore
  BY DEF IInv, Knows, Backed, BackupIsTheStore
<1> QED BY <1>1, Invariant, PTL

(* upgrade.py, upgrade_restore.py: the schema moves by an upgrade that keeps every row under *)
(* the lock, or because a published backup is put back.                                         *)
THEOREM SchemaOnlyMoves == Spec => SchemaMoves
<1> DEFINE Moves == store.schema # store'.schema =>
                      \/ store.rows = store'.rows /\ \E p \in Openers : writer = p /\ Build[p] = store'.schema
                      \/ \E n \in Names : store' = files[n]
<1>1. ASSUME IInv, Next, store.schema # store'.schema PROVE Moves
  <2>1. PICK p \in Procs :
          \/ Serve(p) \/ Open(p) \/ (\E n \in Names : Choose(p, n))
          \/ Opening(p) \/ Backup(p) \/ Upgrade(p) \/ Restore(p)
          \/ Add(p) \/ Forget(p) \/ Close(p) \/ Crash(p) \/ Again(p)
    BY <1>1 DEF Next
  <2>2. store' # store
    BY <1>1
  <2>3. ~Add(p) /\ ~Forget(p)
    BY <1>1 DEF Add, Forget, IInv, TypeOK, Content
  <2>4. (VerifyAndCommit(p) /\ NothingLost(p)) \/ Undo(p) \/ Replace(p)
    BY <2>1, <2>2, <2>3
       DEF Serve, Open, Choose, Again, Close, Crash, GivesUp,
           Opening, RefuseNewer, RefuseUnderServer, Begin, Busy,
           Backup, MakePartial, Copy, Verify, Publish, Unlink, BackupFails,
           Upgrade, Migrate, MigrationFails, VerifyAndCommit, Confirm, UndoFails, Restore, KeepCurrent
  <2>5. CASE VerifyAndCommit(p) /\ NothingLost(p)
    <3>1. proc[p].pc = "check" /\ p \in Openers /\ store' = proc[p].tx /\ writer = p
      <4>1. proc[p].pc = "check" /\ store' = proc[p].tx
        BY <2>5 DEF VerifyAndCommit, At
      <4>2. p \notin Restorers
        BY <1>1, <4>1 DEF IInv, Knows, Role
      <4> QED BY <1>1, <4>1, <4>2, Holder DEF Procs, Locking
    <3>2. /\ proc[p].tx.schema = Build[p] /\ proc[p].tx.rows \subseteq store.rows /\ store.rows \in SUBSET Ids
          /\ proc[p].count = Cardinality(store.rows)
      BY <1>1, <3>1 DEF IInv, TypeOK, Content, Knows, Migrated, Counted, At, Locking
    <3>3. Cardinality(proc[p].tx.rows) >= Cardinality(store.rows)
      BY <2>5, <3>2 DEF NothingLost
    <3>4. store.rows = store'.rows
      BY <3>1, <3>2, <3>3, SameSize
    <3> QED BY <3>1, <3>2, <3>4
  <2>6. CASE Undo(p)
    BY <1>1, <2>6 DEF Undo, At, IInv, Knows, Named
  <2>7. CASE Replace(p)
    BY <1>1, <2>7 DEF Replace, At, IInv, Knows, Role, Named, Procs
  <2> QED BY <2>4, <2>5, <2>6, <2>7
<1>2. IInv /\ [Next]_vars => [Moves]_vars
  BY <1>1 DEF vars
<1> QED BY <1>2, Invariant, PTL DEF Spec, SchemaMoves

=====================================================================================
