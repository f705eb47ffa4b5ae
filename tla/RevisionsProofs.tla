----------------------------- MODULE RevisionsProofs -----------------------------
(* For any number of callers, memories and revisions: the links and histories of       *)
(* revised memories are consistent, a memory always has a version, and its history       *)
(* does not fork while nothing disturbs a revision.  Rows are written back from copies,    *)
(* so what is invariant is said of every row in sight: stored, or in a caller's hands.       *)
EXTENDS Revisions, FiniteSetTheorems, SequenceTheorems, TLAPS

Active(k) == k.pc \in {"walk", "remember", "write"}

(* row is what memory i looks like to the database or to somebody who read it.            *)
Sighted(i, row) ==
    \/ Stored(i) /\ row = rows[i]
    \/ \E c \in Callers : Active(calls[c]) /\ calls[c].at = i /\ calls[c].copy = row

LinksForward(i, row) ==
    /\ i <= made
    /\ "superseded" \in row.tags /\ ~Resolved(row) => row.by # None
    /\ row.by # None => row.by > i /\ row.by <= made
    /\ row.prev # None => row.prev < i

EachForward == \A i \in Ids, row \in Row : Sighted(i, row) => LinksForward(i, row)

(* Of one memory all that is in sight has one past.                                        *)
OnePast == \A i \in Ids, r, s \in Row :
    Sighted(i, r) /\ Sighted(i, s) => r.prev = s.prev /\ r.history = s.history

LinkedBack == \A i \in Ids, r \in Row, s \in Row :
    Sighted(i, r) /\ r.by # None /\ Sighted(r.by, s) => s.prev = i

HistoryGrows == \A j \in Ids, r \in Row, s \in Row :
    Sighted(j, s) /\ s.prev # None /\ Sighted(s.prev, r) => s.history = Append(r.history, s.prev)

(* What a revision has stored is the successor of what it is about to retire.              *)
Replaces(k) ==
    /\ k.pc = "write" /\ k.op = "supersede" => k.new # None
    /\ k.new # None =>
        /\ k.pc = "write" /\ k.at < k.new /\ k.new <= made
        /\ \A s \in Row : Sighted(k.new, s) => s.prev = k.at

IInv ==
    /\ TypeOK /\ EachForward /\ OnePast /\ LinkedBack /\ HistoryGrows
    /\ \A c \in Callers : Replaces(calls[c])

(* IInv without what it says of calls: a property of what is in sight alone.               *)
InSight == EachForward /\ OnePast /\ LinkedBack /\ HistoryGrows

----------------------------------------------------------------------------
(* Steps that bring nothing new into sight. *)

(* A step after which everybody sees what somebody saw before keeps what is said of rows   *)
(* in sight: true of every read, and of deletion.                                            *)
LEMMA NothingNew ==
    ASSUME InSight, made' >= made, made \in Nat, made' \in Nat,
           \A i \in Ids, row \in Row : Sighted(i, row)' => Sighted(i, row)
    PROVE  InSight'
<1>1. EachForward'
  BY DEF InSight, EachForward, LinksForward, Resolved, Ids, Row, None
<1>2. OnePast'
  BY DEF InSight, OnePast
<1>3. LinkedBack'
  <2> SUFFICES ASSUME NEW i \in Ids, NEW r \in Row, NEW t \in Row,
                      Sighted(i, r)', r.by # None, Sighted(r.by, t)'
               PROVE  t.prev = i
    BY DEF LinkedBack
  <2>1. r.by \in Ids
    BY DEF Row
  <2> QED
    BY <2>1 DEF InSight, LinkedBack
<1>4. HistoryGrows'
  <2> SUFFICES ASSUME NEW j \in Ids, NEW r \in Row, NEW t \in Row,
                      Sighted(j, t)', t.prev # None, Sighted(t.prev, r)'
               PROVE  t.history = Append(r.history, t.prev)
    BY DEF HistoryGrows
  <2>1. t.prev \in Ids
    BY DEF Row
  <2> QED
    BY <2>1 DEF InSight, HistoryGrows
<1> QED
  BY <1>1, <1>2, <1>3, <1>4 DEF InSight

(* A caller that puts away its copy, or takes one of a stored row, sees nothing new.        *)
LEMMA ReadsNothingNew ==
    ASSUME TypeOK, rows' = rows, NEW c \in Callers, NEW k \in Call,
           calls' = [calls EXCEPT ![c] = k],
           Active(k) => Sighted(k.at, k.copy),
           NEW i \in Ids, NEW row \in Row, Sighted(i, row)'
    PROVE  Sighted(i, row)
<1>1. CASE Stored(i)' /\ row = rows'[i]
  BY <1>1 DEF Sighted, Stored
<1>2. CASE \E d \in Callers : Active(calls'[d]) /\ calls'[d].at = i /\ calls'[d].copy = row
  <2>1. PICK d \in Callers : Active(calls'[d]) /\ calls'[d].at = i /\ calls'[d].copy = row
    BY <1>2
  <2>2. CASE d = c
    BY <2>1, <2>2 DEF TypeOK, Sighted
  <2>3. CASE d # c
    BY <2>1, <2>3 DEF TypeOK, Sighted
  <2> QED
    BY <2>2, <2>3
<1> QED
  BY <1>1, <1>2 DEF Sighted, Active

----------------------------------------------------------------------------
(* Type correctness. *)

LEMMA RowsMade ==
    ASSUME NEW k \in Call, k.pc = "write" /\ k.op = "supersede" => k.new # None
    PROVE  NewVersion(k) \in Row /\ Written(k) \in Row
<1>1. First \in Row
  BY DEF First, Row
<1>2. NewVersion(k) \in Row
  <2>1. k.at \in Ids /\ k.copy.history \in Seq(Ids)
    BY DEF Call, Row
  <2>2. Append(k.copy.history, k.at) \in Seq(Ids)
    BY <2>1
  <2> QED
    BY <2>1, <2>2 DEF NewVersion, Row
<1>3. Written(k) \in Row
  BY DEF Written, Retired, Call, Row, Tags
<1> QED
  BY <1>2, <1>3

LEMMA NoCallIsCall == NoCall \in Call
BY SizeAssumption DEF NoCall, Call, Steps, First, Row, Ids, None

LEMMA StoredIsRow == ASSUME TypeOK, NEW i, Stored(i) PROVE i \in Ids /\ rows[i] \in Row
BY DEF TypeOK, Stored

(* The state keeps its type: what every walk, copy and write-back puts where.               *)
LEMMA TypeStep == TypeOK /\ (\A c \in Callers : Replaces(calls[c])) /\ [Next]_vars => TypeOK'
<1> SUFFICES ASSUME TypeOK, \A c \in Callers : Replaces(calls[c]), [Next]_vars PROVE TypeOK'
  OBVIOUS
<1> USE SizeAssumption
<1>1. ASSUME NEW c \in Callers, NEW op \in Ops, NEW i \in Ids, Begin(c, op, i) PROVE TypeOK'
  <2>1. [calls[c] EXCEPT !.pc = "require", !.op = op, !.at = i] \in Call
    BY DEF TypeOK, Call, Steps
  <2> QED
    BY <1>1, <2>1 DEF TypeOK, Begin, Goto
<1>2. ASSUME NEW c \in Callers, Missing(c) PROVE TypeOK'
  BY <1>2, NoCallIsCall DEF TypeOK, Missing, Goto, Kept
<1>3. ASSUME NEW c \in Callers, Require(c) PROVE TypeOK'
  <2>1. rows[calls[c].at] \in Row
    BY <1>3, StoredIsRow DEF Require
  <2>2. [calls[c] EXCEPT !.copy = rows[calls[c].at], !.seen = {calls[c].at},
             !.pc = IF calls[c].op = "feedback" THEN "write" ELSE "walk"] \in Call
    BY <2>1 DEF TypeOK, Call, Steps
  <2> QED
    BY <1>3, <2>2, NoCallIsCall DEF TypeOK, Require, Goto, Kept
<1>4. ASSUME NEW c \in Callers, Follow(c) PROVE TypeOK'
  <2>1. calls[c].copy.by \in Ids /\ rows[calls[c].copy.by] \in Row
    BY <1>4, StoredIsRow DEF Follow, Newer
  <2>2. [calls[c] EXCEPT !.at = calls[c].copy.by, !.copy = rows[calls[c].copy.by],
                         !.seen = @ \cup {calls[c].copy.by}] \in Call
    BY <2>1 DEF TypeOK, Call
  <2> QED
    BY <1>4, <2>2 DEF TypeOK, Follow, Goto, Kept
<1>5. ASSUME NEW c \in Callers, Arrive(c) PROVE TypeOK'
  <2>1. [calls[c] EXCEPT !.pc = "remember"] \in Call /\ [calls[c] EXCEPT !.pc = "write"] \in Call
    BY DEF TypeOK, Call, Steps
  <2> QED
    BY <1>5, <2>1, NoCallIsCall DEF TypeOK, Arrive, Goto, Kept
<1>6. ASSUME NEW c \in Callers, Remember(c) PROVE TypeOK'
  <2>1. calls[c] \in Call /\ calls[c].pc = "remember"
    BY <1>6 DEF TypeOK, Remember
  <2>2. NewVersion(calls[c]) \in Row
    BY <2>1, RowsMade
  <2>3. made + 1 \in Ids
    BY <1>6 DEF TypeOK, Remember, Ids
  <2>4. [calls[c] EXCEPT !.pc = "write", !.new = made + 1] \in Call
    BY <2>1, <2>3 DEF Call, Steps
  <2> QED
    BY <1>6, <2>2, <2>3, <2>4 DEF TypeOK, Remember, Goto, Ids
<1>7. ASSUME NEW c \in Callers, WriteBack(c) PROVE TypeOK'
  <2>1. Written(calls[c]) \in Row
    BY RowsMade DEF TypeOK, Replaces
  <2> QED
    BY <1>7, <2>1, NoCallIsCall DEF TypeOK, WriteBack, Goto
<1>8. ASSUME NEW c \in Callers, Stop(c) PROVE TypeOK'
  BY <1>8, NoCallIsCall DEF TypeOK, Stop, Goto
<1>9. ASSUME NEW i \in Ids, Forget(i) PROVE TypeOK'
  <2>1. rows[i].history \in Seq(Ids)
    BY <1>9, StoredIsRow DEF Forget, Row
  <2>2. Root(i) \in Ids
    BY <2>1 DEF Root
  <2> QED
    BY <1>9, <2>2 DEF TypeOK, Forget
<1>10. CASE UNCHANGED vars
  BY <1>10 DEF TypeOK, vars
<1> QED
  BY <1>1, <1>2, <1>3, <1>4, <1>5, <1>6, <1>7, <1>8, <1>9, <1>10 DEF Next

----------------------------------------------------------------------------
(* The two steps that write. *)

LEMMA CopyInSight ==
    ASSUME NEW c \in Callers, Active(calls[c]) PROVE Sighted(calls[c].at, calls[c].copy)
BY DEF Sighted

(* remember() brings the new version into sight, and nothing else.                          *)
LEMMA OnlyTheNewVersion ==
    ASSUME TypeOK, NEW c \in Callers, Remember(c),
           NEW i \in Ids, NEW row \in Row, Sighted(i, row)'
    PROVE  Sighted(i, row) \/ (i = made + 1 /\ row = NewVersion(calls[c]))
<1>1. CASE Stored(i)' /\ row = rows'[i]
  BY <1>1 DEF Sighted, Stored, Remember, TypeOK
<1>2. CASE \E d \in Callers : Active(calls'[d]) /\ calls'[d].at = i /\ calls'[d].copy = row
  <2>1. PICK d \in Callers : Active(calls'[d]) /\ calls'[d].at = i /\ calls'[d].copy = row
    BY <1>2
  <2>2. CASE d = c
    <3>1. /\ calls[c] \in Call /\ calls[c].pc = "remember"
          /\ calls'[c] = [calls[c] EXCEPT !.pc = "write", !.new = made + 1]
      BY DEF Remember, Goto, TypeOK
    <3>2. calls'[c].at = calls[c].at /\ calls'[c].copy = calls[c].copy
      BY <3>1 DEF Call
    <3>3. Sighted(calls[c].at, calls[c].copy)
      BY <3>1, CopyInSight DEF Active
    <3> QED
      BY <2>1, <2>2, <3>2, <3>3
  <2>3. CASE d # c
    BY <2>1, <2>3 DEF Sighted, Remember, Goto, TypeOK
  <2> QED
    BY <2>2, <2>3
<1> QED
  BY <1>1, <1>2 DEF Sighted, Active

LEMMA RememberInSight ==
    ASSUME TypeOK, InSight, NEW c \in Callers, Remember(c) PROVE InSight'
<1> DEFINE k == calls[c]
           n == made + 1
<1>1. Sighted(k.at, k.copy) /\ k.at \in Ids /\ k.copy \in Row
  BY CopyInSight DEF Remember, Active, TypeOK, Call
<1>2. n \in Ids /\ made' = n /\ n = made + 1 /\ made \in Nat
  BY SizeAssumption DEF Remember, TypeOK, Ids
<1>3. \A i \in Ids, r \in Row : Sighted(i, r) => i <= made /\ i # n
  BY <1>2 DEF InSight, EachForward, LinksForward, Ids
<1>4. \A i \in Ids, r \in Row : Sighted(i, r)' => Sighted(i, r) \/ (i = n /\ r = NewVersion(k))
  BY OnlyTheNewVersion
<1>5. /\ NewVersion(k).by = None /\ NewVersion(k).prev = k.at /\ NewVersion(k).tags = {}
      /\ NewVersion(k).history = Append(k.copy.history, k.at)
  BY DEF NewVersion
<1> HIDE DEF n, k
<1>6. EachForward'
  <2> SUFFICES ASSUME NEW i \in Ids, NEW r \in Row, Sighted(i, r)' PROVE LinksForward(i, r)'
    BY DEF EachForward
  <2>1. CASE Sighted(i, r)
    BY <2>1, <1>2 DEF InSight, EachForward, LinksForward, Resolved, Row, Ids, None
  <2>2. CASE i = n /\ r = NewVersion(k)
    BY <2>2, <1>1, <1>2, <1>3, <1>5 DEF LinksForward, Ids, None
  <2> QED
    BY <2>1, <2>2, <1>4
<1>7. OnePast'
  BY <1>3, <1>4 DEF OnePast, InSight
<1>8. LinkedBack'
  <2> SUFFICES ASSUME NEW i \in Ids, NEW r \in Row, NEW t \in Row,
                      Sighted(i, r)', r.by # None, Sighted(r.by, t)'
               PROVE  t.prev = i
    BY DEF LinkedBack
  <2>1. Sighted(i, r)
    BY <1>4, <1>5
  <2>2. r.by \in Ids /\ r.by <= made
    BY <2>1 DEF InSight, EachForward, LinksForward, Row
  <2>3. Sighted(r.by, t)
    BY <2>2, <1>2, <1>4 DEF n, Ids
  <2> QED
    BY <2>1, <2>2, <2>3 DEF InSight, LinkedBack
<1>9. HistoryGrows'
  <2> SUFFICES ASSUME NEW j \in Ids, NEW r \in Row, NEW t \in Row,
                      Sighted(j, t)', t.prev # None, Sighted(t.prev, r)'
               PROVE  t.history = Append(r.history, t.prev)
    BY DEF HistoryGrows
  <2>1. t.prev \in Ids
    BY DEF Row
  <2>2. CASE Sighted(j, t)
    <3>1. t.prev # n
      BY <2>1, <2>2, <1>2, <1>3 DEF InSight, EachForward, LinksForward, n, Ids
    <3> QED
      BY <2>1, <2>2, <3>1, <1>4 DEF InSight, HistoryGrows
  <2>3. CASE j = n /\ t = NewVersion(k)
    <3>1. t.prev = k.at /\ Sighted(k.at, r)
      BY <2>3, <1>1, <1>3, <1>4, <1>5
    <3>2. r.history = k.copy.history
      BY <3>1, <1>1 DEF InSight, OnePast
    <3> QED
      BY <2>3, <3>1, <3>2, <1>5
  <2> QED
    BY <2>2, <2>3, <1>4
<1> QED
  BY <1>6, <1>7, <1>8, <1>9 DEF InSight

(* A write-back changes neither the past of a memory nor, unless it retires it, its link.    *)
LEMMA WrittenKeepsThePast ==
    ASSUME NEW k \in Call, Replaces(k), k.pc = "write", LinksForward(k.at, k.copy)
    PROVE  /\ Written(k).prev = k.copy.prev /\ Written(k).history = k.copy.history
           /\ LinksForward(k.at, Written(k))
           /\ \/ Written(k).by = k.copy.by
              \/ Written(k).by = k.new /\ k.new # None
<1>1. k.copy \in Row
  BY DEF Call
<1>2. CASE k.op = "supersede"
  <2>1. k.new # None /\ k.at < k.new /\ k.new <= made
    BY <1>2 DEF Replaces
  <2>2. /\ Retired(k).prev = k.copy.prev /\ Retired(k).history = k.copy.history
        /\ Retired(k).by = k.new
    BY <1>1 DEF Retired, Row
  <2>3. k.at \in Ids /\ k.new \in Ids /\ Written(k) = Retired(k)
    BY <1>2, <2>1 DEF Call, Written
  <2> QED
    BY <2>1, <2>2, <2>3 DEF LinksForward, Ids
<1>3. CASE k.op # "supersede" /\ k.op = "resolve"
  <2>1. Written(k) = [k.copy EXCEPT !.tags = Tags]
    BY <1>3 DEF Written
  <2>2. /\ Written(k).prev = k.copy.prev /\ Written(k).history = k.copy.history
        /\ Written(k).by = k.copy.by /\ Written(k).tags = Tags
    BY <1>1, <2>1 DEF Row
  <2> QED
    BY <2>2 DEF LinksForward, Resolved, Tags
<1>4. CASE k.op # "supersede" /\ k.op # "resolve"
  BY <1>4 DEF Written
<1> QED
  BY <1>2, <1>3, <1>4

(* A write-back brings what it writes into sight, and nothing else.                         *)
LEMMA OnlyWhatIsWritten ==
    ASSUME TypeOK, NEW c \in Callers, WriteBack(c),
           NEW i \in Ids, NEW row \in Row, Sighted(i, row)'
    PROVE  Sighted(i, row) \/ (i = calls[c].at /\ row = Written(calls[c]))
<1>1. CASE Stored(i)' /\ row = rows'[i]
  <2>1. CASE i = calls[c].at
    BY <1>1, <2>1 DEF WriteBack, TypeOK
  <2>2. CASE i # calls[c].at
    BY <1>1, <2>2 DEF Sighted, Stored, WriteBack, TypeOK
  <2> QED
    BY <2>1, <2>2
<1>2. CASE \E d \in Callers : Active(calls'[d]) /\ calls'[d].at = i /\ calls'[d].copy = row
  <2>1. PICK d \in Callers : Active(calls'[d]) /\ calls'[d].at = i /\ calls'[d].copy = row
    BY <1>2
  <2>2. d # c
    <3>1. calls'[c] = NoCall
      BY DEF WriteBack, Goto, TypeOK
    <3> QED
      BY <2>1, <3>1 DEF Active, NoCall
  <2> QED
    BY <2>1, <2>2 DEF Sighted, WriteBack, Goto, TypeOK
<1> QED
  BY <1>1, <1>2 DEF Sighted, Active

LEMMA WriteBackInSight ==
    ASSUME TypeOK, InSight, NEW c \in Callers, Replaces(calls[c]), WriteBack(c) PROVE InSight'
<1> DEFINE k == calls[c]
           w == Written(k)
<1>1. /\ Sighted(k.at, k.copy) /\ k.at \in Ids /\ k.copy \in Row
      /\ k \in Call /\ k.pc = "write"
  BY CopyInSight DEF WriteBack, Active, TypeOK, Call
<1>2. LinksForward(k.at, k.copy)
  BY <1>1 DEF InSight, EachForward
<1>3. /\ w.prev = k.copy.prev /\ w.history = k.copy.history /\ LinksForward(k.at, w)
      /\ w.by = k.copy.by \/ (w.by = k.new /\ k.new # None)
  BY <1>1, <1>2, WrittenKeepsThePast
<1>4. w \in Row
  BY <1>1, RowsMade DEF Replaces
<1>5. \A i \in Ids, r \in Row : Sighted(i, r)' => Sighted(i, r) \/ (i = k.at /\ r = w)
  BY OnlyWhatIsWritten
<1>6. w.by = k.new /\ k.new # None => k.at < w.by /\ \A t \in Row : Sighted(w.by, t) => t.prev = k.at
  BY <1>1 DEF Replaces
<1>7. made' = made
  BY DEF WriteBack
<1> HIDE DEF w, k
(* Whatever is seen of a memory after the step, something with its past was seen before.    *)
<1>8. ASSUME NEW i \in Ids, NEW r \in Row, Sighted(i, r)'
      PROVE  \E old \in Row : Sighted(i, old) /\ old.prev = r.prev /\ old.history = r.history
  BY <1>1, <1>3, <1>5, <1>8
<1>9. EachForward'
  <2> SUFFICES ASSUME NEW i \in Ids, NEW r \in Row, Sighted(i, r)' PROVE LinksForward(i, r)
    BY <1>7 DEF EachForward, LinksForward
  <2> QED
    BY <1>3, <1>5 DEF InSight, EachForward
<1>10. OnePast'
  <2> SUFFICES ASSUME NEW i \in Ids, NEW r \in Row, NEW t \in Row, Sighted(i, r)', Sighted(i, t)'
               PROVE  r.prev = t.prev /\ r.history = t.history
    BY DEF OnePast
  <2> QED
    BY <1>8 DEF InSight, OnePast
<1>11. LinkedBack'
  <2> SUFFICES ASSUME NEW i \in Ids, NEW r \in Row, NEW t \in Row,
                      Sighted(i, r)', r.by # None, Sighted(r.by, t)'
               PROVE  t.prev = i
    BY DEF LinkedBack
  <2>1. r.by \in Ids
    BY DEF Row
  <2>2. PICK old \in Row : Sighted(r.by, old) /\ old.prev = t.prev
    BY <1>8, <2>1
  <2>3. CASE Sighted(i, r)
    BY <2>1, <2>2, <2>3 DEF InSight, LinkedBack
  <2>4. CASE i = k.at /\ r = w /\ w.by = k.copy.by
    BY <1>1, <2>1, <2>2, <2>4 DEF InSight, LinkedBack
  <2>5. CASE i = k.at /\ r = w /\ w.by = k.new /\ k.new # None
    BY <1>6, <2>2, <2>5
  <2> QED
    BY <1>3, <1>5, <2>3, <2>4, <2>5
<1>12. HistoryGrows'
  <2> SUFFICES ASSUME NEW j \in Ids, NEW r \in Row, NEW t \in Row,
                      Sighted(j, t)', t.prev # None, Sighted(t.prev, r)'
               PROVE  t.history = Append(r.history, t.prev)
    BY DEF HistoryGrows
  <2>1. t.prev \in Ids
    BY DEF Row
  <2>2. PICK s \in Row : Sighted(j, s) /\ s.prev = t.prev /\ s.history = t.history
    BY <1>8
  <2>3. PICK p \in Row : Sighted(t.prev, p) /\ p.history = r.history
    BY <1>8, <2>1
  <2> QED
    BY <2>1, <2>2, <2>3 DEF InSight, HistoryGrows
<1> QED
  BY <1>9, <1>10, <1>11, <1>12 DEF InSight

----------------------------------------------------------------------------
(* What is in sight stays consistent. *)

(* The seven steps that write no row show nobody a row that nobody saw before.              *)
SameSight == made' = made /\ \A i \in Ids, row \in Row : Sighted(i, row)' => Sighted(i, row)

LEMMA ReadersSeeNothingNew ==
    ASSUME TypeOK, [Next]_vars, \A c \in Callers : ~Remember(c) /\ ~WriteBack(c)
    PROVE  SameSight
(* The steps of a caller that only reads: it ends, or goes on with a row it has in hand.    *)
<1>1. ASSUME NEW c \in Callers, NEW k \in Call, calls' = [calls EXCEPT ![c] = k],
             rows' = rows, made' = made, Active(k) => Sighted(k.at, k.copy)
      PROVE  SameSight
  BY <1>1, ReadsNothingNew DEF SameSight
<1>2. ~Active(NoCall) /\ NoCall \in Call
  BY NoCallIsCall DEF Active, NoCall
<1>3. ASSUME NEW c \in Callers, NEW op \in Ops, NEW i \in Ids, Begin(c, op, i) PROVE SameSight
  <2> DEFINE k == [calls[c] EXCEPT !.pc = "require", !.op = op, !.at = i]
  <2>1. k \in Call /\ k.pc = "require"
    BY DEF TypeOK, Call, Steps
  <2> QED
    BY <1>1, <1>3, <2>1 DEF Begin, Goto, Active
<1>4. ASSUME NEW c \in Callers, Missing(c) PROVE SameSight
  BY <1>1, <1>2, <1>4 DEF Missing, Goto, Kept
<1>5. ASSUME NEW c \in Callers, Require(c) PROVE SameSight
  <2> DEFINE k == [calls[c] EXCEPT !.copy = rows[calls[c].at], !.seen = {calls[c].at},
                       !.pc = IF calls[c].op = "feedback" THEN "write" ELSE "walk"]
  <2>1. rows[calls[c].at] \in Row /\ calls[c] \in Call
    BY <1>5, StoredIsRow DEF Require, TypeOK
  <2>2. k \in Call
    BY <2>1 DEF Call, Steps
  <2>3. k.at = calls[c].at /\ k.copy = rows[calls[c].at]
    BY <2>1 DEF Call
  <2>4. Sighted(k.at, k.copy)
    BY <1>5, <2>3 DEF Require, Sighted
  <2>5. calls' = [calls EXCEPT ![c] = NoCall] \/ calls' = [calls EXCEPT ![c] = k]
    BY <1>5 DEF Require, Goto
  <2> QED
    BY <1>1, <1>2, <1>5, <2>2, <2>4, <2>5 DEF Require, Kept
<1>6. ASSUME NEW c \in Callers, Follow(c) PROVE SameSight
  <2> DEFINE k == [calls[c] EXCEPT !.at = calls[c].copy.by, !.copy = rows[calls[c].copy.by],
                                   !.seen = @ \cup {calls[c].copy.by}]
  <2>1. /\ calls[c] \in Call /\ calls[c].copy.by \in Ids /\ rows[calls[c].copy.by] \in Row
        /\ Stored(calls[c].copy.by)
    BY <1>6, StoredIsRow DEF Follow, Newer, TypeOK
  <2>2. k \in Call
    BY <2>1 DEF Call
  <2>3. k.at = calls[c].copy.by /\ k.copy = rows[calls[c].copy.by]
    BY <2>1 DEF Call
  <2>4. Sighted(k.at, k.copy)
    BY <2>1, <2>3 DEF Sighted
  <2> QED
    BY <1>1, <1>6, <2>2, <2>4 DEF Follow, Goto, Kept
<1>7. ASSUME NEW c \in Callers, Arrive(c) PROVE SameSight
  <2>1. calls[c] \in Call /\ Sighted(calls[c].at, calls[c].copy)
    BY <1>7, CopyInSight DEF Arrive, Active, TypeOK
  <2>2. ASSUME NEW pc \in Steps
        PROVE  /\ [calls[c] EXCEPT !.pc = pc] \in Call
               /\ Sighted([calls[c] EXCEPT !.pc = pc].at, [calls[c] EXCEPT !.pc = pc].copy)
    BY <2>1 DEF Call
  <2>3. \/ calls' = [calls EXCEPT ![c] = NoCall]
        \/ calls' = [calls EXCEPT ![c] = [calls[c] EXCEPT !.pc = "remember"]]
        \/ calls' = [calls EXCEPT ![c] = [calls[c] EXCEPT !.pc = "write"]]
    BY <1>7 DEF Arrive, Goto
  <2>4. "remember" \in Steps /\ "write" \in Steps /\ rows' = rows /\ made' = made
    BY <1>7 DEF Arrive, Kept, Steps
  <2> QED
    BY <1>1, <1>2, <2>2, <2>3, <2>4
<1>8. ASSUME NEW c \in Callers, Stop(c) PROVE SameSight
  BY <1>1, <1>2, <1>8 DEF Stop, Goto
<1>9. ASSUME NEW f \in Ids, Forget(f) PROVE SameSight
  BY <1>9 DEF SameSight, Forget, Sighted, Stored, TypeOK, Active
<1>10. CASE UNCHANGED vars
  BY <1>10 DEF SameSight, vars, Sighted, Stored, Active
<1> QED
  BY <1>3, <1>4, <1>5, <1>6, <1>7, <1>8, <1>9, <1>10 DEF Next

LEMMA InSightStep == IInv /\ [Next]_vars => InSight'
<1> SUFFICES ASSUME IInv, [Next]_vars PROVE InSight'
  OBVIOUS
<1>1. InSight /\ TypeOK /\ \A c \in Callers : Replaces(calls[c])
  BY DEF IInv, InSight
<1>2. CASE \E c \in Callers : Remember(c)
  BY <1>1, <1>2, RememberInSight
<1>3. CASE \E c \in Callers : WriteBack(c)
  BY <1>1, <1>3, WriteBackInSight
<1>4. CASE \A c \in Callers : ~Remember(c) /\ ~WriteBack(c)
  <2>1. SameSight
    BY <1>1, <1>4, ReadersSeeNothingNew
  <2>2. made \in Nat
    BY <1>1, SizeAssumption DEF TypeOK
  <2> QED
    BY <1>1, <2>1, <2>2, NothingNew DEF SameSight
<1> QED
  BY <1>2, <1>3, <1>4

----------------------------------------------------------------------------
(* What a revision has in hand stays what replaces the version it read. *)

(* A version that was in sight before the step keeps its predecessor.                       *)
LEMMA PastStays ==
    ASSUME IInv, [Next]_vars, NEW i \in Ids, i <= made, NEW row \in Row, Sighted(i, row)'
    PROVE  \E old \in Row : Sighted(i, old) /\ old.prev = row.prev
<1>1. TypeOK /\ InSight /\ \A c \in Callers : Replaces(calls[c])
  BY DEF IInv, InSight
<1>2. CASE \E c \in Callers : Remember(c)
  <2>1. PICK c \in Callers : Remember(c)
    BY <1>2
  <2>2. Sighted(i, row)
    BY <1>1, <2>1, OnlyTheNewVersion DEF TypeOK, Ids
  <2> QED
    BY <2>2
<1>3. CASE \E c \in Callers : WriteBack(c)
  <2>1. PICK c \in Callers : WriteBack(c)
    BY <1>3
  <2>2. /\ calls[c] \in Call /\ calls[c].pc = "write" /\ calls[c].at \in Ids
        /\ calls[c].copy \in Row /\ Sighted(calls[c].at, calls[c].copy)
    BY <1>1, <2>1, CopyInSight DEF WriteBack, TypeOK, Call, Active
  <2>3. Written(calls[c]).prev = calls[c].copy.prev
    BY <1>1, <2>2, WrittenKeepsThePast DEF InSight, EachForward
  <2>4. Sighted(i, row) \/ (i = calls[c].at /\ row = Written(calls[c]))
    BY <1>1, <2>1, OnlyWhatIsWritten
  <2> QED
    BY <2>2, <2>3, <2>4
<1>4. CASE \A c \in Callers : ~Remember(c) /\ ~WriteBack(c)
  BY <1>1, <1>4, ReadersSeeNothingNew DEF SameSight
<1> QED
  BY <1>2, <1>3, <1>4

(* Of each caller alone: what it has stored replaces what it holds.                        *)
LEMMA ReplacesStep == IInv /\ [Next]_vars => \A d \in Callers : Replaces(calls[d])'
<1> SUFFICES ASSUME IInv, [Next]_vars, NEW d \in Callers PROVE Replaces(calls[d])'
  OBVIOUS
<1>1. /\ InSight /\ TypeOK /\ calls[d] \in Call /\ Replaces(calls[d])
      /\ made \in Nat /\ made' \in Nat /\ made <= made'
  <2>1. InSight /\ TypeOK /\ TypeOK' /\ Replaces(calls[d])
    BY TypeStep DEF IInv, InSight
  <2>2. made' = made \/ made' = made + 1
    BY DEF Next, vars, Begin, Missing, Require, Follow, Arrive, Remember, WriteBack, Stop, Forget,
           Kept
  <2> QED
    BY <2>1, <2>2, SizeAssumption DEF TypeOK
(* A call that is where it was, or that holds no new memory.                                *)
<1>2. CASE calls'[d] = calls[d]
  <2>1. ASSUME NEW n \in Ids, n = calls[d].new, n # None, NEW t \in Row, Sighted(n, t)'
        PROVE  t.prev = calls[d].at
    <3>1. n <= made
      BY <1>1, <2>1 DEF Replaces
    <3>2. PICK old \in Row : Sighted(n, old) /\ old.prev = t.prev
      BY <2>1, <3>1, PastStays
    <3> QED
      BY <1>1, <2>1, <3>2 DEF Replaces
  <2>2. calls[d].new # None => calls[d].new \in Ids /\ calls[d].new <= made'
    BY <1>1 DEF Replaces, Call, Ids, None
  <2> QED
    BY <1>1, <1>2, <2>1, <2>2 DEF Replaces
<1>3. CASE calls'[d] = NoCall
  BY <1>3 DEF Replaces, NoCall, None
<1>4. CASE calls'[d].new = None /\ (calls'[d].pc = "write" => calls'[d].op # "supersede")
  BY <1>4 DEF Replaces
<1>5. CASE Remember(d)
  <2>1. calls'[d] = [calls[d] EXCEPT !.pc = "write", !.new = made + 1] /\ made' = made + 1
    BY <1>1, <1>5 DEF Remember, Goto, TypeOK
  <2>2. /\ calls'[d].pc = "write" /\ calls'[d].new = made + 1 /\ calls'[d].at = calls[d].at
    BY <1>1, <2>1 DEF Call
  <2>3. calls[d].at \in Ids /\ calls[d].copy \in Row /\ Sighted(calls[d].at, calls[d].copy)
    BY <1>1, <1>5, CopyInSight DEF Remember, Active, Call
  <2>4. calls[d].at <= made
    BY <2>3, <1>1 DEF InSight, EachForward, LinksForward
  <2>5. made + 1 \in Ids /\ made + 1 # None /\ calls[d].at < made + 1
    BY <1>1, <1>5, <2>3, <2>4, SizeAssumption DEF Remember, Ids, None
  <2>6. ASSUME NEW n \in Ids, n = made + 1, NEW t \in Row, Sighted(n, t)'
        PROVE  t.prev = calls[d].at
    <3>1. Sighted(n, t) => n <= made
      BY <1>1 DEF InSight, EachForward, LinksForward
    <3>2. t = NewVersion(calls[d])
      BY <1>1, <1>5, <2>6, <3>1, OnlyTheNewVersion
    <3> QED
      BY <3>2 DEF NewVersion
  <2> QED
    BY <1>1, <2>1, <2>2, <2>3, <2>4, <2>5, <2>6 DEF Replaces, Ids
<1>6. CASE \E op \in Ops, i \in Ids : Begin(d, op, i)
  BY <1>1, <1>4, <1>6 DEF Begin, Goto, TypeOK, Replaces, Call
<1>7. CASE Require(d)
  BY <1>1, <1>3, <1>4, <1>7 DEF Require, Goto, TypeOK, Replaces, Call
<1>8. CASE Follow(d)
  BY <1>1, <1>4, <1>8 DEF Follow, Goto, TypeOK, Replaces, Call
<1>9. CASE Arrive(d)
  BY <1>1, <1>3, <1>4, <1>9 DEF Arrive, Goto, TypeOK, Replaces, Call
<1>10. CASE Missing(d) \/ WriteBack(d) \/ Stop(d)
  BY <1>1, <1>3, <1>10 DEF Missing, WriteBack, Stop, Goto, TypeOK
<1> QED
  BY <1>1, <1>2, <1>5, <1>6, <1>7, <1>8, <1>9, <1>10
  DEF Next, vars, Begin, Missing, Require, Follow, Arrive, Remember, WriteBack, Stop, Forget,
      Goto, TypeOK

----------------------------------------------------------------------------
(* The theorems. *)

LEMMA InitIInv == Init => IInv
<1> SUFFICES ASSUME Init PROVE IInv
  OBVIOUS
<1>1. /\ First \in Row /\ First.by = None /\ First.prev = None /\ First.tags = {}
  BY DEF First, Row
<1>2. TypeOK
  BY <1>1, NoCallIsCall, SizeAssumption DEF Init, TypeOK, Ids
<1>3. \A i \in Ids, row \in Row : Sighted(i, row) => row = First /\ i <= Roots
  BY DEF Init, Sighted, Stored, Active, NoCall, Ids
<1>4. EachForward
  BY <1>1, <1>3, SizeAssumption DEF EachForward, LinksForward, Init, Ids
<1>5. OnePast /\ LinkedBack /\ HistoryGrows
  <2>1. OnePast
    BY <1>3 DEF OnePast
  <2>2. LinkedBack
    BY <1>1, <1>3 DEF LinkedBack
  <2>3. HistoryGrows
    BY <1>1, <1>3 DEF HistoryGrows
  <2> QED
    BY <2>1, <2>2, <2>3
<1>6. \A c \in Callers : Replaces(calls[c])
  BY DEF Init, Replaces, NoCall, None
<1> QED
  BY <1>2, <1>4, <1>5, <1>6 DEF IInv

THEOREM RevisionsIInv == Spec => []IInv
<1>1. IInv /\ [Next]_vars => IInv'
  <2> SUFFICES ASSUME IInv, [Next]_vars PROVE IInv'
    OBVIOUS
  <2>1. TypeOK'
    BY TypeStep DEF IInv
  <2> QED
    BY <2>1, InSightStep, ReplacesStep DEF IInv, InSight
<1> QED
  BY InitIInv, <1>1, PTL DEF Spec

(* Rows and copies keep their type: a walk never takes a deleted row into its hands.        *)
THEOREM RevisionsTyped == Spec => []TypeOK
<1>1. IInv => TypeOK
  BY DEF IInv
<1> QED
  BY <1>1, RevisionsIInv, PTL

LEMMA LinksAreRight == IInv => VersionsLinked
<1> SUFFICES ASSUME IInv, NEW i \in Ids, Stored(i)
             PROVE  /\ "superseded" \in rows[i].tags /\ ~Resolved(rows[i]) => rows[i].by # None
                    /\ rows[i].by # None => rows[i].by > i /\ rows[i].by <= made
                    /\ Stored(rows[i].by) => rows[rows[i].by].prev = i
                    /\ rows[i].prev # None => rows[i].prev < i
                    /\ Stored(rows[i].prev) =>
                           rows[i].history = Append(rows[rows[i].prev].history, rows[i].prev)
  BY DEF VersionsLinked
<1>1. rows[i] \in Row /\ Sighted(i, rows[i])
  BY StoredIsRow DEF IInv, Sighted
<1>2. LinksForward(i, rows[i])
  BY <1>1 DEF IInv, EachForward
<1>3. ASSUME Stored(rows[i].by) PROVE rows[rows[i].by].prev = i
  <2>1. /\ rows[rows[i].by] \in Row /\ Sighted(rows[i].by, rows[rows[i].by])
        /\ rows[i].by # None
    BY <1>3, StoredIsRow DEF IInv, Sighted, Ids, None
  <2> QED
    BY <1>1, <2>1 DEF IInv, LinkedBack
<1>4. ASSUME Stored(rows[i].prev)
      PROVE  rows[i].history = Append(rows[rows[i].prev].history, rows[i].prev)
  <2>1. /\ rows[rows[i].prev] \in Row /\ Sighted(rows[i].prev, rows[rows[i].prev])
        /\ rows[i].prev # None
    BY <1>4, StoredIsRow DEF IInv, Sighted, Ids, None
  <2> QED
    BY <1>1, <2>1 DEF IInv, HistoryGrows
<1> QED
  BY <1>2, <1>3, <1>4 DEF LinksForward

(* superseded_by and supersedes are two ends of one link and histories grow by one memory   *)
(* at a time, whatever copies _retire and feedback write back, and in which order.           *)
THEOREM RevisionsLinked == Spec => []VersionsLinked
BY LinksAreRight, RevisionsIInv, PTL

----------------------------------------------------------------------------
(* A memory always has a version. *)

RootOf(i, row) == IF row.history = <<>> THEN i ELSE Head(row.history)

(* Of a memory no version of which was forgotten, every version in sight is stored, and so  *)
(* is the one that superseded it: links lead to later versions, so the latest has none.      *)
VersionKept(i, row) ==
    RootOf(i, row) \notin forgotten =>
        /\ Stored(i)
        /\ row.by # None => Stored(row.by) /\ Root(row.by) = RootOf(i, row)
FirstsKept == \A r \in 1..Roots : r \notin forgotten => Stored(r) /\ rows[r].history = <<>>
VersionsKept == \A i \in Ids, row \in Row : Sighted(i, row) => VersionKept(i, row)
(* What a revision has stored is there when it retires what it replaces.                    *)
NewKept(k) ==
    k.new # None /\ RootOf(k.at, k.copy) \notin forgotten =>
        Stored(k.new) /\ Root(k.new) = RootOf(k.at, k.copy)
Lasting == FirstsKept /\ VersionsKept /\ \A c \in Callers : NewKept(calls[c])

(* Of some of the first n numbers one is the greatest: as many are below it as are below   *)
(* any of them.                                                                              *)
LEMMA Greatest ==
    ASSUME NEW n \in Nat, NEW S \in SUBSET (1..n), S # {}
    PROVE  \E x \in S : \A y \in S : y <= x
<1>0. \E y \in S : y > 0
  <2>1. PICK y : y \in S
    OBVIOUS
  <2> QED
    BY <2>1
<1> DEFINE Below == {i \in 0..n : \E y \in S : y > i}
           m == Cardinality(Below)
<1>1. IsFiniteSet(Below) /\ m \in Nat
  <2>1. IsFiniteSet(0..n) /\ Below \in SUBSET (0..n)
    BY FS_Interval
  <2> HIDE DEF Below
  <2> QED
    BY <2>1, FS_Subset, FS_CardinalityType
<1>2. \A i \in Nat, y \in S : y > i => i \in Below
  OBVIOUS
<1>3. \A i \in Below : i \in Nat /\ \E y \in S : y > i
  OBVIOUS
<1>4. m \notin Below
  <2> SUFFICES ASSUME m \in Below PROVE FALSE
    OBVIOUS
  <2> HIDE DEF m, Below
  <2>1. 0..m \in SUBSET Below
    BY <1>1, <1>2, <1>3
  <2>2. Cardinality(0..m) = m + 1
    BY <1>1, FS_Interval
  <2>3. Cardinality(0..m) <= m
    BY <1>1, <2>1, FS_Subset DEF m
  <2> QED
    BY <1>1, <2>2, <2>3
<1>5. m - 1 \in Below
  <2> SUFFICES ASSUME m - 1 \notin Below PROVE FALSE
    OBVIOUS
  <2>1. 0 \in Below
    <3> HIDE DEF Below
    <3> QED
      BY <1>0, <1>2
  <2>2. m # 0
    <3> HIDE DEF Below
    <3> QED
      BY <2>1, <1>1, FS_EmptySet
  <2> HIDE DEF m, Below
  <2>3. Below \in SUBSET (0..(m - 2))
    BY <1>1, <1>2, <1>3, <2>2
  <2>4. Cardinality(0..(m - 2)) = m - 1 /\ IsFiniteSet(0..(m - 2))
    BY <1>1, <2>2, FS_Interval
  <2>5. m <= m - 1
    BY <2>3, <2>4, FS_Subset DEF m
  <2> QED
    BY <1>1, <2>5
<1> HIDE DEF m, Below
<1>6. PICK x \in S : x > m - 1
  BY <1>3, <1>5
<1>7. ASSUME NEW y \in S PROVE y <= x
  BY <1>1, <1>2, <1>4, <1>6
<1> QED
  BY <1>7
LEMMA LastingIsEnough == IInv /\ Lasting => AlwaysAVersion
<1> SUFFICES ASSUME IInv, Lasting, NEW r \in 1..Roots, r \notin forgotten
             PROVE  \E i \in Ids : Stored(i) /\ Root(i) = r /\ (Open(i) \/ Resolved(rows[i]))
  BY DEF AlwaysAVersion
<1> DEFINE Versions == {i \in Ids : Stored(i) /\ Root(i) = r}
<1>1. r \in Versions
  BY SizeAssumption DEF Lasting, FirstsKept, Root, Ids
<1>2. PICK i \in Versions : \A j \in Versions : j <= i
  <2>1. Versions \in SUBSET (1..MaxMade) /\ MaxMade \in Nat /\ Versions # {}
    BY <1>1, SizeAssumption DEF Ids
  <2> HIDE DEF Versions
  <2> QED
    BY <2>1, Greatest
<1>3. /\ i \in Ids /\ Stored(i) /\ Root(i) = r
      /\ \A j \in Ids : Stored(j) /\ Root(j) = r => j <= i
  BY <1>2
<1> HIDE DEF Versions
<1>4. rows[i] \in Row /\ Sighted(i, rows[i]) /\ VersionKept(i, rows[i])
  BY <1>3, StoredIsRow DEF IInv, Sighted, Lasting, VersionsKept
<1>5. LinksForward(i, rows[i])
  BY <1>3, <1>4 DEF IInv, EachForward
<1>6. rows[i].by = None
  <2> SUFFICES ASSUME rows[i].by # None PROVE FALSE
    OBVIOUS
  <2>1. Stored(rows[i].by) /\ Root(rows[i].by) = r
    BY <1>3, <1>4 DEF VersionKept, RootOf, Root
  <2>2. rows[i].by \in Ids /\ rows[i].by > i
    BY <1>4, <1>5 DEF LinksForward, Row
  <2> QED
    BY <1>3, <2>1, <2>2 DEF Ids
<1>7. rows[i].tags = {} \/ Resolved(rows[i])
  <2>1. rows[i].tags \subseteq {"superseded", "resolved"}
    BY <1>4 DEF Row, Tags
  <2> QED
    BY <1>5, <1>6, <2>1 DEF LinksForward, Resolved
<1> QED
  BY <1>3, <1>7 DEF Open

LEMMA RowIsStored == \A row \in Row : row # NoRow
<1> SUFFICES ASSUME NEW row \in Row PROVE row \in [by : Nat, prev : Nat, history : Seq(Nat),
                                                   tags : SUBSET {"superseded", "resolved"}]
  BY RowAssumption
<1>1. row.history \in Seq(Nat)
  <2>1. row.history \in Seq(Ids) /\ Ids \subseteq Nat
    BY DEF Row, Ids
  <2> QED
    BY <2>1, SeqMonotonic
<1>2. row.by \in Nat /\ row.prev \in Nat
  BY DEF Row, Ids, None
<1>3. row = [by |-> row.by, prev |-> row.prev, history |-> row.history, tags |-> row.tags]
  BY DEF Row
<1>4. row.tags \in SUBSET {"superseded", "resolved"}
  BY DEF Row, Tags
<1> QED
  BY <1>1, <1>2, <1>3, <1>4

(* A version with a root that nobody has forgotten stays, with its past.                    *)
Stays ==
    /\ forgotten \subseteq forgotten'
    /\ \A i \in Ids : Stored(i) /\ Root(i) \notin forgotten' =>
           Stored(i)' /\ rows'[i].history = rows[i].history

LEMMA VersionsStay == IInv /\ [Next]_vars => Stays
<1> SUFFICES ASSUME IInv, [Next]_vars PROVE Stays
  OBVIOUS
<1>1. TypeOK /\ OnePast /\ EachForward /\ \A c \in Callers : Replaces(calls[c])
  BY DEF IInv
<1>2. ASSUME rows' = rows, forgotten' = forgotten PROVE Stays
  BY <1>2 DEF Stays, Stored
<1>3. ASSUME NEW c \in Callers, Remember(c) PROVE Stays
  <2>1. ASSUME NEW i \in Ids, Stored(i) PROVE rows'[i] = rows[i]
    <3>1. i <= made
      BY <1>1, <2>1, StoredIsRow DEF EachForward, LinksForward, Sighted
    <3> QED
      BY <1>1, <1>3, <3>1, SizeAssumption DEF Remember, TypeOK, Ids
  <2> QED
    BY <1>3, <2>1 DEF Remember, Stays, Stored
<1>4. ASSUME NEW c \in Callers, WriteBack(c) PROVE Stays
  <2> DEFINE k == calls[c]
  <2>1. /\ k \in Call /\ k.pc = "write" /\ k.at \in Ids /\ k.copy \in Row /\ Sighted(k.at, k.copy)
    BY <1>1, <1>4, CopyInSight DEF WriteBack, TypeOK, Call, Active
  <2>2. Written(k).history = k.copy.history /\ Written(k) \in Row
    BY <1>1, <2>1, WrittenKeepsThePast, RowsMade DEF EachForward, Replaces
  <2>3. Stored(k.at) => rows[k.at].history = k.copy.history
    BY <1>1, <2>1, StoredIsRow DEF OnePast, Sighted
  <2>4. rows' = [rows EXCEPT ![k.at] = Written(k)] /\ forgotten' = forgotten
    BY <1>4 DEF WriteBack
  <2>5. Written(k) # NoRow
    BY <2>2, RowIsStored
  <2> HIDE DEF k
  <2>6. ASSUME NEW i \in Ids, Stored(i)
        PROVE  rows'[i] # NoRow /\ rows'[i].history = rows[i].history
    <3>1. CASE i = k.at
      BY <1>1, <2>2, <2>3, <2>4, <2>5, <2>6, <3>1 DEF TypeOK
    <3>2. CASE i # k.at
      BY <1>1, <2>4, <2>6, <3>2 DEF TypeOK, Stored
    <3> QED
      BY <3>1, <3>2
  <2> QED
    BY <2>4, <2>6 DEF Stays, Stored
<1>5. ASSUME NEW f \in Ids, Forget(f) PROVE Stays
  BY <1>1, <1>5 DEF Forget, Stays, Stored, TypeOK
<1>6. CASE UNCHANGED vars
  BY <1>2, <1>6 DEF vars
<1> QED
  BY <1>2, <1>3, <1>4, <1>5, <1>6
  DEF Next, Begin, Missing, Require, Follow, Arrive, Stop, Kept

(* So what is said of a version in sight is still so after the step.                         *)
LEMMA KeptStaysKept ==
    ASSUME IInv, Stays, NEW i \in Ids, NEW row \in Row, Sighted(i, row), VersionKept(i, row)
    PROVE  VersionKept(i, row)'
<1> SUFFICES ASSUME RootOf(i, row) \notin forgotten'
             PROVE  /\ Stored(i)'
                    /\ row.by # None => Stored(row.by)' /\ Root(row.by)' = RootOf(i, row)
  BY DEF VersionKept, RootOf
<1>1. Stored(i) /\ (row.by # None => Stored(row.by) /\ Root(row.by) = RootOf(i, row))
  BY DEF VersionKept, Stays
<1>2. Root(i) = RootOf(i, row)
  BY <1>1, StoredIsRow DEF IInv, OnePast, Sighted, Root, RootOf
<1>3. row.by # None => row.by \in Ids
  BY DEF Row
<1> QED
  BY <1>1, <1>2, <1>3 DEF Stays, Root

LEMMA NewStaysKept ==
    ASSUME Stays, NEW k \in Call, NewKept(k) PROVE NewKept(k)'
<1> SUFFICES ASSUME k.new # None, RootOf(k.at, k.copy) \notin forgotten'
             PROVE  Stored(k.new)' /\ Root(k.new)' = RootOf(k.at, k.copy)
  BY DEF NewKept, RootOf
<1>1. k.new \in Ids
  BY DEF Call
<1>2. Stored(k.new) /\ Root(k.new) = RootOf(k.at, k.copy)
  BY DEF NewKept, Stays
<1> QED
  BY <1>1, <1>2 DEF Stays, Root

LEMMA FirstsStay == IInv /\ Lasting /\ [Next]_vars => FirstsKept'
<1> SUFFICES ASSUME IInv, Lasting, [Next]_vars, NEW r \in 1..Roots, r \notin forgotten'
             PROVE  Stored(r)' /\ rows'[r].history = <<>>
  BY DEF FirstsKept
<1>1. r \in Ids /\ Stays
  BY SizeAssumption, VersionsStay DEF Ids
<1>2. Stored(r) /\ rows[r].history = <<>>
  BY <1>1 DEF Stays, Lasting, FirstsKept
<1> QED
  BY <1>1, <1>2 DEF Stays, Root

LEMMA HeadOfAppend ==
    ASSUME NEW S, NEW h \in Seq(S), NEW x \in S
    PROVE  Append(h, x) # <<>> /\ Head(Append(h, x)) = IF h = <<>> THEN x ELSE Head(h)
<1> DEFINE a == Append(h, x)
<1>1. /\ a \in Seq(S) /\ a # <<>> /\ Len(a) = Len(h) + 1
      /\ a[Len(h) + 1] = x /\ \A i \in 1..Len(h) : a[i] = h[i]
  BY AppendProperties
<1>2. Head(a) = a[1]
  BY <1>1
<1> HIDE DEF a
<1>3. CASE h = <<>>
  <2>1. Len(h) = 0
    BY <1>3, EmptySeq
  <2> QED
    BY <1>1, <1>2, <1>3, <2>1
<1>4. CASE h # <<>>
  <2>1. Len(h) \in Nat /\ Len(h) # 0 /\ Head(h) = h[1]
    BY <1>4, EmptySeq
  <2> QED
    BY <1>1, <1>2, <1>4, <2>1
<1> QED
  BY <1>3, <1>4 DEF a

(* The new version has the root of the one it replaces.                                      *)
LEMMA NewRoot ==
    ASSUME TypeOK, NEW c \in Callers, Remember(c)
    PROVE  \E n \in Ids :
              /\ n = made + 1 /\ Stored(n)' /\ rows' = [rows EXCEPT ![n] = NewVersion(calls[c])]
              /\ rows'[n] = NewVersion(calls[c])
              /\ Root(n)' = RootOf(calls[c].at, calls[c].copy)
<1>1. made + 1 \in Ids /\ calls[c] \in Call
  BY SizeAssumption DEF Remember, TypeOK, Ids
<1> PICK n \in Ids : n = made + 1
  BY <1>1
<1>2. rows' = [rows EXCEPT ![n] = NewVersion(calls[c])] /\ rows'[n] = NewVersion(calls[c])
  BY <1>1 DEF Remember, TypeOK
<1>3. calls[c].pc # "write"
  BY DEF Remember
<1>4. NewVersion(calls[c]) # NoRow
  BY <1>1, <1>3, RowsMade, RowIsStored
<1>5. /\ NewVersion(calls[c]).history = Append(calls[c].copy.history, calls[c].at)
      /\ calls[c].copy.history \in Seq(Ids) /\ calls[c].at \in Ids
  BY <1>1 DEF NewVersion, Call, Row
<1>6. Root(n)' = RootOf(calls[c].at, calls[c].copy)
  BY <1>2, <1>5, HeadOfAppend DEF Root, RootOf
<1> QED
  BY <1>1, <1>2, <1>4, <1>6 DEF Stored

LEMMA VersionsKeptStep == IInv /\ Lasting /\ [Next]_vars => VersionsKept'
<1> SUFFICES ASSUME IInv, Lasting, [Next]_vars, NEW i \in Ids, NEW row \in Row, Sighted(i, row)'
             PROVE  VersionKept(i, row)'
  BY DEF VersionsKept
<1>1. Stays /\ TypeOK
  BY VersionsStay DEF IInv
<1>2. CASE Sighted(i, row)
  BY <1>1, <1>2, KeptStaysKept DEF Lasting, VersionsKept
<1>3. ASSUME NEW c \in Callers, Remember(c) PROVE VersionKept(i, row)'
  <2>1. PICK n \in Ids : n = made + 1 /\ Stored(n)' /\ rows'[n] = NewVersion(calls[c])
    BY <1>1, <1>3, NewRoot
  <2>2. CASE i = n /\ row = NewVersion(calls[c])
    BY <2>1, <2>2 DEF VersionKept, NewVersion
  <2> QED
    BY <1>1, <1>2, <1>3, <2>1, <2>2, OnlyTheNewVersion
<1>4. ASSUME NEW c \in Callers, WriteBack(c) PROVE VersionKept(i, row)'
  <2> PICK k \in Call : k = calls[c]
    BY <1>1 DEF TypeOK
  <2>1. /\ k \in Call /\ k.pc = "write" /\ k.at \in Ids /\ k.copy \in Row /\ Sighted(k.at, k.copy)
        /\ NewKept(k)
    BY <1>1, <1>4, CopyInSight DEF WriteBack, TypeOK, Call, Active, Lasting
  <2>2. /\ Written(k).history = k.copy.history
        /\ \/ Written(k).by = k.copy.by
           \/ Written(k).by = k.new /\ k.new # None
    BY <2>1, WrittenKeepsThePast DEF IInv, EachForward
  <2>3. VersionKept(k.at, k.copy)' /\ NewKept(k)'
    <3>1. VersionKept(k.at, k.copy)
      BY <2>1 DEF Lasting, VersionsKept
    <3> QED
      BY <1>1, <2>1, <3>1, KeptStaysKept, NewStaysKept
  <2>4. Sighted(i, row) \/ (i = k.at /\ row = Written(k))
    BY <1>1, <1>4, OnlyWhatIsWritten
  <2> QED
    BY <1>2, <2>2, <2>3, <2>4 DEF VersionKept, NewKept, RootOf
<1> QED
  BY <1>1, <1>2, <1>3, <1>4, ReadersSeeNothingNew DEF SameSight

(* Only remember() puts a new version into a caller's hands.                                *)
LEMMA NewIsRemembered ==
    IInv /\ [Next]_vars =>
        \A d \in Callers : calls'[d] = calls[d] \/ calls'[d].new = None \/ Remember(d)
<1> SUFFICES ASSUME IInv, [Next]_vars, NEW d \in Callers
             PROVE  calls'[d] = calls[d] \/ calls'[d].new = None \/ Remember(d)
  OBVIOUS
<1>1. /\ TypeOK /\ calls[d] \in Call /\ NoCall.new = None
      /\ calls[d].pc # "write" => calls[d].new = None
  BY DEF IInv, TypeOK, Replaces, NoCall
<1>2. CASE \E op \in Ops, i \in Ids : Begin(d, op, i)
  BY <1>1, <1>2 DEF Begin, Goto, TypeOK, Call
<1>3. CASE Require(d)
  BY <1>1, <1>3 DEF Require, Goto, TypeOK, Call
<1>4. CASE Follow(d)
  BY <1>1, <1>4 DEF Follow, Goto, TypeOK, Call
<1>5. CASE Arrive(d)
  BY <1>1, <1>5 DEF Arrive, Goto, TypeOK, Call
<1>6. CASE Missing(d) \/ WriteBack(d) \/ Stop(d)
  BY <1>1, <1>6 DEF Missing, WriteBack, Stop, Goto, TypeOK
<1> QED
  BY <1>1, <1>2, <1>3, <1>4, <1>5, <1>6
  DEF Next, vars, Begin, Missing, Require, Follow, Arrive, Remember, WriteBack, Stop, Forget,
      Goto, TypeOK

LEMMA NewKeptStep == IInv /\ Lasting /\ [Next]_vars => \A d \in Callers : NewKept(calls[d])'
<1> SUFFICES ASSUME IInv, Lasting, [Next]_vars, NEW d \in Callers PROVE NewKept(calls[d])'
  OBVIOUS
<1>1. Stays /\ TypeOK
  BY VersionsStay DEF IInv
<1> PICK k \in Call : k = calls[d]
  BY <1>1 DEF TypeOK
<1>2. CASE calls'[d] = calls[d]
  <2>1. NewKept(k)'
    BY <1>1, NewStaysKept DEF Lasting
  <2> QED
    BY <1>2, <2>1 DEF NewKept
<1>3. CASE calls'[d].new = None
  BY <1>3 DEF NewKept
<1>4. CASE Remember(d)
  <2>1. PICK n \in Ids : n = made + 1 /\ Stored(n)' /\ Root(n)' = RootOf(k.at, k.copy)
    BY <1>1, <1>4, NewRoot
  <2>2. calls'[d] = [k EXCEPT !.pc = "write", !.new = n]
    BY <1>1, <1>4, <2>1 DEF Remember, Goto, TypeOK
  <2>3. calls'[d].at = k.at /\ calls'[d].copy = k.copy /\ calls'[d].new = n
    BY <2>2 DEF Call
  <2> QED
    BY <2>1, <2>3 DEF NewKept
<1> QED
  BY <1>2, <1>3, <1>4, NewIsRemembered

THEOREM RevisionsLasting == Spec => []Lasting
<1>1. Init => Lasting
  <2> SUFFICES ASSUME Init PROVE Lasting
    OBVIOUS
  <2>1. First.by = None /\ First.history = <<>>
    BY DEF First
  <2>2. First # NoRow
    <3>1. First \in Row
      BY DEF First, Row
    <3> QED
      BY <3>1, RowIsStored
  <2>3. \A i \in Ids, row \in Row : Sighted(i, row) => Stored(i) /\ row = First
    BY <2>2 DEF Init, Sighted, Stored, Active, NoCall, Ids
  <2>4. FirstsKept
    BY <2>1, <2>2, SizeAssumption DEF FirstsKept, Init, Stored, Ids
  <2>5. VersionsKept
    BY <2>1, <2>3 DEF VersionsKept, VersionKept
  <2>6. \A c \in Callers : NewKept(calls[c])
    BY DEF Init, NewKept, NoCall
  <2> QED
    BY <2>4, <2>5, <2>6 DEF Lasting
<1>2. IInv /\ Lasting /\ [Next]_vars => Lasting'
  BY FirstsStay, VersionsKeptStep, NewKeptStep DEF Lasting
<1> QED
  BY <1>1, <1>2, RevisionsIInv, PTL DEF Spec

(* A revision stores the new version before it retires the old one: a memory no version of  *)
(* which was forgotten has a current or a resolved one, at every moment and after every      *)
(* crash.                                                                                      *)
THEOREM RevisionsLast == Spec => []AlwaysAVersion
BY LastingIsEnough, RevisionsLasting, RevisionsIInv, PTL

----------------------------------------------------------------------------
(* History does not fork while nothing disturbs a revision. *)

Newest(i) == Stored(i) /\ ~Stored(rows[i].by)
Replacing(k) == k.pc = "write" /\ k.op = "supersede"
Leaving(i) == \E c \in Callers : Replacing(calls[c]) /\ calls[c].at = i

(* Of one memory one version is the newest, but for the one that is about to be retired.     *)
OneNewest == \A i, j \in Ids :
    Newest(i) /\ Newest(j) /\ Root(i) = Root(j) /\ ~Leaving(i) /\ ~Leaving(j) => i = j
OneAtATime == \A c, d \in Callers : calls[c].pc # "idle" /\ calls[d].pc # "idle" => c = d
RetiredSaysSo == \A i \in Ids : Stored(i) /\ rows[i].by # None => "superseded" \in rows[i].tags
(* A copy is the row, and what a walk has arrived at is the newest version until it writes. *)
Informed(k) ==
    /\ Active(k) => Stored(k.at) /\ k.copy = rows[k.at]
    /\ k.pc = "walk" => \A x \in k.seen : x <= k.at
    /\ k.pc = "remember" => k.op = "supersede" /\ ~Stored(k.copy.by)
    /\ Replacing(k) => Stored(k.new)

Undisturbed ==
    OneAtATime /\ OneNewest /\ RetiredSaysSo /\ \A c \in Callers : Informed(calls[c])
Calm == unrest = {} => Undisturbed

LEMMA CalmIsEnough == IInv /\ Calm => UndisturbedNeverForks
<1> SUFFICES ASSUME IInv, Undisturbed, NobodyRevises,
                    NEW i \in Ids, NEW j \in Ids, Open(i), Open(j), Root(i) = Root(j)
             PROVE  i = j
  BY DEF Calm, UndisturbedNeverForks, OneOpenEach
<1>1. ASSUME NEW n \in Ids, Open(n) PROVE Newest(n) /\ ~Leaving(n)
  <2>1. rows[n].by = None
    BY <1>1 DEF Open, Undisturbed, RetiredSaysSo
  <2> QED
    BY <1>1, <2>1 DEF Open, Newest, Stored, Leaving, Replacing, NobodyRevises, Ids, None
<1> QED
  BY <1>1 DEF Undisturbed, OneNewest

(* A step of one caller that reads: nobody is about to retire a version before or after.     *)
LEMMA ReadingIsCalm ==
    ASSUME TypeOK, Undisturbed, rows' = rows, NEW c \in Callers, NEW k \in Call,
           calls' = [calls EXCEPT ![c] = k], calls[c].pc = "idle" => k.pc = "idle",
           ~Replacing(calls[c]), ~Replacing(k), Informed(k)
    PROVE  Undisturbed'
<1>1. \A d \in Callers : calls'[d] = IF d = c THEN k ELSE calls[d]
  BY DEF TypeOK
<1>2. OneAtATime'
  BY <1>1 DEF Undisturbed, OneAtATime
<1>3. \A i \in Ids : Leaving(i)' <=> Leaving(i)
  BY <1>1 DEF Leaving, Replacing
<1>4. OneNewest'
  BY <1>3 DEF Undisturbed, OneNewest, Newest, Stored, Root
<1>5. RetiredSaysSo'
  BY DEF Undisturbed, RetiredSaysSo, Stored
<1>6. ASSUME NEW d \in Callers PROVE Informed(calls[d])'
  BY <1>1 DEF Undisturbed, Informed, Active, Replacing, Stored
<1> QED
  BY <1>2, <1>4, <1>5, <1>6 DEF Undisturbed

LEMMA EndingIsCalm ==
    ASSUME TypeOK, Undisturbed, rows' = rows, NEW c \in Callers,
           calls' = [calls EXCEPT ![c] = NoCall], ~Replacing(calls[c])
    PROVE  Undisturbed'
<1>1. NoCall.pc = "idle" /\ NoCall \in Call
  BY NoCallIsCall DEF NoCall
<1>2. ~Replacing(NoCall) /\ Informed(NoCall)
  BY <1>1 DEF Replacing, Informed, Active
<1> HIDE DEF NoCall
<1> QED
  BY <1>1, <1>2, ReadingIsCalm

LEMMA BeginIsCalm ==
    ASSUME TypeOK, Undisturbed, NEW c \in Callers, NEW op \in Ops, NEW i \in Ids,
           Begin(c, op, i), unrest' = {}
    PROVE  Undisturbed'
<1>1. /\ rows' = rows /\ calls[c] \in Call /\ calls[c].pc = "idle"
      /\ \A d \in Callers \ {c} : calls[d].pc = "idle" /\ calls'[d] = calls[d]
      /\ calls'[c] = [calls[c] EXCEPT !.pc = "require", !.op = op, !.at = i]
  BY DEF Begin, Goto, TypeOK
<1>2. calls'[c].pc = "require"
  BY <1>1 DEF Call
<1>3. \A d \in Callers : calls[d].pc = "idle" /\ calls'[d].pc \in {"idle", "require"}
  <2>1. calls[c].pc = "idle" /\ \A d \in Callers \ {c} : calls'[d].pc = "idle"
    BY <1>1
  <2> QED
    BY <1>1, <1>2, <2>1 DEF Call
<1>4. OneAtATime'
  BY <1>1 DEF OneAtATime
<1>5. \A n \in Ids : ~Leaving(n)' /\ ~Leaving(n)
  BY <1>3 DEF Leaving, Replacing
<1>6. OneNewest'
  BY <1>1, <1>5 DEF Undisturbed, OneNewest, Newest, Stored, Root
<1>7. RetiredSaysSo'
  BY <1>1 DEF Undisturbed, RetiredSaysSo, Stored
<1>8. \A d \in Callers : Informed(calls[d])'
  BY <1>3 DEF Informed, Active, Replacing
<1> QED
  BY <1>4, <1>6, <1>7, <1>8 DEF Undisturbed

(* The walk: the row in hand is the row, and links lead on.                                  *)
LEMMA WalkIsCalm ==
    ASSUME IInv, Undisturbed, NEW c \in Callers, Require(c) \/ Follow(c) \/ Arrive(c)
    PROVE  Undisturbed'
<1>1. /\ TypeOK /\ calls[c] \in Call /\ Informed(calls[c]) /\ rows' = rows
      /\ calls[c].pc # "idle" /\ ~Replacing(calls[c])
  BY DEF IInv, TypeOK, Undisturbed, Require, Follow, Arrive, Kept, Replacing
<1>2. CASE calls' = [calls EXCEPT ![c] = NoCall]
  BY <1>1, <1>2, EndingIsCalm
<1> PICK k \in Call : k = calls[c]
  BY <1>1
(* A link of the row in hand leads to a later version.                                      *)
<1>3. k.pc = "walk" /\ Stored(k.copy.by) => k.copy.by \in Ids /\ k.copy.by > k.at
  <2> SUFFICES ASSUME k.pc = "walk", Stored(k.copy.by)
               PROVE  k.copy.by \in Ids /\ k.copy.by > k.at
    OBVIOUS
  <2>1. Sighted(k.at, k.copy) /\ k.at \in Ids /\ k.copy \in Row
    BY CopyInSight DEF Active, Call
  <2>2. LinksForward(k.at, k.copy)
    BY <2>1 DEF IInv, EachForward
  <2> QED
    BY <2>1, <2>2 DEF LinksForward, Stored, Ids, None
<1>4. CASE Require(c) /\ calls' # [calls EXCEPT ![c] = NoCall]
  <2> DEFINE l == [k EXCEPT !.copy = rows[k.at], !.seen = {k.at},
                            !.pc = IF k.op = "feedback" THEN "write" ELSE "walk"]
  <2>1. calls' = [calls EXCEPT ![c] = l] /\ Stored(k.at)
    BY <1>4 DEF Require, Goto
  <2>2. rows[k.at] \in Row
    BY <1>1, <2>1, StoredIsRow
  <2>3. /\ l \in Call /\ l.at = k.at /\ l.copy = rows[k.at] /\ l.seen = {k.at} /\ l.op = k.op
        /\ l.pc = IF k.op = "feedback" THEN "write" ELSE "walk"
    BY <2>2 DEF Call, Steps
  <2> HIDE DEF l
  <2>4. ~Replacing(l) /\ Informed(l)
    <3>1. ~Replacing(l)
      BY <2>3 DEF Replacing
    <3>2. \A x \in l.seen : x <= l.at
      BY <2>3 DEF Call, Ids
    <3> QED
      BY <2>1, <2>3, <3>1, <3>2 DEF Informed, Active
  <2> QED
    BY <1>1, <2>1, <2>3, <2>4, ReadingIsCalm
<1>5. CASE Follow(c)
  <2> DEFINE l == [k EXCEPT !.at = k.copy.by, !.copy = rows[k.copy.by],
                            !.seen = @ \cup {k.copy.by}]
  <2>1. calls' = [calls EXCEPT ![c] = l] /\ Stored(k.copy.by) /\ k.pc = "walk"
    BY <1>5 DEF Follow, Goto, Newer
  <2>2. rows[k.copy.by] \in Row /\ k.copy.by \in Ids /\ k.copy.by > k.at
    BY <1>1, <1>3, <2>1, StoredIsRow
  <2>3. /\ l \in Call /\ l.at = k.copy.by /\ l.copy = rows[k.copy.by]
        /\ l.seen = k.seen \cup {k.copy.by} /\ l.pc = "walk"
    BY <2>1, <2>2 DEF Call
  <2> HIDE DEF l
  <2>4. \A x \in l.seen : x <= l.at
    BY <1>1, <2>1, <2>2, <2>3 DEF Informed, Call, Ids
  <2>5. ~Replacing(l) /\ Informed(l)
    BY <2>1, <2>3, <2>4 DEF Informed, Active, Replacing
  <2> QED
    BY <1>1, <2>1, <2>3, <2>5, ReadingIsCalm
<1>6. CASE Arrive(c) /\ calls' # [calls EXCEPT ![c] = NoCall]
  <2> DEFINE l == [k EXCEPT !.pc = IF k.op = "supersede" THEN "remember" ELSE "write"]
  <2>1. calls' = [calls EXCEPT ![c] = l] /\ ~Newer(k) /\ k.pc = "walk"
    BY <1>6 DEF Arrive, Goto
  <2>2. /\ l \in Call /\ l.at = k.at /\ l.copy = k.copy /\ l.op = k.op
        /\ l.pc = IF k.op = "supersede" THEN "remember" ELSE "write"
    BY DEF Call, Steps
  <2> HIDE DEF l
  <2>3. ~Stored(k.copy.by)
    <3>1. k.copy.by \in k.seen => k.copy.by <= k.at
      BY <1>1, <2>1 DEF Informed
    <3> QED
      BY <1>3, <2>1, <3>1 DEF Newer, Call, Ids
  <2>4. ~Replacing(l) /\ Informed(l)
    BY <1>1, <2>1, <2>2, <2>3 DEF Informed, Active, Replacing
  <2> QED
    BY <1>1, <2>1, <2>2, <2>4, ReadingIsCalm
<1> QED
  BY <1>2, <1>4, <1>5, <1>6

(* remember(): what is in hand was the newest version, and is left for the one stored.        *)
LEMMA RememberIsCalm ==
    ASSUME IInv, Undisturbed, NEW c \in Callers, Remember(c) PROVE Undisturbed'
<1>1. /\ TypeOK /\ Informed(calls[c]) /\ calls[c].pc = "remember"
      /\ \A d \in Callers \ {c} : calls[d].pc = "idle"
  BY DEF IInv, Undisturbed, OneAtATime, Remember
<1> PICK k \in Call : k = calls[c]
  BY <1>1 DEF TypeOK
<1>2. PICK n \in Ids : /\ n = made + 1 /\ Stored(n)' /\ rows' = [rows EXCEPT ![n] = NewVersion(k)]
                       /\ rows'[n] = NewVersion(k) /\ Root(n)' = RootOf(k.at, k.copy)
  BY <1>1, NewRoot
<1>3. /\ k.op = "supersede" /\ Stored(k.at) /\ k.copy = rows[k.at] /\ ~Stored(k.copy.by)
      /\ k.at \in Ids
  BY <1>1 DEF Informed, Active, Call
<1>4. NewVersion(k).by = None
  BY DEF NewVersion
<1>5. ~Stored(n)
  BY <1>1, <1>2, StoredIsRow DEF IInv, EachForward, LinksForward, Sighted, TypeOK, Ids
<1>6. \A i \in Ids \ {n} : rows'[i] = rows[i]
  BY <1>1, <1>2 DEF TypeOK
<1>7. /\ \A d \in Callers \ {c} : calls'[d] = calls[d]
      /\ calls'[c] = [k EXCEPT !.pc = "write", !.new = n]
  BY <1>1, <1>2 DEF Remember, Goto, TypeOK
<1>8. /\ calls'[c].pc = "write" /\ calls'[c].at = k.at /\ calls'[c].copy = k.copy
      /\ calls'[c].op = k.op /\ calls'[c].new = n
  BY <1>7 DEF Call
<1>9. Leaving(k.at)' /\ \A i \in Ids : ~Leaving(i)
  <2>1. Leaving(k.at)'
    BY <1>3, <1>8 DEF Leaving, Replacing
  <2>2. \A i \in Ids : ~Leaving(i)
    BY <1>1 DEF Leaving, Replacing
  <2> QED
    BY <2>1, <2>2
<1>10. OneAtATime'
  BY <1>1, <1>7 DEF OneAtATime
<1>11. RetiredSaysSo'
  BY <1>2, <1>4, <1>6 DEF Undisturbed, RetiredSaysSo, Stored
<1>12. \A d \in Callers : Informed(calls[d])'
  <2>1. Informed(calls[c])'
    BY <1>2, <1>3, <1>5, <1>6, <1>8 DEF Informed, Active, Replacing, Stored
  <2>2. \A d \in Callers \ {c} : Informed(calls[d])'
    BY <1>1, <1>7 DEF Informed, Active, Replacing
  <2> QED
    BY <2>1, <2>2
<1>13. OneNewest'
  <2>1. ASSUME NEW i \in Ids, Newest(i)', i # n PROVE Newest(i) /\ Root(i)' = Root(i)
    <3>1. rows'[i] = rows[i]
      BY <1>6, <2>1
    <3>2. Stored(i) /\ Root(i)' = Root(i)
      BY <2>1, <3>1 DEF Newest, Stored, Root
    <3>3. ~Stored(rows[i].by)
      BY <1>2, <1>5, <1>6, <2>1, <3>1 DEF Newest, Stored
    <3> QED
      BY <3>2, <3>3 DEF Newest
  <2>2. Newest(k.at) /\ Root(k.at) = RootOf(k.at, k.copy)
    BY <1>3 DEF Newest, Root, RootOf
  <2>3. ASSUME NEW i \in Ids, Newest(i)', i # n, Root(i)' = Root(n)' PROVE Leaving(i)'
    <3>1. i = k.at
      BY <1>2, <1>3, <1>9, <2>1, <2>2, <2>3 DEF Undisturbed, OneNewest
    <3> QED
      BY <1>9, <3>1
  <2>4. ASSUME NEW i \in Ids, NEW j \in Ids, Newest(i)', Newest(j)', Root(i)' = Root(j)',
               ~Leaving(i)', ~Leaving(j)'
        PROVE  i = j
    <3>1. CASE i # n /\ j # n
      BY <1>9, <2>1, <2>4, <3>1 DEF Undisturbed, OneNewest
    <3> QED
      BY <2>3, <2>4, <3>1
  <2> QED
    BY <2>4 DEF OneNewest
<1> QED
  BY <1>10, <1>11, <1>12, <1>13 DEF Undisturbed

(* The write-back: the version in hand is there, and gets what it writes.                    *)
LEMMA WriteBackIsCalm ==
    ASSUME IInv, Undisturbed, NEW c \in Callers, WriteBack(c) PROVE Undisturbed'
<1>1. /\ TypeOK /\ Informed(calls[c]) /\ calls[c].pc = "write" /\ Replaces(calls[c])
      /\ \A d \in Callers \ {c} : calls[d].pc = "idle"
  BY DEF IInv, Undisturbed, OneAtATime, WriteBack
<1> PICK k \in Call : k = calls[c]
  BY <1>1 DEF TypeOK
<1> DEFINE w == Written(k)
<1>2. /\ Stored(k.at) /\ k.copy = rows[k.at] /\ k.at \in Ids /\ k.copy \in Row
      /\ k.op = "supersede" => Stored(k.new)
  BY <1>1 DEF Informed, Active, Replacing, Call
<1>3. LinksForward(k.at, k.copy)
  BY <1>2 DEF IInv, EachForward, Sighted
<1>4. w \in Row /\ w # NoRow /\ w.history = k.copy.history
  BY <1>1, <1>3, RowsMade, RowIsStored, WrittenKeepsThePast DEF Replaces
<1>5. k.op # "supersede" => w.by = k.copy.by
  BY <1>2 DEF Written, Row
<1>6. k.op = "supersede" => w.by = k.new
  BY <1>2 DEF Written, Retired, Row
<1>7. "superseded" \in w.tags \/ w = k.copy
  BY <1>2 DEF Written, Retired, Row, Tags
<1> HIDE DEF w
<1>8. rows'[k.at] = w /\ \A i \in Ids \ {k.at} : rows'[i] = rows[i]
  BY <1>1, <1>2 DEF WriteBack, TypeOK, w
<1>9. \A i \in Ids : Stored(i)' <=> Stored(i)
  BY <1>2, <1>4, <1>8 DEF Stored
<1>10. \A d \in Callers : calls'[d] = IF d = c THEN NoCall ELSE calls[d]
  BY <1>1 DEF WriteBack, Goto, TypeOK
<1>11. \A d \in Callers : calls'[d].pc = "idle"
  BY <1>1, <1>10 DEF NoCall
<1>12. OneAtATime' /\ \A d \in Callers : Informed(calls[d])'
  BY <1>11 DEF OneAtATime, Informed, Active, Replacing
<1>13. RetiredSaysSo'
  BY <1>2, <1>7, <1>8, <1>9 DEF Undisturbed, RetiredSaysSo
<1>14. OneNewest'
  <2>1. ASSUME NEW i \in Ids, Newest(i)' PROVE Newest(i) /\ Root(i)' = Root(i) /\ ~Leaving(i)
    <3>1. Root(i)' = Root(i)
      BY <1>2, <1>4, <1>8 DEF Root
    <3>2. CASE i = k.at
      <4>1. ~Stored(w.by)'
        BY <1>8, <2>1, <3>2 DEF Newest, Stored
      <4>2. ~Stored(w.by)
        BY <1>9, <4>1 DEF Stored
      <4>3. k.op # "supersede"
        BY <1>2, <1>6, <4>2
      <4> QED
        BY <1>1, <1>2, <1>5, <3>1, <3>2, <4>2, <4>3 DEF Newest, Leaving, Replacing
    <3>3. CASE i # k.at
      <4>1. rows'[i] = rows[i] /\ Stored(i)
        BY <1>8, <1>9, <2>1, <3>3 DEF Newest
      <4>2. ~Stored(rows[i].by)
        BY <1>9, <2>1, <4>1 DEF Newest, Stored
      <4> QED
        BY <1>1, <3>1, <3>3, <4>1, <4>2 DEF Newest, Leaving, Replacing
    <3> QED
      BY <3>2, <3>3
  <2> QED
    BY <2>1 DEF Undisturbed, OneNewest
<1> QED
  BY <1>12, <1>13, <1>14 DEF Undisturbed

(* forget(): only a newest version goes, and the one it superseded takes its place.           *)
LEMMA ForgetIsCalm ==
    ASSUME IInv, Undisturbed, NEW f \in Ids, Forget(f), unrest' = {} PROVE Undisturbed'
<1>1. /\ TypeOK /\ VersionsLinked /\ Stored(f) /\ ~Stored(rows[f].by)
      /\ \A c \in Callers : calls[c].pc = "idle"
  BY LinksAreRight DEF IInv, Forget
<1>2. /\ calls' = calls /\ rows'[f] = NoRow /\ \A i \in Ids \ {f} : rows'[i] = rows[i]
  BY <1>1 DEF Forget, TypeOK
<1>3. OneAtATime' /\ \A d \in Callers : Informed(calls[d])'
  BY <1>1, <1>2 DEF OneAtATime, Informed, Active, Replacing
<1>4. RetiredSaysSo'
  BY <1>2 DEF Undisturbed, RetiredSaysSo, Stored
<1>5. \A i \in Ids : ~Leaving(i)
  BY <1>1 DEF Leaving, Replacing
(* What becomes a newest version was superseded by the one that goes.                       *)
<1>6. ASSUME NEW i \in Ids, Newest(i)'
      PROVE  /\ Root(i)' = Root(i) /\ i # f
             /\ Newest(i) \/ (Root(i) = Root(f) /\ rows[f].prev = i)
  <2>1. /\ i # f /\ Stored(i) /\ rows'[i] = rows[i] /\ Root(i)' = Root(i)
        /\ Stored(rows[i].by) => rows[i].by = f
    BY <1>2, <1>6 DEF Newest, Stored, Root
  <2>2. CASE rows[i].by = f
    <3>1. rows[f].prev = i
      BY <1>1, <2>1, <2>2 DEF VersionsLinked
    <3>2. rows[f].history = Append(rows[i].history, i)
      BY <1>1, <2>1, <3>1 DEF VersionsLinked, Ids, None
    <3>3. rows[i].history \in Seq(Ids)
      BY <1>1, <2>1, StoredIsRow DEF Row
    <3>4. Root(f) = Root(i)
      BY <3>2, <3>3, HeadOfAppend DEF Root
    <3> QED
      BY <2>1, <3>1, <3>4
  <2> QED
    BY <2>1, <2>2 DEF Newest
<1>7. Newest(f)
  BY <1>1 DEF Newest
<1>8. OneNewest'
  BY <1>5, <1>6, <1>7 DEF Undisturbed, OneNewest
<1> QED
  BY <1>3, <1>4, <1>8 DEF Undisturbed

LEMMA CalmStep == IInv /\ Calm /\ [Next]_vars => Calm'
<1> SUFFICES ASSUME IInv, Calm, [Next]_vars, unrest' = {} PROVE Undisturbed'
  BY DEF Calm
<1>1. Undisturbed /\ TypeOK
  BY DEF IInv, Calm, Next, vars, Begin, Missing, Require, Follow, Arrive, Remember, WriteBack,
         Stop, Forget, Kept
<1>2. ASSUME NEW c \in Callers, Missing(c) \/ Stop(c) PROVE Undisturbed'
  <2>1. /\ rows' = rows /\ calls' = [calls EXCEPT ![c] = NoCall] /\ ~Replacing(calls[c])
    BY <1>2 DEF Missing, Stop, Goto, Kept, Replacing
  <2> QED
    BY <1>1, <2>1, EndingIsCalm
<1>3. CASE UNCHANGED vars
  BY <1>1, <1>3
  DEF vars, Undisturbed, OneAtATime, OneNewest, RetiredSaysSo, Informed, Newest, Leaving,
      Replacing, Active, Stored, Root
<1> QED
  BY <1>1, <1>2, <1>3, BeginIsCalm, WalkIsCalm, RememberIsCalm, WriteBackIsCalm, ForgetIsCalm
  DEF Next

(* Revisions that do not overlap, are not broken off and meet no gap leave one version of a  *)
(* memory open, at most: its history never forks.                                              *)
THEOREM RevisionsNeverFork == Spec => []UndisturbedNeverForks
<1>1. Init => Calm
  <2> SUFFICES ASSUME Init PROVE Undisturbed
    BY DEF Calm
  <2>1. \A c \in Callers : calls[c].pc = "idle"
    BY DEF Init, NoCall
  <2>2. \A i \in Ids : Stored(i) => rows[i] = First
    BY DEF Init, Stored
  <2>3. OneNewest
    BY <2>2 DEF OneNewest, Newest, Root, First
  <2>4. RetiredSaysSo
    BY <2>2 DEF RetiredSaysSo, First
  <2>5. OneAtATime /\ \A c \in Callers : Informed(calls[c])
    BY <2>1 DEF OneAtATime, Informed, Active, Replacing
  <2> QED
    BY <2>3, <2>4, <2>5 DEF Undisturbed
<1> QED
  BY <1>1, CalmStep, CalmIsEnough, RevisionsIInv, PTL DEF Spec

===================================================================================
