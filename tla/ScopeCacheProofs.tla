---------------------------- MODULE ScopeCacheProofs ----------------------------
(* For any fragments, processes, callers and limits: a call of retrievable_id_set answers as *)
(* the rows stood during the call, and a cached entry is looked at again in time.  A call reads *)
(* in several statements while others write, so what is invariant is said of every set of ids *)
(* that somebody holds: what it is right about now, and what it was right about during each of *)
(* the calls that are under way. *)
EXTENDS ScopeCache, FiniteSetTheorems, WellFoundedInduction, TLAPS

Busy(c) == calls[c].pc \notin {"idle", "put"}

(* The ids somebody holds, the version they are labelled with, and ids that are about to be read *)
(* again: cached, saved, or in the hands of a call. *)
HeldBy(k, ids, v, but) ==
    \/ /\ k.pc \in {"log", "expire", "next", "save", "put"}
       /\ ids = k.entry.ids /\ v = k.entry.version /\ but = {}
    \/ k.pc = "rows" /\ ids = k.entry.ids /\ v = k.asked /\ but = k.touched
Cached(e, ids, v, but) == e # NoEntry /\ ids = e.ids /\ v = e.version /\ but = {}
Held(ids, v, but) ==
    \/ \E p \in Procs : Cached(cache[p], ids, v, but)
    \/ Cached(snap, ids, v, but)
    \/ \E d \in Callers : HeldBy(calls[d], ids, v, but)

Covered(old, new) == (old + 1)..new \subseteq DOMAIN log

(* Membership of i is right as the row stands; an expired memory may still be there. *)
Right(ids, i) == IF i \in ids THEN rows[i].match ELSE ~Retrievable(i)
(* It was right at some moment of the call of c. *)
WasRight(c, ids, i) == \/ <<i, "expired">> \in seen[c]
                       \/ <<i, IF i \in ids THEN "in" ELSE "out">> \in seen[c]

(* As far as the log tells what was written since, the ids are right about everything else. *)
RightNow(ids, v, but) ==
    v <= version /\ (Covered(v, version) => \A i \in Ids \ (but \cup Touched(v, version)) : Right(ids, i))
RightFor(c, ids, v, but) ==
    v <= calls[c].asked /\ Covered(v, calls[c].asked) =>
        \A i \in Ids \ (but \cup Touched(v, calls[c].asked)) : WasRight(c, ids, i)

NowInv == \A ids \in SUBSET Ids, v \in Versions, but \in SUBSET Ids :
    Held(ids, v, but) => RightNow(ids, v, but)
SeenInv == \A c \in Callers, ids \in SUBSET Ids, v \in Versions, but \in SUBSET Ids :
    Busy(c) /\ Held(ids, v, but) => RightFor(c, ids, v, but)

Sound(ids, v, but) == RightNow(ids, v, but) /\ \A d \in Callers : Busy(d) => RightFor(d, ids, v, but)

(* A call has seen the rows as they are, for as long as it reads. *)
UpToDate == \A c \in Callers : Busy(c) => Status \subseteq seen[c]

Labelled(k) ==
    /\ k.asked <= version /\ k.began <= now
    /\ k.pc \in {"expire", "next", "save", "put"} => k.entry.version = k.asked
    /\ k.pc = "snapshot" => k.first
CallInv == \A c \in Callers : Labelled(calls[c])

(* The same of the moment an entry is to be looked at again; a scope that was not in the cache *)
(* gets its moment at the end (_next_expiry). *)
TimedBy(k, ids, v, but, x) ==
    /\ HeldBy(k, ids, v, but) /\ x = k.entry.expiry
    /\ k.pc \in {"save", "put"} \/ (k.pc \in {"log", "rows"} /\ ~k.first)
Timed(ids, v, but, x) ==
    \/ \E p \in Procs : Cached(cache[p], ids, v, but) /\ x = cache[p].expiry
    \/ \E d \in Callers : TimedBy(calls[d], ids, v, but, x)
InTime(ids, v, but, x) ==
    Covered(v, version) => \A i \in ids \ (but \cup Touched(v, version)) :
        Expired(i) \/ rows[i].end = Never \/ x <= rows[i].end
TimeInv == \A ids \in SUBSET Ids, v \in Versions, but \in SUBSET Ids, x \in 0..Never :
    Timed(ids, v, but, x) => InTime(ids, v, but, x)

IInv == /\ TypeOK /\ CallInv /\ UpToDate
        /\ NowInv /\ SeenInv /\ AnswersAreCurrent /\ TimeInv

----------------------------------------------------------------------------
(* Lemmas about the log. *)

LEMMA Bounds == /\ MaxWrites \in Nat /\ LastTime \in Nat /\ Never \in Nat
                /\ Versions \subseteq Nat /\ Times \subseteq 0..Never /\ 0..Never \subseteq Nat
BY LimitAssumption DEF Never, Times, Versions

(* What was written between two versions was written before or after a third. *)
LEMMA LogSplits ==
    ASSUME NEW a \in Nat, NEW b \in Nat, NEW n \in Nat, a <= b, b <= n
    PROVE  /\ Covered(a, n) <=> Covered(a, b) /\ Covered(b, n)
           /\ Touched(a, n) = Touched(a, b) \cup Touched(b, n)
<1>1. (a + 1)..n = (a + 1)..b \cup (b + 1)..n
  OBVIOUS
<1> QED
  BY <1>1 DEF Covered, Touched

LEMMA NothingSince == ASSUME NEW a \in Nat PROVE Covered(a, a) /\ Touched(a, a) = {}
<1>1. (a + 1)..a = {}
  OBVIOUS
<1> QED
  BY <1>1 DEF Covered, Touched

(* Who has seen the rows as they are has seen what is right about them. *)
LEMMA SeenIsRight ==
    ASSUME UpToDate, NEW c \in Callers, Busy(c), NEW ids, NEW i \in Ids, Right(ids, i)
    PROVE  WasRight(c, ids, i)
<1>1. <<i, IF Retrievable(i) THEN "in" ELSE IF rows[i].match THEN "expired" ELSE "out">> \in seen[c]
  BY DEF UpToDate, Status
<1> QED
  BY <1>1 DEF Right, WasRight, Retrievable

LEMMA HeldTyped ==
    ASSUME TypeOK, NEW k \in Call, NEW ids, NEW v, NEW but, HeldBy(k, ids, v, but)
    PROVE  ids \in SUBSET Ids /\ v \in Versions /\ but \in SUBSET Ids
BY DEF HeldBy, Call, Entry

----------------------------------------------------------------------------
(* Lemmas about the moment an entry is looked at again. *)

(* A nonempty set of natural numbers has a least one. *)
LEMMA LeastOf == ASSUME NEW S \in SUBSET Nat, S # {} PROVE \E x \in S : \A y \in S : x <= y
<1> DEFINE T == {0..x : x \in S}
<1>1. T \subseteq FiniteSubsetsOf(Nat) /\ T # {}
  <2>1. \A x \in S : IsFiniteSet(0..x) /\ 0..x \in SUBSET Nat
    BY FS_Interval
  <2> QED
    BY <2>1 DEF FiniteSubsetsOf
<1>2. PICK m \in T : \A u \in T : ~(<<u, m>> \in StrictSubsetOrdering(Nat))
  BY <1>1, WFMin, FS_StrictSubsetOrderingWellFounded
<1>3. PICK x \in S : m = 0..x
  BY <1>2
<1>4. ASSUME NEW y \in S, y < x PROVE FALSE
  <2>1. 0..y \in T /\ 0..y \subseteq 0..x /\ x \in 0..x /\ x \notin 0..y
    BY <1>4
  <2>2. <<0..y, 0..x>> \in StrictSubsetOrdering(Nat)
    BY <2>1 DEF StrictSubsetOrdering
  <2> QED
    BY <1>2, <1>3, <2>1, <2>2
<1> QED
  BY <1>4

(* It is no later than the end of any of the rows it is about. *)
LEMMA SoonestIsSoon ==
    ASSUME TypeOK, CallInv, NEW c \in Callers, NEW S \in SUBSET Ids
    PROVE  Soonest(c, S) \in 0..Never /\ \A i \in Ttl(S) : Soonest(c, S) <= rows[i].end
<1> DEFINE E == {rows[i].end : i \in Ttl(S)}
<1>1. \A i \in Ttl(S) : rows[i].end \in Times /\ now <= rows[i].end
  BY LimitAssumption DEF TypeOK, Row, Ttl, Expired, Never, Times
<1>2. calls[c].began \in Nat /\ now \in Nat /\ calls[c].began <= now
  BY LimitAssumption DEF TypeOK, CallInv, Labelled, Call, Times
<1>3. CASE Ttl(S) = {}
  BY <1>3, LimitAssumption DEF Soonest, Never
<1>4. CASE Ttl(S) # {}
  <2>1. E \in SUBSET Nat /\ E # {}
    BY <1>1, <1>4, LimitAssumption DEF Times
  <2>2. \E t \in E : \A y \in E : t <= y
    BY <2>1, LeastOf
  <2>3. \E t \in E : \A i \in Ttl(S) : t <= rows[i].end
    BY <2>2
  <2> DEFINE e == CHOOSE t \in E : \A i \in Ttl(S) : t <= rows[i].end
  <2>4. e \in E /\ \A i \in Ttl(S) : e <= rows[i].end
    BY <2>3
  <2>5. Soonest(c, S) = calls[c].began + e - now
    BY <1>4 DEF Soonest
  <2>6. e \in Times /\ now <= e
    BY <1>1, <2>4
  <2> HIDE DEF e, E
  <2>7. calls[c].began + e - now \in 0..Never /\ calls[c].began + e - now <= e
    BY <1>2, <2>6, LimitAssumption DEF Times, Never
  <2>8. \A i \in Ttl(S) : calls[c].began + e - now <= rows[i].end
    BY <1>1, <2>4, <2>6, <2>7, LimitAssumption DEF Times, Never
  <2> QED
    BY <2>5, <2>7, <2>8
<1> QED
  BY <1>3, <1>4

----------------------------------------------------------------------------
(* Steps. *)

(* A step that only changes what c holds: what it then holds must be right. *)
LEMMA LocalStep ==
    ASSUME IInv, NEW c \in Callers, Busy(c), NEW k \in Call, Local(c, k),
           k.pc # "idle", k.asked = calls[c].asked, Labelled(k),
           \A ids \in SUBSET Ids, v \in Versions, but \in SUBSET Ids :
               HeldBy(k, ids, v, but) => Sound(ids, v, but),
           \A ids \in SUBSET Ids, v \in Versions, but \in SUBSET Ids, x \in 0..Never :
               TimedBy(k, ids, v, but, x) => InTime(ids, v, but, x)
    PROVE  IInv'
<1>1. TypeOK /\ CallInv /\ UpToDate /\ NowInv /\ SeenInv /\ AnswersAreCurrent /\ TimeInv
  BY DEF IInv
<1>2. /\ calls' = [calls EXCEPT ![c] = k] /\ UNCHANGED <<rows, now, version, log, snap, cache, seen>>
      /\ \A d \in Callers : calls'[d] = IF d = c THEN k ELSE calls[d]
  BY <1>1 DEF Local, Set, TypeOK
<1>3. TypeOK'
  BY <1>1, <1>2 DEF TypeOK
<1>4. CallInv'
  BY <1>1, <1>2 DEF CallInv, Labelled
<1>5. \A d \in Callers : Busy(d)' => Busy(d) /\ calls'[d].asked = calls[d].asked
  BY <1>2 DEF Busy
<1>6. UpToDate'
  BY <1>1, <1>2, <1>5 DEF UpToDate, Status, Retrievable, Expired
<1>7. ASSUME NEW ids \in SUBSET Ids, NEW v \in Versions, NEW but \in SUBSET Ids, Held(ids, v, but)'
      PROVE  Sound(ids, v, but)
  <2>1. Held(ids, v, but) \/ HeldBy(k, ids, v, but)
    BY <1>2, <1>7 DEF Held, HeldBy, Cached
  <2> QED
    BY <1>1, <2>1 DEF NowInv, SeenInv, Sound
<1>8. NowInv' /\ SeenInv'
  <2>1. \A ids, v, but : RightNow(ids, v, but) => RightNow(ids, v, but)'
    BY <1>2 DEF RightNow, Covered, Touched, Right, Retrievable, Expired
  <2>2. ASSUME NEW d \in Callers, Busy(d)', NEW ids, NEW v, NEW but, RightFor(d, ids, v, but)
        PROVE  RightFor(d, ids, v, but)'
    <3>1. calls'[d].asked = calls[d].asked
      BY <1>5, <2>2
    <3>2. \A i : WasRight(d, ids, i)' = WasRight(d, ids, i)
      BY <1>2 DEF WasRight
    <3>3. \A w : Covered(v, w)' = Covered(v, w) /\ Touched(v, w)' = Touched(v, w)
      BY <1>2 DEF Covered, Touched
    <3> QED
      BY <2>2, <3>1, <3>2, <3>3 DEF RightFor
  <2> QED
    BY <1>5, <1>7, <2>1, <2>2 DEF NowInv, SeenInv, Sound
<1>9. AnswersAreCurrent'
  <2>1. ASSUME k.pc = "put", NEW i \in Ids PROVE WasRight(c, k.entry.ids, i)
    <3>1. HeldBy(k, k.entry.ids, k.asked, {}) /\ k.asked \in Versions /\ k.entry.ids \in SUBSET Ids
      BY <2>1 DEF HeldBy, Labelled, Call, Entry
    <3>2. RightFor(c, k.entry.ids, k.asked, {})
      BY <3>1 DEF Sound
    <3>3. Covered(k.asked, k.asked) /\ Touched(k.asked, k.asked) = {} /\ k.asked <= k.asked
      <4>1. k.asked \in Nat
        BY <3>1, Bounds
      <4> QED
        BY <4>1, NothingSince
    <3>4. k.asked = calls[c].asked
      OBVIOUS
    <3> QED
      BY <3>2, <3>3, <3>4 DEF RightFor
  <2> QED
    BY <1>1, <1>2, <2>1 DEF AnswersAreCurrent, WasRight
<1>10. TimeInv'
  <2>1. ASSUME NEW ids \in SUBSET Ids, NEW v \in Versions, NEW but \in SUBSET Ids, NEW x \in 0..Never,
               Timed(ids, v, but, x)'
        PROVE  InTime(ids, v, but, x)
    <3>1. Timed(ids, v, but, x) \/ TimedBy(k, ids, v, but, x)
      BY <1>2, <2>1 DEF Timed, TimedBy, HeldBy, Cached
    <3> QED
      BY <1>1, <3>1 DEF TimeInv
  <2>2. \A ids, v, but, x : InTime(ids, v, but, x) => InTime(ids, v, but, x)'
    BY <1>2 DEF InTime, Covered, Touched, Expired
  <2> QED
    BY <2>1, <2>2 DEF TimeInv
<1> QED
  BY <1>3, <1>4, <1>6, <1>8, <1>9, <1>10 DEF IInv

LEMMA HeldIsSound ==
    ASSUME IInv, NEW ids \in SUBSET Ids, NEW v \in Versions, NEW but \in SUBSET Ids, Held(ids, v, but)
    PROVE  Sound(ids, v, but)
BY DEF IInv, NowInv, SeenInv, Sound

(* Ids that the log has been read for are right about what it did not name. *)
LEMMA ReadAhead ==
    ASSUME TypeOK, NEW a \in Nat, NEW b \in Nat, NEW ids, a <= b, b <= version, Covered(a, b)
    PROVE  /\ RightNow(ids, a, {}) => RightNow(ids, b, Touched(a, b))
           /\ \A c \in Callers : RightFor(c, ids, a, {}) => RightFor(c, ids, b, Touched(a, b))
           /\ \A x : InTime(ids, a, {}, x) => InTime(ids, b, Touched(a, b), x)
<1>1. version \in Nat /\ \A c \in Callers : calls[c].asked \in Nat
  BY Bounds DEF TypeOK, Call
<1>2. RightNow(ids, a, {}) => RightNow(ids, b, Touched(a, b))
  BY <1>1, LogSplits DEF RightNow
<1>3. ASSUME NEW c \in Callers, RightFor(c, ids, a, {}) PROVE RightFor(c, ids, b, Touched(a, b))
  <2>1. SUFFICES ASSUME b <= calls[c].asked, Covered(b, calls[c].asked)
                 PROVE  \A i \in Ids \ (Touched(a, b) \cup Touched(b, calls[c].asked)) : WasRight(c, ids, i)
    BY DEF RightFor
  <2>2. calls[c].asked \in Nat /\ a <= calls[c].asked
    BY <1>1, <2>1
  <2>3. /\ Covered(a, calls[c].asked)
        /\ Touched(a, calls[c].asked) = Touched(a, b) \cup Touched(b, calls[c].asked)
    BY <2>1, <2>2, LogSplits
  <2> QED
    BY <1>3, <2>2, <2>3 DEF RightFor
<1>4. \A x : InTime(ids, a, {}, x) => InTime(ids, b, Touched(a, b), x)
  BY <1>1, LogSplits DEF InTime
<1> QED
  BY <1>2, <1>3, <1>4

LEMMA HitStep == ASSUME IInv, NEW c \in Callers, Hit(c) PROVE IInv'
<1> DEFINE e == cache[ProcOf[c]]
           k == [calls[c] EXCEPT !.entry = e, !.began = now,
                   !.pc = IF e.version # calls[c].asked THEN "log"
                          ELSE IF now >= e.expiry THEN "expire" ELSE "put"]
<1>1. /\ calls[c].pc = "look" /\ e # NoEntry /\ Local(c, k)
      /\ calls[c] \in Call /\ e \in Entry /\ now \in Times /\ ProcOf[c] \in Procs
      /\ calls[c].asked <= version
  BY ProcAssumption DEF Hit, IInv, TypeOK, CallInv, Labelled
<1>2. /\ Busy(c) /\ k \in Call /\ k.asked = calls[c].asked /\ k.entry = e /\ k.began = now
      /\ k.pc \in {"log", "expire", "put"} /\ (k.pc # "log" => e.version = calls[c].asked)
  BY <1>1 DEF Busy, Call, Steps
<1>3. Labelled(k)
  BY <1>1, <1>2, Bounds DEF Labelled
<1> HIDE DEF k
<1>4. \A ids, v, but : HeldBy(k, ids, v, but) => Cached(e, ids, v, but)
  BY <1>1, <1>2 DEF HeldBy, Cached
<1> HIDE DEF e
<1>5. \A ids, v, but : Cached(e, ids, v, but) => Held(ids, v, but)
  BY <1>1 DEF Held, e
<1>6. \A ids, v, but, x : TimedBy(k, ids, v, but, x) => Timed(ids, v, but, x)
  BY <1>1, <1>2, <1>4 DEF Timed, TimedBy, e
<1> QED
  BY <1>1, <1>2, <1>3, <1>4, <1>5, <1>6, HeldIsSound, LocalStep DEF IInv, TimeInv

LEMMA NothingHeldStep ==
    ASSUME IInv, NEW c \in Callers, Busy(c), NEW k \in Call, Local(c, k), k.asked = calls[c].asked,
           k.pc \in {"snapshot", "scan"}, k.began <= now, k.pc = "snapshot" => k.first
    PROVE  IInv'
<1>1. Labelled(k)
  BY DEF IInv, CallInv, Labelled
<1>2. \A ids, v, but : ~HeldBy(k, ids, v, but)
  BY DEF HeldBy
<1> QED
  BY <1>1, <1>2, LocalStep DEF TimedBy

LEMMA MissStep == ASSUME IInv, NEW c \in Callers, Miss(c) \/ RefreshDue(c) \/ NoSnapshot(c) PROVE IInv'
<1>1. calls[c] \in Call /\ now \in Times /\ now \in Nat /\ calls[c].began <= now
  BY Bounds DEF IInv, TypeOK, CallInv, Labelled
<1>2. CASE Miss(c)
  <2> DEFINE k == [calls[c] EXCEPT !.began = now, !.first = TRUE, !.pc = "snapshot"]
  <2>1. Local(c, k) /\ Busy(c)
    BY <1>2 DEF Miss, Busy
  <2>2. k \in Call
    BY <1>1 DEF Call, Steps
  <2>3. /\ k.pc \in {"snapshot", "scan"} /\ (k.pc = "snapshot" => k.first)
        /\ k.asked = calls[c].asked /\ k.began <= now
    BY <1>1 DEF Call
  <2> HIDE DEF k
  <2> QED
    BY <2>1, <2>2, <2>3, NothingHeldStep
<1>3. CASE RefreshDue(c)
  <2> DEFINE k == [calls[c] EXCEPT !.began = now, !.pc = "scan"]
  <2>1. Local(c, k) /\ Busy(c)
    BY <1>3 DEF RefreshDue, Busy
  <2>2. k \in Call
    BY <1>1 DEF Call, Steps
  <2>3. /\ k.pc \in {"snapshot", "scan"} /\ (k.pc = "snapshot" => k.first)
        /\ k.asked = calls[c].asked /\ k.began <= now
    BY <1>1 DEF Call
  <2> HIDE DEF k
  <2> QED
    BY <2>1, <2>2, <2>3, NothingHeldStep
<1>4. CASE NoSnapshot(c)
  BY <1>1, <1>4, NothingHeldStep DEF NoSnapshot, Busy, Call, Steps
<1> QED
  BY <1>2, <1>3, <1>4

LEMMA ReadLogStep == ASSUME IInv, NEW c \in Callers, ReadLog(c) PROVE IInv'
<1> DEFINE k0 == calls[c]
           old == k0.entry.version
           lost == ~k0.first /\ cache[ProcOf[c]] = NoEntry
           k1 == [k0 EXCEPT !.touched = Touched(old, k0.asked), !.pc = "rows"]
           k2 == [k0 EXCEPT !.entry = Blank, !.first = k0.first \/ lost,
                            !.pc = IF lost THEN "snapshot" ELSE "scan"]
<1>1. k0.pc = "log" /\ Busy(c) /\ k0 \in Call /\ Labelled(k0) /\ TypeOK
  BY DEF ReadLog, IInv, TypeOK, CallInv, Busy
<1>2. (Known(old, k0.asked) /\ Local(c, k1)) \/ Local(c, k2)
  BY DEF ReadLog
<1>3. /\ old \in Nat /\ k0.asked \in Nat /\ k0.asked \in Versions /\ k0.asked <= version
      /\ old \in Versions /\ k0.entry.ids \in SUBSET Ids /\ k0.entry.expiry \in 0..Never
  BY <1>1, Bounds DEF Call, Entry, Labelled
<1>4. CASE Known(old, k0.asked) /\ Local(c, k1)
  <2>1. Touched(old, k0.asked) \in SUBSET Ids
    BY <1>1 DEF Touched, TypeOK
  <2>2. /\ k1 \in Call /\ k1.pc = "rows" /\ k1.asked = k0.asked /\ k1.entry = k0.entry
        /\ k1.touched = Touched(old, k0.asked) /\ k1.first = k0.first /\ k1.began = k0.began
    BY <1>1, <2>1 DEF Call, Steps
  <2>3. Covered(old, k0.asked) /\ old <= k0.asked
    BY <1>4 DEF Known, Covered
  <2> HIDE DEF k1
  <2>4. HeldBy(k0, k0.entry.ids, old, {}) /\ Held(k0.entry.ids, old, {})
    BY <1>1 DEF HeldBy, Held
  <2>5. Sound(k0.entry.ids, old, {})
    BY <1>3, <2>4, HeldIsSound
  <2>6. Sound(k0.entry.ids, k0.asked, k1.touched)
    BY <1>1, <1>3, <2>2, <2>3, <2>5, ReadAhead DEF Sound
  <2>7. ASSUME ~k0.first PROVE InTime(k0.entry.ids, k0.asked, k1.touched, k0.entry.expiry)
    <3>1. Timed(k0.entry.ids, old, {}, k0.entry.expiry)
      BY <1>1, <2>4, <2>7 DEF Timed, TimedBy
    <3>2. InTime(k0.entry.ids, old, {}, k0.entry.expiry)
      BY <1>3, <3>1 DEF IInv, TimeInv
    <3> QED
      BY <1>1, <1>3, <2>2, <2>3, <3>2, ReadAhead
  <2>8. Labelled(k1)
    BY <1>1, <2>2 DEF Labelled
  <2>9. \A ids, v, but : HeldBy(k1, ids, v, but) => ids = k0.entry.ids /\ v = k0.asked /\ but = k1.touched
    BY <2>2 DEF HeldBy
  <2>10. \A ids, v, but, x : TimedBy(k1, ids, v, but, x) => ~k0.first /\ x = k0.entry.expiry
    BY <2>2 DEF TimedBy
  <2>11. k1.pc # "idle" /\ k1.asked = calls[c].asked /\ Local(c, k1)
    BY <1>4, <2>2
  <2>12. \A ids, v, but : HeldBy(k1, ids, v, but) => Sound(ids, v, but)
    BY <2>6, <2>9
  <2>13. \A ids, v, but, x : TimedBy(k1, ids, v, but, x) => InTime(ids, v, but, x)
    BY <2>7, <2>9, <2>10 DEF TimedBy
  <2> HIDE DEF k0, old
  <2> QED
    BY <1>1, <2>2, <2>8, <2>11, <2>12, <2>13, LocalStep
<1>5. CASE Local(c, k2)
  <2>1. Blank \in Entry
    BY Bounds DEF Blank, Entry, Versions
  <2>2. /\ k2 \in Call /\ k2.pc \in {"snapshot", "scan"} /\ k2.asked = k0.asked
        /\ k2.began = k0.began /\ (k2.pc = "snapshot" => k2.first)
    BY <1>1, <2>1 DEF Call, Steps
  <2>3. k2.began <= now
    BY <1>1, <2>2 DEF Labelled
  <2> HIDE DEF k2
  <2> QED
    BY <1>1, <1>5, <2>2, <2>3, NothingHeldStep
<1> QED
  BY <1>2, <1>4, <1>5

LEMMA ReadRowsStep == ASSUME IInv, NEW c \in Callers, ReadRows(c) PROVE IInv'
<1> DEFINE k0 == calls[c]
           present == {i \in k0.touched : Retrievable(i)}
           soonest == Soonest(c, present)
           expiry == Sooner(k0.entry.expiry, soonest)
           new == (k0.entry.ids \ k0.touched) \cup present
           k == [k0 EXCEPT !.entry = [ids |-> new, version |-> Label(c), expiry |-> expiry],
                           !.touched = {},
                           !.pc = IF k0.first \/ k0.began >= expiry THEN "expire" ELSE "put"]
<1>1. k0.pc = "rows" /\ Busy(c) /\ k0 \in Call /\ Labelled(k0) /\ Local(c, k)
  BY DEF ReadRows, IInv, TypeOK, CallInv, Busy
<1>2. TypeOK /\ CallInv /\ UpToDate
  BY DEF IInv
<1>3. /\ k0.entry.ids \in SUBSET Ids /\ k0.touched \in SUBSET Ids /\ new \in SUBSET Ids /\ present \in SUBSET Ids
      /\ k0.asked \in Versions /\ k0.asked \in Nat /\ k0.entry.expiry \in 0..Never
      /\ Label(c) = k0.asked
  BY <1>1, Bounds DEF Call, Entry, Label
<1>4. soonest \in 0..Never /\ \A i \in Ttl(present) : soonest <= rows[i].end
  BY <1>2, <1>3, SoonestIsSoon
<1> HIDE DEF soonest
<1>5. /\ expiry \in 0..Never /\ \A n \in Nat : soonest <= n => expiry <= n
      /\ \A n \in Nat : k0.entry.expiry <= n => expiry <= n
  BY <1>3, <1>4, Bounds DEF Sooner
<1> HIDE DEF expiry
<1>6. /\ k \in Call /\ k.pc \in {"expire", "put"} /\ (k.pc = "put" => ~k0.first)
      /\ k.asked = k0.asked /\ k.began = k0.began /\ k.first = k0.first
      /\ k.entry.ids = new /\ k.entry.version = k0.asked /\ k.entry.expiry = expiry
  <2> HIDE DEF new
  <2> QED
    BY <1>1, <1>3, <1>5 DEF Call, Entry, Steps
<1> HIDE DEF k
<1>7. Labelled(k)
  BY <1>1, <1>6 DEF Labelled
<1>8. HeldBy(k0, k0.entry.ids, k0.asked, k0.touched) /\ Held(k0.entry.ids, k0.asked, k0.touched)
  BY <1>1 DEF HeldBy, Held
<1>9. Sound(k0.entry.ids, k0.asked, k0.touched)
  BY <1>3, <1>8, HeldIsSound
<1>10. \A i \in k0.touched : Right(new, i)
  BY DEF Right, Retrievable
<1>11. \A i \in Ids \ k0.touched : /\ Right(k0.entry.ids, i) => Right(new, i)
                                   /\ \A d \in Callers : WasRight(d, k0.entry.ids, i) => WasRight(d, new, i)
  BY DEF Right, WasRight
<1>12. \A d \in Callers, i \in k0.touched : Busy(d) => WasRight(d, new, i)
  <2> HIDE DEF new, k0
  <2> QED
    BY <1>2, <1>3, <1>10, SeenIsRight
<1>13. Sound(new, k0.asked, {})
  <2> HIDE DEF new, k0
  <2>1. RightNow(new, k0.asked, {})
    BY <1>9, <1>10, <1>11 DEF Sound, RightNow
  <2>2. \A d \in Callers : Busy(d) => RightFor(d, new, k0.asked, {})
    BY <1>9, <1>11, <1>12 DEF Sound, RightFor
  <2> QED
    BY <2>1, <2>2 DEF Sound
<1>14. ASSUME ~k0.first PROVE InTime(new, k0.asked, {}, expiry)
  <2>1. Timed(k0.entry.ids, k0.asked, k0.touched, k0.entry.expiry)
    BY <1>1, <1>8, <1>14 DEF Timed, TimedBy
  <2>2. InTime(k0.entry.ids, k0.asked, k0.touched, k0.entry.expiry)
    BY <1>3, <2>1 DEF IInv, TimeInv
  <2>3. \A i \in present : Expired(i) \/ rows[i].end = Never \/ soonest <= rows[i].end
    BY <1>4 DEF Ttl
  <2>4. \A i \in Ids : rows[i].end \in Nat
    BY <1>2, LimitAssumption DEF TypeOK, Row, Times, Never
  <2>5. \A i \in present : Expired(i) \/ rows[i].end = Never \/ expiry <= rows[i].end
    BY <1>3, <1>5, <2>3, <2>4
  <2>6. ASSUME Covered(k0.asked, version), NEW i \in new \ present, i \notin Touched(k0.asked, version)
        PROVE  Expired(i) \/ rows[i].end = Never \/ expiry <= rows[i].end
    <3>1. i \in k0.entry.ids \ (k0.touched \cup Touched(k0.asked, version)) /\ i \in Ids
      BY <1>3, <2>6
    <3>2. Expired(i) \/ rows[i].end = Never \/ k0.entry.expiry <= rows[i].end
      BY <2>2, <2>6, <3>1 DEF InTime
    <3> QED
      BY <1>5, <2>4, <3>1, <3>2
  <2> HIDE DEF new, k0, present
  <2> QED
    BY <2>5, <2>6 DEF InTime
<1>15. \A ids, v, but : HeldBy(k, ids, v, but) => ids = new /\ v = k0.asked /\ but = {}
  BY <1>6 DEF HeldBy
<1>16. \A ids, v, but, x : TimedBy(k, ids, v, but, x) => ~k0.first /\ x = expiry
  BY <1>6 DEF TimedBy
<1>17. \A ids, v, but : HeldBy(k, ids, v, but) => Sound(ids, v, but)
  BY <1>13, <1>15
<1>18. \A ids, v, but, x : TimedBy(k, ids, v, but, x) => InTime(ids, v, but, x)
  BY <1>14, <1>15, <1>16 DEF TimedBy
<1>19. k.pc # "idle" /\ k.asked = calls[c].asked /\ Local(c, k)
  BY <1>1, <1>6
<1> HIDE DEF k0, new, present
<1> QED
  BY <1>1, <1>6, <1>7, <1>17, <1>18, <1>19, LocalStep

LEMMA DropExpiredStep == ASSUME IInv, NEW c \in Callers, DropExpired(c) PROVE IInv'
<1> DEFINE k0 == calls[c]
           new == {i \in k0.entry.ids : ~Expired(i)}
           k == [k0 EXCEPT !.entry.ids = new, !.pc = "next", !.touched = {}]
<1>1. k0.pc = "expire" /\ Busy(c) /\ k0 \in Call /\ Labelled(k0) /\ Local(c, k)
  BY DEF DropExpired, IInv, TypeOK, CallInv, Busy
<1>2. TypeOK /\ CallInv /\ UpToDate
  BY DEF IInv
<1>3. /\ k0.entry.ids \in SUBSET Ids /\ new \in SUBSET Ids /\ k0.entry.version \in Versions
  BY <1>1 DEF Call, Entry
<1>4. /\ k \in Call /\ k.pc = "next" /\ k.asked = k0.asked /\ k.began = k0.began
      /\ k.entry.ids = new /\ k.entry.version = k0.entry.version
  <2> HIDE DEF new
  <2> QED
    BY <1>1, <1>3 DEF Call, Entry, Steps
<1> HIDE DEF k
<1>5. Labelled(k)
  BY <1>1, <1>4 DEF Labelled
<1>6. HeldBy(k0, k0.entry.ids, k0.entry.version, {}) /\ Held(k0.entry.ids, k0.entry.version, {})
  BY <1>1 DEF HeldBy, Held
<1>7. Sound(k0.entry.ids, k0.entry.version, {})
  BY <1>3, <1>6, HeldIsSound
<1>8. \A i \in Ids : \/ Right(new, i)
                     \/ /\ Right(k0.entry.ids, i) => Right(new, i)
                        /\ \A d \in Callers : WasRight(d, k0.entry.ids, i) => WasRight(d, new, i)
  BY DEF Right, WasRight, Retrievable
<1>9. Sound(new, k0.entry.version, {})
  <2> HIDE DEF new, k0
  <2>1. RightNow(new, k0.entry.version, {})
    BY <1>7, <1>8 DEF Sound, RightNow
  <2>2. \A d \in Callers, i \in Ids : Busy(d) /\ WasRight(d, k0.entry.ids, i) => WasRight(d, new, i)
    BY <1>2, <1>3, <1>8, SeenIsRight
  <2>3. \A d \in Callers : Busy(d) => RightFor(d, new, k0.entry.version, {})
    BY <1>7, <2>2 DEF Sound, RightFor
  <2> QED
    BY <2>1, <2>3 DEF Sound
<1>10. \A ids, v, but : HeldBy(k, ids, v, but) => Sound(ids, v, but)
  BY <1>4, <1>9 DEF HeldBy
<1>11. \A ids, v, but, x : ~TimedBy(k, ids, v, but, x)
  BY <1>4 DEF TimedBy
<1> HIDE DEF k0, new
<1>12. k.pc # "idle" /\ k.asked = calls[c].asked
  BY <1>4 DEF k0
<1> QED
  BY <1>1, <1>4, <1>5, <1>10, <1>11, <1>12, LocalStep

LEMMA NextExpiryStep == ASSUME IInv, NEW c \in Callers, NextExpiry(c) PROVE IInv'
<1> DEFINE k0 == calls[c]
           x0 == Soonest(c, Ids)
<1>1. /\ k0.pc = "next" /\ Busy(c) /\ k0 \in Call /\ Labelled(k0)
      /\ \E pc \in {"put", "save"} : Local(c, [k0 EXCEPT !.entry.expiry = x0, !.pc = pc])
  BY DEF NextExpiry, IInv, TypeOK, CallInv, Busy
<1>2. PICK pc \in {"put", "save"} : Local(c, [k0 EXCEPT !.entry.expiry = x0, !.pc = pc])
  BY <1>1
<1> DEFINE k == [k0 EXCEPT !.entry.expiry = x0, !.pc = pc]
<1>3. x0 \in 0..Never /\ \A i \in Ttl(Ids) : x0 <= rows[i].end
  BY SoonestIsSoon DEF IInv
<1> HIDE DEF x0
<1>4. /\ k \in Call /\ k.pc \in {"put", "save"} /\ k.asked = k0.asked /\ k.began = k0.began
      /\ k.entry.ids = k0.entry.ids /\ k.entry.version = k0.entry.version /\ k.entry.expiry = x0
  BY <1>1, <1>3 DEF Call, Entry, Steps
<1>5. k0.entry.ids \in SUBSET Ids /\ k0.entry.version \in Versions
  BY <1>1 DEF Call, Entry
<1>6. Local(c, k)
  BY <1>2
<1> HIDE DEF k
<1>7. Labelled(k)
  BY <1>1, <1>4 DEF Labelled
<1>8. HeldBy(k0, k0.entry.ids, k0.entry.version, {}) /\ Held(k0.entry.ids, k0.entry.version, {})
  BY <1>1 DEF HeldBy, Held
<1>9. Sound(k0.entry.ids, k0.entry.version, {})
  BY <1>5, <1>8, HeldIsSound
<1>10. \A ids, v, but : HeldBy(k, ids, v, but) => ids = k0.entry.ids /\ v = k0.entry.version /\ but = {}
  BY <1>4 DEF HeldBy
<1>11. \A ids \in SUBSET Ids : \A v, but : InTime(ids, v, but, x0)
  BY <1>3 DEF InTime, Ttl
<1>12. \A ids, v, but, x : TimedBy(k, ids, v, but, x) => x = x0
  BY <1>4 DEF TimedBy
<1>13. k.pc # "idle" /\ k.asked = calls[c].asked
  BY <1>4
<1> HIDE DEF k0
<1> QED
  BY <1>1, <1>4, <1>6, <1>7, <1>9, <1>10, <1>11, <1>12, <1>13, LocalStep

LEMMA LoadSnapshotStep == ASSUME IInv, NEW c \in Callers, LoadSnapshot(c) PROVE IInv'
<1> DEFINE k0 == calls[c]
           k == [k0 EXCEPT !.entry = snap, !.pc = IF snap.version # k0.asked THEN "log" ELSE "expire"]
<1>1. /\ k0.pc = "snapshot" /\ Busy(c) /\ k0 \in Call /\ Labelled(k0) /\ Local(c, k)
      /\ snap # NoEntry /\ snap \in Entry
  BY DEF LoadSnapshot, IInv, TypeOK, CallInv, Busy
<1>2. /\ k \in Call /\ k.pc \in {"log", "expire"} /\ k.asked = k0.asked /\ k.began = k0.began
      /\ k.entry = snap /\ k.first /\ (k.pc = "expire" => snap.version = k0.asked)
  BY <1>1 DEF Call, Steps, Labelled
<1> HIDE DEF k
<1>3. Labelled(k)
  BY <1>1, <1>2 DEF Labelled
<1>4. \A ids, v, but : HeldBy(k, ids, v, but) => Held(ids, v, but)
  BY <1>1, <1>2 DEF HeldBy, Held, Cached
<1>5. \A ids, v, but, x : ~TimedBy(k, ids, v, but, x)
  BY <1>2 DEF TimedBy
<1>6. k.pc # "idle" /\ k.asked = calls[c].asked
  BY <1>2
<1> HIDE DEF k0
<1> QED
  BY <1>1, <1>2, <1>3, <1>4, <1>5, <1>6, HeldIsSound, LocalStep

LEMMA ScanStep == ASSUME IInv, NEW c \in Callers, Scan(c) PROVE IInv'
<1> DEFINE k0 == calls[c]
           new == {i \in Ids : Retrievable(i)}
           k == [k0 EXCEPT !.entry = [ids |-> new, version |-> Label(c), expiry |-> Never], !.pc = "next"]
<1>1. k0.pc = "scan" /\ Busy(c) /\ k0 \in Call /\ Labelled(k0) /\ Local(c, k)
  BY DEF Scan, IInv, TypeOK, CallInv, Busy
<1>2. TypeOK /\ UpToDate
  BY DEF IInv
<1>3. k0.asked \in Versions /\ Label(c) = k0.asked /\ Never \in 0..Never /\ new \in SUBSET Ids
  BY <1>1, Bounds DEF Call, Label
<1>4. /\ k \in Call /\ k.pc = "next" /\ k.asked = k0.asked /\ k.began = k0.began
      /\ k.entry.ids = new /\ k.entry.version = k0.asked
  <2> HIDE DEF new
  <2> QED
    BY <1>1, <1>3 DEF Call, Entry, Steps
<1> HIDE DEF k
<1>5. Labelled(k)
  BY <1>1, <1>4 DEF Labelled
<1>6. \A i \in Ids : Right(new, i)
  BY DEF Right, Retrievable
<1>7. Sound(new, k0.asked, {})
  <2> HIDE DEF new
  <2>1. RightNow(new, k0.asked, {})
    BY <1>1, <1>6 DEF RightNow, Labelled
  <2> HIDE DEF k0
  <2>2. \A d \in Callers : Busy(d) => RightFor(d, new, k0.asked, {})
    BY <1>2, <1>3, <1>6, SeenIsRight DEF RightFor
  <2> QED
    BY <2>1, <2>2 DEF Sound
<1>8. \A ids, v, but : HeldBy(k, ids, v, but) => Sound(ids, v, but)
  BY <1>4, <1>7 DEF HeldBy
<1>9. \A ids, v, but, x : ~TimedBy(k, ids, v, but, x)
  BY <1>4 DEF TimedBy
<1>10. k.pc # "idle" /\ k.asked = calls[c].asked
  BY <1>4
<1> HIDE DEF k0, new
<1> QED
  BY <1>1, <1>4, <1>5, <1>8, <1>9, <1>10, LocalStep

(* The rows, the log or the clock change; what is held does not. *)
LEMMA OthersStep ==
    ASSUME IInv, TypeOK', UNCHANGED <<snap, cache, calls>>, Witnessed, version <= version', now <= now',
           \A ids \in SUBSET Ids, v \in Versions, but \in SUBSET Ids :
               /\ RightNow(ids, v, but) => RightNow(ids, v, but)'
               /\ \A d \in Callers : RightFor(d, ids, v, but) => RightFor(d, ids, v, but)'
               /\ \A x \in 0..Never : v <= version /\ InTime(ids, v, but, x) => InTime(ids, v, but, x)'
    PROVE  IInv'
<1>1. TypeOK /\ CallInv /\ UpToDate /\ NowInv /\ SeenInv /\ AnswersAreCurrent /\ TimeInv
  BY DEF IInv
<1>2. \A ids, v, but : Held(ids, v, but)' <=> Held(ids, v, but)
  BY DEF Held, HeldBy, Cached
<1>3. \A d \in Callers : Busy(d)' <=> Busy(d)
  BY DEF Busy
<1>4. \A d \in Callers : seen'[d] = IF Busy(d) THEN seen[d] \cup Status' ELSE seen[d]
  BY DEF Witnessed, Busy
<1>5. CallInv'
  <2>1. /\ version \in Nat /\ version' \in Nat /\ now \in Nat /\ now' \in Nat
        /\ \A d \in Callers : calls[d].asked \in Nat /\ calls[d].began \in Nat
    BY <1>1, Bounds DEF TypeOK, Call
  <2> QED
    BY <1>1, <2>1 DEF CallInv, Labelled
<1>6. UpToDate'
  BY <1>3, <1>4 DEF UpToDate
<1>7. NowInv' /\ SeenInv'
  BY <1>1, <1>2, <1>3 DEF NowInv, SeenInv
<1>8. AnswersAreCurrent'
  BY <1>1, <1>4 DEF AnswersAreCurrent
<1>9. TimeInv'
  <2>1. \A ids, v, but, x : Timed(ids, v, but, x)' => Timed(ids, v, but, x) /\ Held(ids, v, but)
    BY DEF Timed, TimedBy, HeldBy, Cached, Held
  <2>2. \A ids \in SUBSET Ids, v \in Versions, but \in SUBSET Ids : Held(ids, v, but) => v <= version
    BY <1>1 DEF NowInv, RightNow
  <2> QED
    BY <1>1, <2>1, <2>2 DEF TimeInv, Never
<1> QED
  BY <1>5, <1>6, <1>7, <1>8, <1>9 DEF IInv

LEMMA StatusTyped == ASSUME TypeOK, TypeOK' PROVE Status \subseteq Ids \X {"in", "out", "expired"} /\ Status' \subseteq Ids \X {"in", "out", "expired"}
BY DEF Status

(* A version that is in the log after a write was there before, or it is the write's own. *)
LEMMA LoggedShape ==
    ASSUME TypeOK, NEW noted \in SUBSET Ids, NEW known \in BOOLEAN, log' = Logged(noted, known)
    PROVE  /\ \A u \in DOMAIN log' : \/ u = version + 1 /\ log'[u] = noted
                                     \/ u \in DOMAIN log /\ u <= version /\ log'[u] = log[u]
           /\ DOMAIN log' \subseteq 1..(version + 1)
<1>1. version \in Nat /\ DOMAIN log \subseteq 1..version
  BY Bounds DEF TypeOK
<1> DEFINE v0 == version + 1
           keep == IF v0 % PruneEvery = 0 THEN {u \in DOMAIN log : u + LogKeep > v0} ELSE DOMAIN log
           D == keep \cup (IF known THEN {v0} ELSE {})
<1>2. log' = [u \in D |-> IF u = v0 THEN noted ELSE log[u]]
  BY DEF Logged
<1>3. keep \subseteq DOMAIN log
  OBVIOUS
<1> HIDE DEF keep
<1>4. DOMAIN log' = D /\ D \subseteq DOMAIN log \cup {v0}
  BY <1>2, <1>3
<1>5. \A u \in D : log'[u] = IF u = v0 THEN noted ELSE log[u]
  BY <1>2
<1> HIDE DEF D
<1>6. v0 = version + 1 /\ \A u \in DOMAIN log : u <= version /\ u \in 1..v0
  BY <1>1
<1>7. v0 \in 1..v0
  BY <1>1
<1> HIDE DEF v0
<1>8. DOMAIN log' \subseteq 1..v0
  BY <1>4, <1>6, <1>7
<1>9. \A u \in DOMAIN log' : \/ u = v0 /\ log'[u] = noted
                             \/ u \in DOMAIN log /\ u <= version /\ log'[u] = log[u]
  BY <1>4, <1>5, <1>6
<1> QED
  BY <1>6, <1>8, <1>9

LEMMA WriteStep == ASSUME IInv, NEW noted \in SUBSET Ids, NEW known \in BOOLEAN, Write(noted, known) PROVE IInv'
<1>1. TypeOK /\ CallInv
  BY DEF IInv
<1>2. /\ version \in Nat /\ version < MaxWrites /\ MaxWrites \in Nat /\ version' = version + 1
      /\ rows' \in [Ids -> Row] /\ (\A i \in Ids \ noted : rows'[i] = rows[i])
      /\ UNCHANGED <<now, snap, cache, calls>> /\ Witnessed /\ log' = Logged(noted, known)
  BY <1>1, Bounds DEF Write, TypeOK
<1>3. /\ \A u \in DOMAIN log' : \/ u = version + 1 /\ log'[u] = noted
                                \/ u \in DOMAIN log /\ u <= version /\ log'[u] = log[u]
      /\ DOMAIN log' \subseteq 1..(version + 1)
  BY <1>1, <1>2, LoggedShape
<1>4. TypeOK'
  <2>1. Status' \subseteq Ids \X {"in", "out", "expired"}
    BY DEF Status
  <2>2. seen' \in [Callers -> SUBSET (Ids \X {"in", "out", "expired"})]
    BY <1>1, <1>2, <2>1 DEF TypeOK, Witnessed
  <2>3. version' \in Versions /\ \A u \in DOMAIN log' : log'[u] \subseteq Ids
    BY <1>1, <1>2, <1>3 DEF TypeOK, Versions
  <2> QED
    BY <1>1, <1>2, <1>3, <2>2, <2>3 DEF TypeOK
<1>5. ASSUME NEW v \in Nat, v <= version, Covered(v, version)'
      PROVE  Covered(v, version) /\ Touched(v, version)' = Touched(v, version) \cup noted
  <2>1. \A u \in (v + 1)..version : u \in (v + 1)..version' /\ u # version + 1
    BY <1>2
  <2>2. \A u \in (v + 1)..version : u \in DOMAIN log /\ u \in DOMAIN log' /\ log'[u] = log[u]
    BY <1>3, <1>5, <2>1 DEF Covered
  <2>3. version' \in (v + 1)..version' /\ (v + 1)..version' = (v + 1)..version \cup {version'}
    BY <1>2, <1>5
  <2>4. version' \in DOMAIN log' /\ log'[version'] = noted
    <3>1. version' \in DOMAIN log'
      BY <1>5, <2>3 DEF Covered
    <3> QED
      BY <1>2, <1>3, <3>1
  <2> QED
    BY <2>2, <2>3, <2>4 DEF Covered, Touched
<1>6. ASSUME NEW ids \in SUBSET Ids, NEW v \in Versions, NEW but \in SUBSET Ids
      PROVE  /\ RightNow(ids, v, but) => RightNow(ids, v, but)'
             /\ \A d \in Callers : RightFor(d, ids, v, but) => RightFor(d, ids, v, but)'
             /\ \A x \in 0..Never : v <= version /\ InTime(ids, v, but, x) => InTime(ids, v, but, x)'
  <2>1. v \in Nat
    BY Bounds
  <2>2. ASSUME RightNow(ids, v, but) PROVE RightNow(ids, v, but)'
    <3>1. \A i \in Ids \ noted : Right(ids, i) => Right(ids, i)'
      BY <1>2 DEF Right, Retrievable, Expired
    <3>2. v <= version /\ v <= version'
      BY <1>2, <2>1, <2>2 DEF RightNow
    <3> QED
      BY <1>5, <2>1, <2>2, <3>1, <3>2 DEF RightNow
  <2>3. ASSUME NEW d \in Callers, RightFor(d, ids, v, but) PROVE RightFor(d, ids, v, but)'
    <3> DEFINE a == calls[d].asked
    <3>1. a \in Nat /\ a <= version /\ calls'[d].asked = a
      BY <1>1, <1>2, Bounds DEF TypeOK, Call, CallInv, Labelled
    <3>2. \A i : WasRight(d, ids, i) => WasRight(d, ids, i)'
      BY <1>2 DEF WasRight, Witnessed
    <3> HIDE DEF a
    <3>3. ASSUME v <= a, (v + 1)..a \subseteq DOMAIN log'
          PROVE  Covered(v, a) /\ UNION {log'[u] : u \in (v + 1)..a \cap DOMAIN log'} = Touched(v, a)
      <4>1. \A u \in (v + 1)..a : u <= version
        BY <1>2, <2>1, <3>1
      <4>2. \A u \in (v + 1)..a : u # version + 1 /\ u \in DOMAIN log'
        BY <1>2, <2>1, <3>1, <3>3, <4>1
      <4>3. \A u \in (v + 1)..a : u \in DOMAIN log /\ u \in DOMAIN log' /\ log'[u] = log[u]
        BY <1>3, <4>2
      <4> QED
        BY <4>3 DEF Covered, Touched
    <3>4. v <= a /\ Covered(v, a) => \A i \in Ids \ (but \cup Touched(v, a)) : WasRight(d, ids, i)
      BY <2>3 DEF RightFor, a
    <3> SUFFICES ASSUME v <= a, (v + 1)..a \subseteq DOMAIN log'
                 PROVE  \A i \in Ids \ (but \cup UNION {log'[u] : u \in (v + 1)..a \cap DOMAIN log'}) :
                            WasRight(d, ids, i)'
      BY <3>1 DEF RightFor, Covered, Touched
    <3> QED
      BY <3>2, <3>3, <3>4
  <2>4. ASSUME NEW x \in 0..Never, v <= version, InTime(ids, v, but, x) PROVE InTime(ids, v, but, x)'
    <3> SUFFICES ASSUME Covered(v, version)'
                 PROVE  \A i \in ids \ (but \cup Touched(v, version)') :
                            Expired(i)' \/ rows'[i].end = Never \/ x <= rows'[i].end
      BY DEF InTime, Never
    <3> QED
      BY <1>2, <1>5, <2>1, <2>4 DEF InTime, Expired
  <2> QED
    BY <2>2, <2>3, <2>4
<1>7. version <= version' /\ now <= now'
  BY <1>1, <1>2, Bounds DEF TypeOK
<1> QED
  BY <1>2, <1>4, <1>6, <1>7, OthersStep

LEMMA TickStep == ASSUME IInv, Tick PROVE IInv'
<1>1. TypeOK /\ CallInv
  BY DEF IInv
<1>2. /\ version \in Nat /\ now \in Nat /\ now < LastTime /\ now' = now + 1 /\ Witnessed
      /\ UNCHANGED <<rows, version, log, snap, cache, calls>>
  BY <1>1, Bounds DEF Tick, TypeOK, Never
<1>3. TypeOK'
  <2>1. Status' \subseteq Ids \X {"in", "out", "expired"}
    BY DEF Status
  <2>2. seen' \in [Callers -> SUBSET (Ids \X {"in", "out", "expired"})]
    BY <1>1, <1>2, <2>1 DEF TypeOK, Witnessed
  <2>3. now' \in Times
    BY <1>2, LimitAssumption DEF Times
  <2> QED
    BY <1>1, <1>2, <2>2, <2>3 DEF TypeOK
<1>4. \A i \in Ids : Expired(i) => Expired(i)'
  <2>1. \A i \in Ids : rows[i].end \in Nat
    BY <1>1, LimitAssumption DEF TypeOK, Row, Times, Never
  <2> QED
    BY <1>2, <2>1 DEF Expired
<1>5. \A ids, v, but : RightNow(ids, v, but) => RightNow(ids, v, but)'
  BY <1>2, <1>4 DEF RightNow, Covered, Touched, Right, Retrievable
<1>6. \A ids, v, but : \A d \in Callers : RightFor(d, ids, v, but) => RightFor(d, ids, v, but)'
  <2>1. \A d \in Callers : \A ids, i : WasRight(d, ids, i) => WasRight(d, ids, i)'
    BY <1>2 DEF WasRight, Witnessed
  <2>2. \A a, b : (Covered(a, b)' <=> Covered(a, b)) /\ Touched(a, b)' = Touched(a, b)
    BY <1>2 DEF Covered, Touched
  <2> QED
    BY <1>2, <2>1, <2>2 DEF RightFor
<1>7. \A ids \in SUBSET Ids : \A v, but, x : InTime(ids, v, but, x) => InTime(ids, v, but, x)'
  BY <1>2, <1>4 DEF InTime, Covered, Touched, Never
<1>8. version <= version' /\ now <= now'
  BY <1>2
<1> QED
  BY <1>2, <1>3, <1>5, <1>6, <1>7, <1>8, OthersStep

(* What is held after the step was held before it. *)
LEMMA PassedOn ==
    ASSUME IInv, TypeOK', CallInv', AnswersAreCurrent', UNCHANGED <<rows, now, version, log>>,
           \A d \in Callers : Busy(d)' => /\ Busy(d) /\ calls'[d].asked = calls[d].asked
                                          /\ seen'[d] = seen[d],
           \A ids, v, but : Held(ids, v, but)' => Held(ids, v, but),
           \A ids, v, but, x : Timed(ids, v, but, x)' => Timed(ids, v, but, x)
    PROVE  IInv'
<1>1. UpToDate /\ NowInv /\ SeenInv /\ TimeInv
  BY DEF IInv
<1>2. UpToDate'
  BY <1>1 DEF UpToDate, Status, Retrievable, Expired
<1>3. NowInv'
  <2>1. \A ids, v, but : RightNow(ids, v, but) => RightNow(ids, v, but)'
    BY DEF RightNow, Covered, Touched, Right, Retrievable, Expired
  <2> QED
    BY <1>1, <2>1 DEF NowInv
<1>4. SeenInv'
  <2>1. ASSUME NEW d \in Callers, Busy(d)', NEW ids, NEW v, NEW but, RightFor(d, ids, v, but)
        PROVE  RightFor(d, ids, v, but)'
    <3>1. calls'[d].asked = calls[d].asked /\ \A i : WasRight(d, ids, i)' <=> WasRight(d, ids, i)
      BY <2>1 DEF WasRight
    <3>2. \A w : (Covered(v, w)' <=> Covered(v, w)) /\ Touched(v, w)' = Touched(v, w)
      BY DEF Covered, Touched
    <3> QED
      BY <2>1, <3>1, <3>2 DEF RightFor
  <2> QED
    BY <1>1, <2>1 DEF SeenInv
<1>5. TimeInv'
  <2>1. \A ids, v, but, x : InTime(ids, v, but, x) => InTime(ids, v, but, x)'
    BY DEF InTime, Covered, Touched, Expired, Never
  <2> QED
    BY <1>1, <2>1 DEF TimeInv, Never
<1> QED
  BY <1>2, <1>3, <1>4, <1>5 DEF IInv

LEMMA CacheStep == ASSUME IInv, NEW p \in Procs, Evict(p) \/ RecordScope(p) PROVE IInv'
<1>1. TypeOK /\ CallInv /\ AnswersAreCurrent
  BY DEF IInv
<1>2. /\ UNCHANGED <<rows, now, version, log, calls, seen>>
      /\ cache[p] # NoEntry /\ cache[p] \in Entry
      /\ \/ cache' = [cache EXCEPT ![p] = NoEntry] /\ snap' = snap
         \/ snap' = [cache[p] EXCEPT !.expiry = Never] /\ cache' = cache
  BY <1>1 DEF Evict, RecordScope, TypeOK
<1>3. /\ \A q \in Procs : cache'[q] = cache[q] \/ cache'[q] = NoEntry
      /\ \/ snap' = snap
         \/ snap'.ids = cache[p].ids /\ snap'.version = cache[p].version /\ snap' \in Entry
  <2>1. [cache[p] EXCEPT !.expiry = Never] \in Entry
    BY <1>2, Bounds DEF Entry
  <2>2. [cache[p] EXCEPT !.expiry = Never].ids = cache[p].ids /\ [cache[p] EXCEPT !.expiry = Never].version = cache[p].version
    BY <1>2 DEF Entry
  <2> QED
    BY <1>1, <1>2, <2>1, <2>2 DEF TypeOK
<1>4. cache' \in [Procs -> Entry \cup {NoEntry}]
  BY <1>1, <1>2 DEF TypeOK
<1>5. TypeOK'
  BY <1>1, <1>2, <1>3, <1>4 DEF TypeOK
<1>6. CallInv' /\ AnswersAreCurrent'
  BY <1>1, <1>2 DEF CallInv, Labelled, AnswersAreCurrent
<1>7. \A d \in Callers : Busy(d)' => Busy(d) /\ calls'[d].asked = calls[d].asked /\ seen'[d] = seen[d]
  BY <1>2 DEF Busy
<1>8. ASSUME NEW ids, NEW v, NEW but, Held(ids, v, but)' PROVE Held(ids, v, but)
  <2>1. \A q \in Procs : Cached(cache'[q], ids, v, but) => Cached(cache[q], ids, v, but)
    BY <1>3 DEF Cached
  <2>2. Cached(snap', ids, v, but) => Cached(snap, ids, v, but) \/ Cached(cache[p], ids, v, but)
    BY <1>2, <1>3 DEF Cached
  <2>3. \A d \in Callers : HeldBy(calls'[d], ids, v, but) => HeldBy(calls[d], ids, v, but)
    BY <1>2
  <2>4. \/ \E q \in Procs : Cached(cache'[q], ids, v, but)
        \/ Cached(snap', ids, v, but)
        \/ \E d \in Callers : HeldBy(calls'[d], ids, v, but)
    BY <1>8 DEF Held, Cached, HeldBy
  <2> QED
    BY <2>1, <2>2, <2>3, <2>4 DEF Held
<1>9. \A ids, v, but, x : Timed(ids, v, but, x)' => Timed(ids, v, but, x)
  BY <1>2, <1>3 DEF Timed, TimedBy, HeldBy, Cached
<1> QED
  BY <1>2, <1>5, <1>6, <1>7, <1>8, <1>9, PassedOn

LEMMA SaveStep == ASSUME IInv, NEW c \in Callers, SaveScope(c) PROVE IInv'
<1> DEFINE k0 == calls[c]
           k == [k0 EXCEPT !.pc = "put"]
           s == [k0.entry EXCEPT !.expiry = Never]
<1>1. TypeOK /\ CallInv /\ AnswersAreCurrent
  BY DEF IInv
<1>2. /\ k0.pc = "save" /\ Busy(c) /\ k0 \in Call /\ Labelled(k0) /\ k0.entry \in Entry
      /\ calls' = [calls EXCEPT ![c] = k] /\ snap' = s
      /\ UNCHANGED <<rows, now, version, log, cache, seen>>
  BY <1>1 DEF SaveScope, Set, TypeOK, CallInv, Busy, Call
<1>3. s \in Entry /\ s.ids = k0.entry.ids /\ s.version = k0.entry.version
  BY <1>2, Bounds DEF Entry
<1>4. /\ k \in Call /\ k.pc = "put" /\ k.entry = k0.entry /\ k.asked = k0.asked /\ k.began = k0.began
      /\ k.first = k0.first
  BY <1>2 DEF Call, Steps
<1>5. Labelled(k) /\ k0.entry.version = k0.asked
  BY <1>2, <1>4 DEF Labelled
<1>6. \A d \in Callers : calls'[d] = IF d = c THEN k ELSE calls[d]
  BY <1>1, <1>2 DEF TypeOK
<1>7. TypeOK'
  <2>1. calls' \in [Callers -> Call]
    BY <1>1, <1>2, <1>4 DEF TypeOK
  <2> HIDE DEF s, k, k0
  <2> QED
    BY <1>1, <1>2, <1>3, <2>1 DEF TypeOK
<1> HIDE DEF k, s
<1>8. CallInv'
  BY <1>1, <1>2, <1>5, <1>6 DEF CallInv, Labelled
<1>9. \A d \in Callers : Busy(d)' => Busy(d) /\ calls'[d].asked = calls[d].asked /\ seen'[d] = seen[d]
  BY <1>2, <1>4, <1>6 DEF Busy
<1>10. \A ids, v, but : /\ HeldBy(k, ids, v, but) => HeldBy(k0, ids, v, but)
                        /\ Cached(s, ids, v, but) => HeldBy(k0, ids, v, but)
  BY <1>2, <1>3, <1>4 DEF HeldBy, Cached
<1>11. ASSUME NEW ids, NEW v, NEW but, Held(ids, v, but)' PROVE Held(ids, v, but)
  <2>1. \/ \E q \in Procs : Cached(cache[q], ids, v, but)
        \/ Cached(s, ids, v, but)
        \/ \E d \in Callers : HeldBy(calls'[d], ids, v, but)
    BY <1>2, <1>11 DEF Held, Cached, HeldBy
  <2> QED
    BY <1>6, <1>10, <2>1 DEF Held
<1>12. ASSUME NEW ids, NEW v, NEW but, NEW x, Timed(ids, v, but, x)' PROVE Timed(ids, v, but, x)
  <2>1. TimedBy(k, ids, v, but, x) => TimedBy(k0, ids, v, but, x)
    BY <1>2, <1>4, <1>10 DEF TimedBy
  <2>0. \/ \E q \in Procs : Cached(cache[q], ids, v, but) /\ x = cache[q].expiry
        \/ \E d \in Callers : TimedBy(calls'[d], ids, v, but, x)
    BY <1>2, <1>12 DEF Timed, Cached, TimedBy, HeldBy
  <2> QED
    BY <1>6, <2>0, <2>1 DEF Timed
<1>13. AnswersAreCurrent'
  <2>1. HeldBy(k0, k0.entry.ids, k0.asked, {}) /\ Held(k0.entry.ids, k0.asked, {})
    BY <1>2, <1>5 DEF HeldBy, Held
  <2>2. k0.asked \in Versions /\ k0.entry.ids \in SUBSET Ids /\ k0.asked \in Nat
    BY <1>2, Bounds DEF Call, Entry
  <2>3. RightFor(c, k0.entry.ids, k0.asked, {})
    BY <1>2, <2>1, <2>2, HeldIsSound DEF Sound
  <2>4. \A i \in Ids : WasRight(c, k0.entry.ids, i)
    BY <2>2, <2>3, NothingSince DEF RightFor
  <2>5. \A i \in Ids : \/ <<i, "expired">> \in seen[c]
                       \/ <<i, IF i \in k.entry.ids THEN "in" ELSE "out">> \in seen[c]
    BY <1>4, <2>4 DEF WasRight
  <2> HIDE DEF k0
  <2> QED
    BY <1>1, <1>2, <1>6, <2>5 DEF AnswersAreCurrent
<1> QED
  BY <1>2, <1>7, <1>8, <1>9, <1>11, <1>12, <1>13, PassedOn

LEMMA PutStep == ASSUME IInv, NEW c \in Callers, Put(c) PROVE IInv'
<1> DEFINE k0 == calls[c]
           p == ProcOf[c]
<1>1. TypeOK /\ CallInv /\ AnswersAreCurrent
  BY DEF IInv
<1>2. /\ k0.pc = "put" /\ k0 \in Call /\ k0.entry \in Entry /\ p \in Procs
      /\ calls' = [calls EXCEPT ![c] = Resting] /\ cache' = [cache EXCEPT ![p] = k0.entry]
      /\ seen' = [seen EXCEPT ![c] = {}]
      /\ UNCHANGED <<rows, now, version, log, snap>>
  BY <1>1, ProcAssumption DEF Put, Set, TypeOK, Call
<1>3. Resting \in Call /\ Resting.pc = "idle" /\ Labelled(Resting)
  <2>1. Blank \in Entry /\ 0 \in Versions /\ 0 \in Times
    BY Bounds, LimitAssumption DEF Blank, Entry, Versions, Times
  <2>2. version \in Nat /\ now \in Nat
    BY <1>1, Bounds DEF TypeOK
  <2> QED
    BY <2>1, <2>2 DEF Resting, Call, Steps, Labelled
<1>4. /\ \A d \in Callers : calls'[d] = IF d = c THEN Resting ELSE calls[d]
      /\ \A d \in Callers : d # c => seen'[d] = seen[d]
      /\ \A q \in Procs : cache'[q] = IF q = p THEN k0.entry ELSE cache[q]
  BY <1>1, <1>2 DEF TypeOK
<1>5. TypeOK'
  <2>1. calls' \in [Callers -> Call]
    BY <1>1, <1>2, <1>3 DEF TypeOK
  <2>2. cache' \in [Procs -> Entry \cup {NoEntry}]
    BY <1>1, <1>2 DEF TypeOK
  <2>3. seen' \in [Callers -> SUBSET (Ids \X {"in", "out", "expired"})]
    BY <1>1, <1>2 DEF TypeOK
  <2> HIDE DEF p, k0
  <2> QED
    BY <1>1, <1>2, <2>1, <2>2, <2>3 DEF TypeOK
<1>6. CallInv'
  BY <1>1, <1>2, <1>3, <1>4 DEF CallInv, Labelled
<1>7. AnswersAreCurrent'
  BY <1>1, <1>3, <1>4 DEF AnswersAreCurrent
<1>8. \A d \in Callers : Busy(d)' => Busy(d) /\ calls'[d].asked = calls[d].asked /\ seen'[d] = seen[d]
  BY <1>3, <1>4 DEF Busy
<1>9. \A ids, v, but : /\ ~HeldBy(Resting, ids, v, but)
                       /\ Cached(k0.entry, ids, v, but) => HeldBy(k0, ids, v, but)
  BY <1>2, <1>3 DEF HeldBy, Cached
<1> HIDE DEF k0, p
<1>10. ASSUME NEW ids, NEW v, NEW but, Held(ids, v, but)' PROVE Held(ids, v, but)
  <2>1. \/ \E q \in Procs : Cached(cache'[q], ids, v, but)
        \/ Cached(snap, ids, v, but)
        \/ \E d \in Callers : HeldBy(calls'[d], ids, v, but)
    BY <1>2, <1>10 DEF Held, Cached, HeldBy
  <2> QED
    BY <1>4, <1>9, <2>1 DEF Held, k0
<1>11. ASSUME NEW ids, NEW v, NEW but, NEW x, Timed(ids, v, but, x)' PROVE Timed(ids, v, but, x)
  <2>0. \/ \E q \in Procs : Cached(cache'[q], ids, v, but) /\ x = cache'[q].expiry
        \/ \E d \in Callers : TimedBy(calls'[d], ids, v, but, x)
    BY <1>2, <1>11 DEF Timed, Cached, TimedBy, HeldBy
  <2>1. ~TimedBy(Resting, ids, v, but, x)
    BY <1>9 DEF TimedBy
  <2>2. Cached(k0.entry, ids, v, but) /\ x = k0.entry.expiry => TimedBy(k0, ids, v, but, x)
    BY <1>2, <1>9 DEF TimedBy
  <2> QED
    BY <1>4, <2>0, <2>1, <2>2 DEF Timed, k0
<1> QED
  BY <1>2, <1>5, <1>6, <1>7, <1>8, <1>10, <1>11, PassedOn

(* A new call has seen the rows as they are, and what is right about them is right for it. *)
LEMMA AskStep == ASSUME IInv, NEW c \in Callers, Ask(c) PROVE IInv'
<1> DEFINE k == [Resting EXCEPT !.pc = "look", !.asked = version]
<1>1. TypeOK /\ CallInv /\ UpToDate /\ NowInv /\ SeenInv /\ AnswersAreCurrent /\ TimeInv
  BY DEF IInv
<1>2. /\ calls[c].pc = "idle" /\ calls' = [calls EXCEPT ![c] = k] /\ seen' = [seen EXCEPT ![c] = Status]
      /\ UNCHANGED <<rows, now, version, log, snap, cache>>
  BY DEF Ask, Set
<1>3. version \in Versions /\ version \in Nat /\ now \in Nat
  BY <1>1, Bounds DEF TypeOK
<1>4. k \in Call /\ k.pc = "look" /\ k.asked = version /\ k.began = 0
  <2>1. Blank \in Entry /\ 0 \in Versions /\ 0 \in Times
    BY Bounds, LimitAssumption DEF Blank, Entry, Versions, Times
  <2> QED
    BY <1>3, <2>1 DEF Resting, Call, Steps
<1> HIDE DEF k
<1>5. \A d \in Callers : /\ calls'[d] = IF d = c THEN k ELSE calls[d]
                         /\ seen'[d] = IF d = c THEN Status ELSE seen[d]
  BY <1>1, <1>2 DEF TypeOK
<1>6. TypeOK'
  <2>1. calls' \in [Callers -> Call]
    BY <1>1, <1>2, <1>4 DEF TypeOK
  <2>2. seen' \in [Callers -> SUBSET (Ids \X {"in", "out", "expired"})]
    <3>1. Status \subseteq Ids \X {"in", "out", "expired"}
      BY DEF Status
    <3> HIDE DEF Status
    <3> QED
      BY <1>1, <1>2, <3>1 DEF TypeOK
  <2> QED
    BY <1>1, <1>2, <2>1, <2>2 DEF TypeOK
<1>7. CallInv'
  BY <1>1, <1>2, <1>3, <1>4, <1>5 DEF CallInv, Labelled
<1>8. \A ids, v, but : ~HeldBy(k, ids, v, but)
  BY <1>4 DEF HeldBy
<1>9. ASSUME NEW ids, NEW v, NEW but, Held(ids, v, but)' PROVE Held(ids, v, but)
  <2>1. \/ \E q \in Procs : Cached(cache[q], ids, v, but)
        \/ Cached(snap, ids, v, but)
        \/ \E d \in Callers : HeldBy(calls'[d], ids, v, but)
    BY <1>2, <1>9 DEF Held, Cached, HeldBy
  <2> QED
    BY <1>5, <1>8, <2>1 DEF Held
<1>10. Status' = Status
  BY <1>2 DEF Status, Retrievable, Expired
<1>11. UpToDate'
  BY <1>1, <1>5, <1>10 DEF UpToDate, Busy
<1>12. \A ids, v, but : RightNow(ids, v, but) => RightNow(ids, v, but)'
  BY <1>2 DEF RightNow, Covered, Touched, Right, Retrievable, Expired
<1>13. NowInv'
  BY <1>1, <1>9, <1>12 DEF NowInv
<1>14. SeenInv'
  <2>1. \A v, w : (Covered(v, w)' <=> Covered(v, w)) /\ Touched(v, w)' = Touched(v, w)
    BY <1>2 DEF Covered, Touched
  <2>2. ASSUME NEW d \in Callers, d # c, Busy(d)', NEW ids, NEW v, NEW but, RightFor(d, ids, v, but)
        PROVE  RightFor(d, ids, v, but)'
    <3>1. calls'[d] = calls[d] /\ \A i : WasRight(d, ids, i)' <=> WasRight(d, ids, i)
      BY <1>5, <2>2 DEF WasRight
    <3> QED
      BY <2>1, <2>2, <3>1 DEF RightFor
  <2>3. ASSUME NEW ids \in SUBSET Ids, NEW v, NEW but, RightNow(ids, v, but) PROVE RightFor(c, ids, v, but)'
    <3>1. \A i \in Ids : Right(ids, i) => WasRight(c, ids, i)'
      <4> SUFFICES ASSUME NEW i \in Ids, Right(ids, i) PROVE WasRight(c, ids, i)'
        OBVIOUS
      <4>1. <<i, IF Retrievable(i) THEN "in" ELSE IF rows[i].match THEN "expired" ELSE "out">> \in seen'[c]
        BY <1>5 DEF Status
      <4> QED
        BY <4>1 DEF WasRight, Right, Retrievable
    <3>2. calls'[c].asked = version
      BY <1>4, <1>5
    <3> QED
      BY <2>1, <2>3, <3>1, <3>2 DEF RightFor, RightNow
  <2>4. \A d \in Callers : d # c /\ Busy(d)' => Busy(d)
    BY <1>5 DEF Busy
  <2> SUFFICES ASSUME NEW d \in Callers, NEW ids \in SUBSET Ids, NEW v \in Versions, NEW but \in SUBSET Ids,
                      Busy(d)', Held(ids, v, but)
               PROVE  RightFor(d, ids, v, but)'
    BY <1>9 DEF SeenInv
  <2>5. CASE d = c
    BY <1>1, <2>3, <2>5 DEF NowInv
  <2>6. CASE d # c
    BY <1>1, <2>2, <2>4, <2>6 DEF SeenInv
  <2> QED
    BY <2>5, <2>6
<1>15. AnswersAreCurrent'
  BY <1>1, <1>4, <1>5 DEF AnswersAreCurrent
<1>16. TimeInv'
  <2>1. \A ids, v, but, x : InTime(ids, v, but, x) => InTime(ids, v, but, x)'
    BY <1>2 DEF InTime, Covered, Touched, Expired, Never
  <2>2. ASSUME NEW ids, NEW v, NEW but, NEW x, Timed(ids, v, but, x)' PROVE Timed(ids, v, but, x)
    <3>0. \/ \E q \in Procs : Cached(cache[q], ids, v, but) /\ x = cache[q].expiry
          \/ \E d \in Callers : TimedBy(calls'[d], ids, v, but, x)
      BY <1>2, <2>2 DEF Timed, Cached, TimedBy, HeldBy
    <3>1. ~TimedBy(k, ids, v, but, x)
      BY <1>8 DEF TimedBy
    <3> QED
      BY <1>5, <3>0, <3>1 DEF Timed
  <2> QED
    BY <1>1, <2>1, <2>2 DEF TimeInv, Never
<1> QED
  BY <1>6, <1>7, <1>11, <1>13, <1>14, <1>15, <1>16 DEF IInv

LEMMA InitHolds == Init => IInv
<1> SUFFICES ASSUME Init PROVE IInv
  OBVIOUS
<1>1. Resting \in Call /\ Resting.pc = "idle" /\ Resting.asked = 0 /\ Resting.began = 0
  <2>1. Blank \in Entry /\ 0 \in Versions /\ 0 \in Times
    BY Bounds, LimitAssumption DEF Blank, Entry, Versions, Times
  <2> QED
    BY <2>1 DEF Resting, Call, Steps
<1>2. TypeOK
  <2>1. [match |-> FALSE, end |-> Never] \in Row /\ [match |-> TRUE, end |-> Never] \in Row
    BY DEF Row
  <2> DEFINE bare == {[match |-> FALSE, end |-> Never], [match |-> TRUE, end |-> Never]}
  <2>2. rows \in [Ids -> Row]
    <3>1. bare \subseteq Row
      BY <2>1
    <3>2. rows \in [Ids -> bare]
      BY DEF Init
    <3> HIDE DEF bare
    <3> QED
      BY <3>1, <3>2
  <2>3. now \in Times /\ version \in Versions /\ DOMAIN log = {}
    BY LimitAssumption DEF Init, Times, Versions
  <2>4. calls \in [Callers -> Call] /\ seen \in [Callers -> SUBSET (Ids \X {"in", "out", "expired"})]
    BY <1>1 DEF Init
  <2>5. snap \in Entry \cup {NoEntry} /\ cache \in [Procs -> Entry \cup {NoEntry}]
    BY DEF Init
  <2> QED
    BY <2>2, <2>3, <2>4, <2>5 DEF TypeOK
<1>3. \A d \in Callers : calls[d] = Resting
  BY DEF Init
<1> HIDE DEF Resting
<1>4. \A ids, v, but : ~Held(ids, v, but)
  BY <1>1, <1>3 DEF Held, HeldBy, Cached, Init
<1>5. \A ids, v, but, x : ~Timed(ids, v, but, x)
  BY <1>1, <1>3 DEF Timed, TimedBy, HeldBy, Cached, Init
<1>6. CallInv /\ UpToDate /\ AnswersAreCurrent
  BY <1>1, <1>3 DEF CallInv, Labelled, UpToDate, AnswersAreCurrent, Busy, Init
<1> QED
  BY <1>2, <1>4, <1>5, <1>6 DEF IInv, NowInv, SeenInv, TimeInv

LEMMA NextKeeps == IInv /\ [Next]_vars => IInv'
<1> SUFFICES ASSUME IInv, [Next]_vars PROVE IInv'
  OBVIOUS
<1>1. CASE \E noted \in SUBSET Ids, known \in BOOLEAN : Write(noted, known)
  BY <1>1, WriteStep
<1>2. CASE Tick
  BY <1>2, TickStep
<1>3. CASE \E p \in Procs : Evict(p) \/ RecordScope(p)
  BY <1>3, CacheStep
<1>4. CASE \E c \in Callers : Ask(c) \/ Hit(c) \/ Miss(c) \/ RefreshDue(c) \/ NoSnapshot(c)
  BY <1>4, AskStep, HitStep, MissStep
<1>5. CASE \E c \in Callers : ReadLog(c) \/ ReadRows(c) \/ DropExpired(c) \/ NextExpiry(c)
  BY <1>5, ReadLogStep, ReadRowsStep, DropExpiredStep, NextExpiryStep
<1>6. CASE \E c \in Callers : LoadSnapshot(c) \/ Scan(c) \/ SaveScope(c) \/ Put(c)
  BY <1>6, LoadSnapshotStep, ScanStep, SaveStep, PutStep
<1>7. CASE UNCHANGED vars
  <2>1. UNCHANGED <<rows, now, version, log, snap, cache, calls, seen>>
    BY <1>7 DEF vars
  <2>2. TypeOK' /\ CallInv' /\ AnswersAreCurrent'
    BY <2>1 DEF IInv, TypeOK, CallInv, Labelled, AnswersAreCurrent
  <2>3. \A d \in Callers : Busy(d)' => Busy(d) /\ calls'[d].asked = calls[d].asked /\ seen'[d] = seen[d]
    BY <2>1 DEF Busy
  <2>4. /\ \A ids, v, but : Held(ids, v, but)' => Held(ids, v, but)
        /\ \A ids, v, but, x : Timed(ids, v, but, x)' => Timed(ids, v, but, x)
    BY <2>1 DEF Held, Timed, HeldBy, TimedBy, Cached
  <2> QED
    BY <2>1, <2>2, <2>3, <2>4, PassedOn
<1> QED
  BY <1>1, <1>2, <1>3, <1>4, <1>5, <1>6, <1>7 DEF Next

THEOREM Holds == Spec => []IInv
<1>1. QED
  BY InitHolds, NextKeeps, PTL DEF Spec

----------------------------------------------------------------------------
(* Theorems. *)

(* The cache, the snapshot, the log and every call under way hold what their types say. *)
THEOREM ScopesTyped == Spec => []TypeOK
<1>1. IInv => TypeOK
  BY DEF IInv
<1> QED
  BY <1>1, Holds, PTL

(* However calls, writes, evictions, snapshots and the clock interleave, retrievable_id_set answers *)
(* every id as its row stood at some moment of the call: an entry that is caught up by the log, or *)
(* loaded from a snapshot, or cached by another call, is as good as a scan. *)
THEOREM AnswersAlwaysCurrent == Spec => []AnswersAreCurrent
<1>1. IInv => AnswersAreCurrent
  BY DEF IInv
<1> QED
  BY <1>1, Holds, PTL

(* _next_expiry and _apply_log never leave a cached entry unexamined past the TTL of a member that *)
(* it still vouches for. *)
THEOREM ExpiryAlwaysInTime == Spec => []ExpiryInTime
<1>1. ASSUME IInv PROVE ExpiryInTime
  <2> SUFFICES ASSUME NEW p \in Procs, cache[p] # NoEntry, Covered(cache[p].version, version)
               PROVE  \A i \in cache[p].ids \ Touched(cache[p].version, version) :
                          Expired(i) \/ rows[i].end = Never \/ cache[p].expiry <= rows[i].end
    BY DEF ExpiryInTime, Covered
  <2>1. /\ cache[p].ids \in SUBSET Ids /\ cache[p].version \in Versions /\ cache[p].expiry \in 0..Never
    BY <1>1 DEF IInv, TypeOK, Entry
  <2>2. Timed(cache[p].ids, cache[p].version, {}, cache[p].expiry)
    BY DEF Timed, Cached
  <2>3. InTime(cache[p].ids, cache[p].version, {}, cache[p].expiry)
    BY <1>1, <2>1, <2>2 DEF IInv, TimeInv
  <2> QED
    BY <2>3 DEF InTime
<1> QED
  BY <1>1, Holds, PTL

================================================================================
