--------------------------- MODULE FactTimelineProofs ---------------------------
(* For any values, times and numbers of rows: the timeline of facts answers as of a time *)
(* with the latest assertion about it, history is not rewritten, an export is imported once *)
(* and a restored chain gives the answers of the exported one. *)
EXTENDS FactTimeline, FiniteSetTheorems, WellFoundedInduction, TLAPS

Rows(R) == DOMAIN R \subseteq 1..MaxRows /\ \A i \in DOMAIN R : R[i] \in Row

(* A row ends at the first of the assertions that follow it, and with none it is open. *)
EndsAtNext(R, i) ==
    /\ \A j \in Following(R, i) : R[i].to <= R[j].from
    /\ R[i].to = Forever \/ \E j \in Following(R, i) : R[i].to = R[j].from
Chained(R) == \A i \in Chain(R) : EndsAtNext(R, i)

(* Each write has a transaction time of its own, and an imported row that of its original. *)
StampedOnce ==
    /\ \A i \in DOMAIN rows : rows[i].recorded \in stamps
    /\ \A i, j \in DOMAIN rows : rows[i].recorded = rows[j].recorded => i = j

(* What an import carries over. *)
Same(r, d) == r.value = d.value /\ r.multi = d.multi /\ r.from = d.from /\ r.recorded = d.recorded

Earlier(d, e) == d.from < e.from \/ (d.from = e.from /\ d.recorded < e.recorded)
Later(d) == {e \in dump : ~e.multi /\ Earlier(d, e)}

(* The export is the live rows of a timeline as it then was. *)
DumpInv ==
    /\ IsFiniteSet(dump)
    /\ dump # {} => stamps = Stamps
    /\ \A d \in dump : d.live /\ d.recorded \in stamps
    /\ \A d, e \in dump : d.recorded = e.recorded => d = e
    /\ \A d \in dump : ~d.multi =>
          /\ \A e \in Later(d) : d.to <= e.from
          /\ d.to = Forever \/ \E e \in Later(d) : d.to = e.from

(* A row with the transaction time of an exported one is its original or its copy; a store *)
(* that was only imported into has nothing but copies. *)
CopiesInv ==
    /\ \A i \in DOMAIN rows, d \in dump :
          rows[i].recorded = d.recorded => rows[i].live /\ Same(rows[i], d)
    /\ fresh => \A i \in DOMAIN rows : \E d \in dump : Same(rows[i], d)

IInv == TypeOK /\ Chained(rows) /\ StampedOnce /\ DumpInv /\ CopiesInv

----------------------------------------------------------------------------
(* Lemmas about the operators of the model. *)

(* A nonempty set of natural numbers has a least element. *)
LEMMA LeastOf == ASSUME NEW S \in SUBSET Nat, S # {} PROVE \E x \in S : \A y \in S : x <= y
<1> DEFINE T == {0..x : x \in S}
<1>1. T \subseteq FiniteSubsetsOf(Nat) /\ T # {}
  <2>1. \A x \in S : IsFiniteSet(0..x) /\ 0..x \in SUBSET Nat
    BY FS_Interval
  <2> QED
    BY <2>1 DEF FiniteSubsetsOf
<1>2. PICK m \in T : \A u \in T : ~(<<u, m>> \in StrictSubsetOrdering(Nat))
  BY <1>1, WFMin, FS_StrictSubsetOrderingWellFounded
<1>3. PICK x \in S : m = 0..x
  BY <1>2
<1>4. ASSUME NEW y \in S, y < x PROVE FALSE
  <2>1. 0..y \in T /\ 0..y \subseteq 0..x /\ x \in 0..x /\ x \notin 0..y
    BY <1>4
  <2>2. <<0..y, 0..x>> \in StrictSubsetOrdering(Nat)
    BY <2>1 DEF StrictSubsetOrdering
  <2> QED
    BY <1>2, <1>3, <2>1, <2>2
<1> QED
  BY <1>4

(* A nonempty bounded set of natural numbers has a greatest one. *)
LEMMA GreatestOf ==
    ASSUME NEW n \in Nat, NEW S \in SUBSET (0..n), S # {} PROVE \E x \in S : \A y \in S : y <= x
<1> DEFINE T == {n - y : y \in S}
<1>1. T \in SUBSET Nat /\ T # {}
  <2>1. \A y \in S : n - y \in Nat
    OBVIOUS
  <2> QED
    BY <2>1
<1>2. PICK m \in T : \A y \in T : m <= y
  BY <1>1, LeastOf
<1>3. PICK x \in S : m = n - x
  BY <1>2
<1>4. \A y \in S : n - x <= n - y
  BY <1>2, <1>3
<1> QED
  BY <1>3, <1>4

(* A new row has an id of its own.  Like SQLite's, it is above all that are there. *)
LEMMA NewId == ASSUME Rows(rows) PROVE NextRowid \in Nat \ {0} /\ NextRowid \notin DOMAIN rows
<1> USE BoundAssumption
<1>1. CASE DOMAIN rows = {}
  BY <1>1 DEF NextRowid
<1>2. CASE DOMAIN rows # {}
  <2>1. DOMAIN rows \in SUBSET (0..MaxRows)
    BY DEF Rows
  <2>2. \E i \in DOMAIN rows : \A j \in DOMAIN rows : j <= i
    BY <1>2, <2>1, GreatestOf
  <2> DEFINE top == CHOOSE i \in DOMAIN rows : \A j \in DOMAIN rows : j <= i
  <2>3. top \in DOMAIN rows /\ \A j \in DOMAIN rows : j <= top
    BY <2>2
  <2>4. NextRowid = 1 + top
    BY <1>2 DEF NextRowid
  <2> HIDE DEF top
  <2> QED
    BY <2>1, <2>3, <2>4
<1> QED
  BY <1>1, <1>2

(* S has the rows of R, but for where they end. *)
Keeps(R, S) ==
    /\ DOMAIN S = DOMAIN R
    /\ \A i \in DOMAIN R : /\ Same(S[i], R[i]) /\ S[i].live = R[i].live
                           /\ S[i].to \in Times \cup {Forever}

(* The order of the assertions does not depend on where they end. *)
LEMMA KeepsTheOrder ==
    ASSUME NEW R, NEW S, Keeps(R, S)
    PROVE  Chain(S) = Chain(R) /\ \A i \in Chain(R) : Following(S, i) = Following(R, i)
BY DEF Keeps, Same, Chain, Following, Before

LEMMA KeepsTheType == ASSUME NEW R, NEW S, Rows(R), Keeps(R, S),
                             \A i \in DOMAIN R : S[i] = [R[i] EXCEPT !.to = S[i].to]
                      PROVE  Rows(S)
BY DEF Keeps, Rows, Row

(* What _rechain_facts returns: the same assertions, each ending where the next begins, *)
(* whatever order they arrived in. *)
LEMMA RechainedIsChained ==
    ASSUME NEW R, Rows(R)
    PROVE  Rows(Rechained(R)) /\ Keeps(R, Rechained(R)) /\ Chained(Rechained(R))
           /\ \A i \in DOMAIN R : R[i].multi \/ ~R[i].live => Rechained(R)[i] = R[i]
<1> USE BoundAssumption
<1> DEFINE Q == Rechained(R)
           End(i) == CHOOSE t \in Times : /\ \E j \in Following(R, i) : R[j].from = t
                                          /\ \A j \in Following(R, i) : t <= R[j].from
<1>1. ASSUME NEW i \in Chain(R), Following(R, i) # {}
      PROVE  /\ End(i) \in Times /\ \E j \in Following(R, i) : R[j].from = End(i)
             /\ \A j \in Following(R, i) : End(i) <= R[j].from
  <2> DEFINE F == {R[j].from : j \in Following(R, i)}
  <2>1. F \in SUBSET Times /\ F # {}
    BY <1>1 DEF Rows, Row, Following, Chain
  <2>2. F \in SUBSET Nat
    BY <2>1 DEF Times
  <2>3. PICK t \in F : \A u \in F : t <= u
    BY <2>1, <2>2, LeastOf
  <2>4. t \in Times /\ (\E j \in Following(R, i) : R[j].from = t) /\ \A j \in Following(R, i) : t <= R[j].from
    BY <2>1, <2>3
  <2> QED
    BY <2>4
<1>2. DOMAIN Q = DOMAIN R /\ \A i \in DOMAIN R : i \notin Chain(R) => Q[i] = R[i]
  BY DEF Rechained
<1>3. \A i \in Chain(R) : Following(R, i) = {} => Q[i] = [R[i] EXCEPT !.to = Forever]
  BY DEF Rechained, Chain
<1>4. \A i \in Chain(R) : Following(R, i) # {} => Q[i] = [R[i] EXCEPT !.to = End(i)]
  BY DEF Rechained, Chain
<1> HIDE DEF Q, End
<1>5. \A i \in DOMAIN R : Q[i].to \in Times \cup {Forever} /\ Q[i] = [R[i] EXCEPT !.to = Q[i].to]
  <2> SUFFICES ASSUME NEW i \in DOMAIN R
               PROVE  Q[i].to \in Times \cup {Forever} /\ Q[i] = [R[i] EXCEPT !.to = Q[i].to]
    OBVIOUS
  <2>1. R[i] \in Row
    BY DEF Rows
  <2>2. CASE i \notin Chain(R)
    BY <1>2, <2>1, <2>2 DEF Row
  <2>3. CASE i \in Chain(R) /\ Following(R, i) = {}
    BY <1>3, <2>1, <2>3 DEF Row
  <2>4. CASE i \in Chain(R) /\ Following(R, i) # {}
    BY <1>1, <1>4, <2>1, <2>4 DEF Row
  <2> QED
    BY <2>2, <2>3, <2>4
<1>6. Keeps(R, Q)
  BY <1>2, <1>5 DEF Keeps, Same, Rows, Row
<1>7. Rows(Q)
  BY <1>5, <1>6, KeepsTheType
<1>8. Chained(Q)
  <2> SUFFICES ASSUME NEW i \in Chain(R) PROVE EndsAtNext(Q, i)
    BY <1>6, KeepsTheOrder DEF Chained
  <2>1. Following(Q, i) = Following(R, i) /\ Following(R, i) \subseteq DOMAIN R
        /\ \A j \in DOMAIN R : Q[j].from = R[j].from
    BY <1>6, KeepsTheOrder DEF Following, Chain, Keeps, Same
  <2>2. i \in DOMAIN R /\ R[i] \in Row
    BY DEF Chain, Rows
  <2>3. CASE Following(R, i) = {}
    BY <1>3, <2>1, <2>2, <2>3 DEF EndsAtNext, Row
  <2>4. CASE Following(R, i) # {}
    <3>1. Q[i].to = End(i)
      BY <1>4, <2>2, <2>4 DEF Row
    <3>2. /\ \E j \in Following(R, i) : R[j].from = End(i)
          /\ \A j \in Following(R, i) : End(i) <= R[j].from
      BY <1>1, <2>4
    <3> QED
      BY <2>1, <3>1, <3>2 DEF EndsAtNext
  <2> QED
    BY <2>3, <2>4
<1>9. \A i \in DOMAIN R : R[i].multi \/ ~R[i].live => Q[i] = R[i]
  BY <1>2 DEF Chain
<1> QED
  BY <1>6, <1>7, <1>8, <1>9 DEF Q

(* Where the rows of a chain end does not change with what becomes of the added values. *)
LEMMA StaysChained ==
    ASSUME NEW R, NEW S, Chained(R), Chain(S) = Chain(R),
           \A i \in Chain(R) : S[i].from = R[i].from /\ S[i].recorded = R[i].recorded /\ S[i].to = R[i].to
    PROVE  Chained(S)
<1>1. \A i \in Chain(R) : Following(S, i) = Following(R, i)
  BY DEF Following, Before
<1> QED
  BY <1>1 DEF Chained, EndsAtNext, Following

----------------------------------------------------------------------------
(* What a write does to the table: it adds a row, or it withdraws some. *)

(* A withdrawn row is gone or marked; the rest of it stays. *)
Withdraws(R) ==
    /\ DOMAIN R \subseteq DOMAIN rows
    /\ \A i \in DOMAIN R : Same(R[i], rows[i]) /\ (R[i].live => rows[i].live)

Adds(R, row) ==
    /\ DOMAIN R = DOMAIN rows \cup {NextRowid} /\ NextRowid \notin DOMAIN rows
    /\ Same(R[NextRowid], row) /\ R[NextRowid].live
    /\ \A i \in DOMAIN rows : Same(R[i], rows[i]) /\ (R[i].live => rows[i].live)

LEMMA WithRow ==
    ASSUME Rows(rows), NEW R, Rows(R), Withdraws(R), DOMAIN R = DOMAIN rows, NEW row \in Row, row.live,
           NextRowid <= MaxRows
    PROVE  Rows(With(R, row)) /\ Adds(With(R, row), row)
<1>1. NextRowid \in 1..MaxRows /\ NextRowid \notin DOMAIN rows
  BY NewId, BoundAssumption
<1> QED
  BY <1>1 DEF Rows, With, Adds, Withdraws, Same

LEMMA EndedRows ==
    ASSUME NEW R, Rows(R), NEW t \in Times
    PROVE  Rows(Ended(R, t)) /\ Keeps(R, Ended(R, t))
<1> DEFINE E == Ended(R, t)
<1>1. DOMAIN E = DOMAIN R /\ \A i \in DOMAIN R : E[i] = R[i] \/ E[i] = [R[i] EXCEPT !.to = t]
  BY DEF Ended
<1> HIDE DEF E
<1>2. \A i \in DOMAIN R : /\ E[i] \in Row /\ Same(E[i], R[i]) /\ E[i].live = R[i].live
  <2> SUFFICES ASSUME NEW i \in DOMAIN R
               PROVE  E[i] \in Row /\ Same(E[i], R[i]) /\ E[i].live = R[i].live
    OBVIOUS
  <2>1. R[i] \in Row
    BY DEF Rows
  <2> QED
    BY <1>1, <2>1 DEF Row, Same
<1>3. Rows(E) /\ Keeps(R, E)
  BY <1>1, <1>2 DEF Rows, Keeps, Row
<1> QED
  BY <1>3 DEF E

LEMMA RetractedRows ==
    ASSUME Rows(rows), NEW S
    PROVE  /\ Rows(Retracted(S)) /\ Withdraws(Retracted(S)) /\ DOMAIN Retracted(S) = DOMAIN rows
           /\ Rows(Without(S)) /\ Withdraws(Without(S))
<1>1. \A i \in DOMAIN rows : [rows[i] EXCEPT !.live = FALSE] \in Row
  BY DEF Rows, Row
<1> QED
  BY <1>1 DEF Rows, Row, Retracted, Without, Withdraws, Same

(* _rechain_facts and the end of added values are no withdrawal and no addition. *)
LEMMA KeptIsWithdrawn ==
    ASSUME NEW R, NEW S, Keeps(R, S)
    PROVE  /\ Withdraws(R) => Withdraws(S)
           /\ \A row : Adds(R, row) => Adds(S, row)
BY DEF Keeps, Withdraws, Adds, Same

(* The table after an operation: shape, chain and type. *)
Shaped == Rows(rows)' /\ Chained(rows)'

LEMMA SetFactAdds ==
    ASSUME TypeOK, NEW v \in Values, NEW t \in Times, NEW c \in BOOLEAN, NEW rec \in Stamps,
           SetFact(v, t, c, rec)
    PROVE  Shaped /\ Adds(rows', NewRow(v, FALSE, t, rec))
<1> USE BoundAssumption
<1> DEFINE same == {i \in Chain(rows) : rows[i].from = t}
           kept == IF c THEN Corrected(same, v) ELSE rows
           row == NewRow(v, FALSE, t, rec)
<1>1. Rows(rows) /\ NextRowid <= MaxRows
  BY DEF TypeOK, Rows, SetFact, Recording
<1>2. row \in Row /\ row.live
  BY DEF NewRow, Row, Times, Forever
<1>3. Rows(kept) /\ Withdraws(kept) /\ DOMAIN kept = DOMAIN rows
  <2>1. Withdraws(rows)
    BY DEF Withdraws, Same
  <2> QED
    BY <1>1, <2>1, RetractedRows DEF Corrected
<1>4. rows' = Rechained(Ended(With(kept, row), t))
  BY DEF SetFact
<1> HIDE DEF same, kept, row
<1>5. Rows(With(kept, row)) /\ Adds(With(kept, row), row)
  BY <1>1, <1>2, <1>3, WithRow
<1>6. Rows(Ended(With(kept, row), t)) /\ Adds(Ended(With(kept, row), t), row)
  BY <1>5, EndedRows, KeptIsWithdrawn
<1>7. Rows(rows') /\ Chained(rows') /\ Adds(rows', row)
  BY <1>4, <1>6, RechainedIsChained, KeptIsWithdrawn
<1> QED
  BY <1>7 DEF Shaped, row, Rows, Chained, Chain, EndsAtNext, Following, Before

LEMMA AddFactAdds ==
    ASSUME TypeOK, Chained(rows), NEW v \in Values, NEW t \in Times, NEW rec \in Stamps, AddFact(v, t, rec)
    PROVE  Shaped /\ Adds(rows', NewRow(v, TRUE, t, rec))
<1> DEFINE row == NewRow(v, TRUE, t, rec)
<1>1. Rows(rows) /\ NextRowid <= MaxRows /\ rows' = With(rows, row)
  BY DEF TypeOK, Rows, AddFact, Recording
<1>2. row \in Row /\ row.live /\ row.multi
  BY BoundAssumption DEF NewRow, Row, Times, Forever
<1> HIDE DEF row
<1>3. Withdraws(rows)
  BY DEF Withdraws, Same
<1>4. Rows(rows') /\ Adds(rows', row)
  BY <1>1, <1>2, <1>3, WithRow
<1>5. \A i \in DOMAIN rows : rows'[i] = rows[i]
  BY <1>1, <1>4 DEF With, Adds
<1>6. rows'[NextRowid].multi /\ DOMAIN rows' = DOMAIN rows \cup {NextRowid}
  BY <1>2, <1>4 DEF Adds, Same
<1>7. Chain(rows') = Chain(rows)
  BY <1>5, <1>6 DEF Chain
<1>8. Chained(rows')
  BY <1>5, <1>7, StaysChained DEF Chain
<1> QED
  BY <1>4, <1>8 DEF Shaped, row, Rows, Chained, Chain, EndsAtNext, Following, Before

LEMMA RemoveFactWithdraws ==
    ASSUME TypeOK, Chained(rows), NEW v \in Values, NEW t \in Times, RemoveFact(v, t)
    PROVE  Shaped /\ Withdraws(rows')
<1> DEFINE S == {i \in OpenAt(t) : rows[i].multi /\ rows[i].value = v}
<1>1. Rows(rows) /\ \A i \in S : rows[i].multi
  BY DEF TypeOK, Rows
<1>2. rows' = [i \in DOMAIN rows |-> IF i \in S THEN [rows[i] EXCEPT !.to = t] ELSE rows[i]]
  BY DEF RemoveFact
<1> HIDE DEF S
<1>3. DOMAIN rows' = DOMAIN rows
      /\ \A i \in DOMAIN rows : rows'[i] = rows[i] \/ (rows[i].multi /\ rows'[i] = [rows[i] EXCEPT !.to = t])
  BY <1>1, <1>2
<1>4. \A i \in DOMAIN rows : rows'[i] \in Row /\ Same(rows'[i], rows[i]) /\ rows'[i].live = rows[i].live
                             /\ (~rows[i].multi => rows'[i] = rows[i])
  <2> SUFFICES ASSUME NEW i \in DOMAIN rows
               PROVE  rows'[i] \in Row /\ Same(rows'[i], rows[i]) /\ rows'[i].live = rows[i].live
                      /\ (~rows[i].multi => rows'[i] = rows[i])
    OBVIOUS
  <2>1. rows[i] \in Row
    BY <1>1 DEF Rows
  <2> QED
    BY <1>3, <2>1 DEF Row, Same
<1>5. Rows(rows') /\ Withdraws(rows')
  BY <1>1, <1>3, <1>4 DEF Rows, Withdraws
<1>6. Chain(rows') = Chain(rows) /\ \A i \in Chain(rows) : rows'[i] = rows[i]
  BY <1>3, <1>4 DEF Chain, Same
<1>7. Chained(rows')
  BY <1>6, StaysChained
<1> QED
  BY <1>5, <1>7 DEF Shaped, Rows, Chained, Chain, EndsAtNext, Following, Before

(* A retraction, a deletion and a forgotten source rechain what is left. *)
LEMMA RechainedRest ==
    ASSUME TypeOK, NEW R, Rows(R), Withdraws(R), rows' = Rechained(R)
    PROVE  Shaped /\ Withdraws(rows')
<1>1. Rows(rows') /\ Chained(rows') /\ Withdraws(rows')
  BY RechainedIsChained, KeptIsWithdrawn
<1> QED
  BY <1>1 DEF Shaped, Rows, Chained, Chain, EndsAtNext, Following, Before

LEMMA RetractFactWithdraws == ASSUME TypeOK, NEW S, RetractFact(S) PROVE Shaped /\ Withdraws(rows')
<1>1. Rows(rows) /\ rows' = Rechained(Retracted(S))
  BY DEF TypeOK, Rows, RetractFact
<1> QED
  BY <1>1, RetractedRows, RechainedRest

LEMMA DeleteFactWithdraws ==
    ASSUME TypeOK, NEW v \in Values, DeleteFact(v) PROVE Shaped /\ Withdraws(rows')
<1>1. Rows(rows) /\ rows' = Rechained(Without({i \in DOMAIN rows : Matches(i, v)}))
  BY DEF TypeOK, Rows, DeleteFact
<1> QED
  BY <1>1, RetractedRows, RechainedRest

LEMMA ForgetSourceWithdraws ==
    ASSUME TypeOK, NEW S, NEW secure \in BOOLEAN, ForgetSource(S, secure) PROVE Shaped /\ Withdraws(rows')
<1>1. Rows(rows) /\ rows' = Rechained(IF secure THEN Without(S) ELSE Retracted(S))
  BY DEF TypeOK, Rows, ForgetSource
<1>2. CASE secure
  BY <1>1, <1>2, RetractedRows, RechainedRest
<1>3. CASE ~secure
  BY <1>1, <1>3, RetractedRows, RechainedRest
<1> QED
  BY <1>2, <1>3

(* delete of a whole timeline, and a new store. *)
LEMMA EmptiedWithdraws == ASSUME rows' = NoRows PROVE Shaped /\ Withdraws(rows')
BY DEF Shaped, NoRows, Rows, Chained, Chain, Withdraws

LEMMA ImportRowAdds ==
    ASSUME TypeOK, Chained(rows), NEW d \in dump, ImportRow(d)
    PROVE  Shaped /\ Adds(rows', d) /\ \A i \in DOMAIN rows : rows'[i].live = rows[i].live
<1> DEFINE row == NewRow(d.value, d.multi, d.from, d.recorded)
           R == With(rows, row)
<1>1. Rows(rows) /\ NextRowid <= MaxRows /\ rows' = IF d.multi THEN R ELSE Rechained(R)
  BY DEF TypeOK, Rows, ImportRow, Recording, RecordedAt
<1>2. row \in Row /\ row.live /\ row.multi = d.multi /\ Same(row, d)
  BY BoundAssumption DEF TypeOK, NewRow, Row, Times, Forever, Same
<1>3. R = With(rows, row)
  OBVIOUS
<1> HIDE DEF row, R
<1>4. Withdraws(rows)
  BY DEF Withdraws, Same
<1>5. Rows(R) /\ Adds(R, row)
  BY <1>1, <1>2, <1>3, <1>4, WithRow
<1>6. Adds(R, d)
  BY <1>2, <1>5 DEF Adds, Same
<1>9. \A i \in DOMAIN rows : R[i] = rows[i]
  BY <1>3, <1>5 DEF With, Adds
<1>7. CASE d.multi
  <2>1. rows' = R
    BY <1>1, <1>7
  <2>2. \A i \in DOMAIN rows : R[i] = rows[i]
    BY <1>3, <1>5 DEF With, Adds
  <2>3. Chain(R) = Chain(rows)
    BY <1>2, <1>5, <1>7, <2>2 DEF Chain, Adds, Same
  <2>4. Chained(rows')
    BY <2>1, <2>2, <2>3, StaysChained DEF Chain
  <2> QED
    BY <1>5, <1>6, <1>9, <2>1, <2>4 DEF Shaped, Rows, Chained, Chain, EndsAtNext, Following, Before
<1>8. CASE ~d.multi
  <2>1. rows' = Rechained(R)
    BY <1>1, <1>8
  <2>2. Rows(rows') /\ Chained(rows') /\ Adds(rows', d) /\ Keeps(R, rows')
    BY <1>5, <1>6, <2>1, RechainedIsChained, KeptIsWithdrawn
  <2>3. \A i \in DOMAIN rows : rows'[i].live = rows[i].live
    BY <1>5, <1>9, <2>2 DEF Keeps, Adds
  <2> QED
    BY <2>2, <2>3 DEF Shaped, Rows, Chained, Chain, EndsAtNext, Following, Before
<1> QED
  BY <1>7, <1>8

----------------------------------------------------------------------------
(* The invariant. *)

LEMMA InitInv == Init => IInv
<1> SUFFICES ASSUME Init PROVE IInv
  OBVIOUS
<1>1. DOMAIN rows = {} /\ dump = {} /\ stamps = {} /\ fresh \in BOOLEAN
  BY DEF Init, NoRows
<1> QED
  BY <1>1, FS_EmptySet DEF IInv, TypeOK, Chained, Chain, StampedOnce, DumpInv, CopiesInv

(* A write with a new transaction time, before the export. *)
LEMMA StampedStep ==
    ASSUME IInv, NEW rec \in Stamps, StampedNew(rec), UNCHANGED dump, NEW row, row.recorded = rec,
           Shaped, Adds(rows', row)
    PROVE  IInv'
<1>1. TypeOK /\ StampedOnce /\ DumpInv
  BY DEF IInv
<1>2. rec \notin stamps /\ stamps' = stamps \cup {rec} /\ fresh' = FALSE
  BY DEF StampedNew
<1>3. dump = {} /\ dump' = {}
  BY <1>1, <1>2 DEF DumpInv
<1>4. TypeOK'
  BY <1>1, <1>2, <1>3 DEF TypeOK, Shaped, Rows
<1>5. StampedOnce'
  BY <1>1, <1>2 DEF StampedOnce, Adds, Same
<1>6. DumpInv' /\ CopiesInv'
  BY <1>2, <1>3, FS_EmptySet DEF DumpInv, CopiesInv
<1> QED
  BY <1>4, <1>5, <1>6 DEF IInv, Shaped

(* A withdrawal, before the export. *)
LEMMA WithdrawingStep == ASSUME IInv, Withdrawing, Shaped, Withdraws(rows') PROVE IInv'
<1>1. TypeOK /\ StampedOnce
  BY DEF IInv
<1>2. dump = {} /\ dump' = {} /\ stamps' = stamps /\ fresh' = FALSE
  BY DEF Withdrawing
<1>3. TypeOK'
  BY <1>1, <1>2 DEF TypeOK, Shaped, Rows
<1>4. StampedOnce'
  BY <1>1, <1>2 DEF StampedOnce, Withdraws, Same
<1>5. DumpInv' /\ CopiesInv'
  BY <1>2, FS_EmptySet DEF DumpInv, CopiesInv
<1> QED
  BY <1>3, <1>4, <1>5 DEF IInv, Shaped

(* import_fact_row adds a row only when no row has its transaction time. *)
LEMMA ImportStep == ASSUME IInv, NEW d \in dump, ImportRow(d) PROVE IInv'
<1>1. TypeOK /\ Chained(rows) /\ StampedOnce /\ DumpInv /\ CopiesInv
  BY DEF IInv
<1>2. Shaped /\ Adds(rows', d) /\ \A i \in DOMAIN rows : rows'[i].live = rows[i].live
  BY <1>1, ImportRowAdds
<1>3. UNCHANGED <<stamps, dump, fresh>> /\ ~Known(d)
  BY DEF ImportRow, Recording
<1>4. \A i \in DOMAIN rows : rows[i].recorded # d.recorded
  BY <1>1, <1>3 DEF CopiesInv, Known, Same
<1>5. TypeOK'
  BY <1>1, <1>2, <1>3 DEF TypeOK, Shaped, Rows
<1>6. StampedOnce'
  BY <1>1, <1>2, <1>3, <1>4 DEF StampedOnce, Adds, Same, DumpInv
<1>7. DumpInv'
  BY <1>1, <1>3 DEF DumpInv, Later
<1>8. CopiesInv'
  <2>1. ASSUME NEW i \in DOMAIN rows', NEW e \in dump, rows'[i].recorded = e.recorded
        PROVE  rows'[i].live /\ Same(rows'[i], e)
    <3>1. CASE i \in DOMAIN rows
      BY <1>1, <1>2, <2>1, <3>1 DEF CopiesInv, Adds, Same
    <3>2. CASE i = NextRowid
      <4>1. e = d
        BY <1>1, <1>2, <2>1, <3>2 DEF DumpInv, Adds, Same
      <4> QED
        BY <1>2, <3>2, <4>1 DEF Adds
    <3> QED
      BY <1>2, <3>1, <3>2 DEF Adds
  <2>2. ASSUME fresh, NEW i \in DOMAIN rows' PROVE \E e \in dump : Same(rows'[i], e)
    BY <1>1, <1>2, <2>2 DEF CopiesInv, Adds, Same
  <2> QED
    BY <1>3, <2>1, <2>2 DEF CopiesInv
<1> QED
  BY <1>2, <1>5, <1>6, <1>7, <1>8 DEF IInv, Shaped

(* An export is the chain as it is, with each transaction time once. *)
LEMMA ExportStep == ASSUME IInv, ExportRows PROVE IInv'
<1> USE BoundAssumption
<1>1. TypeOK /\ Chained(rows) /\ StampedOnce /\ CopiesInv
  BY DEF IInv
<1> DEFINE L == {k \in DOMAIN rows : rows[k].live}
<1>2. dump = {} /\ stamps = Stamps /\ dump' = {rows[i] : i \in L} /\ UNCHANGED <<rows, stamps, fresh>>
  BY DEF ExportRows
<1>3. TypeOK'
  BY <1>1, <1>2 DEF TypeOK
<1>4. Chained(rows)' /\ StampedOnce'
  BY <1>1, <1>2 DEF Chained, Chain, EndsAtNext, Following, Before, StampedOnce
<1>5. \A d \in dump' : \E i \in L : d = rows[i]
  BY <1>2
<1>6. IsFiniteSet(dump')
  <2> DEFINE f == [i \in L |-> rows[i]]
  <2>1. IsFiniteSet(L)
    <3>1. IsFiniteSet(1..MaxRows) /\ L \in SUBSET (1..MaxRows)
      BY <1>1, FS_Interval DEF TypeOK
    <3> QED
      BY <3>1, FS_Subset
  <2>2. f \in Surjection(L, dump')
    BY <1>2 DEF Surjection
  <2> QED
    BY <2>1, <2>2, FS_Surjection
<1>7. \A i \in L, j \in L : Earlier(rows[i], rows[j]) <=> (Before(rows, i, j) /\ i # j)
  <2> SUFFICES ASSUME NEW i \in L, NEW j \in L
               PROVE  Earlier(rows[i], rows[j]) <=> (Before(rows, i, j) /\ i # j)
    OBVIOUS
  <2>1. rows[i] \in Row /\ rows[j] \in Row /\ i \in Nat /\ j \in Nat
        /\ (rows[i].recorded = rows[j].recorded => i = j)
    BY <1>1 DEF TypeOK, StampedOnce
  <2> QED
    BY <2>1 DEF Earlier, Before, Row, Times, Stamps
<1>8. \A d \in dump' : ~d.multi =>
          /\ \A e \in Later(d)' : d.to <= e.from
          /\ d.to = Forever \/ \E e \in Later(d)' : d.to = e.from
  <2> SUFFICES ASSUME NEW i \in L, ~rows[i].multi
               PROVE  /\ \A e \in Later(rows[i])' : rows[i].to <= e.from
                      /\ rows[i].to = Forever \/ \E e \in Later(rows[i])' : rows[i].to = e.from
    BY <1>2, <1>5 DEF Later
  <2>1. i \in Chain(rows) /\ EndsAtNext(rows, i)
    BY <1>1 DEF Chain, Chained
  <2>2. Following(rows, i) \subseteq L /\ i \notin Following(rows, i)
    BY <1>1 DEF Following, Chain, Before, TypeOK, Row, Times, Stamps
  <2>3. \A e \in Later(rows[i])' : \E j \in Following(rows, i) : e = rows[j]
    <3> SUFFICES ASSUME NEW j \in L, ~rows[j].multi, Earlier(rows[i], rows[j])
                 PROVE  j \in Following(rows, i)
      BY <1>2, <1>5 DEF Later, Earlier
    <3> QED
      BY <1>7 DEF Following, Chain
  <2>4. \A j \in Following(rows, i) : rows[j] \in Later(rows[i])'
    <3> SUFFICES ASSUME NEW j \in Following(rows, i) PROVE rows[j] \in Later(rows[i])'
      OBVIOUS
    <3>1. j \in L /\ ~rows[j].multi /\ Earlier(rows[i], rows[j])
      BY <1>7, <2>2 DEF Following, Chain
    <3> QED
      BY <1>2, <3>1 DEF Later, Earlier
  <2> QED
    BY <2>1, <2>3, <2>4 DEF EndsAtNext
<1>9. DumpInv'
  <2>1. \A d, e \in dump' : d.recorded = e.recorded => d = e
    BY <1>1, <1>5 DEF StampedOnce
  <2>2. \A d \in dump' : d.live /\ d.recorded \in stamps'
    BY <1>1, <1>2, <1>5 DEF StampedOnce
  <2> QED
    BY <1>2, <1>6, <1>8, <2>1, <2>2 DEF DumpInv
<1>10. CopiesInv'
  <2>1. \A i \in DOMAIN rows, d \in dump' : rows[i].recorded = d.recorded => rows[i].live /\ Same(rows[i], d)
    BY <1>1, <1>5 DEF StampedOnce, Same
  <2>2. fresh => DOMAIN rows = {}
    BY <1>1, <1>2 DEF CopiesInv
  <2> QED
    BY <1>2, <2>1, <2>2 DEF CopiesInv
<1> QED
  BY <1>3, <1>4, <1>9, <1>10 DEF IInv

LEMMA NewStoreStep == ASSUME IInv, NewStore PROVE IInv'
<1>1. TypeOK /\ DumpInv
  BY DEF IInv
<1>2. DOMAIN rows' = {} /\ fresh' = TRUE /\ UNCHANGED <<stamps, dump>>
  BY DEF NewStore, NoRows
<1>3. TypeOK' /\ Chained(rows)'
  BY <1>1, <1>2 DEF TypeOK, Chained, Chain
<1>4. StampedOnce' /\ DumpInv' /\ CopiesInv'
  BY <1>1, <1>2 DEF StampedOnce, DumpInv, Later, CopiesInv
<1> QED
  BY <1>3, <1>4 DEF IInv

(* Every operation adds a row or withdraws some; and the invariant. *)
LEMMA StepInv ==
    ASSUME IInv, [Next]_vars
    PROVE  IInv' /\ (Withdraws(rows') \/ \E row : Adds(rows', row))
<1>1. TypeOK /\ Chained(rows)
  BY DEF IInv
<1>2. ASSUME NEW v \in Values, NEW t \in Times, NEW rec \in Stamps, AddFact(v, t, rec)
      PROVE  IInv' /\ \E row : Adds(rows', row)
  <2>1. StampedNew(rec) /\ UNCHANGED dump /\ NewRow(v, TRUE, t, rec).recorded = rec
    BY <1>2 DEF AddFact, Recording, NewRow
  <2> QED
    BY <1>1, <1>2, <2>1, AddFactAdds, StampedStep
<1>3. ASSUME NEW v \in Values, NEW t \in Times, NEW rec \in Stamps, NEW c \in BOOLEAN, SetFact(v, t, c, rec)
      PROVE  IInv' /\ \E row : Adds(rows', row)
  <2>1. StampedNew(rec) /\ UNCHANGED dump /\ NewRow(v, FALSE, t, rec).recorded = rec
    BY <1>3 DEF SetFact, Recording, NewRow
  <2> QED
    BY <1>1, <1>3, <2>1, SetFactAdds, StampedStep
<1>4. ASSUME NEW v \in Values, NEW t \in Times, RemoveFact(v, t) PROVE IInv' /\ Withdraws(rows')
  BY <1>1, <1>4, RemoveFactWithdraws, WithdrawingStep DEF RemoveFact
<1>5. ASSUME NEW S, RetractFact(S) PROVE IInv' /\ Withdraws(rows')
  BY <1>1, <1>5, RetractFactWithdraws, WithdrawingStep DEF RetractFact
<1>6. ASSUME NEW v \in Values, DeleteFact(v) PROVE IInv' /\ Withdraws(rows')
  BY <1>1, <1>6, DeleteFactWithdraws, WithdrawingStep DEF DeleteFact
<1>7. ASSUME DeleteAll PROVE IInv' /\ Withdraws(rows')
  BY <1>7, EmptiedWithdraws, WithdrawingStep DEF DeleteAll
<1>8. ASSUME NEW S, NEW secure \in BOOLEAN, ForgetSource(S, secure) PROVE IInv' /\ Withdraws(rows')
  BY <1>1, <1>8, ForgetSourceWithdraws, WithdrawingStep DEF ForgetSource
<1>9. ASSUME NEW d \in dump, ImportRow(d) PROVE IInv' /\ \E row : Adds(rows', row)
  BY <1>1, <1>9, ImportStep, ImportRowAdds
<1>10. UNCHANGED rows => Withdraws(rows')
  BY DEF Withdraws, Same
<1>11. ASSUME ExportRows PROVE IInv' /\ Withdraws(rows')
  BY <1>10, <1>11, ExportStep DEF ExportRows
<1>12. ASSUME NewStore PROVE IInv' /\ Withdraws(rows')
  BY <1>12, NewStoreStep, EmptiedWithdraws DEF NewStore
<1>13. ASSUME UNCHANGED vars PROVE IInv' /\ Withdraws(rows')
  BY <1>10, <1>13 DEF vars, IInv, TypeOK, Chained, Chain, EndsAtNext, Following, Before, StampedOnce,
                      DumpInv, Later, CopiesInv
<1> QED
  BY <1>2, <1>3, <1>4, <1>5, <1>6, <1>7, <1>8, <1>9, <1>11, <1>12, <1>13
     DEF Next, RetractAll, RetractValue

LEMMA InvAlways == Spec => []IInv
<1>1. Init => IInv
  BY InitInv
<1>2. IInv /\ [Next]_vars => IInv'
  BY StepInv
<1> QED
  BY <1>1, <1>2, PTL DEF Spec

----------------------------------------------------------------------------
(* The theorems. *)

(* Rows, transaction times and exports keep their shape whatever is set, added, ended, retracted, *)
(* deleted, forgotten, exported and imported. *)
THEOREM FactsTyped == Spec => []TypeOK
<1>1. IInv => TypeOK
  BY DEF IInv
<1> QED
  BY <1>1, InvAlways, PTL

(* fact_at: the value that holds at a time is the latest assertion about it, whatever order *)
(* assertions, corrections and withdrawals arrived in. *)
LEMMA ChainedAnswers == TypeOK /\ Chained(rows) => AsOfIsLatestAssertion
<1> SUFFICES ASSUME TypeOK, Chained(rows), NEW x \in Times, NEW i \in Chain(rows)
             PROVE  Covers(rows[i], x) <=>
                      /\ rows[i].from <= x
                      /\ \A j \in Chain(rows) : rows[j].from <= x => ~Before(rows, i, j)
  BY DEF AsOfIsLatestAssertion
<1> USE BoundAssumption
<1>1. rows[i] \in Row /\ rows[i].live /\ EndsAtNext(rows, i)
  BY DEF TypeOK, Chain, Chained
<1>2. \A j \in Chain(rows) : rows[j] \in Row
  BY DEF TypeOK, Chain
<1>3. ASSUME Covers(rows[i], x), NEW j \in Chain(rows), rows[j].from <= x, Before(rows, i, j) PROVE FALSE
  <2>1. rows[i].to <= rows[j].from
    BY <1>1, <1>3 DEF EndsAtNext, Following
  <2> QED
    BY <1>1, <1>2, <1>3, <2>1 DEF Covers, Row, Times, Forever
<1>4. ASSUME rows[i].from <= x, \A j \in Chain(rows) : rows[j].from <= x => ~Before(rows, i, j)
      PROVE  Covers(rows[i], x)
  <2>1. CASE rows[i].to = Forever
    BY <1>1, <1>4, <2>1 DEF Covers, Times, Forever
  <2>2. CASE \E j \in Following(rows, i) : rows[i].to = rows[j].from
    <3>1. PICK j \in Following(rows, i) : rows[i].to = rows[j].from
      BY <2>2
    <3>2. j \in Chain(rows) /\ Before(rows, i, j) /\ ~(rows[j].from <= x)
      BY <1>4, <3>1 DEF Following
    <3> QED
      BY <1>1, <1>2, <1>4, <3>1, <3>2 DEF Covers, Row, Times
  <2> QED
    BY <1>1, <2>1, <2>2 DEF EndsAtNext
<1> QED
  BY <1>3, <1>4 DEF Covers

THEOREM AsOfIsLatest == Spec => []AsOfIsLatestAssertion
<1>1. IInv => AsOfIsLatestAssertion
  BY ChainedAnswers DEF IInv
<1> QED
  BY <1>1, InvAlways, PTL

(* import_fact_row: of one assertion there is never a second live row. *)
THEOREM ImportedOnceAlways == Spec => []ImportedOnce
<1>1. IInv => ImportedOnce
  BY DEF IInv, StampedOnce, ImportedOnce
<1> QED
  BY <1>1, InvAlways, PTL

(* "Facts are never overwritten": an operation adds a row or withdraws some, the rest of the row *)
(* is as it was, and what is withdrawn stays so. *)
THEOREM HistoryIsNotRewritten == Spec => NothingRewritten
<1> DEFINE Kept == \A i \in DOMAIN rows \cap DOMAIN rows' :
        /\ \A f \in {"value", "multi", "from", "recorded"} : rows'[i][f] = rows[i][f]
        /\ rows'[i].live => rows[i].live
<1>1. IInv /\ [Next]_vars => Kept
  <2> SUFFICES ASSUME IInv, [Next]_vars PROVE Kept
    OBVIOUS
  <2>1. Withdraws(rows') \/ \E row : Adds(rows', row)
    BY StepInv
  <2> QED
    BY <2>1 DEF Withdraws, Adds, Same
<1>2. Spec => [][Kept]_vars
  <2>1. IInv /\ [Next]_vars => [Kept]_vars
    BY <1>1
  <2> QED
    BY <2>1, InvAlways, PTL DEF Spec
<1> QED
  BY <1>2 DEF NothingRewritten

(* A restore is complete when there is one row per exported one: then the rows are the exported *)
(* ones, and each ends where its original did. *)
LEMMA RestoredAnswers == IInv => RestoredChain
<1> SUFFICES ASSUME IInv, Restored, NEW x \in Times
             PROVE  HeldAt({rows[i] : i \in DOMAIN rows}, FALSE, x) = HeldAt(dump, FALSE, x)
  BY DEF RestoredChain
<1> USE BoundAssumption
<1>1. TypeOK /\ Chained(rows) /\ StampedOnce /\ DumpInv /\ CopiesInv /\ fresh
  BY DEF IInv, Restored
<1> DEFINE f == [i \in DOMAIN rows |-> CHOOSE d \in dump : Same(rows[i], d)]
<1>2. \A i \in DOMAIN rows : f[i] \in dump /\ Same(rows[i], f[i]) /\ rows[i].live /\ f[i].live
  <2> SUFFICES ASSUME NEW i \in DOMAIN rows
               PROVE  f[i] \in dump /\ Same(rows[i], f[i]) /\ rows[i].live /\ f[i].live
    OBVIOUS
  <2>1. \E d \in dump : Same(rows[i], d)
    BY <1>1 DEF CopiesInv
  <2>2. f[i] \in dump /\ Same(rows[i], f[i])
    BY <2>1
  <2> QED
    BY <1>1, <2>2 DEF CopiesInv, DumpInv, Same
<1>3. DOMAIN f = DOMAIN rows
  OBVIOUS
<1> HIDE DEF f
<1>4. \A i, j \in DOMAIN rows : f[i] = f[j] => i = j
  BY <1>1, <1>2 DEF StampedOnce, Same
<1>5. \A d \in dump : \E i \in DOMAIN rows : f[i] = d
  <2>1. f \in Injection(DOMAIN rows, dump)
    <3>1. f \in [DOMAIN rows -> dump]
      BY <1>2, <1>3 DEF f
    <3>2. \A i, j \in DOMAIN rows : f[i] = f[j] => i = j
      BY <1>4
    <3> QED
      BY <3>1, <3>2 DEF Injection, IsInjective
  <2>2. IsFiniteSet(dump) /\ Cardinality(DOMAIN rows) = Cardinality(dump)
    BY <1>1 DEF DumpInv, Restored
  <2>3. f \in Surjection(DOMAIN rows, dump)
    BY <2>1, <2>2, FS_Injection
  <2> QED
    BY <2>3 DEF Surjection
<1>6. \A i \in DOMAIN rows : rows[i] \in Row /\ f[i] \in Row /\ i \in Nat
  BY <1>1, <1>2 DEF TypeOK
<1>7. ASSUME NEW i \in Chain(rows), NEW j \in Chain(rows)
      PROVE  f[j] \in Later(f[i]) <=> j \in Following(rows, i)
  <2>1. rows[i].recorded = rows[j].recorded => i = j
    BY <1>1 DEF StampedOnce, Chain
  <2>2. Same(rows[i], f[i]) /\ Same(rows[j], f[j]) /\ f[j] \in dump /\ ~rows[j].multi
    BY <1>2 DEF Chain
  <2> QED
    BY <1>6, <2>1, <2>2 DEF Following, Later, Earlier, Before, Same, Row, Times, Stamps, Chain
<1>8. ASSUME NEW i \in Chain(rows) PROVE rows[i].to = f[i].to
  <2>1. \A e \in Later(f[i]) : \E j \in Following(rows, i) : e = f[j] /\ e.from = rows[j].from
    <3> SUFFICES ASSUME NEW e \in Later(f[i])
                 PROVE  \E j \in Following(rows, i) : e = f[j] /\ e.from = rows[j].from
      OBVIOUS
    <3>1. PICK j \in DOMAIN rows : f[j] = e
      BY <1>5 DEF Later
    <3>2. j \in Chain(rows) /\ e.from = rows[j].from
      BY <1>2, <3>1 DEF Later, Chain, Same
    <3> QED
      BY <1>7, <3>1, <3>2
  <2>2. \A j \in Following(rows, i) : f[j] \in Later(f[i]) /\ f[j].from = rows[j].from
    BY <1>2, <1>7 DEF Following, Chain, Same
  <2>3. EndsAtNext(rows, i)
    BY <1>1 DEF Chained
  <2>4. f[i] \in dump /\ ~f[i].multi
    BY <1>2 DEF Chain, Same
  <2>5. /\ \A e \in Later(f[i]) : f[i].to <= e.from
        /\ f[i].to = Forever \/ \E e \in Later(f[i]) : f[i].to = e.from
    BY <1>1, <2>4 DEF DumpInv
  <2>6. i \in DOMAIN rows /\ \A j \in Following(rows, i) : j \in DOMAIN rows
    BY DEF Chain, Following
  <2>7. CASE rows[i].to = Forever
    <3>1. ASSUME NEW e \in Later(f[i]), f[i].to = e.from PROVE FALSE
      <4>1. PICK j \in Following(rows, i) : e.from = rows[j].from
        BY <2>1
      <4>2. rows[i].to <= rows[j].from /\ rows[j].from \in Times
        BY <1>6, <2>3, <2>6 DEF EndsAtNext, Row
      <4> QED
        BY <2>7, <4>2 DEF Times, Forever
    <3> QED
      BY <2>5, <2>7, <3>1
  <2>8. CASE \E j \in Following(rows, i) : rows[i].to = rows[j].from
    <3>1. PICK j \in Following(rows, i) : rows[i].to = rows[j].from
      BY <2>8
    <3>2. f[i].to <= rows[j].from /\ rows[j].from \in Times
      BY <1>6, <2>2, <2>5, <2>6, <3>1 DEF Row
    <3>3. f[i].to # Forever
      BY <1>6, <2>6, <3>2 DEF Times, Forever
    <3>4. PICK e \in Later(f[i]) : f[i].to = e.from
      BY <2>5, <3>3
    <3>5. PICK k \in Following(rows, i) : e.from = rows[k].from
      BY <2>1
    <3>6. rows[i].to <= rows[k].from /\ rows[k].from \in Times
      BY <1>6, <2>3, <2>6 DEF EndsAtNext, Row
    <3> QED
      BY <3>1, <3>2, <3>4, <3>5, <3>6 DEF Times
  <2> QED
    BY <2>3, <2>7, <2>8 DEF EndsAtNext
<1>9. ASSUME NEW i \in DOMAIN rows
      PROVE  (Covers(rows[i], x) /\ ~rows[i].multi) <=> (Covers(f[i], x) /\ ~f[i].multi)
  <2>1. rows[i].live /\ f[i].live /\ rows[i].multi = f[i].multi /\ rows[i].from = f[i].from
    BY <1>2 DEF Same
  <2>2. CASE rows[i].multi
    BY <2>1, <2>2
  <2>3. CASE ~rows[i].multi
    <3>1. rows[i].to = f[i].to
      BY <1>8, <2>1, <2>3 DEF Chain
    <3> QED
      BY <2>1, <3>1 DEF Covers
  <2> QED
    BY <2>2, <2>3
<1>10. ASSUME NEW i \in DOMAIN rows PROVE f[i] \in dump /\ rows[i].value = f[i].value
  BY <1>2 DEF Same
<1>11. \A i \in DOMAIN rows : rows[i].multi \in BOOLEAN /\ f[i].multi \in BOOLEAN
  BY <1>6 DEF Row
<1>12. HeldAt({rows[i] : i \in DOMAIN rows}, FALSE, x)
          = {rows[i].value : i \in {k \in DOMAIN rows : Covers(rows[k], x) /\ ~rows[k].multi}}
  BY <1>11 DEF HeldAt
<1>13. HeldAt(dump, FALSE, x) = {f[i].value : i \in {k \in DOMAIN rows : Covers(f[k], x) /\ ~f[k].multi}}
  BY <1>5, <1>10, <1>11 DEF HeldAt
<1> QED
  BY <1>9, <1>10, <1>12, <1>13

(* portability.py: valid_to is derived on import, and the chain it is derived for is the exported one. *)
THEOREM RestoredAlways == Spec => []RestoredChain
<1>1. IInv => RestoredChain
  BY RestoredAnswers
<1> QED
  BY <1>1, InvAlways, PTL

================================================================================
