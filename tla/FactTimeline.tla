------------------------------ MODULE FactTimeline ------------------------------
(* The bi-temporal fact rows of one (agent, subject, attribute): facts.py,        *)
(* facts_multi.py, fact_import.py, and the cascades of lifecycle.py.               *)
(*                                                                                 *)
(* Every operation is one write transaction and so one step here; operations that  *)
(* cover several attributes do the same to each timeline.  fact_set reads the clock  *)
(* before it waits for the transaction, so of two writers the later one to commit   *)
(* may hold the earlier recorded_at: a write takes any stamp not used yet.          *)
(* valid_to = NULL is Forever, which is later than every valid time.                *)
EXTENDS Naturals, FiniteSets

CONSTANTS
    Values,     \* typed values, told apart by encode_value
    Typed,      \* those that are not plain text
    Texts,      \* their renderings
    TextOf,     \* value_text
    LastTime,   \* bound: valid times are 0..LastTime
    MaxRows,    \* bound: rows of the table
    MaxWrites   \* bound: recorded_at is in 1..MaxWrites

ASSUME ValueAssumption  == Typed \subseteq Values /\ TextOf \in [Values -> Texts]
ASSUME BoundAssumption  == LastTime \in Nat /\ MaxRows \in Nat /\ MaxWrites \in Nat

VARIABLES
    rows,    \* the facts table: rowid -> row
    stamps,  \* values of recorded_at used so far
    dump,    \* the rows in the last export file, with the valid_to it leaves out
    fresh    \* has the store only been imported into since it was created?

vars == <<rows, stamps, dump, fresh>>

Times == 0..LastTime
Stamps == 1..MaxWrites
Forever == LastTime + 1
Row == [value : Values, multi : BOOLEAN, from : Times, to : Times \cup {Forever},
        recorded : {0} \cup Stamps, live : BOOLEAN]

TypeOK ==
    /\ DOMAIN rows \subseteq 1..MaxRows
    /\ \A i \in DOMAIN rows : rows[i] \in Row
    /\ stamps \subseteq Stamps
    /\ dump \in SUBSET Row
    /\ fresh \in BOOLEAN

NoRows == [i \in {} |-> 0]

Init ==
    /\ rows = NoRows
    /\ stamps = {}
    /\ dump = {}
    /\ fresh = TRUE

----------------------------------------------------------------------------
(* The timeline. *)

(* ORDER BY valid_from, recorded_at, rowid *)
Before(R, i, j) ==
    \/ R[i].from < R[j].from
    \/ R[i].from = R[j].from /\ R[i].recorded < R[j].recorded
    \/ R[i].from = R[j].from /\ R[i].recorded = R[j].recorded /\ i < j

Chain(R) == {i \in DOMAIN R : R[i].live /\ ~R[i].multi}

(* Mutant: values of one time do not follow each other. *)
FollowingLater(R, i) == {j \in Chain(R) : R[i].from < R[j].from}
Following(R, i) == {j \in Chain(R) : Before(R, i, j)}

(* _rechain_facts: each row of the chain ends where the next begins. *)
Rechained(R) ==
    [i \in DOMAIN R |->
        IF i \notin Chain(R) THEN R[i]
        ELSE [R[i] EXCEPT !.to =
                IF Following(R, i) = {} THEN Forever
                ELSE CHOOSE t \in Times : /\ \E j \in Following(R, i) : R[j].from = t
                                          /\ \A j \in Following(R, i) : t <= R[j].from]]

Covers(row, x) == row.live /\ row.from <= x /\ x < row.to

(* Rows of the timeline still open at t, or starting later (_open_rows). *)
OpenAt(t) == {i \in DOMAIN rows : rows[i].live /\ rows[i].to > t}

----------------------------------------------------------------------------
(* Writes. *)

NextRowid == IF DOMAIN rows = {} THEN 1
             ELSE 1 + CHOOSE i \in DOMAIN rows : \A j \in DOMAIN rows : j <= i

(* Mutant: the end is computed, not left open. *)
NewRowEnded(v, multi, t, rec) ==
    [value |-> v, multi |-> multi, from |-> t, to |-> t + 2, recorded |-> rec,
     live |-> TRUE]
NewRow(v, multi, t, rec) ==
    [value |-> v, multi |-> multi, from |-> t, to |-> Forever, recorded |-> rec,
     live |-> TRUE]

With(R, row) == [i \in DOMAIN R \cup {NextRowid} |-> IF i = NextRowid THEN row ELSE R[i]]
Without(S) == [i \in DOMAIN rows \ S |-> rows[i]]
Retracted(S) == [i \in DOMAIN rows |-> IF i \in S THEN [rows[i] EXCEPT !.live = FALSE]
                                       ELSE rows[i]]
(* fact_set ends the added values that began by t. *)
Ended(R, t) == [i \in DOMAIN R |->
    IF R[i].multi /\ R[i].from <= t /\ R[i].to > t /\ R[i].live
    THEN [R[i] EXCEPT !.to = t] ELSE R[i]]

Recording == /\ NextRowid <= MaxRows
             /\ UNCHANGED dump

StampedNew(rec) == /\ rec \in Stamps \ stamps
                   /\ stamps' = stamps \cup {rec}
                   /\ fresh' = FALSE

Withdrawing == /\ dump = {}        \* bound: nothing is withdrawn after the export
               /\ fresh' = FALSE
               /\ UNCHANGED <<stamps, dump>>

(* Mutant: a correction rewrites the rows in place. *)
Overwritten(S, v) == [i \in DOMAIN rows |-> IF i \in S THEN [rows[i] EXCEPT !.value = v]
                                            ELSE rows[i]]
Corrected(S, v) == Retracted(S)

(* fact_set: re-asserting the latest value of its time writes nothing. *)
SetFact(v, t, correction, rec) ==
    LET same == {i \in Chain(rows) : rows[i].from = t}
        kept == IF correction THEN Corrected(same, v) ELSE rows
    IN
    /\ Recording /\ StampedNew(rec)
    /\ correction \/ ~\E i \in same : /\ rows[i].value = v
                                      /\ \A j \in same : ~Before(rows, i, j)
    /\ rows' = Rechained(Ended(With(kept, NewRow(v, FALSE, t, rec)), t))

(* fact_add: adding a value that is open at t, or later, writes nothing. *)
AddFact(v, t, rec) ==
    /\ Recording /\ StampedNew(rec)
    /\ ~\E i \in OpenAt(t) : rows[i].value = v
    /\ rows' = With(rows, NewRow(v, TRUE, t, rec))

(* fact_remove: only added values are ended. *)
RemoveFact(v, t) ==
    LET S == {i \in OpenAt(t) : rows[i].multi /\ rows[i].value = v} IN
    /\ S # {}
    /\ rows' = [i \in DOMAIN rows |-> IF i \in S THEN [rows[i] EXCEPT !.to = t] ELSE rows[i]]
    /\ Withdrawing

(* fact_retract: the whole timeline, or the rows of a value however it is typed. *)
RetractFact(S) ==
    /\ S # {} /\ \A i \in S : rows[i].live
    /\ Withdrawing
    /\ rows' = Rechained(Retracted(S))

RetractAll == RetractFact({i \in DOMAIN rows : rows[i].live})
RetractValue(v) ==
    RetractFact({i \in DOMAIN rows : rows[i].live /\ TextOf[rows[i].value] = TextOf[v]})

(* The stored (encoded) value is compared with str(value). *)
Matches(i, v) == rows[i].value \notin Typed /\ TextOf[rows[i].value] = TextOf[v]

(* fact_delete: retracted rows as well, whatever the value asked for was. *)
DeleteFact(v) ==
    /\ Withdrawing
    /\ rows' = Rechained(Without({i \in DOMAIN rows : Matches(i, v)}))

DeleteAll ==
    /\ rows' = NoRows
    /\ Withdrawing

(* _cascade_facts of forget_fragment, plain and secure.  S are the rows extracted *)
(* from one fragment: which of them were is left open.                             *)
ForgetSource(S, secure) ==
    /\ S # {}
    /\ Withdrawing
    /\ rows' = Rechained(IF secure THEN Without(S) ELSE Retracted(S))

----------------------------------------------------------------------------
(* export_jsonl and import_jsonl. *)

ExportRows ==
    /\ dump = {} /\ stamps = Stamps    \* bound: one export, after the last write
    /\ dump' = {rows[i] : i \in {k \in DOMAIN rows : rows[k].live}}
    /\ UNCHANGED <<rows, stamps, fresh>>

(* A new, empty store to restore into. *)
NewStore ==
    /\ dump # {}
    /\ rows' = NoRows
    /\ fresh' = TRUE
    /\ UNCHANGED <<stamps, dump>>

(* Mutant: only the latest value of that time is looked at, as fact_set does. *)
LatestIs(d) ==
    \E i \in DOMAIN rows : /\ rows[i].live /\ rows[i].from = d.from /\ rows[i].value = d.value
                           /\ \A j \in DOMAIN rows : rows[j].live => ~Before(rows, i, j)
Known(d) ==
    \E i \in DOMAIN rows : /\ rows[i].live /\ rows[i].from = d.from
                           /\ rows[i].value = d.value /\ rows[i].recorded = d.recorded

(* Mutant: the import does not carry recorded_at over. *)
RecordedUnknown(d) == 0
RecordedAt(d) == d.recorded

(* import_fact_row. *)
ImportRow(d) ==
    LET R == With(rows, NewRow(d.value, d.multi, d.from, RecordedAt(d))) IN
    /\ Recording
    /\ ~Known(d)
    /\ rows' = IF d.multi THEN R ELSE Rechained(R)
    /\ UNCHANGED <<stamps, fresh>>

Next ==
    \/ \E v \in Values, t \in Times, rec \in Stamps :
          AddFact(v, t, rec) \/ \E c \in BOOLEAN : SetFact(v, t, c, rec)
    \/ \E v \in Values, t \in Times : RemoveFact(v, t)
    \/ \E v \in Values : RetractValue(v) \/ DeleteFact(v)
    \/ RetractAll \/ DeleteAll
    \/ \E S \in SUBSET DOMAIN rows, secure \in BOOLEAN : ForgetSource(S, secure)
    \/ \E d \in dump : ImportRow(d)
    \/ ExportRows
    \/ NewStore

Spec == Init /\ [][Next]_vars

----------------------------------------------------------------------------
(* Properties. *)

(* At every time the one value of the chain that holds is the assertion with the     *)
(* latest valid_from, then the latest recording: no gap, no overlap, and never the     *)
(* order of arrival (facts.py: "out-of-order arrivals slot into history").             *)
AsOfIsLatestAssertion ==
    \A x \in Times :
        {i \in Chain(rows) : Covers(rows[i], x)} =
        {i \in Chain(rows) : /\ rows[i].from <= x
                             /\ \A j \in Chain(rows) : rows[j].from <= x => ~Before(rows, i, j)}

(* A row's value, start and transaction time never change, and a withdrawn row stays  *)
(* withdrawn: every answer the store gave can be audited ("Facts are never             *)
(* overwritten").                                                                       *)
NothingRewritten ==
    [][\A i \in DOMAIN rows \cap DOMAIN rows' :
        /\ \A f \in {"value", "multi", "from", "recorded"} : rows'[i][f] = rows[i][f]
        /\ rows'[i].live => rows[i].live]_vars

(* However often an export is imported, beside new writes, each of its rows is there    *)
(* once (fact_import.py: "add an exported fact row once").                               *)
ImportedOnce ==
    \A i, j \in DOMAIN rows :
        /\ rows[i].live /\ rows[j].live
        /\ rows[i].value = rows[j].value /\ rows[i].from = rows[j].from
        /\ rows[i].recorded = rows[j].recorded
        => i = j

Restored == fresh /\ Cardinality(DOMAIN rows) = Cardinality(dump)
HeldAt(R, multi, x) == {r.value : r \in {q \in R : Covers(q, x) /\ q.multi = multi}}

(* A restored chain gives the answers the exported one gave, in whatever order its       *)
(* rows were imported (portability.py: "valid_to is derived on import").                  *)
RestoredChain ==
    Restored => \A x \in Times :
        HeldAt({rows[i] : i \in DOMAIN rows}, FALSE, x) = HeldAt(dump, FALSE, x)

================================================================================
