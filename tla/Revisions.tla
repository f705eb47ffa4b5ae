-------------------------------- MODULE Revisions --------------------------------
(* Revising memories: memory/facade/revisions.py, with the whole-row write-backs     *)
(* (feedback) and deletions that meet it.  A revision is a walk along superseded_by,   *)
(* the write of a new row and the write-back of the copy of the old row: statements     *)
(* of their own, with other callers, a crash or forget() between any two of them.       *)
EXTENDS Integers, Sequences, FiniteSets

CONSTANTS
    Callers,    \* threads that revise, in one or several processes
    Ops,        \* what they call: "supersede", "resolve", "feedback"
    Roots,      \* memories 1..Roots are there at the start
    MaxMade,    \* bound: memories are 1..MaxMade, numbered as they are stored
    Resolvable, \* first versions whose kind is in RESOLVABLE_KINDS
    NoRow

ASSUME CallAssumption == Ops \subseteq {"supersede", "resolve", "feedback"}
ASSUME SizeAssumption == /\ Roots \in Nat \ {0} /\ MaxMade \in Nat /\ Roots <= MaxMade
                         /\ Resolvable \subseteq 1..Roots
ASSUME RowAssumption  == NoRow \notin [by : Nat, prev : Nat, history : Seq(Nat),
                                       tags : SUBSET {"superseded", "resolved"}]

VARIABLES
    rows,      \* the fragment rows of one agent
    made,      \* how many memories were ever stored
    forgotten, \* (history) first versions of the memories that were deleted
    unrest,    \* (history) what has disturbed a revision so far
    calls      \* the local state of each caller

vars == <<rows, made, forgotten, unrest, calls>>

Ids == 1..MaxMade
None == 0
Tags == {"superseded", "resolved"}
(* by: superseded_by; prev: supersedes.                                               *)
Row == [by : Ids \cup {None}, prev : Ids \cup {None}, history : Seq(Ids), tags : SUBSET Tags]
First == [by |-> None, prev |-> None, history |-> <<>>, tags |-> {}]
Steps == {"idle", "require", "walk", "remember", "write"}
(* at: the memory in hand; copy: its row as read; seen: ids of the walk; new: what      *)
(* replaces it.                                                                           *)
Call == [pc : Steps, op : Ops \cup {"none"}, at : Ids, copy : Row, seen : SUBSET Ids, new : Ids \cup {None}]

NoCall == [pc |-> "idle", op |-> "none", at |-> 1, copy |-> First, seen |-> {}, new |-> None]

TypeOK ==
    /\ rows \in [Ids -> Row \cup {NoRow}]
    /\ made \in 0..MaxMade
    /\ forgotten \subseteq Ids
    /\ unrest \subseteq {"overlap", "broken", "gap"}
    /\ calls \in [Callers -> Call]

Init ==
    /\ rows = [i \in Ids |-> IF i <= Roots THEN First ELSE NoRow]
    /\ made = Roots
    /\ forgotten = {}
    /\ unrest = {}
    /\ calls = [c \in Callers |-> NoCall]

Stored(i) == i \in Ids /\ rows[i] # NoRow
Resolved(row) == "resolved" \in row.tags
Open(i) == Stored(i) /\ rows[i].tags = {}
Root(i) == IF rows[i].history = <<>> THEN i ELSE Head(rows[i].history)

----------------------------------------------------------------------------
(* _require and _current. *)

Goto(c, f) == calls' = [calls EXCEPT ![c] = f]
Kept == UNCHANGED <<rows, made, forgotten, unrest>>

Begin(c, op, i) ==
    /\ calls[c].pc = "idle"
    /\ i <= made
    /\ Goto(c, [calls[c] EXCEPT !.pc = "require", !.op = op, !.at = i])
    /\ unrest' = IF \A d \in Callers \ {c} : calls[d].pc = "idle" THEN unrest
                 ELSE unrest \cup {"overlap"}
    /\ UNCHANGED <<rows, made, forgotten>>

Missing(c) ==
    /\ calls[c].pc = "require" /\ ~Stored(calls[c].at)
    /\ Goto(c, NoCall) /\ Kept

(* A memory that is already resolved is left as it is. *)
Require(c) ==
    LET k == calls[c] IN
    /\ k.pc = "require" /\ Stored(k.at)
    /\ Goto(c, IF k.op = "resolve" /\ Resolved(rows[k.at]) THEN NoCall
               ELSE [k EXCEPT !.copy = rows[k.at], !.seen = {k.at},
                              !.pc = IF k.op = "feedback" THEN "write" ELSE "walk"])
    /\ Kept

(* Mutant: the memory asked for is revised, superseded or not. *)
NoNewer(k) == FALSE
(* Mutant: a link is followed to a memory that was forgotten. *)
AnyLink(k) == k.copy.by # None /\ k.copy.by \notin k.seen
Newer(k) == Stored(k.copy.by) /\ k.copy.by \notin k.seen

Follow(c) ==
    LET k == calls[c] IN
    /\ k.pc = "walk" /\ Newer(k)
    /\ Goto(c, [k EXCEPT !.at = k.copy.by, !.copy = rows[k.copy.by], !.seen = @ \cup {k.copy.by}])
    /\ Kept

MayResolve(k) ==
    /\ ~Resolved(k.copy)
    /\ (IF k.copy.history = <<>> THEN k.at ELSE Head(k.copy.history)) \in Resolvable

Arrive(c) ==
    LET k == calls[c] IN
    /\ k.pc = "walk" /\ ~Newer(k)
    /\ Goto(c, IF k.op = "supersede" THEN [k EXCEPT !.pc = "remember"]
               ELSE IF MayResolve(k) THEN [k EXCEPT !.pc = "write"] ELSE NoCall)
    /\ Kept

----------------------------------------------------------------------------
(* The writes. *)

NewVersion(k) == [by |-> None, prev |-> k.at, history |-> Append(k.copy.history, k.at), tags |-> {}]

(* Mutant: remember answers with the id before the row is stored. *)
Promise(c) ==
    LET k == calls[c] IN
    /\ k.pc = "remember" /\ made < MaxMade
    /\ made' = made + 1
    /\ Goto(c, [k EXCEPT !.pc = "write", !.new = made + 1])
    /\ UNCHANGED <<rows, forgotten, unrest>>

Remember(c) ==
    LET k == calls[c] IN
    /\ k.pc = "remember" /\ made < MaxMade
    /\ rows' = [rows EXCEPT ![made + 1] = NewVersion(k)]
    /\ made' = made + 1
    /\ Goto(c, [k EXCEPT !.pc = "write", !.new = made + 1])
    /\ UNCHANGED <<forgotten, unrest>>

Retired(k) == [k.copy EXCEPT !.by = k.new, !.tags = @ \cup {"superseded"}]
Written(k) == IF k.op = "supersede" THEN Retired(k)
              ELSE IF k.op = "resolve" THEN [k.copy EXCEPT !.tags = Tags] ELSE k.copy

(* _retire and feedback: the whole copied row is stored, whatever is there by now. *)
WriteBack(c) ==
    LET k == calls[c] IN
    /\ k.pc = "write"
    /\ rows' = [rows EXCEPT ![k.at] = Written(k)]
    /\ Goto(c, NoCall)
    /\ UNCHANGED <<made, forgotten, unrest>>

(* A middleware refuses, the store closes or the process dies. *)
Stop(c) ==
    /\ calls[c].pc # "idle"
    /\ Goto(c, NoCall)
    /\ unrest' = IF calls[c].pc = "write" THEN unrest \cup {"broken"} ELSE unrest
    /\ UNCHANGED <<rows, made, forgotten>>

(* forget(): only the newest version can go without leaving a gap in the walk. *)
Forget(i) ==
    /\ Stored(i)
    /\ rows' = [rows EXCEPT ![i] = NoRow]
    /\ forgotten' = forgotten \cup {Root(i)}
    /\ unrest' = unrest \cup (IF Stored(rows[i].by) THEN {"gap"} ELSE {})
                       \cup (IF \A c \in Callers : calls[c].pc = "idle" THEN {} ELSE {"overlap"})
    /\ UNCHANGED <<made, calls>>

Next ==
    \/ \E c \in Callers :
          \/ \E op \in Ops, i \in Ids : Begin(c, op, i)
          \/ Missing(c) \/ Require(c) \/ Follow(c) \/ Arrive(c)
          \/ Remember(c) \/ WriteBack(c) \/ Stop(c)
    \/ \E i \in Ids : Forget(i)

Spec == Init /\ [][Next]_vars

----------------------------------------------------------------------------
(* Properties. *)

(* superseded_by and supersedes are two ends of one link, links lead forward in time    *)
(* and a history is its predecessor's with the predecessor at the end, whatever stale     *)
(* copies are written back: _newest ends, and "what was it originally?" stays answerable. *)
VersionsLinked ==
    \A i \in Ids : Stored(i) =>
        LET r == rows[i] IN
        /\ "superseded" \in r.tags /\ ~Resolved(r) => r.by # None
        /\ r.by # None => r.by > i /\ r.by <= made
        /\ Stored(r.by) => rows[r.by].prev = i
        /\ r.prev # None => r.prev < i
        /\ Stored(r.prev) => r.history = Append(rows[r.prev].history, r.prev)

(* A revision stores the new version before it retires the old one: at no moment, and     *)
(* after no crash, does a memory have no current version (unless versions of it were       *)
(* forgotten or resolved).                                                                   *)
AlwaysAVersion ==
    \A r \in 1..Roots :
        \/ r \in forgotten
        \/ \E i \in Ids : Stored(i) /\ Root(i) = r /\ (Open(i) \/ Resolved(rows[i]))

NobodyRevises == \A c \in Callers : calls[c].pc = "idle"
OneOpenEach == \A i, j \in Ids : Open(i) /\ Open(j) /\ Root(i) = Root(j) => i = j

(* "History never forks": revisions that do not overlap, are not broken off and meet no     *)
(* gap leave one version open, at most.                                                       *)
UndisturbedNeverForks == unrest = {} /\ NobodyRevises => OneOpenEach

================================================================================
