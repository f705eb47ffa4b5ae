------------------------------- MODULE ContextWatch -------------------------------
(* A context watch: context/watch.py, watch_messages.py, watch_prefetch.py and the life cycle  *)
(* half of watch_worker.py, over the worker of WatchWorker.  The host feeds its message list;     *)
(* new subjects and each request are prefetched by the worker, whose results the next briefing     *)
(* shows.  The watch may be closed by the host, by the shutdown of its runtime and by its own        *)
(* worker.  What a briefing shows besides (corrections, changes, ranks) is left out.                   *)
EXTENDS WatchWorker, SequencesExt

CONSTANTS
    Host,     \* the thread of the agent loop, which feeds
    Helpers,  \* threads that call refresh() and reset()
    Closers,  \* threads that call close()
    Owners,   \* threads that shut the runtime down
    Subjects,
    MaxMsgs,  \* bound: messages are 1..MaxMsgs; message 0 is the system prompt
    System,   \* the list begins with a system prompt that is never dropped
    Window,   \* it keeps so many of the newest messages
    Users,    \* the messages with the role "user"
    Names,    \* the subjects each message names
    Stored,   \* the subjects memory has records of
    Links,    \* the subjects the records of a subject name
    Ttl       \* ttl_turns

Msgs == 1..MaxMsgs
ASSUME WatchAssumption == /\ {Host} \cup Helpers \cup Closers \cup Owners \subseteq Callers /\ MaxMsgs \in Nat /\ System \in BOOLEAN /\ Window \in Nat \ {0} /\ Ttl \in Nat
                          /\ Users \subseteq Msgs /\ Names \in [Msgs -> SUBSET Subjects]
                          /\ Stored \subseteq Subjects
                          /\ Links \in [Subjects -> SUBSET Subjects]

VARIABLES
    seen,     \* the newest message of the list that observe_messages saw last
    anchors,  \* _anchors
    results,  \* _results: the subjects it has
    turn, task, \* _turn; _task, 0 for none
    answered, \* _task_results: the one request it has, 0 for none
    pending,  \* _pending
    what,     \* the arguments of each prefetch
    work,     \* where each worker thread is in its prefetch
    call,     \* the local state of the other threads
    closing,  \* the local state of each thread in close()
    watch,    \* _closed, whether _executor is None, whether close() is bound to the shutdown
    open,     \* whether the store is open
    missed    \* (history) what of the conversation a failed prefetch did not find

stateVars == <<anchors, results, turn, task, answered>>
lifeVars == <<watch, closing>>
vars == <<workerVars, seen, stateVars, lifeVars, pending, what, work, call, open, missed>>

Anchor == [here : BOOLEAN, known : {"unasked", "yes", "no"}, linked : BOOLEAN, last : Nat]
NoAnchor == [here |-> FALSE, known |-> "unasked", linked |-> FALSE, last |-> 0]
Query == [subjects : SUBSET Subjects, task : {0} \cup Msgs]
NoQuery == [subjects |-> {}, task |-> 0]
Work == [pc : {"none", "retrieve", "record", "links", "done"}, query : Query]
NoWork == [pc |-> "none", query |-> NoQuery]
Call == [pc : {"idle", "feed", "queue", "pend", "shut", "ended"}, fresh : Seq(Msgs), query : Query, future : 0..MaxTasks]
NoCall == [pc |-> "idle", fresh |-> <<>>, query |-> NoQuery, future |-> 0]

TypeOK ==
    /\ WorkerTypeOK
    /\ seen \in 0..MaxMsgs
    /\ anchors \in [Subjects -> Anchor] /\ results \subseteq Subjects
    /\ turn \in Nat /\ task \in {0} \cup Msgs /\ answered \in {0} \cup Msgs
    /\ pending \subseteq Tasks /\ what \in [Tasks -> Query]
    /\ work \in [Threads -> Work] /\ call \in [Callers -> Call]
    /\ closing \in [All -> {"no", "stop", "wait"}]
    /\ watch \in [closed : BOOLEAN, gone : BOOLEAN, bound : BOOLEAN]
    /\ open \in BOOLEAN
    /\ missed \subseteq [subject : Subjects] \cup [task : Msgs]
    /\ \A w \in Threads : On(w, "run") <=> work[w].pc \in {"retrieve", "record", "links"}

Init ==
    /\ WorkerInit
    /\ seen = 0
    /\ anchors = [s \in Subjects |-> NoAnchor] /\ results = {}
    /\ turn = 0 /\ task = 0 /\ answered = 0
    /\ pending = {} /\ what = [t \in Tasks |-> NoQuery]
    /\ work = [w \in Threads |-> NoWork] /\ call = [c \in Callers |-> NoCall]
    /\ closing = [c \in All |-> "no"]
    /\ watch = [closed |-> FALSE, gone |-> FALSE, bound |-> TRUE]
    /\ open = TRUE
    /\ missed = {}

At(c, step) == call[c].pc = step /\ closing[c] = "no"
Goto(c, r) == call' = [call EXCEPT ![c] = r]
(* On to the next fresh message, or back to the caller. *)
Onward(r) == [NoCall EXCEPT !.pc = IF r.fresh = <<>> THEN "idle" ELSE "feed", !.fresh = r.fresh]
Here == {s \in Subjects : anchors[s].here}

----------------------------------------------------------------------------
(* observe_messages.  The host's list grows, and keeps its system prompt and its newest        *)
(* messages: a sliding window.                                                                     *)

Prints(last) == LET first == IF last > Window THEN last - Window + 1 ELSE 1 IN
                (IF System THEN <<0>> ELSE <<>>) \o [i \in 1..last - first + 1 |-> first + i - 1]
LastOf(s, k) == SubSeq(s, Len(s) - k + 1, Len(s))
Least(S) == CHOOSE x \in S : \A y \in S : x <= y
FeedKept == UNCHANGED <<workerVars, stateVars, lifeVars, pending, what, work, open, missed>>

(* _msg_count and _msg_tail: of the list last seen. *)
Count == IF seen = 0 THEN 0 ELSE Len(Prints(seen))
Ending == LastOf(Prints(seen), Least({8, Count}))

(* _unseen_start, as the number of messages to pass over; -1 if it cannot tell. *)
SameEnd(prints, end, k) == SubSeq(prints, end - k + 1, end) = LastOf(Ending, k)
(* Mutant: the last messages are not compared if the list is not shorter. *)
ByCount(prints) == IF Count <= Len(prints) THEN Count ELSE -1
UnseenStart(prints) ==
    LET ends == {e \in 1..Len(prints) : SameEnd(prints, e, Least({3, Len(Ending), e}))} IN
    IF Ending = <<>> THEN 0
    ELSE IF Count <= Len(prints) /\ SameEnd(prints, Count, Least({Len(Ending), Count})) THEN Count
    ELSE IF ends # {} THEN CHOOSE e \in ends : \A f \in ends : f <= e ELSE -1

LatestUserTurn(prints) ==
    LET turns == {i \in 1..Len(prints) : prints[i] \in Users} IN
    IF turns = {} THEN Len(prints) - 1 ELSE (CHOOSE i \in turns : \A j \in turns : j <= i) - 1

(* Bound: at most MaxTasks prefetches. *)
Cost(fresh) == Cardinality({m \in Range(fresh) : m \in Users \/ Names[m] # {}})
Room(n) == submitted + n + Cost(call[Host].fresh) + Cardinality({c \in Callers : call[c].pc = "queue"}) <= MaxTasks

(* The cursor moves under the lock, before anything is fed; the system prompt is passed over. *)
ObserveMessages(last) ==
    LET prints == Prints(last)
        start == UnseenStart(prints)
        from == IF start = -1 THEN LatestUserTurn(prints) ELSE start
        first == IF System /\ from = 0 THEN 2 ELSE from + 1
        fresh == SubSeq(prints, first, Len(prints)) IN
    /\ At(Host, "idle")
    /\ last >= seen
    /\ Room(Cost(fresh))
    /\ seen' = last
    /\ Goto(Host, Onward([NoCall EXCEPT !.fresh = fresh]))
    /\ FeedKept

----------------------------------------------------------------------------
(* observe(), refresh(), _schedule(). *)

(* The look at _closed. *)
Schedules(c, r, query) ==
    Goto(c, IF query = NoQuery \/ watch.closed THEN Onward(r) ELSE [r EXCEPT !.pc = "queue", !.query = query])

Mentioned(a, now) ==
    [here |-> TRUE, linked |-> FALSE, last |-> now,
     known |-> IF a.linked /\ a.known = "no" THEN "unasked" ELSE a.known]
NewAnchor(now, linked) == [here |-> TRUE, known |-> "unasked", linked |-> linked, last |-> now]

Observe ==
    LET m == Head(call[Host].fresh)
        now == IF m \in Users THEN turn + 1 ELSE turn
        named == [s \in Subjects |-> IF s \notin Names[m] THEN anchors[s]
                                    ELSE IF s \in Here THEN Mentioned(anchors[s], now) ELSE NewAnchor(now, FALSE)]
        expired == {s \in Subjects : named[s].here /\ now - named[s].last > Ttl} IN
    /\ At(Host, "feed") /\ call[Host].fresh # <<>>
    /\ turn' = now
    /\ task' = IF m \in Users THEN m ELSE task
    /\ anchors' = [s \in Subjects |-> IF s \in expired THEN NoAnchor ELSE named[s]]
    /\ results' = results \ expired
    /\ Schedules(Host, [call[Host] EXCEPT !.fresh = Tail(@)],
                 [subjects |-> Names[m] \ Here, task |-> IF m \in Users THEN m ELSE 0])
    /\ missed' = {x \in missed : \/ x \in [task : {task'}]
                                  \/ x \in [subject : {s \in Subjects : anchors'[s].here}]}
    /\ UNCHANGED <<workerVars, seen, lifeVars, answered, pending, what, work, open>>

Refresh(c, unknownOnly) ==
    LET labels == {s \in Here : ~unknownOnly \/ anchors[s].known = "no"} IN
    /\ At(c, "idle") /\ labels # {} /\ ~watch.closed /\ Room(1)
    /\ Schedules(c, NoCall, [subjects |-> labels, task |-> 0])
    /\ FeedKept /\ UNCHANGED seen

(* Without an executor the watch was closed meanwhile: the query runs in this thread and      *)
(* records nothing, or fails on a closed store; and None has no submit(), if it is None only when    *)
(* it is read again.                                                                                     *)
Queue(c) ==
    /\ At(c, "queue")
    /\ IF watch.gone THEN Goto(c, Onward(call[c])) /\ UNCHANGED <<workerVars, what>>
       ELSE /\ Submit
            /\ what' = [what EXCEPT ![submitted + 1] = call[c].query]
            /\ Goto(c, [call[c] EXCEPT !.pc = "pend", !.query = NoQuery, !.future = submitted + 1])
    /\ UNCHANGED <<seen, stateVars, lifeVars, pending, work, open, missed>>

(* _done on a StoreClosedError closes the watch, in the thread that runs the callback. *)
BeginClose(c) == closing' = [closing EXCEPT ![c] = "stop"]
                 /\ watch' = [watch EXCEPT !.closed = TRUE, !.bound = FALSE]
Callback(c, t) == IF fate[t] = "closed" THEN BeginClose(c) ELSE UNCHANGED lifeVars

(* pending.add and add_done_callback, which calls back at once if the future is finished. *)
Pend(c) ==
    LET t == call[c].future IN
    /\ At(c, "pend")
    /\ IF fate[t] \in Finished THEN Callback(c, t) /\ UNCHANGED pending
       ELSE pending' = pending \cup {t} /\ UNCHANGED lifeVars
    /\ Goto(c, Onward(call[c]))
    /\ UNCHANGED <<workerVars, seen, stateVars, what, work, open, missed>>

----------------------------------------------------------------------------
(* _prefetch, on the worker. *)

Does(w, r) == work' = [work EXCEPT ![w] = r]
PrefetchKept == UNCHANGED <<seen, pending, call, open>>
LoopStep(w) ==
    /\ Loop(w)
    /\ what' = IF worker'[w].pc \in {"run", "after"} THEN [what EXCEPT ![worker[w].task] = NoQuery] ELSE what
    /\ Does(w, IF worker'[w].pc = "run" THEN [NoWork EXCEPT !.pc = "retrieve", !.query = what[worker[w].task]]
               ELSE IF worker'[w].pc = "after" THEN [NoWork EXCEPT !.pc = "done"] ELSE work[w])
    /\ PrefetchKept /\ UNCHANGED <<stateVars, lifeVars, missed>>

Missing(query) == [subject : query.subjects] \cup [task : {query.task} \ {0}]
(* Mutant: the future is settled, and its callbacks are not called. *)
NotCalledBack(w, how) == Finish(w, how) /\ UNCHANGED work
Ends(w, how) == Finish(w, how) /\ Does(w, [NoWork EXCEPT !.pc = "done"])

(* retrieve_many_sync: a StoreClosedError, another failure, or an answer. *)
Retrieve(w) ==
    /\ work[w].pc = "retrieve"
    /\ \/ Ends(w, IF open THEN "done" ELSE "closed") /\ missed' = missed \cup {x \in Missing(work[w].query) : x \in [task : {task}] \cup [subject : Here]}
       \/ /\ open /\ Does(w, [work[w] EXCEPT !.pc = "record"])
          /\ UNCHANGED <<workerVars, missed>>
    /\ PrefetchKept /\ UNCHANGED <<what, stateVars, lifeVars>>

(* The block under the lock.  The links of subjects that are known become anchors. *)
Recorded(w) ==
    LET q == work[w].query
        told == q.subjects \cap Here
        links == UNION {Links[s] : s \in {x \in told \cap Stored : ~anchors[x].linked}} \ Here IN
    /\ results' = results \cup q.subjects
    /\ anchors' = [s \in Subjects |->
          IF s \in links THEN NewAnchor(turn, TRUE)
          ELSE IF s \in told THEN [anchors[s] EXCEPT !.known = IF s \in Stored THEN "yes" ELSE "no"]
          ELSE anchors[s]]
    /\ answered' = IF q.task # 0 THEN q.task ELSE answered
    /\ missed' = missed \ Missing(q)
    /\ IF links = {} THEN Ends(w, "done")
       ELSE Does(w, [NoWork EXCEPT !.pc = "links", !.query = [NoQuery EXCEPT !.subjects = links]]) /\ UNCHANGED workerVars

(* Closing: nothing is recorded. *)
Record(w) ==
    /\ work[w].pc = "record"
    /\ IF watch.closed
       THEN Ends(w, "done") /\ UNCHANGED <<stateVars, missed>>
       ELSE Recorded(w) /\ UNCHANGED <<turn, task>>
    /\ PrefetchKept /\ UNCHANGED <<what, lifeVars>>

FollowLinks(w) ==
    /\ work[w].pc = "links"
    /\ IF watch.closed THEN Ends(w, "done")
       ELSE Does(w, [work[w] EXCEPT !.pc = "retrieve"]) /\ UNCHANGED workerVars
    /\ PrefetchKept /\ UNCHANGED <<what, stateVars, lifeVars, missed>>

(* The callback, if it was registered by now; then the next task, after the close if it       *)
(* began one.                                                                                     *)
Done(w) ==
    LET t == worker[w].task IN
    /\ work[w].pc = "done"
    /\ IF t \in pending THEN pending' = pending \ {t} /\ Callback(w, t) ELSE UNCHANGED <<pending, lifeVars>>
    /\ IF closing'[w] = "no" THEN Return(w) ELSE UNCHANGED workerVars
    /\ Does(w, NoWork)
    /\ UNCHANGED <<seen, stateVars, what, call, open, missed>>

Resume(w) ==
    /\ work[w].pc = "none" /\ closing[w] = "no" /\ Return(w)
    /\ PrefetchKept /\ UNCHANGED <<what, work, stateVars, lifeVars, missed>>

----------------------------------------------------------------------------
(* close(), reset() and the shutdown of the runtime. *)

CloseKept == UNCHANGED <<seen, stateVars, what, work, open, missed>>
Closes(c, step) == closing' = [closing EXCEPT ![c] = step]

Close(c) ==
    /\ At(c, "idle") /\ closing[c] = "no"
    /\ BeginClose(c)
    /\ Goto(c, [NoCall EXCEPT !.pc = "ended"])
    /\ CloseKept /\ UNCHANGED <<workerVars, pending>>

(* The closer that is bound runs first; one that was unbound already is not waited for. *)
Shutdown(c) ==
    /\ At(c, "idle")
    /\ IF watch.bound THEN BeginClose(c) ELSE UNCHANGED lifeVars
    /\ Goto(c, [NoCall EXCEPT !.pc = "shut"])
    /\ CloseKept /\ UNCHANGED <<workerVars, pending>>

StoreCloses(c) ==
    /\ At(c, "shut") /\ closing[c] = "no"
    /\ open' = FALSE
    /\ Goto(c, [NoCall EXCEPT !.pc = "ended"])
    /\ UNCHANGED <<workerVars, seen, stateVars, lifeVars, pending, what, work, missed>>

(* _executor is read twice; another thread may have set it to None before or between.       *)
CloseBegins(c) ==
    /\ closing[c] = "stop"
    /\ IF watch.gone THEN Closes(c, "no") /\ UNCHANGED workerVars ELSE BeginStop(c) /\ Closes(c, "wait")
    /\ CloseKept /\ UNCHANGED <<pending, call, watch>>

(* A cancelled future calls back in this thread. *)
CloseStop(c) ==
    /\ closing[c] = "wait" /\ Stopping(c)
    /\ pending' = {t \in pending : fate[t] = fate'[t]}
    /\ CloseKept /\ UNCHANGED <<call, lifeVars>>

CloseTimeout(c) == closing[c] = "wait" /\ JoinTimeout(c) /\ CloseKept /\ UNCHANGED <<pending, call, lifeVars>>

CloseEnds(c) ==
    /\ closing[c] = "wait" /\ stop[c].pc = "no"
    /\ Closes(c, "no") /\ watch' = [watch EXCEPT !.gone = TRUE]
    /\ CloseKept /\ UNCHANGED <<workerVars, pending, call>>

(* The flush before it takes five seconds at most. *)
Reset(c) ==
    /\ At(c, "idle")
    /\ anchors' = [s \in Subjects |-> NoAnchor] /\ results' = {} /\ answered' = 0 /\ task' = 0 /\ turn' = 0
    /\ missed' = {}
    /\ UNCHANGED <<workerVars, seen, lifeVars, pending, what, work, call, open>>

Feeding(c) == Queue(c) \/ Pend(c) \/ (c = Host /\ Observe)
Prefetch(w) == LoopStep(w) \/ Retrieve(w) \/ Record(w) \/ FollowLinks(w) \/ Done(w) \/ Resume(w)
CloseStep(c) == CloseBegins(c) \/ CloseEnds(c)

Next ==
    \/ \E last \in Msgs : ObserveMessages(last)
    \/ \E c \in Callers : Feeding(c)
    \/ \E c \in Helpers : Reset(c) \/ \E b \in BOOLEAN : Refresh(c, b)
    \/ \E w \in Threads : Prefetch(w)
    \/ \E c \in Closers : Close(c)
    \/ \E c \in Owners : Shutdown(c) \/ StoreCloses(c)
    \/ \E c \in All : CloseStep(c) \/ CloseStop(c) \/ CloseTimeout(c)

Spec == Init /\ [][Next]_vars

(* Every thread runs, and a retrieval returns or raises; nobody has to feed, to refresh or to close. *)
Runs(c) == CloseStep(c) \/ CloseStop(c) \/ (c \in Callers /\ Feeding(c)) \/ (c \in Owners /\ StoreCloses(c)) \/ (c \in Threads /\ Prefetch(c))
FairSpec == Spec /\ \A c \in All : WF_vars(Runs(c))

----------------------------------------------------------------------------
(* Properties. *)

Calm == pending = {} /\ \A c \in Callers : call[c].pc \in {"idle", "ended"}

(* When the calls have returned and flush() finds nothing pending, the next briefing has the   *)
(* result of the current request and of every subject of the conversation, except what a         *)
(* retrieval failed to find: subjects that expire, are linked, mentioned again or asked for anew    *)
(* while older prefetches are under way are not left without a prefetch of their own, and no          *)
(* earlier request's result is put over the later one's.                                                 *)
Answered ==
    Calm /\ ~watch.closed =>
        /\ task \in {0, answered} \/ [task |-> task] \in missed
        /\ \A s \in Here : s \in results \/ [subject |-> s] \in missed

(* The newest message seen is still in the list, behind a system prompt also the two before it. *)
Overlaps(prints) == Range(LastOf(Ending, Least({IF System THEN 3 ELSE 1, Len(Ending)}))) \subseteq Range(prints)

(* "Only new messages are fed": however the list grows and slides between two calls, a call      *)
(* feeds the messages that are newer than all that were seen, each once and in order, as long as     *)
(* it can find where it was.                                                                             *)
FedOnce ==
    [][seen' # seen =>
         LET prints == Prints(seen') IN
         Overlaps(prints) => call'[Host].fresh = SelectSeq(prints, LAMBDA m : m > seen)]_vars

(* A prefetch that was queued comes to an end, and so does every call, wherever the worker's       *)
(* thread exits, the watch is closed (by several threads, or by its worker) or the store closes.     *)
EverythingEnds ==
    /\ \A t \in Tasks : []<>(t \notin pending)
    /\ \A c \in Callers : []<>(call[c].pc \in {"idle", "ended"} /\ closing[c] = "no")

================================================================================
