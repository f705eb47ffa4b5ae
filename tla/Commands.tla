--------------------------------- MODULE Commands ---------------------------------
(* Commands of the `mark` command line: _cli/client.py, the requests it sends to the    *)
(* server of CommandServer, and the commands of _cli/engine.py and engine_ops.py as a    *)
(* write and the statement that follows it.  All clients write the same text to the same  *)
(* agent and name the same older memory, so that their commands meet.                      *)
EXTENDS CommandServer

CONSTANTS
    Clients, \* processes that run one command each
    Direct,  \* those that are told not to use a server
    Runs     \* the commands each may run

Ops == {"store", "supersede", "ingest", "forget", "stop"}
ASSUME OpAssumption == Direct \subseteq Clients /\ Runs \in [Clients -> SUBSET Ops]

VARIABLES
    client,   \* the local state of each client
    request,  \* its request at a server, as far as it got
    wrote,    \* how many rows with the text were stored for each client's command
    followed, \* the clients whose command was carried out to its last statement
    old       \* the older memory: "open", "superseded", "forgotten"

clientVars == <<client, request, wrote, followed, old>>
vars == <<serverVars, clientVars>>

Phases == {"idle", "find", "hello", "send", "wait", "check", "write", "follow", "poll", "done", "failed"}
(* server: the token read; gone: the server went away; late: it was too slow; stale:     *)
(* rows that are older than the request; why: what the command failed with.               *)
Client == [pc : Phases, op : Ops \cup {"none"}, server : Servers \cup {NoOne}, gone : BOOLEAN,
           late : BOOLEAN, stale : SUBSET Clients, why : {"none", "missing", "closed"}]
Stages == {"queued", "write", "follow", "ok", "missing", "closed"}
Request == [at : Stages, server : Servers]
NoRequest == [at |-> "none"]

TypeOK ==
    /\ ServerTypeOK
    /\ client \in [Clients -> Client]
    /\ request \in [Clients -> Request \cup {NoRequest}]
    /\ wrote \in [Clients -> 0..2]
    /\ followed \subseteq Clients
    /\ old \in {"open", "superseded", "forgotten"}

Init ==
    /\ ServerInit
    /\ client = [c \in Clients |-> [pc |-> "idle", op |-> "none", server |-> NoOne, gone |-> FALSE,
                                    late |-> FALSE, stale |-> {}, why |-> "none"]]
    /\ request = [c \in Clients |-> NoRequest]
    /\ wrote = [c \in Clients |-> 0]
    /\ followed = {}
    /\ old = "open"

In(c, phase) == client[c].pc = phase
Set(c, r) == client' = [client EXCEPT ![c] = r]
Goto(c, phase) == Set(c, [client[c] EXCEPT !.pc = phase])
Pending(c) == request[c] # NoRequest
StoreKept == UNCHANGED <<wrote, followed, old>>
Quiet == UNCHANGED <<serverVars, request>> /\ StoreKept

----------------------------------------------------------------------------
(* The statements of a command, run by a handler of the server or in-process. *)

(* An ingest has ids of its own: what is there is not stored again.                     *)
Rows(c, op) == IF op = "forget" THEN wrote[c] ELSE IF op = "ingest" THEN 1 ELSE wrote[c] + 1

Written(c, op) ==
    /\ wrote' = [wrote EXCEPT ![c] = Rows(c, op)]
    /\ old' = IF op = "forget" THEN "forgotten" ELSE old
    /\ followed' = IF op \in {"store", "forget"} THEN followed \cup {c} ELSE followed

(* "no memory with id": supersede and forget need the older memory.                    *)
Finds(op) == op \in {"supersede", "forget"} => old # "forgotten"

(* What is left to do: retire the old memory, extract the facts of new lines.            *)
Follows(c, op) == op = "supersede" \/ (op = "ingest" /\ wrote[c] = 0)

Followed(c, op) ==
    /\ old' = IF op = "supersede" THEN "superseded" ELSE old
    /\ followed' = followed \cup {c}
    /\ UNCHANGED wrote

----------------------------------------------------------------------------
(* execute(): a server when one answers. *)

Ask(c, op) == In(c, "idle") /\ Set(c, [client[c] EXCEPT !.pc = "find", !.op = op]) /\ Quiet

Locally(op) == IF op = "stop" THEN "failed" ELSE "write"

ReadState(c) ==
    /\ In(c, "find")
    /\ IF c \in Direct \/ state = NoOne THEN Goto(c, Locally(client[c].op))
       ELSE Set(c, [client[c] EXCEPT !.server = state, !.pc = "hello"])
    /\ Quiet

(* The proof of the token; no answer within a second or another build: no server.       *)
Hello(c) ==
    /\ In(c, "hello")
    /\ \/ Accepting(client[c].server) /\ Goto(c, "send")
       \/ Goto(c, Locally(client[c].op))
    /\ Quiet

(* _ServerGone: the command is finished in-process.                                   *)
Retries(k) == [k EXCEPT !.pc = IF k.op = "stop" THEN "poll" ELSE "check", !.gone = TRUE]

(* The listening socket takes the request, or refuses: _ServerGone.  Rows stored more   *)
(* than two seconds ago do not count as written by this request.                          *)
Send(c) ==
    LET k == client[c] IN
    /\ In(c, "send")
    /\ \E older \in SUBSET {d \in Clients : wrote[d] > 0} :
         IF Accepting(k.server)
         THEN /\ Set(c, [k EXCEPT !.pc = "wait", !.stale = older])
              /\ request' = [request EXCEPT ![c] = [at |-> "queued", server |-> k.server]]
         ELSE Set(c, [Retries(k) EXCEPT !.stale = older]) /\ UNCHANGED request
    /\ UNCHANGED serverVars /\ StoreKept

----------------------------------------------------------------------------
(* A handler thread of the server: do_POST. *)

Handled(c, stage) == request' = [request EXCEPT ![c].at = stage]
Working(c, stage) == Pending(c) /\ request[c].at = stage

Accept(c) ==
    /\ Working(c, "queued") /\ Accepting(request[c].server)
    /\ Handled(c, "write") /\ UNCHANGED <<serverVars, client>> /\ StoreKept

StopRequest(c) ==
    /\ Working(c, "write") /\ client[c].op = "stop"
    /\ Handled(c, "ok")
    /\ \E s \in Servers : /\ request[c].server = s
                          /\ AskStop(s) \/ (~At(s, "serving") /\ UNCHANGED serverVars)
    /\ UNCHANGED client /\ StoreKept

ServeWrite(c) ==
    LET op == client[c].op IN
    /\ Working(c, "write") /\ op # "stop" /\ EngineOpen(request[c].server)
    /\ IF Finds(op) THEN /\ Written(c, op)
                         /\ Handled(c, IF Follows(c, op) THEN "follow" ELSE "ok")
                    ELSE Handled(c, "missing") /\ StoreKept
    /\ UNCHANGED <<serverVars, client>>

ServeFollow(c) ==
    /\ Working(c, "follow") /\ EngineOpen(request[c].server)
    /\ Followed(c, client[c].op)
    /\ Handled(c, "ok") /\ UNCHANGED <<serverVars, client>>

(* The store was closed under the handler: StoreClosedError. *)
ServeClosed(c) ==
    /\ Working(c, "write") \/ Working(c, "follow")
    /\ client[c].op # "stop" /\ ~EngineOpen(request[c].server)
    /\ Handled(c, "closed") /\ UNCHANGED <<serverVars, client>> /\ StoreKept

(* The answer; nobody may wait for it any more. *)
Reply(c) ==
    LET k == client[c]  at == request[c].at IN
    /\ Pending(c) /\ at \in {"ok", "missing", "closed"}
    /\ IF ~In(c, "wait") THEN UNCHANGED client
       ELSE Set(c, IF k.op = "stop" THEN [k EXCEPT !.pc = "poll"]
                   ELSE IF at = "ok" THEN [k EXCEPT !.pc = "done"]
                   ELSE [k EXCEPT !.pc = "failed", !.why = at])
    /\ request' = [request EXCEPT ![c] = NoRequest]
    /\ UNCHANGED serverVars /\ StoreKept

----------------------------------------------------------------------------
(* _ServerGone: the connection is reset or ends early, or it takes 300 seconds. *)

(* Mutant: a connection that ends early is waited for like a slow one. *)
StillWaits(c) == FALSE /\ UNCHANGED vars
Reset(c) == In(c, "wait") /\ ~Pending(c) /\ Set(c, Retries(client[c])) /\ Quiet

Timeout(c) == In(c, "wait") /\ Pending(c) /\ Set(c, [Retries(client[c]) EXCEPT !.late = TRUE]) /\ Quiet

(* Mutant: a retried store does not look for what the server wrote. *)
NothingApplied(c) == FALSE
(* _already_applied: a memory with the text, not older than the request. *)
Applied(c) == client[c].op \in {"store", "supersede"}
              /\ \E d \in Clients \ client[c].stale : wrote[d] > 0

Check(c) == In(c, "check") /\ Goto(c, IF Applied(c) THEN "done" ELSE "write") /\ Quiet

(* In-process: what is already gone was removed by the server. *)
LocalWrite(c) ==
    LET k == client[c] IN
    /\ In(c, "write")
    /\ IF Finds(k.op) THEN Written(c, k.op) /\ Goto(c, IF Follows(c, k.op) THEN "follow" ELSE "done")
       ELSE /\ Set(c, IF k.gone /\ k.op = "forget" THEN [k EXCEPT !.pc = "done"]
                      ELSE [k EXCEPT !.pc = "failed", !.why = "missing"])
            /\ StoreKept
    /\ UNCHANGED <<serverVars, request>>

LocalFollow(c) ==
    /\ In(c, "follow") /\ Followed(c, client[c].op) /\ Goto(c, "done")
    /\ UNCHANGED <<serverVars, request>>

(* stop_server: no state file or no answer is taken for stopped. *)
Poll(c) ==
    /\ In(c, "poll") /\ state \notin {s \in Servers : Accepting(s)}
    /\ Goto(c, "done") /\ Quiet

PollTimeout(c) == In(c, "poll") /\ Goto(c, "failed") /\ Quiet

----------------------------------------------------------------------------

(* What a server's step does to its requests: connections nobody accepted are reset     *)
(* when the socket is closed, the others when the process ends.                           *)
Survives(r, step) == 
    IF r.at = "queued" THEN step \in {"serving", "stopping"} ELSE step \notin {"gone", "killed"}

ServerMoves(step) ==
    /\ step
    /\ request' = [c \in Clients |-> IF Pending(c) /\ ~Survives(request[c], proc'[request[c].server].pc)
                                     THEN NoRequest ELSE request[c]]
    /\ UNCHANGED <<client, wrote, followed, old>>

Command(c) ==
    \/ ReadState(c) \/ Hello(c) \/ Send(c) \/ Reset(c) \/ Check(c) \/ LocalWrite(c) \/ LocalFollow(c)
    \/ Poll(c) \/ PollTimeout(c)
Handler(c) ==
    Accept(c) \/ StopRequest(c) \/ ServeWrite(c) \/ ServeFollow(c) \/ ServeClosed(c) \/ Reply(c)

Next ==
    \/ \E s \in Servers : ServerMoves(Start(s)) \/ ServerMoves(End(s)) \/ ServerMoves(AskStop(s))
                          \/ ServerMoves(Crash(s))
    \/ \E c \in Clients : (\E op \in Runs[c] : Ask(c, op)) \/ Command(c) \/ Timeout(c)
                         \/ Handler(c)

Spec == Init /\ [][Next]_vars

(* A process that was asked goes on; nobody has to start, stop or kill a server.         *)
FairSpec == /\ Spec
            /\ \A s \in Servers : WF_vars(ServerMoves(End(s)))
            /\ \A c \in Clients : WF_vars(Command(c)) /\ WF_vars(Handler(c))

----------------------------------------------------------------------------
(* Properties. *)

(* "Writes are retried without duplicating": wherever a server stops, is killed or is   *)
(* restarted, one command stores one row; only a request that outlives the client's        *)
(* timeout can store a second one, and an ingest never does.  And what a client reports    *)
(* as done is in the store: its text was stored since the request was sent, the memory to    *)
(* forget or to replace is no longer open; a command whose last statement is missing is        *)
(* one that was retried.                                                                        *)
DoneOnce ==
    \A c \in Clients :
       LET k == client[c] IN
       /\ wrote[c] > 1 => k.late /\ k.op # "ingest"
       /\ In(c, "done") =>
          /\ k.op \in {"store", "supersede"} => \E d \in Clients \ k.stale : wrote[d] > 0
          /\ k.op = "ingest" => wrote[c] = 1
          /\ k.op = "forget" => old # "open"
          /\ k.op # "stop" /\ ~k.gone => c \in followed

(* A command ends, whether its server answers, stops or is killed meanwhile; nothing      *)
(* waits for the timeout.                                                                  *)
EveryCommandEnds == \A c \in Clients : In(c, "find") ~> In(c, "done") \/ In(c, "failed")

================================================================================
