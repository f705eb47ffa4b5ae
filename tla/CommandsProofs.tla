------------------------------ MODULE CommandsProofs ------------------------------
(* One server per database, for any number of server processes, clients and files: the *)
(* lock file of CommandServer, and that Commands only adds clients to it.  Then the      *)
(* clients: a command reported as done has been done once, whatever connections and       *)
(* servers were lost on the way. *)
EXTENDS Commands, TLAPS

(* A start may open the lock file as often as the code allows. *)
TriesLeft == \A s \in Servers : /\ At(s, "new") => proc[s].tries = 0
                                /\ At(s, "again") => proc[s].tries < MaxTries

(* An inode is locked by one process, and who owns the database has locked the inode that *)
(* is at the path: whoever unlinks it is its owner, and gives up the ownership with it. *)
LockedOnce == \A s, t \in Servers :
    proc[s].pc \in Holding /\ proc[t].pc \in Holding /\ proc[s].fd = proc[t].fd => s = t
OwnsThePath == \A s \in Servers : proc[s].pc \in Owning => proc[s].fd = path

(* A starting process that has met nobody is alone, with the file at the path open. *)
AloneUntilMet == \A s \in Servers :
    /\ proc[s].pc \in {"opened", "locked"} /\ s \notin met =>
         proc[s].fd = path /\ \A t \in Servers \ {s} : ~Alive(t)
    /\ proc[s].pc \in {"again", "refused"} => s \in met

IInv == ServerTypeOK /\ TriesLeft /\ LockedOnce /\ OwnsThePath /\ StateTellsTheServer /\ AloneUntilMet

(* Two owners would both have locked the inode at the path. *)
LEMMA OwnersAgree == LockedOnce /\ OwnsThePath => OneServer
BY DEF LockedOnce, OwnsThePath, OneServer, Holding

LEMMA InitOK == ServerInit => IInv
BY ServerAssumption
   DEF ServerInit, IInv, ServerTypeOK, TriesLeft, LockedOnce, OwnsThePath, StateTellsTheServer, AloneUntilMet,
       At, Alive, Accepting, Before, Over, Proc, Steps, Holding, Owning

(* What a step does to the record of the process that takes it, and to the others. *)
Becomes(s, pc, fd, tries) ==
    /\ proc' \in [Servers -> Proc]
    /\ \A t \in Servers \ {s} : proc'[t] = proc[t]
    /\ proc'[s].pc = pc /\ proc'[s].fd = fd /\ proc'[s].tries = tries

LEMMA StepRecord ==
  ASSUME proc \in [Servers -> Proc], NEW s \in Servers, NEW from, NEW to \in Steps, Step(s, from, to)
  PROVE  proc[s].pc = from /\ Becomes(s, to, proc[s].fd, proc[s].tries)
BY DEF Step, Becomes, Proc

LEMMA EndsRecord ==
  ASSUME proc \in [Servers -> Proc], NEW s \in Servers, NEW how \in Steps, Ends(s, how)
  PROVE  Becomes(s, how, 0, 0)
BY ServerAssumption DEF Ends, Over, Becomes, Proc

LEMMA OpenedRecord ==
  ASSUME proc \in [Servers -> Proc], NEW s \in Servers, NEW f \in Nat, proc[s].tries < MaxTries, Opened(s, f)
  PROVE  Becomes(s, "opened", f, proc[s].tries + 1)
BY ServerAssumption DEF Opened, Becomes, Proc, Steps

LEMMA AcquiredRecord ==
  ASSUME proc \in [Servers -> Proc], NEW s \in Servers, Acquired(s)
  PROVE  Becomes(s, "held", proc[s].fd, 0) /\ met' = met \ {s}
BY ServerAssumption DEF Acquired, Becomes, Proc, Steps, Holding, Owning


(* The record and the files after every action, as the proofs below use it. *)
Records(s) ==
    \/ /\ proc[s].pc \in {"new", "again"} /\ Becomes(s, "opened", path', proc[s].tries + 1)
       /\ proc[s].tries < MaxTries /\ state' = state /\ path' # 0
       /\ \/ path' = path /\ files' = files
          \/ path = 0 /\ path' = files + 1 /\ files' = files + 1
       /\ met \subseteq met' /\ met' \subseteq Servers
       /\ s \notin met' => \A t \in Servers \ {s} : ~Alive(t)
       /\ \A t \in Servers \ {s} : Starting(t) => t \in met'
    \/ /\ proc[s].pc = "opened" /\ FilesKept /\ met' = met
       /\ \/ Locked(proc[s].fd) /\ Becomes(s, "refused", 0, 0)
          \/ ~Locked(proc[s].fd) /\ Becomes(s, "locked", proc[s].fd, proc[s].tries)
    \/ /\ proc[s].pc = "locked" /\ FilesKept
       /\ \/ proc[s].fd = path /\ Becomes(s, "held", proc[s].fd, 0) /\ met' = met \ {s}
          \/ /\ proc[s].fd # path /\ met' = met
             /\ \/ Becomes(s, "refused", 0, 0)
                \/ proc[s].tries < MaxTries /\ Becomes(s, "again", proc[s].fd, proc[s].tries)
    \/ /\ met' = met /\ path' = path /\ files' = files
       /\ \E from, to \in Owning \cup {"unlinked", "released"} :
            /\ proc[s].pc = from /\ Becomes(s, to, proc[s].fd, proc[s].tries)
            /\ <<from, to>> \in
                 {<<"held", "engine">>, <<"held", "stateless">>, <<"engine", "serving">>,
                  <<"serving", "stopping">>, <<"stopping", "closing">>, <<"closing", "shut">>,
                  <<"shut", "stateless">>, <<"unlinked", "released">>}
            /\ state' = IF to = "serving" THEN s
                        ELSE IF from = "shut" /\ state = s THEN NoOne ELSE state
    \/ /\ proc[s].pc = "stateless" /\ Becomes(s, "unlinked", proc[s].fd, proc[s].tries)
       /\ path' \in {0, path} /\ UNCHANGED <<files, state, met>>
    \/ /\ FilesKept /\ met' = met
       /\ \/ proc[s].pc = "released" /\ Becomes(s, "gone", 0, 0)
          \/ Alive(s) /\ Becomes(s, "killed", 0, 0)

LEMMA EveryStep ==
  ASSUME ServerTypeOK, TriesLeft, ServerNext
  PROVE  \E s \in Servers : Records(s)
<1>1. PICK s \in Servers : Start(s) \/ End(s) \/ AskStop(s) \/ Crash(s)
  BY DEF ServerNext
<1>2. /\ proc \in [Servers -> Proc] /\ path \in Nat /\ files \in Nat /\ proc[s] \in Proc
      /\ {"held", "engine", "serving", "stopping", "closing", "shut", "stateless", "unlinked", "locked",
           "again", "released", "refused", "gone", "killed"} \subseteq Steps
  BY DEF ServerTypeOK, Steps, Holding, Owning
<1>3. CASE Open(s)
  <2>1. proc[s].tries < MaxTries /\ proc[s].pc \in {"new", "again"}
    BY <1>3, ServerAssumption DEF TriesLeft, Open, At
  <2>2. path' \in Nat /\ path' # 0
    BY <1>2, <1>3 DEF Open
  <2>3. Becomes(s, "opened", path', proc[s].tries + 1)
    <3>1. PICK f \in Nat : f = path'
      BY <2>2
    <3>2. Opened(s, f)
      BY <3>1, <1>3 DEF Open, Opened
    <3> QED BY <3>1, <3>2, <2>1, <1>2, OpenedRecord DEF Becomes
  <2>4. /\ met \subseteq met' /\ met' \subseteq Servers
        /\ s \notin met' => \A t \in Servers \ {s} : ~Alive(t)
        /\ \A t \in Servers \ {s} : Starting(t) => t \in met'
    BY <1>3 DEF Open, Meets, ServerTypeOK, Starting, Alive
  <2>5. /\ state' = state
        /\ \/ path' = path /\ files' = files
           \/ path = 0 /\ path' = files + 1 /\ files' = files + 1
    BY <1>3 DEF Open
  <2> QED BY <2>1, <2>2, <2>3, <2>4, <2>5 DEF Records
<1>4. CASE Lock(s)
  BY <1>2, <1>4, StepRecord, EndsRecord DEF Lock, At, Records
<1>5. CASE Recheck(s)
  BY <1>2, <1>5, StepRecord, EndsRecord, AcquiredRecord DEF Recheck, At, Records
<1>6. ASSUME NEW from \in Owning \cup {"unlinked"}, NEW to \in Owning \cup {"released"}, Step(s, from, to),
             <<from, to>> \in {<<"held", "engine">>, <<"held", "stateless">>, <<"engine", "serving">>,
                  <<"serving", "stopping">>, <<"stopping", "closing">>, <<"closing", "shut">>,
                  <<"shut", "stateless">>, <<"unlinked", "released">>},
             state' = IF to = "serving" THEN s ELSE IF from = "shut" /\ state = s THEN NoOne ELSE state,
             UNCHANGED <<path, files, met>>
      PROVE  Records(s)
  <2>1. to \in Steps /\ proc[s].pc = from /\ Becomes(s, to, proc[s].fd, proc[s].tries)
    BY <1>2, <1>6, StepRecord DEF Steps, Holding
  <2> QED BY <2>1, <1>6 DEF Records
<1>7. CASE OpenEngine(s) \/ EngineFails(s) \/ AskStop(s) \/ EndLoop(s) \/ CloseEngine(s) \/ CloseFd(s)
  BY <1>6, <1>7 DEF OpenEngine, EngineFails, AskStop, EndLoop, CloseEngine, CloseFd, FilesKept, Owning
<1>8. CASE Publish(s) \/ RemoveState(s)
  BY <1>6, <1>8 DEF Publish, RemoveState, Owning
<1>9. CASE Unlink(s)
  BY <1>2, <1>9, StepRecord DEF Unlink, Records
<1>10. CASE Exit(s) \/ Crash(s)
  BY <1>2, <1>10, EndsRecord DEF Exit, Crash, At, Records
<1> QED BY <1>1, <1>3, <1>4, <1>5, <1>7, <1>8, <1>9, <1>10 DEF Start, End

LEMMA Typed ==
  ASSUME ServerTypeOK, TriesLeft, ServerNext
  PROVE  ServerTypeOK' /\ TriesLeft'
<1>1. PICK s \in Servers : Records(s)
  BY EveryStep
<1>2. (path \in Nat /\ files \in Nat /\ path <= files)'
  BY <1>1 DEF Records, ServerTypeOK, FilesKept
<1>3. (state \in Servers \cup {NoOne})'
  BY <1>1 DEF Records, ServerTypeOK, FilesKept
<1>4. proc' \in [Servers -> Proc] /\ \A t \in Servers \ {s} : proc'[t] = proc[t]
  BY <1>1 DEF Records, Becomes
<1>5. files <= files' /\ proc[s].fd \in Nat /\ path \in Nat
  BY <1>1 DEF Records, ServerTypeOK, FilesKept, Proc
<1>6. proc'[s].fd <= files' /\ (Alive(s)' => proc'[s].fd # 0)
  BY <1>1, <1>2, <1>5 DEF Records, Becomes, ServerTypeOK, FilesKept, Alive, Owning, Holding
<1>7. \A t \in Servers : proc'[t].fd <= files' /\ (Alive(t)' => proc'[t].fd # 0)
  <2>1. TAKE t \in Servers
  <2>2. CASE t = s
    BY <2>2, <1>6
  <2>3. CASE t # s
    <3>1. proc'[t] = proc[t] /\ proc[t].fd \in Nat /\ proc[t].fd <= files /\ (Alive(t) => proc[t].fd # 0)
      BY <2>3, <1>4 DEF ServerTypeOK, Proc
    <3>2. files \in Nat /\ files' \in Nat
      BY <1>2 DEF ServerTypeOK
    <3> QED BY <3>1, <3>2, <1>5 DEF Alive
  <2> QED BY <2>2, <2>3
<1>8. (met \subseteq Servers)'
  BY <1>1 DEF Records, ServerTypeOK
<1>9. TriesLeft'
  <2>1. /\ At(s, "new")' => proc'[s].tries = 0
        /\ At(s, "again")' => proc'[s].tries < MaxTries
    BY <1>1 DEF Records, Becomes, At, Owning
  <2> QED BY <2>1, <1>4 DEF TriesLeft, At
<1> QED BY <1>2, <1>3, <1>4, <1>7, <1>8, <1>9 DEF ServerTypeOK

(* A lock is taken on an inode that nobody holds; who owns has the inode at the path, and *)
(* only the owner changes what is there. *)
LEMMA LocksKept ==
  ASSUME ServerTypeOK, LockedOnce, OwnsThePath, NEW s \in Servers, Records(s)
  PROVE  LockedOnce' /\ OwnsThePath'
<1>1. \A t \in Servers \ {s} : proc'[t] = proc[t]
  BY DEF Records, Becomes
<1>2. proc'[s].pc \in Holding =>
        /\ proc'[s].fd = proc[s].fd
        /\ proc[s].pc \in Holding \/ ~Locked(proc[s].fd)
  BY DEF Records, Becomes, Holding, Owning
<1>3. LockedOnce'
  <2>1. ASSUME NEW t \in Servers, t # s, proc'[s].pc \in Holding, proc[t].pc \in Holding
        PROVE  proc'[s].fd # proc[t].fd
    <3>1. proc'[s].fd = proc[s].fd /\ (proc[s].pc \in Holding \/ ~Locked(proc[s].fd))
      BY <2>1, <1>2
    <3>2. CASE proc[s].pc \in Holding
      <4>1. proc[s].fd # proc[t].fd
        BY <3>2, <2>1 DEF LockedOnce
      <4> QED BY <4>1, <3>1
    <3>3. CASE ~Locked(proc[s].fd)
      <4>1. proc[s].fd # proc[t].fd
        BY <3>3, <2>1 DEF Locked
      <4> QED BY <4>1, <3>1
    <3> QED BY <3>1, <3>2, <3>3
  <2>2. ASSUME NEW t \in Servers, NEW u \in Servers, proc'[t].pc \in Holding, proc'[u].pc \in Holding,
               proc'[t].fd = proc'[u].fd, t # u
        PROVE  FALSE
    <3>1. CASE t = s
      BY <3>1, <2>2, <2>1, <1>1
    <3>2. CASE u = s
      BY <3>2, <2>2, <2>1, <1>1
    <3>3. CASE t # s /\ u # s
      BY <3>3, <2>2, <1>1 DEF LockedOnce
    <3> QED BY <3>1, <3>2, <3>3
  <2> QED BY <2>2 DEF LockedOnce
<1>4. proc'[s].pc \in Owning => proc'[s].fd = path'
  BY DEF Records, Becomes, Holding, Owning, OwnsThePath, FilesKept
<1>5. ASSUME NEW t \in Servers \ {s}, proc[t].pc \in Owning
      PROVE  path' = path
  <2>1. proc[t].fd = path /\ path # 0
    BY <1>5 DEF OwnsThePath, ServerTypeOK, Alive, Owning
  <2>2. proc[s].pc # "stateless"
    BY <1>5, <2>1 DEF OwnsThePath, LockedOnce, Holding, Owning
  <2> QED BY <2>1, <2>2 DEF Records, FilesKept
<1> QED BY <1>1, <1>3, <1>4, <1>5 DEF OwnsThePath

LEMMA StateKept ==
  ASSUME ServerTypeOK, LockedOnce, OwnsThePath, StateTellsTheServer, NEW s \in Servers, Records(s)
  PROVE  StateTellsTheServer'
<1>1. \A t \in Servers \ {s} : proc'[t] = proc[t]
  BY DEF Records, Becomes
<1>2. OneServer
  BY OwnersAgree
<1>3. ASSUME NEW t \in Servers, Accepting(t)' PROVE state' = t
  <2>1. CASE t = s
    BY <1>3, <2>1 DEF Records, Becomes, Accepting, StateTellsTheServer, FilesKept, Owning
  <2>2. CASE t # s
    <3>1. state = t /\ proc[t].pc \in Owning
      BY <2>2, <1>1, <1>3 DEF Accepting, StateTellsTheServer, Owning
    <3>2. proc[s].pc \notin Owning
      BY <3>1, <2>2, <1>2 DEF OneServer
    <3> QED BY <3>1, <3>2 DEF Records, FilesKept, Owning
  <2> QED BY <2>1, <2>2
<1>4. ASSUME state' # NoOne
      PROVE  proc'[state'].pc \in {"serving", "stopping", "closing", "shut", "killed"}
  <2>1. CASE state' = s
    BY <1>4, <2>1, ServerAssumption
       DEF Records, Becomes, StateTellsTheServer, FilesKept, Owning, Alive
  <2>2. CASE state' # s
    <3>1. state' = state /\ state \in Servers \ {s}
      BY <1>4, <2>2 DEF Records, FilesKept, ServerTypeOK
    <3> QED BY <3>1, <1>1, <1>4 DEF StateTellsTheServer
  <2> QED BY <2>1, <2>2
<1> QED BY <1>3, <1>4 DEF StateTellsTheServer

LEMMA MeetingsKept ==
  ASSUME ServerTypeOK, AloneUntilMet, NEW s \in Servers, Records(s)
  PROVE  AloneUntilMet'
<1>1. \A t \in Servers \ {s} : proc'[t] = proc[t]
  BY DEF Records, Becomes
<1>2. /\ proc'[s].pc \in {"opened", "locked"} /\ s \notin met' =>
            proc'[s].fd = path' /\ \A t \in Servers \ {s} : ~Alive(t)
      /\ proc'[s].pc \in {"again", "refused"} => s \in met'
  BY DEF Records, Becomes, AloneUntilMet, FilesKept, Owning, Locked, Holding, Alive
<1>3. ASSUME NEW t \in Servers \ {s}
      PROVE  /\ proc'[t].pc \in {"opened", "locked"} /\ t \notin met' =>
                   proc'[t].fd = path' /\ \A u \in Servers \ {t} : ~Alive(u)'
             /\ proc'[t].pc \in {"again", "refused"} => t \in met'
  <2>1. proc'[t] = proc[t] /\ (t \in met => t \in met')
    BY <1>1, <1>3 DEF Records
  <2>2. ASSUME proc[t].pc \in {"opened", "locked"}, t \notin met' PROVE FALSE
    <3>1. t \notin met /\ Starting(t)
      BY <2>1, <2>2 DEF Starting
    <3>2. ~Alive(s)
      BY <3>1, <2>2, <1>3 DEF AloneUntilMet
    <3>3. proc[s].pc = "new"
      BY <3>2 DEF Records, Alive, Owning
    <3> QED BY <3>1, <3>3, <2>2, <1>3 DEF Records, Owning, Alive
  <2> QED BY <2>1, <2>2 DEF AloneUntilMet
<1> QED BY <1>1, <1>2, <1>3 DEF AloneUntilMet, Alive

(* The inductive invariant: one more server step keeps it. *)
LEMMA StepOK == IInv /\ [ServerNext]_serverVars => IInv'
<1>1. ASSUME IInv, ServerNext PROVE IInv'
  <2>1. PICK s \in Servers : Records(s)
    BY <1>1, EveryStep DEF IInv
  <2> QED BY <1>1, <2>1, Typed, LocksKept, StateKept, MeetingsKept DEF IInv
<1>2. ASSUME IInv, UNCHANGED serverVars PROVE IInv'
  BY <1>2 DEF IInv, serverVars, ServerTypeOK, TriesLeft, LockedOnce, OwnsThePath, StateTellsTheServer,
              AloneUntilMet, At, Alive, Accepting
<1> QED BY <1>1, <1>2

THEOREM ServerIInv == ServerSpec => []IInv
BY InitOK, StepOK, PTL DEF ServerSpec

----------------------------------------------------------------------------
(* Commands keeps what CommandServer promises: its clients move a server only by asking *)
(* it to stop. *)

LEMMA CommandsServe == [Next]_vars => [ServerNext]_serverVars
<1>1. ASSUME Next PROVE [ServerNext]_serverVars
  <2>1. CASE \E s \in Servers : \/ ServerMoves(Start(s)) \/ ServerMoves(End(s))
                                \/ ServerMoves(AskStop(s)) \/ ServerMoves(Crash(s))
    BY <2>1 DEF ServerMoves, ServerNext
  <2>2. CASE \E c \in Clients : (\E op \in Runs[c] : Ask(c, op)) \/ Command(c) \/ Timeout(c)
    BY <2>2 DEF Ask, Command, Timeout, ReadState, Hello, Send, Reset, Check, LocalWrite, LocalFollow, Poll,
                PollTimeout, Quiet
  <2>3. CASE \E c \in Clients : Handler(c)
    <3>1. PICK c \in Clients : Handler(c)
      BY <2>3
    <3>2. CASE StopRequest(c)
      BY <3>2 DEF StopRequest, ServerNext
    <3>3. CASE Accept(c) \/ ServeWrite(c) \/ ServeFollow(c) \/ ServeClosed(c) \/ Reply(c)
      BY <3>3 DEF Accept, ServeWrite, ServeFollow, ServeClosed, Reply
    <3> QED BY <3>1, <3>2, <3>3 DEF Handler
  <2> QED BY <1>1, <2>1, <2>2, <2>3 DEF Next
<1>2. UNCHANGED vars => UNCHANGED serverVars
  BY DEF vars
<1> QED BY <1>1, <1>2

(* With any clients the servers are those of CommandServer. *)
THEOREM CommandsRefine == Spec => ServerSpec
<1>1. Init => ServerInit
  BY DEF Init
<1> QED BY <1>1, CommandsServe, PTL DEF Spec, ServerSpec

(* The lock of _acquire_lock: any number of servers that start, stop and are killed at any *)
(* point leave one owner of the database, with the lock on the file at the path. *)
THEOREM OneServerAlways == Spec => []OneServer
<1>1. IInv => OneServer
  BY OwnersAgree DEF IInv
<1> QED BY <1>1, CommandsRefine, ServerIInv, PTL

(* The state file: who reads it finds the server that accepts requests. *)
THEOREM StateTellsAlways == Spec => []StateTellsTheServer
<1>1. IInv => StateTellsTheServer
  BY DEF IInv
<1> QED BY <1>1, CommandsRefine, ServerIInv, PTL

(* A killed server leaves nothing that keeps the next one from starting. *)
THEOREM NeverRefusedByFiles == Spec => []StaleFilesNeverRefuse
<1>1. IInv => StaleFilesNeverRefuse
  BY DEF IInv, AloneUntilMet, StaleFilesNeverRefuse, At
<1> QED BY <1>1, CommandsRefine, ServerIInv, PTL

----------------------------------------------------------------------------
(* The clients: what one command has done to the store, and what it may report. *)

(* What is known of the command of c, whatever servers and other clients do: how often its text *)
(* was stored, whether its request may still be carried out, and what is left to be done. *)
Fresh(c) == client[c].pc \in {"idle", "find", "hello", "send"} \/ (In(c, "write") /\ ~client[c].gone)
ToWrite(c) == client[c].pc \in {"wait", "check", "write"}
AtServer(c) == request[c].at \in {"queued", "write"}

Counted(c) ==
    /\ Fresh(c) => wrote[c] = 0 /\ ~Pending(c)
    /\ Pending(c) => In(c, "wait") \/ client[c].late
    /\ ToWrite(c) \/ AtServer(c) => wrote[c] <= 1
    /\ ToWrite(c) /\ AtServer(c) => wrote[c] = 0
    /\ wrote[c] > 1 => client[c].late
    /\ client[c].op = "ingest" => wrote[c] <= 1
    /\ In(c, "write") /\ client[c].op \in {"store", "supersede"} /\ ~client[c].late => wrote[c] = 0
Marked(c) ==
    /\ c \notin client[c].stale /\ (~In(c, "idle") => client[c].op # "none")
    /\ (client[c].late => client[c].gone) /\ (In(c, "check") => client[c].gone)
    /\ client[c].gone => client[c].pc \in {"check", "write", "follow", "poll", "done", "failed"}
    /\ client[c].pc \in {"check", "write", "follow"} => client[c].op \in {"store", "supersede", "ingest", "forget"}
    /\ In(c, "poll") => client[c].op = "stop"
    /\ client[c].pc \in {"hello", "send"} => client[c].server \in Servers
Carried(c) ==
    /\ In(c, "follow") \/ request[c].at = "follow" => wrote[c] >= 1 /\ client[c].op \in {"supersede", "ingest"}
    /\ request[c].at = "ok" /\ client[c].op # "stop" =>
         /\ ~client[c].late => c \in followed
         /\ client[c].op # "forget" => wrote[c] >= 1
         /\ client[c].op = "forget" => old # "open"
Reported(c) ==
    In(c, "done") =>
       /\ client[c].op \in {"store", "supersede"} => \E d \in Clients \ client[c].stale : wrote[d] > 0
       /\ client[c].op = "ingest" => wrote[c] = 1
       /\ client[c].op = "forget" => old # "open"
       /\ client[c].op # "stop" /\ ~client[c].gone => c \in followed
Fit(c) == Marked(c) /\ Counted(c) /\ Carried(c) /\ Reported(c)
ClientInv == \A c \in Clients : Fit(c)

ClientsTyped ==
    /\ client \in [Clients -> Client] /\ request \in [Clients -> Request \cup {NoRequest}]
    /\ wrote \in [Clients -> 0..2] /\ followed \subseteq Clients
    /\ old \in {"open", "superseded", "forgotten"}

(* A step of the command of c, its handler included. *)
Only(c) ==
    /\ client' \in [Clients -> Client] /\ request' \in [Clients -> Request \cup {NoRequest}]
    /\ wrote' \in [Clients -> 0..2]
    /\ \A d \in Clients \ {c} : client'[d] = client[d] /\ request'[d] = request[d] /\ wrote'[d] = wrote[d]
    /\ wrote[c] > 0 => wrote'[c] > 0
    /\ followed \subseteq followed' /\ followed' \subseteq Clients
    /\ old' \in {"open", "superseded", "forgotten"} /\ (old # "open" => old' # "open")

LEMMA RequestIs ==
    ASSUME ClientsTyped, NEW c \in Clients
    PROVE  /\ NoRequest.at = "none" /\ NoRequest \notin Request
           /\ Pending(c) <=> request[c] \in Request
           /\ ~Pending(c) => request[c].at = "none"
           /\ Pending(c) => request[c].at \in Stages /\ request[c].server \in Servers
BY DEF ClientsTyped, NoRequest, Request, Stages, Pending

(* Nothing another command does takes from what this one has done. *)
LEMMA OthersFit ==
    ASSUME ClientsTyped, NEW d \in Clients, Fit(d), client'[d] = client[d], wrote'[d] = wrote[d],
           request'[d] \in {request[d], NoRequest}, followed \subseteq followed', old # "open" => old' # "open",
           \A e \in Clients : wrote[e] > 0 => wrote'[e] > 0
    PROVE  Fit(d)'
<1>1. request'[d].at \in {request[d].at, "none"} /\ (Pending(d)' => Pending(d))
      /\ (AtServer(d)' => AtServer(d))
  BY RequestIs DEF Pending, AtServer
<1>2. /\ Fresh(d)' <=> Fresh(d)
      /\ ToWrite(d)' <=> ToWrite(d)
      /\ \A ph : In(d, ph)' <=> In(d, ph)
  BY DEF Fresh, ToWrite, In
<1>3. Marked(d)'
  BY <1>2 DEF Fit, Marked
<1>4. Counted(d)'
  BY <1>1, <1>2 DEF Fit, Counted
<1>5. Carried(d)'
  BY <1>1, <1>2 DEF Fit, Carried
<1>6. Reported(d)'
  BY <1>2 DEF Fit, Reported
<1> QED
  BY <1>3, <1>4, <1>5, <1>6 DEF Fit

LEMMA OnlyKeeps ==
    ASSUME ClientsTyped, ClientInv, NEW c \in Clients, Only(c), Fit(c)'
    PROVE  ClientsTyped' /\ ClientInv'
<1>1. ClientsTyped'
  BY DEF Only, ClientsTyped
<1>2. \A e \in Clients : wrote[e] > 0 => wrote'[e] > 0
  BY DEF Only
<1>3. \A d \in Clients \ {c} : Fit(d)'
  BY <1>2, OthersFit DEF Only, ClientInv
<1> QED
  BY <1>1, <1>3 DEF ClientInv

(* A step of the client alone. *)
LEMMA QuietOnly ==
    ASSUME ClientsTyped, NEW c \in Clients, NEW k \in Client, Set(c, k), Quiet
    PROVE  Only(c) /\ client'[c] = k /\ UNCHANGED <<request, wrote, followed, old>>
BY DEF ClientsTyped, Set, Quiet, StoreKept, Only

LEMMA AskFits ==
    ASSUME ServerTypeOK, ClientsTyped, ClientInv, NEW c \in Clients, NEW op \in Runs[c], Ask(c, op)
    PROVE  Only(c) /\ Fit(c)'
<1> DEFINE k == [client[c] EXCEPT !.pc = "find", !.op = op]
<1>1. client[c] \in Client /\ op \in Ops /\ Fit(c)
  BY OpAssumption DEF ClientsTyped, ClientInv
<1>2. /\ k \in Client /\ k.pc = "find" /\ k.op = op /\ k.stale = client[c].stale
      /\ k.gone = client[c].gone /\ k.late = client[c].late
  BY <1>1 DEF Client, Phases
<1>3. In(c, "idle") /\ Set(c, k) /\ Quiet
  BY DEF Ask
<1> HIDE DEF k
<1>4. Only(c) /\ client'[c] = k /\ UNCHANGED <<request, wrote, followed, old>>
  BY <1>2, <1>3, QuietOnly
<1>5. request'[c].at = "none"
  BY <1>1, <1>3, <1>4, RequestIs DEF Fit, Counted, Fresh, In
<1>6. wrote'[c] = 0 /\ ~Pending(c)' /\ ~k.gone /\ ~k.late /\ c \notin k.stale
  BY <1>1, <1>2, <1>3, <1>4 DEF Fit, Marked, Counted, Fresh, In, Pending
<1> QED
  BY <1>1, <1>2, <1>4, <1>5, <1>6
     DEF Fit, Marked, Counted, Carried, Reported, Fresh, ToWrite, AtServer, In, Ops

(* A step of the client that stores nothing. *)
LEMMA PhaseFits ==
    ASSUME ClientsTyped, ClientInv, NEW c \in Clients, NEW k \in Client, Set(c, k), Quiet,
           k.op = client[c].op, k.stale = client[c].stale,
           k.pc \in {"hello", "send"} => k.server \in Servers,
           \/ /\ client[c].pc \in {"find", "hello"} /\ k.gone = client[c].gone /\ k.late = client[c].late
              /\ k.pc \in {"hello", "send", "failed"} \/ (k.pc = "write" /\ k.op # "stop")
           \/ /\ In(c, "wait") /\ k.pc = (IF k.op = "stop" THEN "poll" ELSE "check") /\ k.gone
              /\ k.late = Pending(c)
           \/ /\ In(c, "check") /\ k.gone = client[c].gone /\ k.late = client[c].late
              /\ k.pc = IF Applied(c) THEN "done" ELSE "write"
           \/ /\ In(c, "poll") /\ k.gone = client[c].gone /\ k.late = client[c].late
              /\ k.pc \in {"done", "failed"}
    PROVE  Only(c) /\ Fit(c)'
<1>1. client[c] \in Client /\ Fit(c) /\ wrote[c] \in 0..2
  BY DEF ClientsTyped, ClientInv
<1>2. Only(c) /\ client'[c] = k /\ UNCHANGED <<request, wrote, followed, old>>
  BY QuietOnly
<1>3. ~Pending(c) => request[c].at = "none"
  BY RequestIs
<1>4. k.op \in Ops \cup {"none"} /\ k.gone \in BOOLEAN /\ k.late \in BOOLEAN
  BY DEF Client
<1>5. /\ request'[c] = request[c] /\ wrote'[c] = wrote[c] /\ (Pending(c)' <=> Pending(c))
      /\ (AtServer(c)' <=> AtServer(c))
  BY <1>2 DEF Pending, AtServer
<1>6. CASE client[c].pc \in {"find", "hello"}
  <2>1. /\ wrote[c] = 0 /\ ~Pending(c) /\ ~k.gone /\ ~k.late /\ c \notin k.stale /\ k.op # "none"
        /\ k.pc \in {"hello", "send", "failed"} \/ (k.pc = "write" /\ k.op # "stop")
    BY <1>1, <1>6 DEF Fit, Marked, Counted, Fresh, In
  <2> QED
    BY <1>2, <1>3, <1>4, <1>5, <2>1
       DEF Fit, Marked, Counted, Carried, Reported, Fresh, ToWrite, AtServer, In, Ops
<1>7. CASE In(c, "wait")
  <2>1. /\ k.pc = (IF k.op = "stop" THEN "poll" ELSE "check") /\ k.gone /\ k.late = Pending(c)
        /\ c \notin k.stale /\ k.op # "none"
    BY <1>1, <1>7 DEF Fit, Marked, In
  <2>2. /\ wrote[c] <= 1 /\ (AtServer(c) => wrote[c] = 0)
    BY <1>1, <1>7 DEF Fit, Counted, ToWrite, In
  <2>3. Marked(c)' /\ Reported(c)'
    BY <1>2, <1>4, <2>1 DEF Marked, Reported, In, Ops
  <2>4. Counted(c)'
    BY <1>1, <1>2, <1>5, <2>1, <2>2 DEF Counted, Fresh, ToWrite, In
  <2>5. Carried(c)'
    BY <1>1, <1>2, <1>4, <1>7, <2>1, <2>3 DEF Fit, Carried, Counted, Marked, In
  <2> QED
    BY <1>2, <2>3, <2>4, <2>5 DEF Fit
<1>8. CASE In(c, "check")
  <2>1. /\ k.gone = client[c].gone /\ k.late = client[c].late
        /\ k.pc = (IF Applied(c) THEN "done" ELSE "write")
    BY <1>8 DEF In
  <2>2. /\ c \notin k.stale /\ k.gone /\ wrote[c] <= 1 /\ (AtServer(c) => wrote[c] = 0)
        /\ (Pending(c) => k.late) /\ k.op \in {"store", "supersede", "ingest", "forget"}
    BY <1>1, <1>8, <2>1 DEF Fit, Marked, Counted, ToWrite, In
  <2>3. /\ Applied(c) => k.op \in {"store", "supersede"} /\ \E d \in Clients \ k.stale : wrote[d] > 0
        /\ ~Applied(c) /\ k.op \in {"store", "supersede"} => wrote[c] = 0
    BY <1>1, <2>2 DEF Applied
  <2>4. Marked(c)' /\ Reported(c)'
    BY <1>2, <1>4, <2>1, <2>2, <2>3 DEF Marked, Reported, In
  <2>5. Counted(c)'
    BY <1>1, <1>2, <1>5, <2>1, <2>2, <2>3 DEF Counted, Fresh, ToWrite, In
  <2>6. Carried(c)'
    BY <1>1, <1>2, <1>8, <2>1 DEF Fit, Carried, In
  <2> QED
    BY <1>2, <2>4, <2>5, <2>6 DEF Fit
<1>9. CASE In(c, "poll")
  <2>1. /\ k.gone = client[c].gone /\ k.late = client[c].late /\ k.pc \in {"done", "failed"} /\ k.op = "stop"
    BY <1>1, <1>9 DEF Fit, Marked, In
  <2>2. Marked(c)' /\ Reported(c)'
    BY <1>1, <1>2, <2>1 DEF Fit, Marked, Reported, In
  <2>3. Counted(c)'
    BY <1>1, <1>2, <1>5, <1>9, <2>1 DEF Fit, Counted, Fresh, ToWrite, In
  <2>4. Carried(c)'
    BY <1>1, <1>2, <1>9, <2>1 DEF Fit, Carried, In
  <2> QED
    BY <1>2, <2>2, <2>3, <2>4 DEF Fit
<1> QED
  BY <1>6, <1>7, <1>8, <1>9

LEMMA QuietFits ==
    ASSUME ServerTypeOK, ClientsTyped, ClientInv, NEW c \in Clients,
           ReadState(c) \/ Hello(c) \/ Reset(c) \/ Timeout(c) \/ Check(c) \/ Poll(c) \/ PollTimeout(c)
    PROVE  Only(c) /\ Fit(c)'
<1>1. client[c] \in Client /\ state \in Servers \cup {NoOne} /\ Fit(c)
  BY DEF ClientsTyped, ClientInv, ServerTypeOK
<1>2. \A ph \in Phases : [client[c] EXCEPT !.pc = ph] \in Client
  BY <1>1 DEF Client
<1>3. \A ph \in Phases : LET k == [client[c] EXCEPT !.pc = ph] IN
         k.op = client[c].op /\ k.stale = client[c].stale /\ k.gone = client[c].gone /\ k.late = client[c].late
         /\ k.server = client[c].server /\ k.pc = ph
  BY <1>1 DEF Client
<1>4. CASE ReadState(c) /\ (c \in Direct \/ state = NoOne)
  <2>1. In(c, "find") /\ Set(c, [client[c] EXCEPT !.pc = Locally(client[c].op)]) /\ Quiet
    BY <1>4 DEF ReadState, Goto
  <2>2. Locally(client[c].op) \in {"failed", "write"} /\ (Locally(client[c].op) = "write" => client[c].op # "stop")
    BY DEF Locally
  <2> QED
    BY <1>2, <1>3, <2>1, <2>2, PhaseFits DEF Phases, In
<1>5. CASE ReadState(c) /\ ~(c \in Direct \/ state = NoOne)
  <2> DEFINE k == [client[c] EXCEPT !.server = state, !.pc = "hello"]
  <2>1. In(c, "find") /\ Set(c, k) /\ Quiet
    BY <1>5 DEF ReadState
  <2>2. /\ k \in Client /\ k.op = client[c].op /\ k.stale = client[c].stale /\ k.gone = client[c].gone
        /\ k.late = client[c].late /\ k.pc = "hello" /\ k.server \in Servers
    BY <1>1, <1>5 DEF Client, Phases
  <2> HIDE DEF k
  <2> QED
    BY <2>1, <2>2, PhaseFits DEF In
<1>6. CASE Hello(c)
  <2>1. PICK ph \in {"send", "failed", "write"} :
           /\ In(c, "hello") /\ Set(c, [client[c] EXCEPT !.pc = ph]) /\ Quiet
           /\ ph = "write" => client[c].op # "stop"
    BY <1>6 DEF Hello, Goto, Locally
  <2>2. client[c].server \in Servers
    BY <1>1, <2>1 DEF Fit, Marked, In
  <2> QED
    BY <1>2, <1>3, <2>1, <2>2, PhaseFits DEF Phases, In
<1>7. CASE Reset(c) \/ Timeout(c)
  <2> DEFINE k == [client[c] EXCEPT !.pc = IF client[c].op = "stop" THEN "poll" ELSE "check", !.gone = TRUE]
  <2>1. k \in Client /\ [k EXCEPT !.late = TRUE] \in Client
    BY <1>1 DEF Client, Phases
  <2>2. \A r \in {k, [k EXCEPT !.late = TRUE]} :
           /\ r.op = client[c].op /\ r.stale = client[c].stale /\ r.gone
           /\ r.pc = IF r.op = "stop" THEN "poll" ELSE "check"
    BY <1>1 DEF Client
  <2>3. k.late = client[c].late /\ [k EXCEPT !.late = TRUE].late
    BY <1>1 DEF Client
  <2>4. In(c, "wait") /\ Quiet /\ ~client[c].late
    BY <1>1, <1>7 DEF Reset, Timeout, Fit, Marked, In
  <2>5. \/ ~Pending(c) /\ Set(c, k)
        \/ Pending(c) /\ Set(c, [k EXCEPT !.late = TRUE])
    BY <1>7 DEF Reset, Timeout, Retries
  <2>6. \A r \in Client : r.late \in BOOLEAN
    BY DEF Client
  <2> HIDE DEF k
  <2>7. CASE ~Pending(c) /\ Set(c, k)
    <3>1. k.late = Pending(c)
      BY <2>1, <2>3, <2>4, <2>6, <2>7 DEF Pending
    <3> QED
      BY <2>1, <2>2, <2>4, <2>7, <3>1, PhaseFits
  <2>8. CASE Pending(c) /\ Set(c, [k EXCEPT !.late = TRUE])
    <3>1. [k EXCEPT !.late = TRUE].late = Pending(c)
      BY <2>1, <2>3, <2>6, <2>8 DEF Pending
    <3> QED
      BY <2>1, <2>2, <2>4, <2>8, <3>1, PhaseFits
  <2> QED
    BY <2>5, <2>7, <2>8
<1>8. CASE Check(c)
  <2>1. PICK ph \in {"done", "write"} :
           In(c, "check") /\ ph = (IF Applied(c) THEN "done" ELSE "write")
           /\ Set(c, [client[c] EXCEPT !.pc = ph]) /\ Quiet
    BY <1>8 DEF Check, Goto
  <2> QED
    BY <1>2, <1>3, <2>1, PhaseFits DEF Phases
<1>9. CASE Poll(c) \/ PollTimeout(c)
  <2>1. PICK ph \in {"done", "failed"} : In(c, "poll") /\ Set(c, [client[c] EXCEPT !.pc = ph]) /\ Quiet
    BY <1>9 DEF Poll, PollTimeout, Goto
  <2> QED
    BY <1>2, <1>3, <2>1, PhaseFits DEF Phases
<1> QED
  BY <1>4, <1>5, <1>6, <1>7, <1>8, <1>9

(* What a stage of the request, and the statement that stores, leave behind. *)
LEMMA StageIs ==
    ASSUME ClientsTyped, NEW c \in Clients, Pending(c), NEW stage \in Stages, Handled(c, stage)
    PROVE  /\ request' \in [Clients -> Request \cup {NoRequest}]
           /\ \A d \in Clients \ {c} : request'[d] = request[d]
           /\ request'[c].at = stage /\ Pending(c)'
<1>1. request[c] \in Request
  BY RequestIs
<1>2. [request[c] EXCEPT !.at = stage] \in Request /\ [request[c] EXCEPT !.at = stage].at = stage
  BY <1>1 DEF Request
<1>3. request' = [request EXCEPT ![c] = [request[c] EXCEPT !.at = stage]]
  BY DEF Handled
<1>4. request'[c] = [request[c] EXCEPT !.at = stage]
  BY <1>3 DEF ClientsTyped
<1>5. Pending(c)'
  BY <1>2, <1>4, RequestIs DEF Pending
<1> QED
  BY <1>2, <1>3, <1>4, <1>5 DEF ClientsTyped

LEMMA WrittenIs ==
    ASSUME ClientsTyped, NEW c \in Clients, NEW op \in {"store", "supersede", "ingest", "forget"},
           wrote[c] <= 1, Written(c, op)
    PROVE  /\ wrote' \in [Clients -> 0..2] /\ \A d \in Clients \ {c} : wrote'[d] = wrote[d]
           /\ wrote'[c] = Rows(c, op) /\ (wrote[c] > 0 => wrote'[c] > 0)
           /\ followed \subseteq followed' /\ followed' \subseteq Clients
           /\ op \in {"store", "forget"} => c \in followed'
           /\ old' \in {"open", "superseded", "forgotten"} /\ (old # "open" => old' # "open")
           /\ op = "forget" => old' = "forgotten"
<1>1. wrote[c] \in 0..2 /\ Rows(c, op) \in 0..2 /\ (wrote[c] > 0 => Rows(c, op) > 0)
  BY DEF ClientsTyped, Rows
<1> QED
  BY <1>1 DEF Written, ClientsTyped

LEMMA FollowedIs ==
    ASSUME ClientsTyped, NEW c \in Clients, NEW op, Followed(c, op)
    PROVE  /\ wrote' = wrote
           /\ followed \subseteq followed' /\ followed' \subseteq Clients /\ c \in followed'
           /\ old' \in {"open", "superseded", "forgotten"} /\ (old # "open" => old' # "open")
BY DEF Followed, ClientsTyped

LEMMA SendFits ==
    ASSUME ClientsTyped, ClientInv, NEW c \in Clients, Send(c)
    PROVE  Only(c) /\ Fit(c)'
<1>1. client[c] \in Client /\ Fit(c) /\ In(c, "send")
  BY DEF ClientsTyped, ClientInv, Send
<1>2. /\ wrote[c] = 0 /\ ~Pending(c) /\ request[c].at = "none" /\ ~client[c].gone /\ ~client[c].late
      /\ client[c].server \in Servers /\ client[c].op # "none"
  BY <1>1, RequestIs DEF Fit, Marked, Counted, Fresh, In
<1>3. PICK older \in SUBSET {d \in Clients : wrote[d] > 0} :
         \/ /\ Set(c, [client[c] EXCEPT !.pc = "wait", !.stale = older])
            /\ request' = [request EXCEPT ![c] = [at |-> "queued", server |-> client[c].server]]
         \/ Set(c, [Retries(client[c]) EXCEPT !.stale = older]) /\ UNCHANGED request
  BY DEF Send
<1>4. UNCHANGED <<wrote, followed, old>> /\ c \notin older /\ older \subseteq Clients
  BY <1>2 DEF Send, StoreKept
<1>5. CASE /\ Set(c, [client[c] EXCEPT !.pc = "wait", !.stale = older])
           /\ request' = [request EXCEPT ![c] = [at |-> "queued", server |-> client[c].server]]
  <2> DEFINE k == [client[c] EXCEPT !.pc = "wait", !.stale = older]
             r == [at |-> "queued", server |-> client[c].server]
  <2>1. /\ k \in Client /\ k.pc = "wait" /\ k.stale = older /\ ~k.gone /\ ~k.late /\ k.op = client[c].op
    BY <1>1, <1>2, <1>4 DEF Client, Phases
  <2>2. r \in Request /\ r.at = "queued"
    BY <1>2 DEF Request, Stages
  <2>3. client' = [client EXCEPT ![c] = k] /\ request' = [request EXCEPT ![c] = r]
    BY <1>5 DEF Set
  <2> HIDE DEF k, r
  <2>4. Only(c) /\ client'[c] = k /\ request'[c] = r /\ wrote'[c] = 0
    BY <1>2, <1>4, <2>1, <2>2, <2>3 DEF ClientsTyped, Only
  <2> QED
    BY <1>2, <1>4, <2>1, <2>2, <2>4
       DEF Fit, Marked, Counted, Carried, Reported, Fresh, ToWrite, AtServer, In
<1>6. CASE Set(c, [Retries(client[c]) EXCEPT !.stale = older]) /\ UNCHANGED request
  <2> DEFINE k == [Retries(client[c]) EXCEPT !.stale = older]
  <2>1. /\ k \in Client /\ k.pc = (IF client[c].op = "stop" THEN "poll" ELSE "check") /\ k.stale = older
        /\ k.gone /\ ~k.late /\ k.op = client[c].op
    BY <1>1, <1>2, <1>4 DEF Client, Phases, Retries
  <2>2. client' = [client EXCEPT ![c] = k]
    BY <1>6 DEF Set
  <2> HIDE DEF k
  <2>3. Only(c) /\ client'[c] = k /\ wrote'[c] = 0 /\ request'[c].at = "none" /\ ~Pending(c)'
    BY <1>2, <1>4, <1>6, <2>1, <2>2 DEF ClientsTyped, Only, Pending
  <2>4. k.op \in Ops
    BY <1>1, <1>2, <2>1 DEF Client
  <2> QED
    BY <1>2, <1>4, <2>1, <2>3, <2>4
       DEF Fit, Marked, Counted, Carried, Reported, Fresh, ToWrite, AtServer, In, Ops
<1> QED
  BY <1>3, <1>5, <1>6

LEMMA LocalFits ==
    ASSUME ClientsTyped, ClientInv, NEW c \in Clients, LocalWrite(c) \/ LocalFollow(c)
    PROVE  Only(c) /\ Fit(c)'
<1>1. client[c] \in Client /\ Fit(c) /\ wrote[c] \in 0..2 /\ UNCHANGED request
  BY DEF ClientsTyped, ClientInv, LocalWrite, LocalFollow
<1>2. \A ph \in Phases : LET k == [client[c] EXCEPT !.pc = ph] IN
         /\ k \in Client /\ k.op = client[c].op /\ k.stale = client[c].stale /\ k.gone = client[c].gone
         /\ k.late = client[c].late /\ k.pc = ph
  BY <1>1 DEF Client
<1>3. request'[c] = request[c] /\ (Pending(c)' <=> Pending(c)) /\ (AtServer(c)' <=> AtServer(c))
  BY <1>1 DEF Pending, AtServer
<1>4. /\ client[c].op \in {"store", "supersede", "ingest", "forget"} /\ c \notin client[c].stale
      /\ (client[c].late => client[c].gone) /\ (Pending(c) => client[c].late)
  BY <1>1 DEF Fit, Marked, Counted, In, LocalWrite, LocalFollow
<1>5. CASE LocalWrite(c) /\ Finds(client[c].op)
  <2> DEFINE op == client[c].op
             ph == IF Follows(c, op) THEN "follow" ELSE "done"
             k == [client[c] EXCEPT !.pc = ph]
  <2>1. In(c, "write") /\ Written(c, op) /\ Set(c, k)
    BY <1>5 DEF LocalWrite, Goto
  <2>2. /\ wrote[c] <= 1 /\ (AtServer(c) => wrote[c] = 0) /\ (~client[c].gone => wrote[c] = 0)
        /\ (op \in {"store", "supersede"} /\ ~client[c].late => wrote[c] = 0)
    BY <1>1, <2>1 DEF Fit, Counted, ToWrite, Fresh, In
  <2>3. /\ wrote' \in [Clients -> 0..2] /\ \A d \in Clients \ {c} : wrote'[d] = wrote[d]
        /\ wrote'[c] = Rows(c, op) /\ (wrote[c] > 0 => wrote'[c] > 0)
        /\ followed \subseteq followed' /\ followed' \subseteq Clients
        /\ op \in {"store", "forget"} => c \in followed'
        /\ old' \in {"open", "superseded", "forgotten"} /\ (old # "open" => old' # "open")
        /\ op = "forget" => old' = "forgotten"
    BY <1>4, <2>1, <2>2, WrittenIs
  <2>4. /\ k \in Client /\ k.op = op /\ k.stale = client[c].stale /\ k.gone = client[c].gone
        /\ k.late = client[c].late /\ k.pc = ph
    BY <1>2 DEF Phases
  <2>5. client' = [client EXCEPT ![c] = k]
    BY <2>1 DEF Set
  <2> HIDE DEF k
  <2>6. Only(c) /\ client'[c] = k
    BY <1>1, <2>3, <2>4, <2>5 DEF ClientsTyped, Only
  <2>7. ph \in {"follow", "done"} /\ (ph = "follow" <=> op = "supersede" \/ (op = "ingest" /\ wrote[c] = 0))
    BY DEF Follows
  <2>8. wrote'[c] = IF op = "forget" THEN wrote[c] ELSE IF op = "ingest" THEN 1 ELSE wrote[c] + 1
    BY <2>3 DEF Rows
  <2> HIDE DEF ph, op
  <2>9. Marked(c)'
    BY <1>1, <1>4, <2>4, <2>6, <2>7 DEF Marked, In, op
  <2>10. Counted(c)'
    BY <1>1, <1>3, <1>4, <2>2, <2>4, <2>6, <2>7, <2>8 DEF Counted, Fresh, ToWrite, In, op
  <2>11. Carried(c)'
    BY <1>1, <1>3, <1>4, <2>3, <2>4, <2>6, <2>7, <2>8 DEF Fit, Carried, In, op
  <2>12. Reported(c)'
    BY <1>1, <1>4, <2>2, <2>3, <2>4, <2>6, <2>7, <2>8 DEF Reported, In, op
  <2> QED
    BY <2>6, <2>9, <2>10, <2>11, <2>12 DEF Fit
<1>6. CASE LocalWrite(c) /\ ~Finds(client[c].op)
  <2> DEFINE k == IF client[c].gone /\ client[c].op = "forget" THEN [client[c] EXCEPT !.pc = "done"]
                  ELSE [client[c] EXCEPT !.pc = "failed", !.why = "missing"]
  <2>1. In(c, "write") /\ client' = [client EXCEPT ![c] = k] /\ UNCHANGED <<wrote, followed, old>> /\ old = "forgotten"
    BY <1>6 DEF LocalWrite, Set, StoreKept, Finds
  <2>2. /\ k \in Client /\ k.op = client[c].op /\ k.stale = client[c].stale /\ k.gone = client[c].gone
        /\ k.late = client[c].late /\ k.pc \in {"done", "failed"}
        /\ k.pc = "done" => k.gone /\ k.op = "forget"
    BY <1>1 DEF Client, Phases
  <2> HIDE DEF k
  <2>3. Only(c) /\ client'[c] = k
    BY <1>1, <2>1, <2>2 DEF ClientsTyped, Only
  <2>4. Marked(c)' /\ Reported(c)'
    BY <1>1, <1>4, <2>1, <2>2, <2>3 DEF Marked, Reported, In
  <2>5. Counted(c)'
    BY <1>1, <1>3, <2>1, <2>2, <2>3 DEF Fit, Counted, Fresh, ToWrite, In
  <2>6. Carried(c)'
    BY <1>1, <2>1, <2>2, <2>3 DEF Fit, Carried, In
  <2> QED
    BY <2>3, <2>4, <2>5, <2>6 DEF Fit
<1>7. CASE LocalFollow(c)
  <2> DEFINE k == [client[c] EXCEPT !.pc = "done"]
  <2>1. In(c, "follow") /\ client' = [client EXCEPT ![c] = k] /\ Followed(c, client[c].op)
    BY <1>7 DEF LocalFollow, Goto, Set
  <2>2. /\ k \in Client /\ k.op = client[c].op /\ k.stale = client[c].stale /\ k.gone = client[c].gone
        /\ k.late = client[c].late /\ k.pc = "done"
    BY <1>2 DEF Phases
  <2>3. /\ wrote' = wrote /\ followed \subseteq followed' /\ followed' \subseteq Clients /\ c \in followed'
        /\ old' \in {"open", "superseded", "forgotten"} /\ (old # "open" => old' # "open")
    BY <2>1, FollowedIs
  <2>4. wrote[c] >= 1 /\ client[c].op \in {"supersede", "ingest"} /\ (client[c].op = "ingest" => wrote[c] <= 1)
    BY <1>1, <2>1 DEF Fit, Carried, Counted
  <2> HIDE DEF k
  <2>5. Only(c) /\ client'[c] = k
    BY <1>1, <2>1, <2>2, <2>3 DEF ClientsTyped, Only
  <2>6. Marked(c)' /\ Reported(c)'
    BY <1>1, <1>4, <2>2, <2>3, <2>4, <2>5 DEF Marked, Reported, In
  <2>7. Counted(c)'
    BY <1>1, <1>3, <2>1, <2>2, <2>3, <2>5 DEF Fit, Counted, Fresh, ToWrite, In
  <2>8. Carried(c)'
    BY <1>1, <2>2, <2>3, <2>4, <2>5 DEF Fit, Carried, In
  <2> QED
    BY <2>5, <2>6, <2>7, <2>8 DEF Fit
<1> QED
  BY <1>5, <1>6, <1>7

LEMMA HandlerFits ==
    ASSUME ClientsTyped, ClientInv, NEW c \in Clients, Handler(c)
    PROVE  Only(c) /\ Fit(c)'
<1>1. client[c] \in Client /\ Fit(c) /\ wrote[c] \in 0..2 /\ Pending(c)
  BY DEF ClientsTyped, ClientInv, Handler, Accept, StopRequest, ServeWrite, ServeFollow, ServeClosed, Reply, Working
<1>2. /\ In(c, "wait") \/ client[c].late
      /\ client[c].op # "none" /\ c \notin client[c].stale /\ (In(c, "wait") => ~client[c].gone /\ ~client[c].late)
      /\ ~Fresh(c)
  BY <1>1 DEF Fit, Marked, Counted, Fresh, In
(* The request moves on by a stage and nothing is stored. *)
<1>3. ASSUME NEW stage \in Stages, Handled(c, stage), UNCHANGED client, StoreKept,
             stage \in {"queued", "write"} => AtServer(c),
             stage = "follow" => request[c].at = "follow",
             stage = "ok" => client[c].op = "stop"
      PROVE  Only(c) /\ Fit(c)'
  <2>1. /\ request' \in [Clients -> Request \cup {NoRequest}]
        /\ \A d \in Clients \ {c} : request'[d] = request[d]
        /\ request'[c].at = stage /\ Pending(c)'
    BY <1>1, <1>3, StageIs
  <2>2. UNCHANGED <<wrote, followed, old, client>>
    BY <1>3 DEF StoreKept
  <2>3. Only(c)
    BY <2>1, <2>2 DEF ClientsTyped, Only
  <2>4. Marked(c)' /\ Reported(c)'
    BY <1>1, <2>2 DEF Fit, Marked, Reported, In
  <2>5. Counted(c)'
    BY <1>1, <1>2, <1>3, <2>1, <2>2 DEF Fit, Counted, Fresh, ToWrite, AtServer, In
  <2>6. Carried(c)'
    BY <1>1, <1>3, <2>1, <2>2 DEF Fit, Carried, In
  <2> QED
    BY <2>3, <2>4, <2>5, <2>6 DEF Fit
<1>4. CASE Accept(c)
  <2>1. Handled(c, "write") /\ UNCHANGED client /\ StoreKept /\ AtServer(c) /\ "write" \in Stages
    BY <1>4 DEF Accept, Working, AtServer, Stages
  <2> QED
    BY <1>3, <2>1
<1>5. CASE StopRequest(c)
  <2>1. Handled(c, "ok") /\ UNCHANGED client /\ StoreKept /\ client[c].op = "stop" /\ "ok" \in Stages
    BY <1>5 DEF StopRequest, Stages
  <2> QED
    BY <1>3, <2>1
<1>6. CASE ServeClosed(c)
  <2>1. Handled(c, "closed") /\ UNCHANGED client /\ StoreKept /\ "closed" \in Stages
    BY <1>6 DEF ServeClosed, Stages
  <2> QED
    BY <1>3, <2>1
<1>7. CASE ServeWrite(c) /\ ~Finds(client[c].op)
  <2>1. Handled(c, "missing") /\ UNCHANGED client /\ StoreKept /\ "missing" \in Stages
    BY <1>7 DEF ServeWrite, Stages
  <2> QED
    BY <1>3, <2>1
<1>8. CASE ServeWrite(c) /\ Finds(client[c].op)
  <2> DEFINE op == client[c].op
             stage == IF Follows(c, op) THEN "follow" ELSE "ok"
  <2>1. Working(c, "write") /\ op # "stop" /\ Written(c, op) /\ Handled(c, stage) /\ UNCHANGED client
    BY <1>8 DEF ServeWrite
  <2>2. op \in {"store", "supersede", "ingest", "forget"}
    BY <1>1, <1>2, <2>1 DEF Client, Ops
  <2>3. /\ AtServer(c) /\ wrote[c] <= 1 /\ (ToWrite(c) => wrote[c] = 0)
        /\ stage \in Stages /\ stage \in {"follow", "ok"}
        /\ (stage = "follow" <=> op = "supersede" \/ (op = "ingest" /\ wrote[c] = 0))
    BY <1>1, <2>1 DEF Fit, Counted, AtServer, Working, Follows, Stages
  <2>4. /\ wrote' \in [Clients -> 0..2] /\ \A d \in Clients \ {c} : wrote'[d] = wrote[d]
        /\ wrote'[c] = Rows(c, op) /\ (wrote[c] > 0 => wrote'[c] > 0)
        /\ followed \subseteq followed' /\ followed' \subseteq Clients
        /\ op \in {"store", "forget"} => c \in followed'
        /\ old' \in {"open", "superseded", "forgotten"} /\ (old # "open" => old' # "open")
        /\ op = "forget" => old' = "forgotten"
    BY <2>1, <2>2, <2>3, WrittenIs
  <2> HIDE DEF stage
  <2>5. /\ request' \in [Clients -> Request \cup {NoRequest}]
        /\ \A d \in Clients \ {c} : request'[d] = request[d]
        /\ request'[c].at = stage /\ Pending(c)'
    BY <1>1, <2>1, <2>3, StageIs
  <2>6. Only(c)
    BY <2>1, <2>4, <2>5 DEF ClientsTyped, Only
  <2>7. wrote'[c] = IF op = "forget" THEN wrote[c] ELSE IF op = "ingest" THEN 1 ELSE wrote[c] + 1
    BY <2>4 DEF Rows
  <2>8. \A d \in Clients : wrote[d] > 0 => wrote'[d] > 0
    BY <2>4
  <2>9. Marked(c)'
    BY <1>1, <2>1 DEF Fit, Marked, In
  <2>10. Reported(c)'
    <3>1. client'[c] = client[c]
      BY <2>1
    <3>2. In(c, "done") => (client[c].op = "ingest" => wrote[c] = 1)
      BY <1>1 DEF Fit, Reported
    <3> QED
      BY <1>1, <2>4, <2>7, <2>8, <3>1, <3>2 DEF Fit, Reported, In
  <2>11. Counted(c)'
    BY <1>1, <1>2, <2>1, <2>3, <2>5, <2>7 DEF Fit, Counted, Fresh, ToWrite, AtServer, In
  <2>12. Carried(c)'
    BY <1>1, <1>2, <2>1, <2>2, <2>3, <2>4, <2>5, <2>7 DEF Fit, Carried, ToWrite, In
  <2> QED
    BY <2>6, <2>9, <2>10, <2>11, <2>12 DEF Fit
<1>9. CASE ServeFollow(c)
  <2>1. /\ request[c].at = "follow" /\ Followed(c, client[c].op) /\ Handled(c, "ok") /\ UNCHANGED client
        /\ "ok" \in Stages
    BY <1>9 DEF ServeFollow, Working, Stages
  <2>2. /\ wrote' = wrote /\ followed \subseteq followed' /\ followed' \subseteq Clients /\ c \in followed'
        /\ old' \in {"open", "superseded", "forgotten"} /\ (old # "open" => old' # "open")
    BY <2>1, FollowedIs
  <2>3. /\ request' \in [Clients -> Request \cup {NoRequest}]
        /\ \A d \in Clients \ {c} : request'[d] = request[d]
        /\ request'[c].at = "ok" /\ Pending(c)'
    BY <1>1, <2>1, StageIs
  <2>4. Only(c)
    BY <2>1, <2>2, <2>3 DEF ClientsTyped, Only
  <2>5. wrote[c] >= 1 /\ client[c].op \in {"supersede", "ingest"}
    BY <1>1, <2>1 DEF Fit, Carried
  <2>6. Marked(c)' /\ Reported(c)'
    BY <1>1, <2>1, <2>2 DEF Fit, Marked, Reported, In
  <2>7. Counted(c)'
    BY <1>1, <1>2, <2>1, <2>2, <2>3 DEF Fit, Counted, Fresh, ToWrite, AtServer, In
  <2>8. Carried(c)'
    BY <1>1, <2>1, <2>2, <2>3, <2>5 DEF Fit, Carried, In
  <2> QED
    BY <2>4, <2>6, <2>7, <2>8 DEF Fit
<1>10. CASE Reply(c)
  <2>1. /\ request[c].at \in {"ok", "missing", "closed"} /\ UNCHANGED <<wrote, followed, old>>
        /\ request' = [request EXCEPT ![c] = NoRequest]
    BY <1>10 DEF Reply, StoreKept
  <2>2. request'[c] = NoRequest /\ request'[c].at = "none" /\ ~Pending(c)' /\ ~AtServer(c)'
    BY <2>1, RequestIs DEF ClientsTyped, Pending, AtServer
  <2>3. CASE ~In(c, "wait")
    <3>1. UNCHANGED client
      BY <1>10, <2>3 DEF Reply
    <3>2. Only(c)
      BY <2>1, <3>1 DEF ClientsTyped, Only
    <3>3. Marked(c)' /\ Reported(c)'
      BY <1>1, <2>1, <3>1 DEF Fit, Marked, Reported, In
    <3>4. Counted(c)' /\ Carried(c)'
      BY <1>1, <2>1, <2>2, <3>1 DEF Fit, Counted, Carried, Fresh, ToWrite, In
    <3> QED
      BY <3>2, <3>3, <3>4 DEF Fit
  <2>4. CASE In(c, "wait")
    <3> DEFINE k == IF client[c].op = "stop" THEN [client[c] EXCEPT !.pc = "poll"]
                    ELSE IF request[c].at = "ok" THEN [client[c] EXCEPT !.pc = "done"]
                    ELSE [client[c] EXCEPT !.pc = "failed", !.why = request[c].at]
    <3>1. client' = [client EXCEPT ![c] = k]
      BY <1>10, <2>4 DEF Reply, Set
    <3>2. /\ k \in Client /\ k.op = client[c].op /\ k.stale = client[c].stale /\ k.gone = client[c].gone
          /\ k.late = client[c].late /\ k.pc \in {"poll", "done", "failed"}
          /\ (k.pc = "poll" <=> k.op = "stop") /\ (k.pc = "done" => request[c].at = "ok")
      <4>1. client[c].op = "stop" \/ request[c].at = "ok" \/ request[c].at \in {"missing", "closed"}
        BY <2>1
      <4>2. CASE client[c].op = "stop"
        BY <1>1, <4>2 DEF Client, Phases
      <4>3. CASE client[c].op # "stop" /\ request[c].at = "ok"
        BY <1>1, <4>3 DEF Client, Phases
      <4>4. CASE client[c].op # "stop" /\ request[c].at \in {"missing", "closed"}
        <5>1. k = [client[c] EXCEPT !.pc = "failed", !.why = request[c].at]
          BY <4>4
        <5> HIDE DEF k
        <5> DEFINE y == request[c].at
        <5>2. k \in Client
          <6>1. y \in {"none", "missing", "closed"} /\ k = [client[c] EXCEPT !.pc = "failed", !.why = y]
            BY <4>4, <5>1
          <6> HIDE DEF y
          <6> QED
            BY <1>1, <6>1 DEF Client, Phases
        <5>3. /\ k.op = client[c].op /\ k.stale = client[c].stale /\ k.gone = client[c].gone
              /\ k.late = client[c].late /\ k.pc = "failed"
          BY <1>1, <5>1 DEF Client
        <5> QED
          BY <4>4, <5>2, <5>3
      <4> QED
        BY <4>1, <4>2, <4>3, <4>4
    <3> HIDE DEF k
    <3>3. Only(c) /\ client'[c] = k
      BY <2>1, <3>1, <3>2 DEF ClientsTyped, Only
    <3>4. Marked(c)'
      BY <1>1, <1>2, <2>4, <3>2, <3>3 DEF Fit, Marked, In
    <3>5. Counted(c)'
      BY <1>1, <2>1, <2>2, <2>4, <3>2, <3>3 DEF Fit, Counted, Fresh, ToWrite, In
    <3>6. Carried(c)'
      BY <2>2, <3>2, <3>3 DEF Carried, In
    <3>7. Reported(c)'
      <4>1. /\ request[c].at = "ok" /\ k.op # "stop" =>
                 /\ c \in followed
                 /\ k.op # "forget" => wrote[c] >= 1
                 /\ k.op = "forget" => old # "open"
            /\ k.op = "ingest" => wrote[c] <= 1
        BY <1>1, <1>2, <2>4, <3>2 DEF Fit, Carried, Counted
      <4> QED
        BY <1>1, <1>2, <2>1, <3>2, <3>3, <4>1 DEF Reported, In
    <3> QED
      BY <3>3, <3>4, <3>5, <3>6, <3>7 DEF Fit
  <2> QED
    BY <2>3, <2>4
<1> QED
  BY <1>4, <1>5, <1>6, <1>7, <1>8, <1>9, <1>10 DEF Handler

(* A step of a server only cuts requests off. *)
LEMMA ServersFit ==
    ASSUME ClientsTyped, ClientInv, NEW step, ServerMoves(step)
    PROVE  ClientsTyped' /\ ClientInv'
<1>1. /\ UNCHANGED <<client, wrote, followed, old>>
      /\ \A d \in Clients : request'[d] \in {request[d], NoRequest}
      /\ request' \in [Clients -> Request \cup {NoRequest}]
  BY DEF ServerMoves, ClientsTyped
<1>2. ClientsTyped'
  BY <1>1 DEF ClientsTyped
<1>3. \A d \in Clients : Fit(d)'
  BY <1>1, OthersFit DEF ClientInv
<1> QED
  BY <1>2, <1>3 DEF ClientInv

LEMMA CommandsInit == Init => ClientsTyped /\ ClientInv
<1> SUFFICES ASSUME Init PROVE ClientsTyped /\ ClientInv
  OBVIOUS
<1>1. NoRequest.at = "none"
  BY DEF NoRequest
<1>2. ClientsTyped
  BY DEF Init, ClientsTyped, Client, Phases
<1>3. \A c \in Clients : /\ client[c].pc = "idle" /\ client[c].op = "none" /\ ~client[c].gone /\ ~client[c].late
                         /\ client[c].stale = {} /\ request[c] = NoRequest /\ wrote[c] = 0
  BY DEF Init
<1> QED
  BY <1>1, <1>2, <1>3
     DEF ClientInv, Fit, Marked, Counted, Carried, Reported, Fresh, ToWrite, AtServer, In, Pending

LEMMA CommandsStep ==
    ServerTypeOK /\ ClientsTyped /\ ClientInv /\ [Next]_vars => ClientsTyped' /\ ClientInv'
<1> SUFFICES ASSUME ServerTypeOK, ClientsTyped, ClientInv, [Next]_vars PROVE ClientsTyped' /\ ClientInv'
  OBVIOUS
<1>1. CASE \E s \in Servers : \/ ServerMoves(Start(s)) \/ ServerMoves(End(s))
                              \/ ServerMoves(AskStop(s)) \/ ServerMoves(Crash(s))
  BY <1>1, ServersFit
<1>2. ASSUME NEW c \in Clients, (\E op \in Runs[c] : Ask(c, op)) \/ Command(c) \/ Timeout(c) \/ Handler(c)
      PROVE  ClientsTyped' /\ ClientInv'
  <2>1. CASE \E op \in Runs[c] : Ask(c, op)
    BY <2>1, AskFits, OnlyKeeps
  <2>2. CASE Command(c) \/ Timeout(c)
    BY <2>2, QuietFits, SendFits, LocalFits, OnlyKeeps DEF Command
  <2>3. CASE Handler(c)
    BY <2>3, HandlerFits, OnlyKeeps
  <2> QED
    BY <1>2, <2>1, <2>2, <2>3
<1>3. CASE UNCHANGED vars
  <2>1. UNCHANGED <<client, request, wrote, followed, old>>
    BY <1>3 DEF vars, clientVars
  <2>2. \A d \in Clients : Fit(d)'
    BY <2>1, OthersFit DEF ClientInv
  <2> QED
    BY <2>1, <2>2 DEF ClientsTyped, ClientInv
<1> QED
  BY <1>1, <1>2, <1>3 DEF Next

THEOREM ClientsKeep == Spec => [](ServerTypeOK /\ ClientsTyped /\ ClientInv)
<1>1. IInv => ServerTypeOK
  BY DEF IInv
<1>2. Spec => []ServerTypeOK
  BY <1>1, CommandsRefine, ServerIInv, PTL
<1>3. Spec => [](ClientsTyped /\ ClientInv)
  BY <1>2, CommandsInit, CommandsStep, PTL DEF Spec
<1> QED
  BY <1>2, <1>3, PTL

(* Every process, request and command keeps its type: no row count passes the two that one client *)
(* and one server can store. *)
THEOREM CommandsTyped == Spec => []TypeOK
<1>1. ServerTypeOK /\ ClientsTyped => TypeOK
  BY DEF ClientsTyped, TypeOK
<1> QED
  BY <1>1, ClientsKeep, PTL

(* execute() and _already_applied: whatever servers, kills and timeouts do to a command, its text is *)
(* stored once unless its request outlived the client's timeout, and what is reported as done is in *)
(* the store. *)
THEOREM DoneOnceAlways == Spec => []DoneOnce
<1>1. ClientsTyped /\ ClientInv => DoneOnce
  <2> SUFFICES ASSUME ClientsTyped, NEW c \in Clients, Fit(c)
               PROVE  /\ wrote[c] > 1 => client[c].late /\ client[c].op # "ingest"
                      /\ Reported(c)
    BY DEF ClientInv, DoneOnce, Reported
  <2>1. wrote[c] \in 0..2
    BY DEF ClientsTyped
  <2> QED
    BY <2>1 DEF Fit, Counted
<1> QED
  BY <1>1, ClientsKeep, PTL

===================================================================================
