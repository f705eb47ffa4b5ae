CONSTANTS
    w1 = w1
    w2 = w2
    host = host
    owner = owner
    a = a
    b = b
    Threads <- TwoThreads
    Callers <- TwoCallers
    MaxTasks = 3
    NoThread = NoThread
    Host = host
    Helpers <- JustOwner
    Closers <- JustHost
    Owners <- JustOwner
    Subjects <- TwoSubjects
    MaxMsgs = 5
    System = TRUE
    Window = 4
    Users = {1, 3}
    Names <- Mentions
    Stored <- JustA
    Links <- AToB
    Ttl = 0
SPECIFICATION FairSpec
INVARIANTS TypeOK Answered
PROPERTIES KeepsTheContract  EverythingEnds
CHECK_DEADLOCK FALSE
