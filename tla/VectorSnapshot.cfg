CONSTANTS
    m1 = m1
    m2 = m2
    server = server
    other = other
    Ids <- TwoIds
    Procs <- TwoProcs
    MaxWrites = 2
    MinRows = 1
    FewRows = 1
SPECIFICATION SnapshotSpec
INVARIANTS SnapshotTypeOK StaleOnlyIfKnownWrong IndexedIsRight
