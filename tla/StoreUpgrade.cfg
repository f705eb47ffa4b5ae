CONSTANTS
    old1 = old1
    new1 = new1
    r1 = r1
    Openers <- OldAndNew
    Serving <- OldServer
    Restorers <- OneRestorer
    Build <- TwoBuilds
    NoBackup <- JustNew
    OldRows = 1
    MaxRows = 2
    MaxNames = 2
    NoOne = NoOne
    NoFile = NoFile
SPECIFICATION Spec
INVARIANTS TypeOK KeptSomewhere BackupIsTheStore
