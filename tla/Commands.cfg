CONSTANTS
    s1 = s1
    s2 = s2
    c1 = c1
    c2 = c2
    Servers <- TwoServers
    MaxTries = 2
    NoOne = NoOne
    Clients <- TwoClients
    Direct <- SecondClient
    Runs <- AnyAndStore
SPECIFICATION FairSpec
INVARIANTS TypeOK OneServer StateTellsTheServer 
PROPERTIES EveryCommandEnds
CHECK_DEADLOCK FALSE
