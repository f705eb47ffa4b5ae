CONSTANTS
    c1 = c1
    c2 = c2
    Callers <- TwoCallers
    Ops <- AllOps
    Roots = 1
    MaxMade = 3
    Resolvable = {1}
    NoRow = NoRow
SPECIFICATION Spec
INVARIANTS TypeOK AlwaysAVersion UndisturbedNeverForks
