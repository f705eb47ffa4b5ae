\* Two threads of one process.
SPECIFICATION Spec
CONSTANTS
  i1 = i1 p1 = p1 c1 = c1 c2 = c2
  Ids = {i1}
  Procs = {p1}
  Callers = {c1, c2}
  ProcOf <- OneProc
  NoEntry = NoEntry
  LogKeep = 1
  PruneEvery = 2
  MaxDelta = 1
  MaxWrites = 2
  LastTime = 1
SYMMETRY Threads
INVARIANTS TypeOK AnswersAreCurrent 
