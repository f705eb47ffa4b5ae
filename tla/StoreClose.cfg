\* One thread closes from inside a statement, one does not; all kinds of stores.
SPECIFICATION FairSpec
CONSTANTS
  t1 = t1 t2 = t2 c1 = c1 c2 = c2 h1 = h1
  Threads = {t1, t2}
  Conns = {c1, c2}
  Hooks = {h1}
  Closers = {t1, t2}
  InsideClosers = {t1}
  MaxDepth = 2
  NoThread = NoThread
  NoConn = NoConn
INVARIANTS TypeOK NeverClosedInUse LeaksNothing
PROPERTIES CloseReturns
