SPECIFICATION Spec
CONSTANTS
  p1 = p1 p2 = p2 h1 = h1 h2 = h2 s1 = s1 s2 = s2 t1 = t1 t2 = t2 t3 = t3 c1 = c1 c2 = c2
  Jobs = {1, 2}
  Cands = {c1}
  Procs = {p1, p2}
  Hosts = {h1, h2}
  ProbeHosts = {h1, h2}
  Services = {s1, s2}
  Threads = {t1, t2}
  Workers = {t1, t2}
  HostOf <- SameHost
  ProcOf <- PairProc
  SvcOf <- PairSvc
  MaxAttempts = 2
  BatchSize = 2
  MayCrash = {p1}
  MayClose = {s1}
  MayForget = {2}
  MayOverrun = {2}
  NoOwner = NoOwner
  NoJob = NoJob
INVARIANTS TypeOK OneFactPerKey 
 
CHECK_DEADLOCK FALSE
