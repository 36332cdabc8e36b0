SPECIFICATION FairSpec
CONSTANTS
  c1 = c1  c2 = c2
  s1 = s1
  k1 = k1
  nil = nil
  Conns <- MCConns
  Fds <- MCFds
  InRange <- MCInRange
  Pages <- MCPages
  PageOf <- MCPageOf
  Setters <- MCSetters
  Scanners <- MCScanners
  MaxTime = 2
  MaxSets = 2
INVARIANTS LookupIsExact NoDeadlineLost
PROPERTIES DeadlineFires
CHECK_DEADLOCK FALSE
