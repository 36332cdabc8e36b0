SPECIFICATION MCSpec
CONSTANTS
  p1 = p1  p2 = p2  p3 = p3  w1 = w1  w2 = w2  x1 = x1  k1 = k1  k2 = k2
  evRead = evRead  evShutdown = evShutdown  evC = evC
  Events <- MCEvents
  Procs <- MCProcs
  Workers <- MCWorkers
  Pollers <- MCPollers
  serve = p3
  Writers <- MCWriters
  Closers <- MCClosers
  PerRound = 2
  MaxPackets = 3
  MaxPanics = 1
INVARIANTS TaskIsExact UdpIsExact
PROPERTIES ImplementsSerialTask TasksGoOn
CHECK_DEADLOCK FALSE
