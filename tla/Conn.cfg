SPECIFICATION Spec
CONSTANTS
  g1 = g1  g2 = g2  p1 = p1  p2 = p2
  MaxBacklog = 1
  SndBuf = 1
  Goroutines <- TwoGoroutines
  Pollers <- TwoPollers
  ReadBufferSize = 2
  Scenarios <- SafetyScenarios
SYMMETRY Symmetry
INVARIANTS NothingStranded GracefulCloseSendsAll ResourcesAreHeld ClosedInOrder
PROPERTY RoundsAreSerial
CHECK_DEADLOCK FALSE
