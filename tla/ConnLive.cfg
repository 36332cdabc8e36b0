SPECIFICATION FairSpec
CONSTANTS
  g1 = g1  g2 = g2  p1 = p1  p2 = p2
  MaxBacklog = 1
  SndBuf = 1
  Goroutines <- OneGoroutine
  Pollers <- OnePoller
  ReadBufferSize = 1
  Scenarios <- LivenessScenarios
PROPERTIES ConnGoesOn
CHECK_DEADLOCK FALSE
