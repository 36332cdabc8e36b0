SPECIFICATION Spec
CONSTANTS
  N = 3
  ConnWindow = 4
  StreamWindow = 3
  PeerConn = 2
  PeerStream = 1
  MaxFrame = 2
  MaxResets = 1
  MaxControl = 3
  Remembered = 2
  StatusBody = 1
  Scenarios <- SafetyScenarios
INVARIANTS FlowControlIsExact ResponseIsWellFormed NoHandlerStranded ActivityIsExact ObedientClientIsKept
CHECK_DEADLOCK FALSE
