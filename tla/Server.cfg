SPECIFICATION MCSpec
CONSTANTS
    Conns = {c1, c2}
    NumListeners = 2
    Workers = {w1}
    Timers = {t1}
    Closers = {k1}
    server = server
    MaxFds = 1
    AcceptFails = TRUE
    q1 = q1  q2 = q2  n1 = n1  n2 = n2  s1 = s1  s2 = s2
    readBufferSize = 1
    StdScenarios <- MCStdScenarios
INVARIANTS AcceptingIsExact ShutdownIsComplete StdCallbacksAreExact StdStreamIsExact StdGoesOn
PROPERTY CloseReturns
CHECK_DEADLOCK FALSE
