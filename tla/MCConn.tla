------------------------------- MODULE MCConn -------------------------------
(***************************************************************************)
(* Instances of Conn. Everything at once is out of reach, so each scenario *)
(* has the inputs that meet in one part of the code; the goroutines are    *)
(* interchangeable, and so are the pollers where no liveness is checked.   *)
(***************************************************************************)
EXTENDS Conn, TLC

CONSTANTS g1, g2, p1, p2

OneGoroutine == {g1}
TwoGoroutines == {g1, g2}
OnePoller == {p1}
TwoPollers == {p1, p2}
Symmetry == Permutations(TwoGoroutines) \cup Permutations(TwoPollers)

\* Edge-triggered reading with two pollers, while reading is paused and resumed.
Reading == [inputs |-> {"fin", "pause"},
            in |-> 3, write |-> 0, calls |-> 2, callers |-> 1, pollers |-> 2, eintr |-> 0]

\* The same with a handler that keeps half-closed connections, interrupted system
\* calls and an event of the fd's last owner.
HalfClosing == [inputs |-> {"fin", "stale", "halfclose"},
                in |-> 3, write |-> 0, calls |-> 0, callers |-> 1, pollers |-> 2, eintr |-> 1]

\* Two goroutines writing and closing on a socket that is full.
Writing == [inputs |-> {"write", "close", "fin"},
            in |-> 0, write |-> 2, calls |-> 3, callers |-> 2, pollers |-> 1, eintr |-> 0]

WritingToReset == [inputs |-> {"write", "close", "reset"},
                   in |-> 0, write |-> 2, calls |-> 2, callers |-> 2, pollers |-> 1, eintr |-> 1]

\* Detach against the task, a write, a Close and an event.
Detaching == [inputs |-> {"write", "close", "detach", "pause", "fin"},
              in |-> 1, write |-> 1, calls |-> 3, callers |-> 2, pollers |-> 1, eintr |-> 0]

\* All the reasons to close.
Closing == [inputs |-> {"close", "deadline", "panic", "drain", "unwatchable", "fin"},
            in |-> 1, write |-> 0, calls |-> 2, callers |-> 1, pollers |-> 1, eintr |-> 0]

SafetyScenarios == {Reading, HalfClosing, Writing, WritingToReset, Detaching, Closing}

\* A server that shuts down, whatever the peer and the application do.
ShuttingDown == [inputs |-> {"write", "close", "drain", "detach", "pause"},
                 in |-> 0, write |-> 2, calls |-> 2, callers |-> 1, pollers |-> 1, eintr |-> 0]

\* Input that arrives while the application writes and pauses.
Progressing == [inputs |-> {"write", "pause"},
                in |-> 2, write |-> 2, calls |-> 2, callers |-> 1, pollers |-> 1, eintr |-> 0]

\* Input that arrives up to the peer's FIN.
Ending == [inputs |-> {"fin", "pause"},
           in |-> 2, write |-> 0, calls |-> 2, callers |-> 1, pollers |-> 1, eintr |-> 1]

LivenessScenarios == {ShuttingDown, Progressing, Ending}

=============================================================================
