------------------------------ MODULE MCServer ------------------------------
(***************************************************************************)
(* Small instances of the servers.  Server: two clients and one descriptor *)
(* so that accepting runs out of them.  StdServer: scenarios, each with    *)
(* the inputs that meet in one part of the code.                           *)
(***************************************************************************)
EXTENDS Server, StdServer

CONSTANTS q1, q2, n1, n2, s1, s2

StdScenario(inputs, clients, ports, callers, data, calls) ==
    [inputs |-> inputs, clients |-> clients, ports |-> ports, callers |-> callers, data |-> data, calls |-> calls]

MCStdScenarios == {
    StdScenario({"fin", "pause", "detach", "close"}, {q1}, {n1}, {}, 2, 3),
    StdScenario({"fin", "deadline", "detach", "close", "closing", "write"}, {q1}, {n1}, {}, 1, 3),
    StdScenario({"fin", "deadline", "closing", "write"}, {q1}, {n1}, {s1}, 0, 2),
    StdScenario({"detach", "write", "close"}, {q1}, {n1}, {s1}, 1, 2),
    StdScenario({"write", "pause"}, {q1}, {n1}, {s1}, 1, 2),
    StdScenario({"fatal", "temporary"}, {q1}, {n1, n2}, {s1}, 0, 0),
    StdScenario({"fatal"}, {q1, q2}, {n1}, {s1}, 0, 0),
    StdScenario({"panic", "reset", "fin", "pause"}, {q1}, {n1}, {}, 1, 2),
    StdScenario({"panic", "closing", "fin"}, {q1}, {n1}, {s1}, 1, 2),
    StdScenario({"udp", "fatal"}, {}, {}, {s1, s2}, 2, 0) }

VARIABLE platform   \* whose server it is

allVars == <<vars, stdVars, platform>>

MCInit == /\ Init /\ StdInit
          /\ platform \in IF use.clients = {} THEN {"unix", "std"} ELSE {"std"}

UnixStep(A) == platform = "unix" /\ A /\ UNCHANGED <<stdVars, platform>>

MCNext == \/ platform = "unix" /\ Next /\ UNCHANGED <<stdVars, platform>>
          \/ platform = "std" /\ StdNext /\ UNCHANGED <<vars, platform>>

MCSpec ==
    /\ MCInit /\ [][MCNext]_allVars
    /\ \A c \in Conns : /\ WF_allVars(UnixStep(OpenStep(c)))
                        /\ WF_allVars(UnixStep(c \in told /\ CloseStep(c)))
                        /\ WF_allVars(UnixStep(onCloseReturns(c)))
    /\ \A t \in Acceptors : WF_allVars(UnixStep(AcceptStep(t)))
    /\ WF_allVars(UnixStep(ServeStep))
    /\ \A t \in Closers : WF_allVars(UnixStep(CloserStep(t)))
=============================================================================
