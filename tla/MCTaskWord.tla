----------------------------- MODULE MCTaskWord -----------------------------
(* The state word of a connection and of a UDP server's socket: three events,  *)
(* three goroutines and two workers, any of whom does anything to the word of  *)
(* the connection, and who are two pollers and Serve to the UDP server.        *)
EXTENDS Udp

CONSTANTS p1, p2, p3, w1, w2, x1, k1, k2, evC

MCEvents == {evRead, evShutdown, evC}
MCProcs == {p1, p2, p3}
MCWorkers == {w1, w2}
MCPollers == {p1, p2}
MCWriters == {x1}
MCClosers == {k1, k2}

VARIABLE kind   \* whose word it is

allVars == <<vars, udpVars, kind>>

MCInit == UdpInit /\ kind \in {"conn", "udp"}

ConnStep(A) == kind = "conn" /\ A /\ UNCHANGED <<udpVars, kind>>
UdpStep(A) == kind = "udp" /\ A /\ UNCHANGED kind

MCNext == \/ kind = "conn" /\ Next /\ UNCHANGED <<udpVars, kind>>
          \/ kind = "udp" /\ UdpNext /\ UNCHANGED kind

MCSpec ==
    /\ MCInit /\ [][MCNext]_allVars
    /\ \A p \in Procs : WF_allVars(ConnStep(ProcGoesOn(p)))
    /\ \A w \in Workers : WF_allVars(ConnStep(WorkerGoesOn(w)))
    /\ WF_allVars(ConnStep(\E w \in Workers : execute(w)))
    /\ \A p \in Pollers : WF_allVars(UdpStep(PollerStep(p)))
    /\ \A w \in Workers : WF_allVars(UdpStep(RoundStep(w)))
    /\ WF_allVars(UdpStep(\E w \in Workers : udpExecute(w)))
    /\ WF_allVars(UdpStep(ServeStep))
    /\ \A k \in Closers : WF_allVars(UdpStep(CloseStep(k)))
    /\ \A x \in Writers : WF_allVars(UdpStep(sent(x)))
=============================================================================
