----------------------------- MODULE StdProofs -----------------------------
(***************************************************************************)
(* The server of the other platforms, for any number of clients, listeners *)
(* and goroutines that call Close.  What StdConnProofs shows of each       *)
(* connection is tied to the server: who is in conns, who is counted by    *)
(* wg, and that nobody is counted any more once Close or Serve returns.    *)
(***************************************************************************)
EXTENDS StdConnProofs

GorType ==
    [at : {"idle", "accept", "accepted", "failed", "stopped", "shutdown", "closeListeners", "each",
           "closeSocket", "wait", "udpWait", "returned"},
     conn : use.clients \cup {"none"}, left : SUBSET use.clients,
     err : {"nil", "closed", "temporary", "fatal"}]

NetType ==
    [closed : BOOLEAN, err : {"nil", "closed", "temporary", "fatal"}, conns : SUBSET use.clients, wg : Int,
     mu : {"free"} \cup use.ports \cup use.callers, at : {"idle", "accepting", "waiting", "returned"}]

UdpType ==
    [closed : BOOLEAN, wg : {0, 1}, open : BOOLEAN, rx : Int, sent : Int, at : {"idle", "read", "packet", "returned"}]

Types ==
    /\ use \in StdScenarios
    /\ net \in NetType
    /\ ear \in [use.ports -> [open : BOOLEAN, queue : SUBSET use.clients]]
    /\ gor \in [use.ports \cup use.callers -> GorType]
    /\ udp \in UdpType

\* A client is in one queue, or with one goroutine that has accepted it.
Queues ==
    /\ \A l \in use.ports : \A p \in ear[l].queue :
          con[p].at = "queued" /\ \A m \in use.ports : p \in ear[m].queue => m = l
    /\ \A l \in use.ports : gor[l].at = "accepted" =>
          /\ gor[l].conn \in use.clients /\ con[gor[l].conn].at = "accepted"
          /\ \A m \in use.ports : gor[m].at = "accepted" /\ gor[m].conn = gor[l].conn => m = l

\* shutdown has taken closedBy before it closes the net.Conn, and after closed is set.
Closing ==
    /\ \A p \in use.clients : con[p].by = "server" => net.closed
    /\ \A t \in use.ports \cup use.callers :
          /\ gor[t].at \in {"closeListeners", "each", "closeSocket"} => net.closed
          /\ gor[t].at = "closeSocket" => gor[t].conn \in use.clients /\ con[gor[t].conn].by # "no"

RunningConns == {p \in use.clients : con[p].at \in Running}

\* n counts S: numbers 1..n go to its members, one each.
Counts(n, S) ==
    n \in Nat /\ \E f \in [1..n -> S] : /\ \A i, j \in 1..n : f[i] = f[j] => i = j
                                       /\ \A p \in S : \E i \in 1..n : f[i] = p

\* conns has the connections that are served, and wg counts their goroutines.
Counting ==
    /\ \A p \in use.clients : p \in net.conns <=> con[p].at \in Registered
    /\ Counts(net.wg, RunningConns)

\* Where Serve, accept and Close are.  None of them returns from a server that is open.
Control ==
    /\ \A l \in use.ports : /\ gor[l].at \notin {"wait", "udpWait", "returned"}
                            /\ gor[l].at = "stopped" => net.closed
                            /\ net.at = "idle" => gor[l].at = "idle"
    /\ net.at = "idle" => \A p \in use.clients : con[p].at \in {"away", "queued", "refused"}
    /\ net.at = "accepting" => use.ports # {}
    /\ net.at = "waiting" => net.closed
    /\ net.at = "returned" => net.closed /\ RunningConns = {}
    /\ \A k \in use.callers : /\ gor[k].at = "wait" => net.closed
                              /\ gor[k].at = "returned" /\ ~may("udp") => net.closed /\ RunningConns = {}

\* The same of the UDP server.
Packets ==
    /\ udp.wg = 0 => udp.at \in {"idle", "returned"}
    /\ ~may("udp") => udp.at = "idle"
    /\ \A k \in use.callers : /\ gor[k].at = "udpWait" => may("udp") /\ udp.closed
                              /\ may("udp") => gor[k].at \in {"idle", "udpWait", "returned"}
                              /\ may("udp") /\ gor[k].at = "returned" => udp.closed /\ udp.at \in {"idle", "returned"}

IInv == Types /\ Connections /\ Queues /\ Closing /\ Counting /\ Control /\ Packets

\* A step of one connection's keeps what ties it to the server.
LEMMA TurnKeeps ==
    ASSUME IInv, NEW p \in use.clients, Kept(p)
    PROVE  IInv'
  <1> DEFINE c == con[p]
             d == con'[p]
  <1>1. /\ con' = [con EXCEPT ![p] = d] /\ UNCHANGED <<use, net, ear, gor, udp>>
        /\ ConnInv(d) /\ Moves(c, d) /\ con \in [use.clients -> ConnType]
    BY DEF Kept, Turn, IInv, Connections
  <1>2. /\ d.at = c.at \/ (c.at \notin Before /\ d.at \notin Before)
        /\ d.at \in Registered <=> c.at \in Registered
        /\ d.at \in Running <=> c.at \in Running
    BY <1>1 DEF Moves, Before, Running, Registered, InLoop
  <1> HIDE DEF d
  <1>3. RunningConns' = RunningConns
    BY <1>1, <1>2 DEF RunningConns
  <1>4. Types' /\ Packets'
    BY <1>1 DEF IInv, Types, GorType, NetType, UdpType, Packets, may
  <1>5. Connections'
    BY <1>1 DEF IInv, Connections, ConnInv
  <1>6. Queues'
    BY <1>1, <1>2 DEF IInv, Types, Queues, Before
  <1>7. Closing'
    BY <1>1 DEF IInv, Types, Closing, Moves
  <1>8. Counting'
    BY <1>1, <1>2, <1>3 DEF IInv, Counting
  <1>9. Control'
    BY <1>1, <1>2, <1>3 DEF IInv, Control, Before, may
  <1>10. QED
    BY <1>4, <1>5, <1>6, <1>7, <1>8, <1>9 DEF IInv

\* A counter that is zero counts nobody, and follows those who come and go.
LEMMA CountsNobody ==
    ASSUME NEW S PROVE Counts(0, S) <=> S = {}
  <1>1. ASSUME Counts(0, S) PROVE S = {}
    BY <1>1 DEF Counts
  <1>2. ASSUME S = {} PROVE Counts(0, S)
    <2>1. [i \in 1..0 |-> 0] \in [1..0 -> S]
      OBVIOUS
    <2>2. QED
      BY <1>2, <2>1, Zenon DEF Counts
  <1>3. QED
    BY <1>1, <1>2

\* Counting one more.
LEMMA OneMore ==
    ASSUME NEW S, NEW n, Counts(n, S), NEW p, p \notin S
    PROVE  Counts(n + 1, S \cup {p})
  <1>1. n \in Nat
    BY DEF Counts
  <1>2. PICK f \in [1..n -> S] : /\ \A i, j \in 1..n : f[i] = f[j] => i = j
                                /\ \A q \in S : \E i \in 1..n : f[i] = q
    BY DEF Counts
  <1> DEFINE g == [i \in 1..(n + 1) |-> IF i = n + 1 THEN p ELSE f[i]]
  <1>3. g \in [1..(n + 1) -> S \cup {p}]
    BY <1>1, <1>2
  <1>4. \A i, j \in 1..(n + 1) : g[i] = g[j] => i = j
    BY <1>1, <1>2
  <1>5. \A q \in S \cup {p} : \E i \in 1..(n + 1) : g[i] = q
    BY <1>1, <1>2
  <1> HIDE DEF g
  <1>6. n + 1 \in Nat
    BY <1>1
  <1>7. QED
    BY <1>3, <1>4, <1>5, <1>6, Zenon DEF Counts

\* Counting one less.
LEMMA OneLess ==
    ASSUME NEW S, NEW n, Counts(n, S), NEW p \in S
    PROVE  Counts(n - 1, S \ {p})
  <1>1. n \in Nat
    BY DEF Counts
  <1>2. PICK f \in [1..n -> S] : /\ \A i, j \in 1..n : f[i] = f[j] => i = j
                                /\ \A q \in S : \E i \in 1..n : f[i] = q
    BY DEF Counts
  <1>3. PICK k \in 1..n : f[k] = p
    BY <1>2
  <1> DEFINE g == [i \in 1..(n - 1) |-> IF i = k THEN f[n] ELSE f[i]]
  <1>4. n - 1 \in Nat
    BY <1>1, <1>3
  <1>5. g \in [1..(n - 1) -> S \ {p}]
    BY <1>1, <1>2, <1>3
  <1>6. \A i, j \in 1..(n - 1) : g[i] = g[j] => i = j
    BY <1>1, <1>2, <1>3
  <1>7. \A q \in S \ {p} : \E i \in 1..(n - 1) : g[i] = q
    <2> SUFFICES ASSUME NEW q \in S \ {p} PROVE \E i \in 1..(n - 1) : g[i] = q
      OBVIOUS
    <2>1. PICK i \in 1..n : f[i] = q
      BY <1>2
    <2>2. CASE i = n
      <3>1. k \in 1..(n - 1) /\ g[k] = q
        BY <1>1, <1>3, <2>1, <2>2
      <3>2. QED
        BY <3>1
    <2>3. CASE i # n
      <3>1. i \in 1..(n - 1) /\ g[i] = q
        BY <1>1, <1>3, <2>1, <2>3
      <3>2. QED
        BY <3>1
    <2>4. QED
      BY <2>2, <2>3
  <1> HIDE DEF g
  <1>8. QED
    BY <1>4, <1>5, <1>6, <1>7, Zenon DEF Counts

\* What Closing, Control and Packets say of where a goroutine t is, of the server that
\* it leaves behind: closed and down (nothing runs), packets (udp is closed) and
\* quiet (no OnPacket runs).
Fits(t, g, closed, down, packets, quiet) ==
    /\ g.at \in {"closeListeners", "each", "closeSocket"} => closed
    /\ g.at = "closeSocket" => g.conn \in use.clients /\ con[g.conn].by # "no"
    /\ t \in use.ports => /\ g.at \notin {"wait", "udpWait", "returned"}
                          /\ g.at = "stopped" => closed
                          /\ net.at = "idle" => g.at = "idle"
    /\ t \in use.callers => /\ g.at = "wait" => closed
                            /\ g.at = "returned" /\ ~may("udp") => closed /\ down
                            /\ g.at = "udpWait" => may("udp") /\ packets
                            /\ may("udp") => g.at \in {"idle", "udpWait", "returned"}
                            /\ may("udp") /\ g.at = "returned" => packets /\ quiet

Down == RunningConns = {}
NoPacket == udp.at \in {"idle", "returned"}

\* A step of one of the server's goroutines, which may set closed or Server.mu.
NetMoves == /\ net' \in NetType /\ net'.at = net.at /\ net'.conns = net.conns /\ net'.wg = net.wg
            /\ net.closed => net'.closed
UdpMoves == /\ udp' \in UdpType /\ udp'.at = udp.at /\ udp'.wg = udp.wg
            /\ udp.closed => udp'.closed

\* A goroutine that fits what is closed and who is left keeps the invariant.
LEMMA GoroutineKeeps ==
    ASSUME IInv, NEW t \in use.ports \cup use.callers, NEW g \in GorType,
           gor' = [gor EXCEPT ![t] = g], g.at # "accepted",
           UNCHANGED <<use, ear, con>>, NetMoves, UdpMoves,
           Fits(t, g, net'.closed, Down, udp'.closed, NoPacket)
    PROVE  IInv'
  <1>1. RunningConns' = RunningConns
    BY DEF RunningConns
  <1>2. gor \in [use.ports \cup use.callers -> GorType] /\ gor'[t] = g
    BY DEF IInv, Types
  <1>3. gor' \in [use.ports \cup use.callers -> GorType]
    BY <1>2
  <1>4. Types'
    BY <1>3 DEF IInv, Types, GorType, NetType, UdpType, NetMoves, UdpMoves
  <1>5. Connections' /\ Counting'
    BY <1>1 DEF IInv, Connections, Counting, NetMoves
  <1>6. Queues'
    BY <1>2 DEF IInv, Queues
  <1>7. Closing'
    BY <1>2 DEF IInv, Closing, Fits, NetMoves
  <1>8. Control'
    BY <1>1, <1>2 DEF IInv, Control, Fits, Down, may, NetMoves
  <1>9. Packets'
    BY <1>2 DEF IInv, Packets, Fits, NoPacket, may, UdpMoves
  <1>10. QED
    BY <1>4, <1>5, <1>6, <1>7, <1>8, <1>9 DEF IInv

\* A step that only moves goroutine t.
LEMMA GoroutineMoves ==
    ASSUME IInv, NEW t \in use.ports \cup use.callers, NEW g \in GorType,
           gor' = [gor EXCEPT ![t] = g], g.at # "accepted", UNCHANGED <<use, net, ear, con, udp>>,
           Fits(t, g, net.closed, Down, udp.closed, NoPacket)
    PROVE  IInv'
  <1>1. NetMoves /\ UdpMoves
    BY DEF IInv, Types, NetMoves, UdpMoves
  <1>2. QED
    BY <1>1, GoroutineKeeps, Zenon

\* The steps of accept, shutdown and Close that leave the connections alone.
GoroutineStep(t) ==
    \/ t \in use.ports /\ (acceptFailed(t) \/ \E err \in {"closed", "temporary", "fatal"} : acceptFails(t, err))
    \/ shutdown(t) \/ closeConns(t) \/ shutdownReturns(t)
    \/ t \in use.callers /\ (StdClose(t) \/ stdCloseReturns(t) \/ UDPClose(t) \/ udpCloseReturns(t))

\* The steps of Serve, of its acceptors and of Close.
LEMMA GoroutineStepKeeps ==
    ASSUME IInv, NEW t \in use.ports \cup use.callers, GoroutineStep(t)
    PROVE  IInv'
  <1>1. /\ gor \in [use.ports \cup use.callers -> GorType] /\ gor[t] \in GorType /\ use.ports \cap use.callers = {}
        /\ Fits(t, gor[t], net.closed, Down, udp.closed, NoPacket) /\ (net.wg = 0 => Down)
    BY CountsNobody, StdAssumption DEF IInv, Types, Closing, Counting, Control, Packets, Fits, Down, NoPacket
  <1> DEFINE At(step) == [gor[t] EXCEPT !.at = step]
  <1>2. ASSUME NEW step \in {"accept", "stopped", "shutdown", "wait", "returned"}, goesTo(t, step), UNCHANGED <<net, con>>,
               Fits(t, At(step), net.closed, Down, udp.closed, NoPacket)
        PROVE  IInv'
    <2>1. At(step) \in GorType /\ gor' = [gor EXCEPT ![t] = At(step)] /\ At(step).at # "accepted"
      BY <1>1, <1>2 DEF goesTo, GorType
    <2>2. QED
      BY <1>2, <2>1, GoroutineMoves, Zenon DEF goesTo
  <1>3. CASE t \in use.ports /\ acceptFailed(t)
    <2> DEFINE step == IF net.closed THEN "stopped" ELSE IF gor[t].err = "temporary" THEN "accept" ELSE "shutdown"
    <2>1. goesTo(t, step) /\ UNCHANGED <<net, con>> /\ gor[t].at = "failed"
      BY <1>3 DEF acceptFailed
    <2>2. Fits(t, At(step), net.closed, Down, udp.closed, NoPacket)
      BY <1>1, <1>3, <2>1 DEF Fits, GorType
    <2>3. step \in {"accept", "stopped", "shutdown", "wait", "returned"}
      OBVIOUS
    <2> HIDE DEF step
    <2>4. QED
      BY <1>2, <2>1, <2>2, <2>3
  <1>4. ASSUME NEW err \in {"closed", "temporary", "fatal"}, t \in use.ports, acceptFails(t, err)
        PROVE  IInv'
    <2> DEFINE g == [gor[t] EXCEPT !.at = "failed", !.err = err]
    <2>1. g \in GorType /\ gor' = [gor EXCEPT ![t] = g] /\ g.at # "accepted"
      BY <1>1, <1>4, Zenon DEF acceptFails, GorType
    <2>2. Fits(t, g, net.closed, Down, udp.closed, NoPacket)
      BY <1>1, <1>4 DEF acceptFails, Fits, GorType
    <2>3. QED
      BY <1>4, <2>1, <2>2, GoroutineMoves, Zenon DEF acceptFails
  <1>5. CASE shutdown(t) /\ net.closed
    <2>1. goesTo(t, After(t)) /\ UNCHANGED <<net, con>> /\ gor[t].at = "shutdown"
      BY <1>5 DEF shutdown
    <2>2. Fits(t, At(After(t)), net.closed, Down, udp.closed, NoPacket)
      BY <1>1, <1>5, <2>1 DEF Fits, GorType, After
    <2>3. QED
      BY <1>2, <2>1, <2>2 DEF After
  <1>6. CASE shutdown(t) /\ ~net.closed
    <2>1. /\ At("closeListeners") \in GorType /\ gor' = [gor EXCEPT ![t] = At("closeListeners")]
          /\ At("closeListeners").at # "accepted"
      BY <1>1, <1>6 DEF shutdown, goesTo, GorType
    <2>2. Fits(t, At("closeListeners"), TRUE, Down, udp.closed, NoPacket)
      BY <1>1, <1>6 DEF shutdown, Fits, GorType
    <2>3. NetMoves /\ net'.closed = TRUE
      <3>1. gor[t].err \in {"nil", "closed", "temporary", "fatal"} /\ net \in NetType
        BY <1>1 DEF GorType, IInv, Types
      <3>2. net' = [net EXCEPT !.closed = TRUE, !.err = gor[t].err, !.mu = t]
        BY <1>6 DEF shutdown
      <3>3. QED
        BY <3>1, <3>2, Zenon DEF NetType, NetMoves
    <2>4. UdpMoves /\ udp' = udp /\ UNCHANGED <<use, ear, con>>
      BY <1>6 DEF shutdown, goesTo, IInv, Types, UdpMoves
    <2>5. QED
      BY <2>1, <2>2, <2>3, <2>4, GoroutineKeeps, Zenon
  <1>7. CASE closeConns(t)
    <2> DEFINE g == [gor[t] EXCEPT !.at = "each", !.left = net.conns]
    <2>1. g \in GorType /\ gor' = [gor EXCEPT ![t] = g] /\ g.at # "accepted"
      BY <1>1, <1>7, Zenon DEF closeConns, GorType, NetType, IInv, Types
    <2>2. Fits(t, g, net.closed, Down, udp.closed, NoPacket)
      BY <1>1, <1>7 DEF closeConns, Fits, GorType
    <2>3. QED
      BY <1>7, <2>1, <2>2, GoroutineMoves, Zenon DEF closeConns
  <1>8. CASE shutdownReturns(t)
    <2>1. At(After(t)) \in GorType /\ gor' = [gor EXCEPT ![t] = At(After(t))] /\ At(After(t)).at # "accepted"
      BY <1>1, <1>8 DEF shutdownReturns, After, goesTo, GorType
    <2>2. Fits(t, At(After(t)), net.closed, Down, udp.closed, NoPacket)
      BY <1>1, <1>8 DEF shutdownReturns, After, Fits, GorType
    <2>3. NetMoves /\ net'.closed = net.closed
      BY <1>8 DEF shutdownReturns, IInv, Types, NetType, NetMoves
    <2>4. UdpMoves /\ udp' = udp /\ UNCHANGED <<use, ear, con>>
      BY <1>8 DEF shutdownReturns, goesTo, IInv, Types, UdpMoves
    <2>5. QED
      BY <2>1, <2>2, <2>3, <2>4, GoroutineKeeps, Zenon
  <1>9. CASE t \in use.callers /\ StdClose(t)
    <2>1. Fits(t, At("shutdown"), net.closed, Down, udp.closed, NoPacket)
      BY <1>1, <1>9 DEF StdClose, Fits, GorType
    <2>2. QED
      BY <1>2, <1>9, <2>1 DEF StdClose
  <1>10. CASE t \in use.callers /\ stdCloseReturns(t)
    <2>1. Fits(t, At("returned"), net.closed, Down, udp.closed, NoPacket)
      BY <1>1, <1>10 DEF stdCloseReturns, Fits, GorType
    <2>2. QED
      BY <1>2, <1>10, <2>1 DEF stdCloseReturns
  <1>11. CASE t \in use.callers /\ UDPClose(t)
    <2>1. /\ At("udpWait") \in GorType /\ gor' = [gor EXCEPT ![t] = At("udpWait")]
          /\ At("udpWait").at # "accepted"
      BY <1>1, <1>11 DEF UDPClose, GorType
    <2>2. Fits(t, At("udpWait"), net.closed, Down, TRUE, NoPacket)
      BY <1>1, <1>11 DEF UDPClose, Fits, GorType
    <2>3. UdpMoves /\ udp'.closed = TRUE
      BY <1>11, Zenon DEF UDPClose, IInv, Types, UdpType, UdpMoves
    <2>4. NetMoves /\ net' = net /\ UNCHANGED <<use, ear, con>>
      BY <1>11 DEF UDPClose, IInv, Types, NetMoves
    <2>5. QED
      BY <2>1, <2>2, <2>3, <2>4, GoroutineKeeps, Zenon
  <1>12. CASE t \in use.callers /\ udpCloseReturns(t)
    <2>1. NoPacket
      BY <1>12 DEF udpCloseReturns, IInv, Packets, NoPacket
    <2>2. Fits(t, At("returned"), net.closed, Down, udp.closed, NoPacket)
      BY <1>1, <1>12, <2>1 DEF udpCloseReturns, Fits, GorType
    <2>3. QED
      BY <1>2, <1>12, <2>2 DEF udpCloseReturns
  <1>13. QED
    BY <1>3, <1>4, <1>5, <1>6, <1>7, <1>8, <1>9, <1>10, <1>11, <1>12 DEF GoroutineStep

\* The steps of Serve.
LEMMA ServeKeeps ==
    ASSUME IInv, StdServeStep
    PROVE  IInv'
  <1>1. /\ UNCHANGED <<use, ear, con, udp>> /\ net.conns' = net.conns /\ net.wg' = net.wg /\ net.closed' = net.closed
        /\ net \in NetType /\ gor \in [use.ports \cup use.callers -> GorType] /\ (net.wg = 0 => RunningConns = {})
    BY CountsNobody DEF StdServeStep, Serve, serveAccepted, serveReturns, IInv, Types, NetType, Counting
  <1>2. RunningConns' = RunningConns
    BY <1>1 DEF RunningConns
  <1>3. Connections' /\ Counting'
    BY <1>1, <1>2 DEF IInv, Connections, Counting
  <1>4. CASE serveAccepted \/ serveReturns \/ (Serve /\ net.closed)
    <2>1. gor' = gor
      BY <1>1, <1>4 DEF serveAccepted, serveReturns, Serve
    <2>2. net' = [net EXCEPT !.at = net'.at] /\ net'.at \in {"waiting", "returned"} /\ net.closed
          /\ (net'.at = "returned" => RunningConns = {})
      <3>1. CASE serveAccepted
        BY <1>1, <3>1 DEF serveAccepted, NetType, IInv, Control
      <3>2. CASE serveReturns
        BY <1>1, <3>2 DEF serveReturns, NetType, IInv, Control
      <3>3. CASE Serve /\ net.closed
        BY <1>1, <3>3 DEF Serve, NetType, IInv, Control, RunningConns, Running, Registered, InLoop
      <3>4. QED
        BY <1>4, <3>1, <3>2, <3>3
    <2>3. Types' /\ Queues' /\ Closing' /\ Packets'
      BY <1>1, <2>1, <2>2 DEF IInv, Types, GorType, NetType, UdpType, Queues, Closing, Packets, may
    <2>4. Control'
      BY <1>1, <1>2, <2>1, <2>2 DEF IInv, NetType, Control, may
    <2>5. QED
      BY <1>3, <2>3, <2>4 DEF IInv
  <1>5. CASE Serve /\ ~net.closed
    <2>1. /\ \A l \in use.ports : gor'[l].at = "accept"
          /\ \A k \in use.callers : gor'[k] = gor[k]
          /\ gor' \in [use.ports \cup use.callers -> GorType]
      <3>1. use.ports \cap use.callers = {}
        BY StdAssumption DEF IInv, Types
      <3>2. \A x \in use.ports : [gor[x] EXCEPT !.at = "accept"] \in GorType /\ [gor[x] EXCEPT !.at = "accept"].at = "accept"
        BY <1>1 DEF GorType
      <3>3. QED
        BY <1>1, <1>5, <3>1, <3>2 DEF Serve
    <2>2. net' = [net EXCEPT !.at = "accepting"] /\ net.at = "idle" /\ use.ports # {}
      BY <1>5 DEF Serve
    <2>3. Types'
      BY <1>1, <2>1, <2>2, Zenon DEF IInv, Types, GorType, NetType, UdpType
    <2>4. Queues' /\ Closing'
      BY <1>1, <2>1, <2>2 DEF IInv, NetType, Queues, Closing
    <2>5. Control'
      BY <1>1, <1>2, <2>1, <2>2 DEF IInv, NetType, Control, may
    <2>6. Packets'
      BY <1>1, <2>1 DEF IInv, Packets, may
    <2>7. QED
      BY <1>3, <2>3, <2>4, <2>5, <2>6 DEF IInv
  <1>6. QED
    BY <1>4, <1>5 DEF StdServeStep

\* The steps of the UDP server.
LEMMA UdpKeeps ==
    ASSUME IInv, udpArrives \/ UdpServeStep
    PROVE  IInv'
  <1>1. UNCHANGED <<use, net, ear, con, gor>>
    BY DEF udpArrives, UdpServeStep, UDPServe, udpReads, udpReadFails, onPacket, udpTurns
  <1>2. RunningConns' = RunningConns
    BY <1>1 DEF RunningConns
  <1>3. Connections' /\ Counting' /\ Queues' /\ Closing' /\ Control'
    BY <1>1, <1>2 DEF IInv, Connections, Counting, Queues, Closing, Control, may
  <1>4. udp \in UdpType /\ udp.sent + 1 \in Int /\ udp.rx + 1 \in Int /\ udp.rx - 1 \in Int
    BY DEF IInv, Types, UdpType
  <1>5. udp' \in UdpType /\ Packets'
    <2>1. CASE udpArrives
      BY <1>1, <1>4, <2>1, Zenon DEF udpArrives, udpTurns, UdpType, IInv, Packets, may
    <2>2. CASE UDPServe
      <3>1. udp' = IF udp.closed THEN [udp EXCEPT !.at = "returned"] ELSE [udp EXCEPT !.at = "read", !.wg = 1]
        BY <2>2 DEF UDPServe, udpTurns
      <3>2. udp' \in UdpType
        BY <1>4, <3>1, Zenon DEF UdpType
      <3>3. Packets'
        BY <1>1, <1>4, <2>2, <3>1 DEF UDPServe, UdpType, IInv, Packets, may
      <3>4. QED
        BY <3>2, <3>3
    <2>3. CASE udpReads
      BY <1>1, <1>4, <2>3, Zenon DEF udpReads, udpTurns, UdpType, IInv, Packets, may
    <2>4. CASE udpReadFails
      BY <1>1, <1>4, <2>4, Zenon DEF udpReadFails, udpTurns, UdpType, IInv, Packets, may
    <2>5. CASE onPacket
      BY <1>1, <1>4, <2>5 DEF onPacket, udpTurns, UdpType, IInv, Packets, may
    <2>6. QED
      BY <2>1, <2>2, <2>3, <2>4, <2>5 DEF UdpServeStep
  <1>6. Types'
    BY <1>1, <1>5 DEF IInv, Types, GorType, NetType, UdpType
  <1>7. QED
    BY <1>3, <1>5, <1>6 DEF IInv

\* One connection is changed.
LEMMA ConnChanges ==
    ASSUME Connections, use' = use, NEW p \in use.clients, NEW d, ConnInv(d), con' = [con EXCEPT ![p] = d]
    PROVE  Connections' /\ con'[p] = d /\ \A q \in use.clients : q # p => con'[q] = con[q]
  BY DEF Connections, ConnInv

\* Where moves(p, place) leaves the connection.
LEMMA Moved ==
    ASSUME Connections, use' = use, NEW p \in use.clients, NEW place, moves(p, place),
           ConnInv([con[p] EXCEPT !.at = place])
    PROVE  /\ Connections' /\ \A q \in use.clients : q # p => con'[q] = con[q]
           /\ con'[p].at = place /\ con'[p].by = con[p].by
  <1>1. con' = [con EXCEPT ![p] = [con[p] EXCEPT !.at = place]] /\ con[p] \in ConnType
    BY DEF moves, Connections
  <1> DEFINE d == [con[p] EXCEPT !.at = place]
  <1>2. d.at = place /\ d.by = con[p].by
    BY <1>1 DEF ConnType
  <1> HIDE DEF d
  <1>3. con' = [con EXCEPT ![p] = d] /\ ConnInv(d)
    BY <1>1 DEF d
  <1>4. QED
    BY <1>2, <1>3, ConnChanges, Zenon

\* A client connects.
LEMMA DialsKeeps ==
    ASSUME IInv, NEW p \in use.clients, NEW l \in use.ports, dials(p, l)
    PROVE  IInv'
  <1>1. Connections' /\ con'[p].at = "queued" /\ con'[p].by = con[p].by /\ con[p].at = "away"
        /\ \A q \in use.clients : q # p => con'[q] = con[q]
    BY GoesTo, Moved, Zenon DEF dials, IInv, Connections
  <1>2. UNCHANGED <<use, net, gor, udp>> /\ ear' = [ear EXCEPT ![l].queue = @ \cup {p}]
        /\ ear \in [use.ports -> [open : BOOLEAN, queue : SUBSET use.clients]]
    BY DEF dials, IInv, Types
  <1>3. RunningConns' = RunningConns
    BY <1>1, <1>2 DEF RunningConns, Running, Registered, InLoop
  <1>4. Types' /\ Packets'
    BY <1>2 DEF IInv, Types, NetType, GorType, UdpType, Packets, may
  <1>5. Queues'
    <2>1. /\ \A m \in use.ports : m # l => ear'[m].queue = ear[m].queue
          /\ ear'[l].queue = ear[l].queue \cup {p}
          /\ \A m \in use.ports : ear[m].queue \subseteq use.clients
      BY <1>2
    <2>2. \A m \in use.ports : p \notin ear[m].queue /\ (gor[m].at = "accepted" => gor[m].conn # p)
      BY <1>1 DEF IInv, Queues
    <2>3. QED
      BY <1>1, <1>2, <2>1, <2>2 DEF IInv, Queues
  <1>6. Closing'
    BY <1>1, <1>2, SMTT(40) DEF IInv, Closing
  <1>7. Counting'
    BY <1>1, <1>2, <1>3 DEF IInv, Counting, Registered, InLoop
  <1>8. Control'
    BY <1>1, <1>2, <1>3 DEF IInv, Control, may
  <1>9. QED
    BY <1>1, <1>4, <1>5, <1>6, <1>7, <1>8 DEF IInv

\* Accept returns a connection.
LEMMA AcceptKeeps ==
    ASSUME IInv, NEW p \in use.clients, NEW l \in use.ports, acceptReturns(l, p)
    PROVE  IInv'
  <1>0. con[p].at = "queued" /\ \A m \in use.ports : p \in ear[m].queue => m = l
    BY DEF acceptReturns, IInv, Queues
  <1>1. Connections' /\ con'[p].at = "accepted" /\ con'[p].by = con[p].by
        /\ \A q \in use.clients : q # p => con'[q] = con[q]
    BY <1>0, GoesTo, Moved, ZenonT(60) DEF acceptReturns, IInv, Connections
  <1>2. UNCHANGED <<use, net, udp>> /\ ear' = [ear EXCEPT ![l].queue = @ \ {p}]
        /\ ear \in [use.ports -> [open : BOOLEAN, queue : SUBSET use.clients]]
    BY DEF acceptReturns, IInv, Types
  <1>g. /\ gor \in [use.ports \cup use.callers -> GorType] /\ gor[l].at = "accept"
        /\ gor' \in [use.ports \cup use.callers -> GorType] /\ gor'[l].at = "accepted" /\ gor'[l].conn = p
        /\ \A t \in use.ports \cup use.callers : t # l => gor'[t] = gor[t]
    <2> DEFINE g == [gor[l] EXCEPT !.at = "accepted", !.conn = p]
    <2>1. gor \in [use.ports \cup use.callers -> GorType] /\ gor[l].at = "accept" /\ gor' = [gor EXCEPT ![l] = g]
      BY Zenon DEF acceptReturns, IInv, Types
    <2>2. g \in GorType /\ g.at = "accepted" /\ g.conn = p
      BY <2>1, Zenon DEF GorType
    <2>3. QED
      BY <2>1, <2>2
  <1>u. use.ports \cap use.callers = {}
    BY StdAssumption DEF IInv, Types
  <1>3. RunningConns' = RunningConns
    BY <1>0, <1>1, <1>2 DEF RunningConns, Running, Registered, InLoop
  <1>4. Types' /\ Packets'
    <2>1. ear' \in [use.ports -> [open : BOOLEAN, queue : SUBSET use.clients]]
      BY <1>2
    <2>2. Types'
      BY <1>2, <1>g, <2>1 DEF IInv, Types, NetType, GorType, UdpType
    <2>3. Packets'
      BY <1>2, <1>g, <1>u DEF IInv, Packets, may
    <2>4. QED
      BY <2>2, <2>3
  <1>5. Queues'
    <2>1. /\ \A m \in use.ports : m # l => ear'[m].queue = ear[m].queue
          /\ ear'[l].queue = ear[l].queue \ {p}
          /\ \A m \in use.ports : ear[m].queue \subseteq use.clients
      BY <1>2
    <2>2. \A m \in use.ports : p \notin ear'[m].queue /\ (gor[m].at = "accepted" => gor[m].conn # p)
      BY <1>0, <2>1 DEF IInv, Queues
    <2>3. QED
      BY <1>1, <1>2, <1>g, <2>1, <2>2 DEF IInv, Queues
  <1>6. Closing'
    BY <1>1, <1>2, <1>g, SMTT(40) DEF IInv, Closing
  <1>7. Counting'
    BY <1>0, <1>1, <1>2, <1>3 DEF IInv, Counting, Registered, InLoop
  <1>8. Control'
    BY <1>1, <1>2, <1>3, <1>g, <1>u DEF IInv, Control, may
  <1>9. QED
    BY <1>1, <1>4, <1>5, <1>6, <1>7, <1>8 DEF IInv

\* The goroutine of a listener goes from accepted to another place.
LEMMA Accepted ==
    ASSUME IInv, NEW l \in use.ports, gor[l].at = "accepted", NEW step \in {"accept", "stopped"}, goesTo(l, step)
    PROVE  /\ gor[l].conn \in use.clients /\ con[gor[l].conn].at = "accepted" /\ UNCHANGED <<use, ear, udp>>
           /\ gor \in [use.ports \cup use.callers -> GorType]
           /\ gor' \in [use.ports \cup use.callers -> GorType] /\ gor'[l].at = step
           /\ \A t \in use.ports \cup use.callers : t # l => gor'[t] = gor[t]
           /\ \A m \in use.ports : gor'[m].at = "accepted" => m # l /\ gor[m].at = "accepted" /\ gor[m].conn # gor[l].conn
           /\ \A m \in use.ports : gor[l].conn \notin ear[m].queue
           /\ use.ports \cap use.callers = {} /\ net.at # "idle"
  <1> DEFINE g == [gor[l] EXCEPT !.at = step]
  <1>1. gor \in [use.ports \cup use.callers -> GorType] /\ gor' = [gor EXCEPT ![l] = g] /\ UNCHANGED <<use, ear, udp>>
    BY DEF goesTo, IInv, Types
  <1>2. g \in GorType /\ g.at = step
    BY <1>1 DEF GorType
  <1> HIDE DEF g
  <1>3. /\ gor[l].conn \in use.clients /\ con[gor[l].conn].at = "accepted"
        /\ \A m \in use.ports : gor[l].conn \notin ear[m].queue /\ (m # l /\ gor[m].at = "accepted" => gor[m].conn # gor[l].conn)
    BY DEF IInv, Queues
  <1>4. use.ports \cap use.callers = {} /\ net.at # "idle"
    BY StdAssumption DEF IInv, Types, Control
  <1>5. QED
    BY <1>1, <1>2, <1>3, <1>4

\* The connection that was accepted is counted, or refused when the server is closed.
LEMMA RegistersKeeps ==
    ASSUME IInv, NEW l \in use.ports, registers(l)
    PROVE  IInv'
  <1> DEFINE p == gor[l].conn
  <1>1. CASE ~net.closed
    <2>1. gor[l].at = "accepted" /\ counts(l, p)
      BY <1>1 DEF registers
    <2>2. /\ p \in use.clients /\ con[p].at = "accepted" /\ UNCHANGED <<use, ear, udp>>
          /\ gor \in [use.ports \cup use.callers -> GorType]
          /\ gor' \in [use.ports \cup use.callers -> GorType] /\ gor'[l].at = "accept"
          /\ \A t \in use.ports \cup use.callers : t # l => gor'[t] = gor[t]
          /\ \A m \in use.ports : gor'[m].at = "accepted" => m # l /\ gor[m].at = "accepted" /\ gor[m].conn # p
          /\ \A m \in use.ports : p \notin ear[m].queue
          /\ use.ports \cap use.callers = {} /\ net.at # "idle"
      BY <2>1, Accepted, Zenon DEF counts
    <2> HIDE DEF p
    <2>3. Connections' /\ con'[p].at = "opening" /\ con'[p].by = con[p].by
          /\ \A q \in use.clients : q # p => con'[q] = con[q]
      BY <2>1, <2>2, GoesTo, Moved, ZenonT(60) DEF counts, IInv, Connections
    <2>4. net' = [net EXCEPT !.conns = @ \cup {p}, !.wg = @ + 1] /\ net \in NetType
      BY <2>1 DEF counts, IInv, Types
    <2>5. net'.conns = net.conns \cup {p} /\ net'.wg = net.wg + 1 /\ net'.closed = net.closed /\ net'.at = net.at /\ net' \in NetType
      <3>1. net.conns \cup {p} \in SUBSET use.clients /\ net.wg + 1 \in Int /\ use' = use
        BY <2>2, <2>4 DEF NetType
      <3>2. QED
        BY <2>4, <3>1, Zenon DEF NetType
    <2>6. RunningConns' = RunningConns \cup {p} /\ p \notin RunningConns
      BY <2>2, <2>3 DEF RunningConns, Running, Registered, InLoop
    <2>7. Counts(net'.wg, RunningConns')
      BY <2>5, <2>6, OneMore DEF IInv, Counting
    <2>8. Types'
      BY <2>2, <2>5 DEF IInv, Types, NetType, GorType, UdpType
    <2>9. Queues'
      BY <2>2, <2>3 DEF IInv, Types, Queues
    <2>10. Closing'
      BY <2>2, <2>3, <2>5 DEF IInv, Closing
    <2>11. Counting'
      BY <2>2, <2>3, <2>5, <2>7 DEF IInv, Counting, Registered, InLoop
    <2>12. Control'
      BY <1>1, <2>2, <2>3, <2>5 DEF IInv, Control, may
    <2>13. Packets'
      BY <2>2 DEF IInv, Packets, may
    <2>14. QED
      BY <2>3, <2>8, <2>9, <2>10, <2>11, <2>12, <2>13 DEF IInv
  <1>2. CASE net.closed
    <2> DEFINE d == [con[p] EXCEPT !.at = "refused", !.open = FALSE]
    <2>1. gor[l].at = "accepted" /\ goesTo(l, "stopped") /\ con' = [con EXCEPT ![p] = d] /\ net' = net
      BY <1>2 DEF registers
    <2>2. /\ p \in use.clients /\ con[p].at = "accepted" /\ UNCHANGED <<use, ear, udp>>
          /\ gor \in [use.ports \cup use.callers -> GorType]
          /\ gor' \in [use.ports \cup use.callers -> GorType] /\ gor'[l].at = "stopped"
          /\ \A t \in use.ports \cup use.callers : t # l => gor'[t] = gor[t]
          /\ \A m \in use.ports : gor'[m].at = "accepted" => m # l /\ gor[m].at = "accepted" /\ gor[m].conn # p
          /\ \A m \in use.ports : p \notin ear[m].queue
          /\ use.ports \cap use.callers = {} /\ net.at # "idle"
      BY <2>1, Accepted, Zenon
    <2> HIDE DEF p
    <2>3. ConnInv(d) /\ d.at = "refused" /\ d.by = con[p].by
      BY <2>2, Refused, ZenonT(60) DEF IInv, Connections, ConnType
    <2> HIDE DEF d
    <2>4. Connections' /\ con'[p] = d /\ \A q \in use.clients : q # p => con'[q] = con[q]
      BY <2>1, <2>2, <2>3, ConnChanges, Zenon DEF IInv
    <2>5. RunningConns' = RunningConns
      BY <2>2, <2>3, <2>4 DEF RunningConns, Running, Registered, InLoop
    <2>6. Types'
      BY <2>1, <2>2 DEF IInv, Types, NetType, GorType, UdpType
    <2>7. Queues'
      BY <2>2, <2>4 DEF IInv, Types, Queues
    <2>8. Closing'
      BY <2>1, <2>2, <2>3, <2>4 DEF IInv, Closing
    <2>9. Counting'
      BY <2>1, <2>2, <2>3, <2>4, <2>5 DEF IInv, Counting, Registered, InLoop
    <2>10. Control'
      BY <1>2, <2>1, <2>2, <2>5 DEF IInv, Control, may
    <2>11. Packets'
      BY <2>2 DEF IInv, Packets, may
    <2>12. QED
      BY <2>4, <2>6, <2>7, <2>8, <2>9, <2>10, <2>11 DEF IInv
  <1>3. QED
    BY <1>1, <1>2

\* A listener is closed, and those who wait on it are turned away.
LEMMA CloseListenerKeeps ==
    ASSUME IInv, NEW t \in use.ports \cup use.callers, NEW l \in use.ports, closeListener(t, l)
    PROVE  IInv'
  <1>1. /\ UNCHANGED <<use, net, gor, udp>> /\ ear' = [ear EXCEPT ![l] = [open |-> FALSE, queue |-> {}]]
        /\ ear \in [use.ports -> [open : BOOLEAN, queue : SUBSET use.clients]]
    BY DEF closeListener, IInv, Types
  <1>2. \A p \in use.clients : p \notin ear[l].queue => con'[p] = con[p]
    BY DEF closeListener
  <1>3. ASSUME NEW p \in ear[l].queue
        PROVE  p \in use.clients /\ ConnInv(con'[p]) /\ con[p].at = "queued" /\ con'[p].at = "refused" /\ con'[p].by = con[p].by
    <2> DEFINE d == [con[p] EXCEPT !.at = "refused"]
    <2>1. p \in use.clients /\ con[p].at = "queued" /\ con[p] \in ConnType /\ ConnInv(con[p])
      BY <1>1 DEF IInv, Queues, Connections
    <2>2. con'[p] = d
      BY <2>1 DEF closeListener
    <2>3. ConnInv(d) /\ d.at = "refused" /\ d.by = con[p].by
      BY <2>1, GoesTo DEF ConnType
    <2>4. QED
      BY <2>1, <2>2, <2>3
  <1>4. Connections'
    <2>1. con' = [p \in use.clients |-> con'[p]]
      BY DEF closeListener
    <2>2. \A p \in use.clients : ConnInv(con'[p])
      BY <1>2, <1>3 DEF IInv, Connections
    <2>3. QED
      BY <1>1, <2>1, <2>2 DEF Connections, ConnInv
  <1>5. RunningConns' = RunningConns
    BY <1>1, <1>2, <1>3 DEF RunningConns, Running, Registered, InLoop
  <1>6. Types' /\ Packets'
    BY <1>1 DEF IInv, Types, NetType, GorType, UdpType, Packets, may
  <1>7. Queues'
    <2>1. ear'[l].queue = {} /\ \A m \in use.ports : m # l => ear'[m].queue = ear[m].queue
      BY <1>1
    <2>2. \A m \in use.ports : ear[m].queue \subseteq use.clients
      BY <1>1
    <2>3. QED
      BY <1>1, <1>2, <1>3, <2>1, <2>2 DEF IInv, Queues
  <1>8. Closing'
    BY <1>1, <1>2, <1>3 DEF IInv, Closing
  <1>9. Counting'
    BY <1>1, <1>2, <1>3, <1>5 DEF IInv, Counting, Registered, InLoop
  <1>10. Control'
    BY <1>1, <1>2, <1>3, <1>5 DEF IInv, Control, may
  <1>11. QED
    BY <1>4, <1>6, <1>7, <1>8, <1>9, <1>10 DEF IInv

\* shutdown goes on with one connection, p:
LEMMA CloseWithKeeps ==
    ASSUME IInv, NEW t \in use.ports \cup use.callers, NEW p \in use.clients, NEW d, NEW g \in GorType,
           UNCHANGED <<use, net, ear, udp>>,
           con' = [con EXCEPT ![p] = d], ConnInv(d), d.at = con[p].at,
           d.by = con[p].by \/ (con[p].by = "no" /\ d.by = "server"),
           gor' = [gor EXCEPT ![t] = g], gor[t].at \in {"each", "closeSocket"}, g.at \in {"each", "closeSocket"},
           g.at = "closeSocket" => g.conn = p /\ d.by # "no"
    PROVE  IInv'
  <1>1. gor \in [use.ports \cup use.callers -> GorType] /\ use.ports \cap use.callers = {}
    BY StdAssumption DEF IInv, Types
  <1>2. Connections' /\ con'[p] = d /\ \A q \in use.clients : q # p => con'[q] = con[q]
    BY ConnChanges, Zenon DEF IInv
  <1>3. /\ \A q \in use.clients : con'[q].at = con[q].at /\ (con[q].by # "no" => con'[q].by = con[q].by)
        /\ \A q \in use.clients : con'[q].by = "server" => con[q].by = "server" \/ net.closed
    BY <1>2 DEF IInv, Closing
  <1>4. /\ gor' \in [use.ports \cup use.callers -> GorType] /\ gor'[t] = g
        /\ \A s \in use.ports \cup use.callers : s # t => gor'[s] = gor[s]
    BY <1>1
  <1>5. RunningConns' = RunningConns
    BY <1>3 DEF RunningConns
  <1>6. Types'
    BY <1>4 DEF IInv, Types, NetType, GorType, UdpType
  <1>7. Queues'
    BY <1>3, <1>4 DEF IInv, Types, Queues
  <1>8. Closing'
    BY <1>2, <1>3, <1>4 DEF IInv, Closing
  <1>9. Counting'
    BY <1>3, <1>5, Zenon DEF IInv, Counting
  <1>10. Control'
    BY <1>1, <1>3, <1>4, <1>5 DEF IInv, Control, may
  <1>11. Packets'
    BY <1>1, <1>4 DEF IInv, Packets, may
  <1>12. QED
    BY <1>2, <1>6, <1>7, <1>8, <1>9, <1>10, <1>11 DEF IInv

\* it closes the net.Conn,
LEMMA CloseSocketKeeps ==
    ASSUME IInv, NEW t \in use.ports \cup use.callers, closeSocket(t)
    PROVE  IInv'
  <1> DEFINE p == gor[t].conn
             d == [con[p] EXCEPT !.open = @ /\ con[p].by = "detach"]
             g == [gor[t] EXCEPT !.at = "each"]
  <1>1. p \in use.clients /\ con[p].by # "no" /\ gor \in [use.ports \cup use.callers -> GorType]
    BY DEF closeSocket, IInv, Closing, Types
  <1>2. gor' = [gor EXCEPT ![t] = g] /\ gor[t].at = "closeSocket" /\ UNCHANGED <<use, net, ear, udp>>
    BY <1>1 DEF closeSocket, goesTo
  <1>3. con' = [con EXCEPT ![p] = d]
    BY <1>1 DEF closeSocket, IInv, Connections
  <1>4. g \in GorType /\ g.at = "each"
    BY <1>1 DEF GorType
  <1>5. ConnInv(d)
    BY <1>1, SocketClosed DEF IInv, Connections
  <1>6. d.at = con[p].at /\ d.by = con[p].by
    BY <1>1 DEF IInv, Connections, ConnType
  <1> HIDE DEF p, d, g
  <1>7. QED
    BY <1>1, <1>2, <1>3, <1>4, <1>5, <1>6, CloseWithKeeps, Zenon

\* after it has taken closedBy.
LEMMA CloseWithServerKeeps ==
    ASSUME IInv, NEW t \in use.ports \cup use.callers, NEW p \in use.clients, closeWithServer(t, p)
    PROVE  IInv'
  <1> DEFINE d == takenBy(con[p], "server")
             g == [gor[t] EXCEPT !.at = "closeSocket", !.conn = p, !.left = @ \ {p}]
  <1>1. /\ con' = [con EXCEPT ![p] = d] /\ gor' = [gor EXCEPT ![t] = g] /\ gor[t].at = "each"
        /\ UNCHANGED <<use, net, ear, udp>> /\ gor \in [use.ports \cup use.callers -> GorType]
    BY Zenon DEF closeWithServer, IInv, Types
  <1>2. g \in GorType /\ g.at = "closeSocket" /\ g.conn = p
    BY <1>1, Zenon DEF GorType
  <1>3. ConnInv(d)
    BY TakenByServer DEF IInv, Connections
  <1>4. d.at = con[p].at /\ d.by # "no" /\ (d.by = con[p].by \/ (con[p].by = "no" /\ d.by = "server"))
    BY DEF takenBy, IInv, Connections, ConnType
  <1> HIDE DEF d, g
  <1>5. QED
    BY <1>1, <1>2, <1>3, <1>4, CloseWithKeeps, Zenon

\* The goroutine of a connection deletes it from conns or ends.
LEMMA LeavesKeeps ==
    ASSUME IInv, NEW p \in use.clients, forgets(p) \/ handOver(p) \/ handedOver(p)
    PROVE  IInv'
  <1> DEFINE stays == con[p].at = "handOver"
             place == IF stays THEN "handing" ELSE "done"
  <1>1. /\ UNCHANGED <<use, ear, gor, udp>> /\ moves(p, place) /\ con[p].at \in {"forget", "handOver", "handedOver"}
        /\ net' = [net EXCEPT !.conns = net'.conns, !.wg = net'.wg] /\ net'.conns \in {net.conns, net.conns \ {p}}
        /\ con[p].at # "handedOver" => net'.conns = net.conns \ {p}
        /\ net'.wg = IF stays THEN net.wg ELSE net.wg - 1
    BY Zenon DEF forgets, handOver, handedOver, IInv, Types, NetType
  <1>2. ConnInv(con[p]) /\ ConnInv([con[p] EXCEPT !.at = place])
    BY <1>1, GoesTo DEF IInv, Connections
  <1>3. /\ Connections' /\ \A q \in use.clients : q # p => con'[q] = con[q]
        /\ con'[p].at = place /\ con'[p].by = con[p].by
    BY <1>1, <1>2, Moved DEF IInv
  <1>4. RunningConns' = IF stays THEN RunningConns ELSE RunningConns \ {p}
    BY <1>1, <1>3 DEF RunningConns, Running, Registered, InLoop
  <1>5. p \in RunningConns
    BY <1>1 DEF RunningConns, Running, Registered
  <1>6. Counts(net'.wg, RunningConns')
    BY <1>1, <1>4, <1>5, OneLess DEF IInv, Counting
  <1>7. net' \in NetType /\ net'.at = net.at /\ net'.closed = net.closed
    <2>1. net \in NetType /\ net'.conns \in SUBSET use.clients /\ net'.wg \in Int
      BY <1>1 DEF IInv, Types, NetType
    <2>2. QED
      BY <1>1, <2>1, Zenon DEF NetType
  <1>8. Types' /\ Packets'
    BY <1>1, <1>7 DEF IInv, Types, NetType, GorType, UdpType, Packets, may
  <1>9. Queues'
    BY <1>1, <1>3 DEF IInv, Types, Queues
  <1>10. Closing'
    BY <1>1, <1>3, <1>7 DEF IInv, Closing
  <1>11. Counting'
    BY <1>1, <1>3, <1>6 DEF IInv, Counting, Registered, InLoop
  <1>12. Control'
    BY <1>1, <1>3, <1>5, <1>7 DEF IInv, Control, may
  <1>13. QED
    BY <1>3, <1>8, <1>9, <1>10, <1>11, <1>12 DEF IInv

\* The invariant holds at first,
LEMMA StdInitIInv == StdInit => IInv
  <1> SUFFICES ASSUME StdInit PROVE IInv
    OBVIOUS
  <1>1. use \in StdScenarios /\ use.calls \in Nat /\ use.ports \cap use.callers = {}
    BY StdAssumption DEF StdInit
  <1>2. NewConn \in ConnType
    BY <1>1 DEF NewConn, ConnType, Bytes, Nats, Ints, Bools, Times, Ends, Calls, Places, Owners, Errors, Reasons, Before
  <1>3. Taken(NewConn) /\ Socket(NewConn) /\ Ended(NewConn) /\ Told(NewConn)
    BY Zenon DEF NewConn, Taken, Socket, Ended, Told, Over, Before, InLoop
  <1>4. InOrder(NewConn)
    <2>1. <<>> \o <<>> = <<>> /\ <<>> = [i \in 1..0 |-> i]
      OBVIOUS
    <2>2. QED
      BY <2>1 DEF InOrder, Held, NewConn, Cat, Numbers
  <1>5. ConnInv(NewConn) /\ NewConn.at = "away" /\ NewConn.by = "no"
    BY <1>2, <1>3, <1>4 DEF ConnInv, NewConn
  <1>6. Connections /\ \A p \in use.clients : con[p].at = "away" /\ con[p].by = "no"
    BY <1>2, <1>5, Zenon DEF StdInit, Connections
  <1>7. RunningConns = {} /\ Counts(0, RunningConns)
    BY <1>6, CountsNobody DEF RunningConns, Running, Registered, InLoop
  <1>8. net \in NetType /\ udp \in UdpType
    <2>1. 0 \in Int
      OBVIOUS
    <2>2. QED
      BY <2>1, Zenon DEF StdInit, NetType, UdpType
  <1>9. Types
    BY <1>8, Zenon DEF StdInit, Types, GorType
  <1>10. Queues /\ Closing /\ Packets
    BY <1>6, Zenon DEF StdInit, Queues, Closing, Packets
  <1>11. Counting /\ Control
    BY <1>6, <1>7 DEF StdInit, Counting, Control, Registered, InLoop
  <1>12. QED
    BY <1>6, <1>9, <1>10, <1>11 DEF IInv

\* and every step keeps it.
LEMMA StdNextIInv == IInv /\ [StdNext]_stdVars => IInv'
  <1> SUFFICES ASSUME IInv, [StdNext]_stdVars PROVE IInv'
    OBVIOUS
  <1>1. ASSUME NEW p \in use.clients, ConnStep(p)
        PROVE  IInv'
    BY <1>1, ConnStepKeeps, TurnKeeps, Zenon DEF IInv
  <1>2. ASSUME NEW t \in use.ports \cup use.callers, ShutdownStep(t)
        PROVE  IInv'
    BY <1>2, GoroutineStepKeeps, CloseListenerKeeps, CloseSocketKeeps, CloseWithServerKeeps, Zenon DEF ShutdownStep, GoroutineStep
  <1>3. ASSUME NEW l \in use.ports, StdAcceptStep(l) \/ \E err \in {"temporary", "fatal"} : acceptFails(l, err)
        PROVE  IInv'
    <2>1. CASE \E p \in use.clients : acceptReturns(l, p)
      BY <2>1, AcceptKeeps
    <2>2. CASE registers(l)
      BY <2>2, RegistersKeeps
    <2>3. CASE acceptFailed(l) \/ \E err \in {"closed", "temporary", "fatal"} : acceptFails(l, err)
      BY <2>3, GoroutineStepKeeps DEF GoroutineStep
    <2>4. QED
      BY <1>2, <1>3, <2>1, <2>2, <2>3 DEF StdAcceptStep
  <1>4. ASSUME NEW k \in use.callers, CallerStep(k) \/ StdClose(k) \/ UDPClose(k)
        PROVE  IInv'
    BY <1>2, <1>4, GoroutineStepKeeps DEF CallerStep, GoroutineStep
  <1>5. ASSUME NEW p \in use.clients,
               TimeStep(p) \/ CallStep(p) \/ LoopStep(p) \/ NetStep(p) \/ AppStep(p) \/ Write(p) \/ panics(p)
        PROVE  IInv'
    <2>1. CASE \E l \in use.ports : dials(p, l)
      BY <2>1, DialsKeeps
    <2>2. CASE forgets(p) \/ handOver(p) \/ handedOver(p)
      BY <2>2, LeavesKeeps
    <2>3. CASE ConnStep(p)
      BY <1>1, <2>3
    <2>4. QED
      BY <1>5, <2>1, <2>2, <2>3, Zenon DEF TimeStep, CallStep, LoopStep, NetStep, AppStep, ConnStep
  <1>6. CASE UNCHANGED stdVars
    <2>1. UNCHANGED <<use, net, ear, gor, con, udp>>
      BY <1>6 DEF stdVars
    <2>2. RunningConns' = RunningConns
      BY <2>1 DEF RunningConns
    <2>3. Types'
      BY <2>1 DEF IInv, Types, NetType, GorType, UdpType
    <2>4. Connections' /\ Queues' /\ Closing'
      BY <2>1 DEF IInv, Connections, Queues, Closing
    <2>5. Counting' /\ Control' /\ Packets'
      BY <2>1, <2>2, Zenon DEF IInv, Counting, Control, Packets, may
    <2>6. QED
      BY <2>3, <2>4, <2>5 DEF IInv
  <1>7. CASE GoesOn
    BY <1>3, <1>4, <1>5, <1>7, ServeKeeps, UdpKeeps DEF GoesOn
  <1>8. CASE Happens
    BY <1>3, <1>4, <1>5, <1>8, UdpKeeps DEF Happens
  <1>9. QED
    BY <1>6, <1>7, <1>8 DEF StdNext

\* The callbacks of a server without a poller are over when Close or Serve returns,
\* OnClose gets the right reason, and OnClosing is bounded: for any number of
\* clients, listeners and callers of Close.
THEOREM StdCallbacks == StdSpec => []StdCallbacksAreExact
  <1>1. IInv => StdCallbacksAreExact
    <2> SUFFICES ASSUME IInv PROVE StdCallbacksAreExact
      OBVIOUS
    <2>1. \A p \in use.clients : ConnInv(con[p]) /\ con[p].at \in Places
      BY Zenon DEF IInv, Connections, ConnInv, ConnType
    <2>2. CallbacksEnd
      <3> SUFFICES ASSUME net.at = "returned" \/ \E k \in use.callers : gor[k].at = "returned", NEW p \in use.clients
                   PROVE  /\ con[p].at \in Gone \cup {"queued", "accepted"}
                          /\ con[p].at = "done" /\ con[p].by # "detach" => ~con[p].open
        BY DEF CallbacksEnd
      <3>1. ~may("udp")
        BY StdAssumption DEF IInv, Types, may
      <3>2. RunningConns = {}
        BY <3>1 DEF IInv, Control
      <3>3. con[p].at \in Before \cup {"done"}
        BY <2>1, <3>2 DEF RunningConns, Places
      <3>4. QED
        BY <2>1, <3>3 DEF ConnInv, Socket, Before, Gone
    <2>3. PacketsEnd
      BY DEF IInv, Packets, PacketsEnd
    <2>4. CloseReasons
      BY <2>1, Zenon DEF CloseReasons, ConnInv, Told, Ended, IInv, Closing
    <2>5. ClosingIsBounded
      BY <2>1 DEF ClosingIsBounded, ConnInv, Ended
    <2>6. QED
      BY <2>2, <2>3, <2>4, <2>5 DEF StdCallbacksAreExact
  <1>2. QED
    BY <1>1, StdInitIInv, StdNextIInv, PTL DEF StdSpec

\* OnData and the caller of Detach get every byte, in order, and Detach gets a net.Conn
\* that the server leaves alone: whatever is sent, and whenever it is paused, detached
\* or closed.
THEOREM StdStream == StdSpec => []StdStreamIsExact
  <1>1. IInv => StdStreamIsExact
    <2> SUFFICES ASSUME IInv PROVE StdStreamIsExact
      OBVIOUS
    <2>1. \A p \in use.clients : ConnInv(con[p])
      BY Zenon DEF IInv, Connections
    <2>2. DetachIsClean
      BY <2>1, Zenon DEF DetachIsClean, ConnInv, Taken, Socket, Told, IInv, Counting, Registered, InLoop
    <2>3. BytesAreInOrder
      BY <2>1, Zenon DEF BytesAreInOrder, ConnInv, InOrder, Cat, Numbers
    <2>4. QED
      BY <2>2, <2>3 DEF StdStreamIsExact
  <1>2. QED
    BY <1>1, StdInitIInv, StdNextIInv, PTL DEF StdSpec

=============================================================================
