----------------------------- MODULE StdServer -----------------------------
(***************************************************************************)
(* The TCP server of platforms without epoll and kqueue (server_std.go,    *)
(* conn_std.go): a goroutine per listener accepts, a goroutine per         *)
(* connection reads with blocking calls on a net.Conn and runs the         *)
(* callbacks, and other goroutines pause, detach or close the connection   *)
(* or shut the server down.  Each section under stdConn.mu is one action;  *)
(* Server.mu is a variable, since shutdown holds it for many steps.  A     *)
(* callback may call the methods of its connection too: what it does is    *)
(* what another goroutine does while the callback runs.                    *)
(***************************************************************************)
EXTENDS Integers, Sequences, FiniteSets

CONSTANTS
    readBufferSize,  \* the bytes of one Read
    StdScenarios     \* what each scenario has: inputs; clients that may connect;
                     \* ports, the listeners, each with a goroutine that accepts;
                     \* callers, goroutines that call Server.Close; and the bounds
                     \* data (what a client sends) and calls (to a connection)

ASSUME StdAssumption ==
    /\ readBufferSize \in Nat \ {0}
    /\ \A u \in StdScenarios :
          /\ IsFiniteSet(u.clients) /\ u.ports \cap u.callers = {}
          /\ "udp" \in u.inputs => u.clients = {}
          /\ u.data \in Nat /\ u.calls \in Nat

VARIABLES
    use,  \* the scenario
    net,  \* Server: closed, err, conns, wg, mu, and where Serve is
    ear,  \* each listener's clients, and whether it is open
    gor,  \* where a goroutine that accepts or calls Close is
    con,  \* each connection: stdConn, its net.Conn and its goroutine
    udp   \* UDPServer: closed, wg, its socket and where Serve is

stdVars == <<use, net, ear, gor, con, udp>>

may(input) == input \in use.inputs

\* stdConn, its net.Conn and the locals of readLoop.  The net.Conn: what has arrived
\* and not been read (rx), how the peer ended it, whether it is open, and its
\* deadlines, "past" once they have expired.  at: where the goroutine is; writing: a
\* callback's Write blocks; wake: a Close has yet to wake the Read; det: where Detach
\* is, its channel closed by the goroutine at "stopped"; calls: what the application
\* may still call.  taken, reason, expired and moved record what the properties
\* speak of.
NewConn ==
    [rx |-> <<>>, sent |-> 0, end |-> "no", open |-> TRUE, rdl |-> "none", wdl |-> "none",
     at |-> "away", by |-> "no", paused |-> FALSE, resumed |-> FALSE,
     in |-> <<>>, data |-> <<>>, err |-> "nil", writing |-> FALSE,
     wake |-> FALSE, det |-> "no", calls |-> use.calls,
     taken |-> <<>>, reason |-> "none", expired |-> FALSE, moved |-> FALSE]

StdInit ==
    /\ use \in StdScenarios
    /\ net = [closed |-> FALSE, err |-> "nil", conns |-> {}, wg |-> 0,
              mu |-> "free", at |-> "idle"]
    /\ ear = [l \in use.ports |-> [open |-> TRUE, queue |-> {}]]
    /\ gor = [t \in use.ports \cup use.callers |-> [at |-> "idle", conn |-> "none", left |-> {}, err |-> "nil"]]
    /\ con = [p \in use.clients |-> NewConn]
    /\ udp = [closed |-> FALSE, wg |-> 0, open |-> TRUE, rx |-> 0, sent |-> 0, at |-> "idle"]

MuFree == net.mu = "free"

\* A step of one connection, of one goroutine of the server's, or of both.
turns(p, c) == con' = [con EXCEPT ![p] = c] /\ UNCHANGED <<use, net, ear, gor, udp>>
goesTo(t, step) == gor' = [gor EXCEPT ![t].at = step] /\ UNCHANGED <<use, ear, udp>>
moves(p, step) == con' = [con EXCEPT ![p].at = step]

(***************************************************************************)
(* The clients and the network                                             *)
(***************************************************************************)

\* A client connects: it waits in a listener's queue.
dials(p, l) ==
    /\ con[p].at = "away" /\ ear[l].open
    /\ moves(p, "queued")
    /\ ear' = [ear EXCEPT ![l].queue = @ \cup {p}]
    /\ UNCHANGED <<use, net, gor, udp>>

Linked(p) == con[p].at \notin {"away", "queued", "refused"} /\ con[p].open /\ con[p].end = "no"

\* The client sends; the bytes are numbered.
sends(p) ==
    /\ Linked(p) /\ con[p].sent < use.data
    /\ turns(p, [con[p] EXCEPT !.sent = @ + 1, !.rx = Append(@, con[p].sent + 1)])

\* The client ends the connection, with a FIN or a reset.
ends(p, how) == Linked(p) /\ may(how) /\ turns(p, [con[p] EXCEPT !.end = how])

\* The client takes what was sent to it, so that a blocked Write returns.
peerTakes(p) == con[p].writing /\ turns(p, [con[p] EXCEPT !.writing = FALSE])

\* A Write fails: the net.Conn is closed or reset, or its deadline is past.
writeFails(p) ==
    /\ con[p].writing
    /\ ~con[p].open \/ con[p].end = "reset" \/ con[p].wdl = "past"
    /\ turns(p, [con[p] EXCEPT !.writing = FALSE])

\* Time passes a deadline.
readExpires(p) == con[p].rdl = "future" /\ turns(p, [con[p] EXCEPT !.rdl = "past", !.expired = TRUE])
writeExpires(p) == con[p].wdl = "future" /\ turns(p, [con[p] EXCEPT !.wdl = "past"])

(***************************************************************************)
(* Serve and accept                                                        *)
(***************************************************************************)

Serve ==
    /\ net.at = "idle" /\ MuFree /\ use.ports # {}
    /\ net' = [net EXCEPT !.at = IF net.closed THEN "returned" ELSE "accepting"]
    /\ gor' = [t \in DOMAIN gor |-> IF t \in use.ports /\ ~net.closed THEN [gor[t] EXCEPT !.at = "accept"] ELSE gor[t]]
    /\ UNCHANGED <<use, ear, con, udp>>

\* accepting.Wait returns.
serveAccepted ==
    /\ net.at = "accepting" /\ \A l \in use.ports : gor[l].at = "stopped"
    /\ net' = [net EXCEPT !.at = "waiting"]
    /\ UNCHANGED <<use, ear, gor, con, udp>>

\* wg.Wait returns, and Serve with the fatal error or ErrServerClosed.
serveReturns ==
    /\ net.at = "waiting" /\ net.wg = 0 /\ MuFree
    /\ net' = [net EXCEPT !.at = "returned"]
    /\ UNCHANGED <<use, ear, gor, con, udp>>

\* Accept returns a connection.
acceptReturns(l, p) ==
    /\ gor[l].at = "accept" /\ p \in ear[l].queue
    /\ ear' = [ear EXCEPT ![l].queue = @ \ {p}]
    /\ gor' = [gor EXCEPT ![l].at = "accepted", ![l].conn = p]
    /\ moves(p, "accepted")
    /\ UNCHANGED <<use, net, udp>>

\* Accept fails: the listener is closed, or else for now or for good.
acceptFails(l, err) ==
    /\ gor[l].at = "accept"
    /\ IF err = "closed" THEN ~ear[l].open ELSE ear[l].open /\ may(err)
    /\ gor' = [gor EXCEPT ![l].at = "failed", ![l].err = err]
    /\ UNCHANGED <<use, net, ear, con, udp>>

\* What comes of the error: the goroutine ends, accepts again after a while, or
\* shuts the server down.
acceptFailed(l) ==
    /\ gor[l].at = "failed" /\ MuFree
    /\ goesTo(l, IF net.closed THEN "stopped" ELSE IF gor[l].err = "temporary" THEN "accept" ELSE "shutdown")
    /\ UNCHANGED <<net, con>>

\* The connection is counted and its goroutine started,
counts(l, p) ==
    /\ net' = [net EXCEPT !.conns = @ \cup {p}, !.wg = @ + 1]
    /\ goesTo(l, "accept")
    /\ moves(p, "opening")

\* Mutant of registers: s.closed is not looked at again.
registersAnyway(l) == gor[l].at = "accepted" /\ MuFree /\ counts(l, gor[l].conn)

\* unless the server is closed.
registers(l) ==
    /\ gor[l].at = "accepted" /\ MuFree
    /\ IF ~net.closed THEN counts(l, gor[l].conn)
       ELSE /\ goesTo(l, "stopped")
            /\ con' = [con EXCEPT ![gor[l].conn] = [@ EXCEPT !.at = "refused", !.open = FALSE]]
            /\ UNCHANGED net

(***************************************************************************)
(* Close and shutdown, which holds Server.mu throughout                    *)
(***************************************************************************)

StdClose(k) ==
    /\ gor[k].at = "idle" /\ ~may("udp")
    /\ goesTo(k, "shutdown")
    /\ UNCHANGED <<net, con>>

\* Where shutdown returns to.
After(t) == IF t \in use.ports THEN "stopped" ELSE "wait"

shutdown(t) ==
    /\ gor[t].at = "shutdown" /\ MuFree
    /\ IF net.closed THEN goesTo(t, After(t)) /\ UNCHANGED net
       ELSE goesTo(t, "closeListeners") /\ net' = [net EXCEPT !.closed = TRUE, !.err = gor[t].err, !.mu = t]
    /\ UNCHANGED con

\* One listener is closed; those who wait on it are turned away.
closeListener(t, l) ==
    /\ gor[t].at = "closeListeners" /\ ear[l].open
    /\ ear' = [ear EXCEPT ![l] = [open |-> FALSE, queue |-> {}]]
    /\ con' = [p \in use.clients |-> IF p \in ear[l].queue THEN [con[p] EXCEPT !.at = "refused"] ELSE con[p]]
    /\ UNCHANGED <<use, net, gor, udp>>

closeConns(t) ==
    /\ gor[t].at = "closeListeners" /\ \A l \in use.ports : ~ear[l].open
    /\ gor' = [gor EXCEPT ![t].at = "each", ![t].left = net.conns]
    /\ UNCHANGED <<use, net, ear, con, udp>>

\* closedBy.CompareAndSwap(0, by).
takenBy(c, by) == IF c.by = "no" THEN [c EXCEPT !.by = by] ELSE c

\* closeWith(closedByServer) takes closedBy under stdConn.mu,
closeWithServer(t, p) ==
    /\ gor[t].at = "each" /\ p \in gor[t].left
    /\ con' = [con EXCEPT ![p] = takenBy(@, "server")]
    /\ gor' = [gor EXCEPT ![t].at = "closeSocket", ![t].conn = p, ![t].left = @ \ {p}]
    /\ UNCHANGED <<use, net, ear, udp>>

\* Mutant of closeSocket: the net.Conn that Detach has taken is closed too.
closeSocketDetached(t) ==
    /\ gor[t].at = "closeSocket"
    /\ con' = [con EXCEPT ![gor[t].conn].open = FALSE]
    /\ goesTo(t, "each")
    /\ UNCHANGED net

\* and closes the net.Conn, whoever closed the connection, unless it is detached.
closeSocket(t) ==
    /\ gor[t].at = "closeSocket"
    /\ con' = [con EXCEPT ![gor[t].conn].open = @ /\ con[gor[t].conn].by = "detach"]
    /\ goesTo(t, "each")
    /\ UNCHANGED net

shutdownReturns(t) ==
    /\ gor[t].at = "each" /\ gor[t].left = {}
    /\ net' = [net EXCEPT !.mu = "free"]
    /\ goesTo(t, After(t))
    /\ UNCHANGED con

\* wg.Wait returns, and Close.
stdCloseReturns(k) ==
    /\ gor[k].at = "wait" /\ net.wg = 0
    /\ goesTo(k, "returned")
    /\ UNCHANGED <<net, con>>

(***************************************************************************)
(* The application's goroutines                                            *)
(***************************************************************************)

\* The application has got to know the connection, in OnOpen, and calls a method.
mayCall(p, method) ==
    /\ con[p].at \notin {"away", "queued", "accepted", "refused"}
    /\ con[p].calls > 0 /\ may(method)

called(p) == [con[p] EXCEPT !.calls = @ - 1]

\* Conn.Close is closeWith(closedByUser): it takes closedBy,
connClose(p) ==
    /\ mayCall(p, "close") /\ con[p].by = "no"
    /\ turns(p, [called(p) EXCEPT !.by = "user", !.wake = TRUE])

\* Mutant of closeWakes: the Read is left alone.
closeWakesNobody(p) == con[p].wake /\ turns(p, [con[p] EXCEPT !.wake = FALSE])

\* and wakes the Read in progress.
closeWakes(p) == con[p].wake /\ turns(p, [con[p] EXCEPT !.wake = FALSE, !.rdl = "past"])

setsDeadline(p, d) == turns(p, [called(p) EXCEPT !.rdl = d, !.wdl = d, !.moved = @ \/ con[p].at = "closing"])

\* Mutant of SetDeadline: closedBy is not looked at.
SetDeadlineAnyway(p, d) == mayCall(p, "deadline") /\ setsDeadline(p, d)

\* SetDeadline with a time to come, or with none.
SetDeadline(p, d) == mayCall(p, "deadline") /\ con[p].by = "no" /\ setsDeadline(p, d)

PauseRead(p) == mayCall(p, "pause") /\ turns(p, [called(p) EXCEPT !.paused = TRUE])
ResumeRead(p) == mayCall(p, "pause") /\ turns(p, [called(p) EXCEPT !.paused = FALSE, !.resumed = TRUE])

\* Detach takes closedBy and sets detached,
Detach(p) ==
    /\ mayCall(p, "detach") /\ con[p].by = "no"
    /\ turns(p, [called(p) EXCEPT !.by = "detach", !.det = "wake"])

\* wakes the Read in progress,
detachWakes(p) == con[p].det = "wake" /\ turns(p, [con[p] EXCEPT !.det = "wait", !.rdl = "past"])

\* and returns the net.Conn, without deadlines, and what OnData left unconsumed.
detachReturns(p) ==
    /\ con[p].det = "wait" /\ con[p].at \in {"handedOver", "done"}
    /\ turns(p, [con[p] EXCEPT !.det = "returned", !.rdl = "none", !.wdl = "none"])

(***************************************************************************)
(* The goroutine of a connection                                           *)
(***************************************************************************)

\* Write in a callback: it does not touch the net.Conn of a closed connection, and
\* blocks on a peer that does not read.
Write(p) ==
    /\ con[p].at \in {"opening", "data", "closing"} /\ mayCall(p, "write")
    /\ ~con[p].writing /\ con[p].by = "no" /\ con[p].open
    /\ turns(p, [called(p) EXCEPT !.writing = TRUE])

\* A callback, which has returned from Write.
In(p, callback) == con[p].at = callback /\ ~con[p].writing

\* A callback panics, which ends readLoop: recoverPanic makes it ErrHandlerPanic.
panics(p) ==
    /\ may("panic") /\ \E f \in {"opening", "resume", "resumeData", "data", "closing"} : In(p, f)
    /\ turns(p, [con[p] EXCEPT !.at = "ended", !.err = "panic"])

onOpen(p) == In(p, "opening") /\ turns(p, [con[p] EXCEPT !.at = "wait"])

\* waitRead: waitResumed blocks while reading is paused; OnResume follows when it
\* reports a resumption, and detached is what a detached connection's loop ends with.
waitRead(p, resume, detached, otherwise) ==
    /\ ~(con[p].paused /\ con[p].by = "no")
    /\ turns(p, IF con[p].resumed /\ con[p].by = "no" THEN [con[p] EXCEPT !.resumed = FALSE, !.at = resume]
                ELSE IF con[p].by = "detach" THEN [con[p] EXCEPT !.resumed = FALSE, !.in = detached, !.at = "ended"]
                ELSE [con[p] EXCEPT !.resumed = FALSE, !.at = otherwise])

\* The wait before a Read,
waitsToRead(p) == con[p].at = "wait" /\ waitRead(p, "resume", con[p].in, "check")

\* Mutant of waitsToDeliver: what has just been read is forgotten.
waitsToDeliverStale(p) == con[p].at = "waitData" /\ waitRead(p, "resumeData", con[p].in, "checkData")

\* and the one before OnData: what has been read is handed over if it is detached.
waitsToDeliver(p) == con[p].at = "waitData" /\ waitRead(p, "resumeData", con[p].data, "checkData")

onResume(p) == \/ In(p, "resume") /\ turns(p, [con[p] EXCEPT !.at = "wait"])
               \/ In(p, "resumeData") /\ turns(p, [con[p] EXCEPT !.at = "waitData"])

\* closedBy is loaded before the Read.
checks(p) ==
    /\ con[p].at = "check"
    /\ turns(p, [con[p] EXCEPT !.at = IF con[p].by = "no" THEN "read" ELSE "ended"])

\* Read returns data, which is joined to what OnData has left,
reads(p) ==
    /\ con[p].at = "read" /\ con[p].open /\ con[p].rdl # "past" /\ con[p].end # "reset" /\ con[p].rx # <<>>
    /\ LET n == IF Len(con[p].rx) < readBufferSize THEN Len(con[p].rx) ELSE readBufferSize
           joined == con[p].in \o SubSeq(con[p].rx, 1, n)
       IN turns(p, [con[p] EXCEPT !.at = "waitData", !.data = joined, !.in = IF @ = <<>> THEN @ ELSE joined,
                                  !.rx = SubSeq(@, n + 1, Len(@))])

\* The errors a Read may return.
ReadErrors(c) ==
    IF ~c.open THEN {"closed"}
    ELSE {e \in {"timeout"} : c.rdl = "past"} \cup {e \in {"reset"} : c.end = "reset"}
         \cup {e \in {"EOF"} : c.end = "fin" /\ c.rx = <<>>}

\* or an error, which ends the loop.
readFails(p, e) ==
    /\ con[p].at = "read" /\ e \in ReadErrors(con[p])
    /\ turns(p, [con[p] EXCEPT !.at = "failed", !.err = e])

\* closedBy is loaded once more: what was read is kept if it is closed, or else
\* OnData is called.
delivers(p) ==
    /\ con[p].at = "checkData"
    /\ turns(p, IF con[p].by = "no" THEN [con[p] EXCEPT !.at = "data"]
                ELSE [con[p] EXCEPT !.at = "wait", !.in = con[p].data])

\* OnData returns: as much as it says is consumed, within what there is.
onData(p, n) ==
    /\ In(p, "data")
    /\ LET len == Len(con[p].data)
           consumed == IF n < 0 THEN 0 ELSE IF n > len THEN len ELSE n
       IN turns(p, [con[p] EXCEPT !.at = "wait", !.in = SubSeq(con[p].data, consumed + 1, len),
                                  !.taken = @ \o SubSeq(con[p].data, 1, consumed)])

\* The engine closes an unbroken connection on its own, so that OnClosing is called.
Closes(c) == may("closing") /\ c.by = "no" /\ c.err \in {"EOF", "timeout"}

\* Mutant of closing: a Write is not bounded.
closingUnbounded(p) ==
    con[p].at = "failed" /\ turns(p, [con[p] EXCEPT !.at = IF Closes(con[p]) THEN "closing" ELSE "ended"])

\* After the loop: OnClosing, within closingWriteTimeout.
closing(p) ==
    /\ con[p].at = "failed"
    /\ turns(p, IF Closes(con[p]) THEN [con[p] EXCEPT !.at = "closing", !.wdl = "future"]
                ELSE [con[p] EXCEPT !.at = "ended"])

onClosing(p) == In(p, "closing") /\ turns(p, [con[p] EXCEPT !.at = "ended", !.wdl = "none"])

\* Mutant of serveConn: the error of the loop is the reason, whoever closed.
serveConnRaw(p) ==
    /\ con[p].at = "ended"
    /\ LET c == takenBy(con[p], "engine")
       IN turns(p, IF c.by = "detach" THEN [c EXCEPT !.at = "handOver"] ELSE [c EXCEPT !.at = "onClose", !.reason = c.err])

\* serveConn: unless something closed the connection first, the engine does.
serveConn(p) ==
    /\ con[p].at = "ended"
    /\ LET c == takenBy(con[p], "engine")
           reason == IF c.by = "user" THEN "nil" ELSE IF c.by = "server" THEN "server" ELSE c.err
       IN turns(p, IF c.by = "detach" THEN [c EXCEPT !.at = "handOver"]
                   ELSE [c EXCEPT !.at = "onClose", !.reason = reason])

\* OnClose returns, or panics, and the net.Conn is closed.
onClose(p) == con[p].at = "onClose" /\ turns(p, [con[p] EXCEPT !.at = "forget", !.open = FALSE])

\* The connection is deleted from conns, and its goroutine ends.
forgets(p) ==
    /\ con[p].at = "forget" /\ MuFree
    /\ net' = [net EXCEPT !.conns = @ \ {p}, !.wg = @ - 1]
    /\ moves(p, "done")
    /\ UNCHANGED <<use, ear, gor, udp>>

\* handOver deletes it too,
handOver(p) ==
    /\ con[p].at = "handOver" /\ MuFree
    /\ net' = [net EXCEPT !.conns = @ \ {p}]
    /\ moves(p, "handing")
    /\ UNCHANGED <<use, ear, gor, udp>>

\* leaves what is unconsumed to Detach and closes its channel,
handsOver(p) == con[p].at = "handing" /\ turns(p, [con[p] EXCEPT !.at = "handedOver"])

\* and its goroutine ends.
handedOver(p) ==
    /\ con[p].at = "handedOver"
    /\ net' = [net EXCEPT !.wg = @ - 1]
    /\ moves(p, "done")
    /\ UNCHANGED <<use, ear, gor, udp>>

(***************************************************************************)
(* The UDP server (udp_std.go)                                             *)
(***************************************************************************)

udpTurns(u) == udp' = u /\ UNCHANGED <<use, net, ear, gor, con>>

\* A datagram arrives at the socket.
udpArrives ==
    /\ may("udp") /\ udp.open /\ udp.sent < use.data
    /\ udpTurns([udp EXCEPT !.sent = @ + 1, !.rx = @ + 1])

UDPServe ==
    /\ may("udp") /\ udp.at = "idle"
    /\ udpTurns(IF udp.closed THEN [udp EXCEPT !.at = "returned"] ELSE [udp EXCEPT !.at = "read", !.wg = 1])

\* ReadFromUDPAddrPort returns a datagram,
udpReads == udp.at = "read" /\ udp.open /\ udp.rx > 0 /\ udpTurns([udp EXCEPT !.at = "packet", !.rx = @ - 1])

\* or fails, with an error of the socket's or because it is closed: Serve returns.
udpReadFails ==
    udp.at = "read" /\ (~udp.open \/ may("fatal")) /\ udpTurns([udp EXCEPT !.at = "returned", !.wg = 0])

\* OnPacket returns, or panics and the panic is recovered.
onPacket == udp.at = "packet" /\ udpTurns([udp EXCEPT !.at = "read"])

UDPClose(k) ==
    /\ may("udp") /\ gor[k].at = "idle"
    /\ udp' = [udp EXCEPT !.closed = TRUE, !.open = FALSE]
    /\ gor' = [gor EXCEPT ![k].at = "udpWait"]
    /\ UNCHANGED <<use, net, ear, con>>

udpCloseReturns(k) == gor[k].at = "udpWait" /\ udp.wg = 0 /\ goesTo(k, "returned") /\ UNCHANGED <<net, con>>

(***************************************************************************)
(* The specification                                                       *)
(***************************************************************************)

NetStep(p) ==
    \/ \E l \in use.ports : dials(p, l)
    \/ sends(p)
    \/ \E how \in {"fin", "reset"} : ends(p, how)
    \/ peerTakes(p)

TimeStep(p) == readExpires(p) \/ writeExpires(p)

StdServeStep == Serve \/ serveAccepted \/ serveReturns
UdpServeStep == UDPServe \/ udpReads \/ udpReadFails \/ onPacket

ShutdownStep(t) ==
    \/ shutdown(t) \/ closeConns(t) \/ closeSocket(t) \/ shutdownReturns(t)
    \/ \E l \in use.ports : closeListener(t, l)
    \/ \E p \in use.clients : closeWithServer(t, p)

StdAcceptStep(l) ==
    \/ \E p \in use.clients : acceptReturns(l, p)
    \/ acceptFails(l, "closed") \/ acceptFailed(l) \/ registers(l)
    \/ ShutdownStep(l)

CallerStep(k) == ShutdownStep(k) \/ stdCloseReturns(k) \/ udpCloseReturns(k)

AppStep(p) ==
    \/ connClose(p) \/ PauseRead(p) \/ ResumeRead(p) \/ Detach(p)
    \/ \E d \in {"none", "future"} : SetDeadline(p, d)

\* A call of the application's under way goes on.
CallStep(p) == closeWakes(p) \/ detachWakes(p) \/ detachReturns(p)

\* The goroutine of a connection goes on, its callbacks included.
LoopStep(p) ==
    \/ onOpen(p) \/ waitsToRead(p) \/ waitsToDeliver(p) \/ onResume(p) \/ checks(p) \/ reads(p)
    \/ \E e \in {"closed", "timeout", "reset", "EOF"} : readFails(p, e)
    \/ delivers(p)
    \/ \E n \in -1..(Len(con[p].data) + 1) : onData(p, n)
    \/ writeFails(p) \/ closing(p) \/ onClosing(p) \/ serveConn(p) \/ onClose(p) \/ forgets(p)
    \/ handOver(p) \/ handsOver(p) \/ handedOver(p)

\* What is going to happen: goroutines go on, callbacks return, and time passes.
GoesOn ==
    \/ StdServeStep \/ UdpServeStep
    \/ \E l \in use.ports : StdAcceptStep(l)
    \/ \E k \in use.callers : CallerStep(k)
    \/ \E p \in use.clients : TimeStep(p) \/ CallStep(p) \/ LoopStep(p)

\* What may happen: clients, the application and errors.
Happens ==
    \/ udpArrives
    \/ \E l \in use.ports, err \in {"temporary", "fatal"} : acceptFails(l, err)
    \/ \E k \in use.callers : StdClose(k) \/ UDPClose(k)
    \/ \E p \in use.clients : NetStep(p) \/ AppStep(p) \/ Write(p) \/ panics(p)

StdNext == GoesOn \/ Happens
StdSpec == StdInit /\ [][StdNext]_stdVars

(***************************************************************************)
(* Properties                                                              *)
(***************************************************************************)

Gone == {"away", "refused", "done"}
InLoop == {"opening", "wait", "resume", "check", "read", "waitData", "resumeData", "checkData", "data"}

\* The callbacks are over when Close or Serve returns, and every connection is
\* closed that was not detached (Server.Close, Server.Serve).
CallbacksEnd ==
    (net.at = "returned" \/ \E k \in use.callers : gor[k].at = "returned") =>
        \A p \in use.clients :
            /\ con[p].at \in Gone \cup {"queued", "accepted"}
            /\ con[p].at = "done" /\ con[p].by # "detach" => ~con[p].open

\* The UDP server's are over when its Close returns (UDPServer.Close).
PacketsEnd == (\E k \in use.callers : gor[k].at = "returned") => udp.at \in {"idle", "returned"}

\* OnClose gets the reason: nil only after a Close, ErrServerClosed only once the
\* server is closed, io.EOF only from a peer that has ended its side and whose bytes
\* have all been read, and os.ErrDeadlineExceeded only when a deadline has expired,
\* which the wake-up of a Read by Close or Detach is not (serveConn).
CloseReasons ==
    \A p \in use.clients :
        LET c == con[p]
        IN CASE c.reason = "server"  -> net.closed
             [] c.reason = "EOF"     -> c.end = "fin" /\ c.rx = <<>>
             [] c.reason = "timeout" -> c.expired
             [] c.reason = "closed"  -> FALSE
             [] c.reason = "nil"     -> c.by = "user"
             [] OTHER -> TRUE

\* OnClosing does not wait for a peer that does not read, unless SetDeadline moves
\* the write deadline while it runs (closingWriteTimeout).
ClosingIsBounded ==
    \A p \in use.clients :
        con[p].at = "closing" /\ con[p].writing /\ ~con[p].moved => con[p].wdl # "none" \/ ~con[p].open

\* The callbacks of a connection without a poller (server_std.go).
StdCallbacksAreExact == CallbacksEnd /\ PacketsEnd /\ CloseReasons /\ ClosingIsBounded

\* A detached net.Conn is its caller's: open, without a deadline, out of the server's
\* reach, and no OnClose comes (stdConn.Detach).
DetachIsClean ==
    \A p \in use.clients : con[p].by = "detach" =>
        /\ con[p].open /\ con[p].reason = "none"
        /\ con[p].det = "returned" => con[p].rdl = "none" /\ con[p].wdl = "none" /\ p \notin net.conns

\* What the goroutine holds between the socket and OnData.
Held(c) == IF c.at \in {"waitData", "resumeData", "checkData", "data"} THEN c.data ELSE c.in

\* Every byte is in one place, in order: consumed by OnData, held, or in the socket;
\* so that the net.Conn which Detach returns goes on where OnData left off
\* (readLoop, handOver).  A callback's panic may take the bytes it was given along.
BytesAreInOrder ==
    \A p \in use.clients :
        LET c == con[p]
        IN c.err # "panic" => c.taken \o Held(c) \o c.rx = [i \in 1..c.sent |-> i]

\* What OnData and the caller of Detach get (server_std.go, conn_std.go).
StdStreamIsExact == DetachIsClean /\ BytesAreInOrder

\* Server.Close has returned, and Serve.
ServerIsDown == (\E k \in use.callers : gor[k].at # "idle") =>
    /\ \A k \in use.callers : gor[k].at \in {"idle", "returned"}
    /\ net.at \in {"idle", "returned"} /\ udp.at \in {"idle", "returned"}

\* A connection that was closed or detached has come to its end.
ConnIsOver(c) == c.by # "no" => c.at = "done" /\ c.det \in {"no", "returned"}

\* What has arrived is read, and an expired deadline has closed the connection,
\* unless reading is paused.
ConnIsRead(c) == c.at \in InLoop /\ ~c.paused => c.rx = <<>> /\ c.end = "no" /\ c.rdl # "past"

\* Nobody waits for ever: when nothing more is going to happen, every connection is
\* over or read as it should be, and the server is down if Close was called.  A peer
\* that does not read may block a callback in Write; Close ends it, except on a
\* connection that is being detached, whose net.Conn it leaves open (shutdown,
\* closeWith, waitResumed, stdConn.Detach, UDPServer.Close).
StdGoesOn ==
    \/ /\ (\A p \in use.clients : ~(con[p].writing /\ con[p].by = "detach")) => ServerIsDown
       /\ \A p \in use.clients : ~con[p].writing => ConnIsOver(con[p]) /\ ConnIsRead(con[p])
    \/ ENABLED GoesOn

=============================================================================
