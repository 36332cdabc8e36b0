------------------------------- MODULE Fhttp -------------------------------
(***************************************************************************)
(* One HTTP/1.x connection of package fhttp: the callbacks that split and  *)
(* queue requests (conn.go, framer.go, server.go), the worker that answers *)
(* them (conn.go, response.go), Upgrade and the hand-off to net/http.      *)
(*                                                                         *)
(* Below it is a connection of the engine (module Engine).  A critical     *)
(* section under conn.mu is one step together with the thread-local code   *)
(* around it.                                                              *)
(* Every request reaches the server in two halves; a response is one unit, *)
(* or a header, pieces and an end when it is streamed.                     *)
(***************************************************************************)
EXTENDS Engine

CONSTANTS
    MaxPipeline,   \* maxPipeline, standing for maxQueuedBytes as well
    MaxOutput      \* maxBufferedOutput, in units

\* What a client asks for: a response that leaves the connection open or closes it, one
\* that is shorter than the Content-Length declared for it, one that is streamed, a switch to WebSocket or another protocol, 100 Continue before the
\* body, a body left to net/http, a request that cannot be framed or parsed, a Handler
\* that panics before or after it has written a large body.
Kinds == {"get", "last", "short", "large", "upgrade", "websocket", "expect", "stream", "unframed", "invalid", "panic", "torn"}

ASSUME FhttpAssumption == MaxPipeline \in Nat \ {0} /\ MaxOutput \in Nat \ {0}

VARIABLES
    c,      \* the fields of fhttp's conn
    w,      \* the worker: where it is, its response, the request it answers
    tasks,  \* the serveTasks submitted to the executor and not finished
    p       \* the protocol an Upgrade handed the connection to

http == <<c, w, tasks, p>>

Request(i, status) == [i |-> i, status |-> status]
Unit(i, part) == [i |-> i, part |-> part]

HttpInit ==
    /\ c = [queue |-> <<>>, taken |-> 0, worker |-> "idle", partial |-> FALSE, framed |-> FALSE,
            readPaused |-> FALSE, halfClosed |-> FALSE, broken |-> FALSE, closed |-> FALSE,
            protocol |-> 0, context |-> "http", writable |-> "nil", ctx |-> "none"]
    /\ w = [pc |-> "none", out |-> <<>>, r |-> Request(0, "message"), pieces |-> 0, streamed |-> FALSE,
            failed |-> FALSE]
    /\ tasks = 0
    /\ p = [first |-> -1, paused |-> FALSE, closes |-> 0, handed |-> 0]

(***************************************************************************)
(* The callbacks                                                           *)
(***************************************************************************)

\* framer.split on d halves that begin with request k: the items it pushes, the halves it
\* takes and the status it ends with. A body for net/http shows in the header, the first half.
Stops(k, d) == {i \in k..Len(sc.requests) : \/ Kind(i) = "stream" /\ 2 * (i - k) + 1 <= d
                                            \/ Kind(i) = "unframed" /\ 2 * (i - k) + 2 <= d}
Messages(k, n) == [j \in 1..n |-> Request(k + j - 1, "message")]

split(k, d, framed) ==
    IF Stops(k, d) # {}
    THEN LET i == Min(Stops(k, d))
             status == IF Kind(i) = "stream" THEN "handoff" ELSE "error"
         IN [items |-> Append(Messages(k, i - k), Request(i, status)),
             consumed |-> IF status = "handoff" THEN 2 * (i - k) ELSE d, end |-> status, framed |-> FALSE]
    ELSE LET n == d \div 2
             waits == d % 2 = 1 /\ Kind(k + n) = "expect"
             asks == waits /\ ~(framed /\ n = 0)
         IN [items |-> Messages(k, n) \o (IF asks THEN <<Request(k + n, "continue")>> ELSE <<>>),
             consumed |-> 2 * n, end |-> "none", framed |-> waits]

\* setDeadline, in the state s of conn and with mu held.
deadlineOf(s) == IF s.worker = "serving" THEN "none"
                 ELSE IF s.worker = "idle" /\ s.partial THEN "header" ELSE "idle"
setDeadline(s, old) == IF s.worker = "closing" \/ s.protocol # 0 THEN old ELSE deadlineOf(s)

\* The number of requests in the queue's array, those already taken included (see pop).
queueLen(s) == IF s.queue = <<>> THEN 0 ELSE s.taken + Len(s.queue)
full(s) == queueLen(s) >= MaxPipeline
submits(s, items) == items # <<>> /\ s.worker = "idle"
\* Which callback of which side an event goes to; package websocket's are in WebSocket.
toProtocol == c.context = "protocol" \/ c.protocol # 0
toWebSocket == c.protocol # 0 /\ Kind(c.protocol) = "websocket"
taken == [c EXCEPT !.context = IF toProtocol THEN "protocol" ELSE "http"]

\* Another protocol takes all the data it is given, and remembers where the first came from.
protocolData ==
    /\ e' = IF toWebSocket THEN [e EXCEPT !.task = "ws.OnData"] ELSE [e EXCEPT !.data = 0, !.task = "idle"]
    /\ p' = [p EXCEPT !.first = IF @ = -1 THEN Consumed ELSE @]

OnData ==
    /\ e.task = "OnData"
    /\ IF toProtocol THEN c' = taken /\ protocolData
       ELSE /\ e' = [e EXCEPT !.task = "onData"]
            /\ UNCHANGED <<c, p>>
    /\ UNCHANGED <<sc, w, tasks, cl>>

\* onData after route has looked: the protocol may have been switched meanwhile.
onDataLate ==
    /\ e.task = "onData" /\ ~c.broken /\ c.protocol # 0
    /\ c' = [c EXCEPT !.broken = TRUE]
    /\ e' = [e EXCEPT !.data = 0, !.closing = TRUE, !.task = "idle"]
    /\ UNCHANGED <<sc, w, tasks, p, cl>>

onDataBroken ==
    /\ e.task = "onData" /\ c.broken
    /\ e' = [e EXCEPT !.data = 0, !.task = "idle"]
    /\ UNCHANGED <<sc, c, w, tasks, p, cl>>

onData ==
    /\ e.task = "onData" /\ ~c.broken /\ c.protocol = 0
    /\ LET f == split(Consumed \div 2 + 1, e.data, c.framed)
           pushed == [c EXCEPT !.queue = @ \o f.items, !.framed = f.framed, !.broken = f.end = "error"]
           submit == submits(c, f.items)
           partial == f.consumed < e.data
           s == [pushed EXCEPT !.readPaused = @ \/ full(pushed), !.partial = partial,
                               !.worker = IF submit THEN "serving" ELSE @]
       IN /\ c' = s
          /\ tasks' = IF submit THEN tasks + 1 ELSE tasks
          /\ e' = [e EXCEPT !.task = "idle", !.data = @ - f.consumed,
                            !.paused = @ \/ f.end = "handoff" \/ full(pushed),
                            !.deadline = IF submit \/ partial # c.partial THEN setDeadline(s, @) ELSE @]
    /\ UNCHANGED <<sc, w, p, cl>>

OnResume ==
    /\ e.task = "OnResume"
    /\ c' = taken
    /\ e' = [e EXCEPT !.task = "idle"]
    /\ UNCHANGED <<sc, w, tasks, p, cl>>

cancelled(s) == IF s.ctx = "live" THEN "cancelled" ELSE s.ctx
wakeWriter(s) == IF s.writable = "nil" THEN "nil" ELSE "signal"

keepsOpen == c.context = "http" /\ c.protocol = 0 /\ c.worker \in {"serving", "waiting"}
halfClose ==
    /\ e.task = "OnHalfClose"
    /\ IF keepsOpen
       THEN /\ c' = [c EXCEPT !.halfClosed = TRUE, !.ctx = cancelled(c)]
            /\ e' = [e EXCEPT !.task = "idle", !.readClosed = TRUE]
       ELSE /\ e' = [e EXCEPT !.task = "idle", !.closing = TRUE]
            /\ UNCHANGED c
    /\ UNCHANGED <<sc, w, tasks, p, cl>>

onWritable ==
    /\ e.task = "OnWritable"
    /\ IF toProtocol
       THEN c' = taken /\ e' = [e EXCEPT !.task = IF toWebSocket THEN "ws.OnWritable" ELSE "idle"] /\ UNCHANGED tasks
       ELSE LET resume == c.worker = "waiting" /\ ~c.closed
                s == [c EXCEPT !.writable = wakeWriter(c), !.worker = IF resume THEN "serving" ELSE @]
            IN /\ c' = s
               /\ tasks' = IF resume THEN tasks + 1 ELSE tasks
               /\ e' = [e EXCEPT !.task = "idle", !.deadline = IF resume THEN setDeadline(s, @) ELSE @]
    /\ UNCHANGED <<sc, w, p, cl>>

releaseQueue(s) == [s EXCEPT !.queue = <<>>, !.taken = 0]

onClose ==
    /\ e.task = "OnClose"
    /\ c' = IF c.context = "protocol" THEN c
            ELSE releaseQueue([c EXCEPT !.closed = TRUE, !.ctx = cancelled(c), !.writable = wakeWriter(c)])
    /\ p' = [p EXCEPT !.closes = IF c.protocol # 0 THEN @ + 1 ELSE @]
    /\ e' = [e EXCEPT !.task = IF toWebSocket THEN "ws.OnClose" ELSE "done"]
    /\ UNCHANGED <<sc, w, tasks, cl>>

(***************************************************************************)
(* The worker: serve and serveQueue                                        *)
(***************************************************************************)

At(pc) == w.pc = pc
goes(pc) == [w EXCEPT !.pc = pc]
flushed(pc) == [w EXCEPT !.pc = pc, !.out = <<>>]

serve ==
    /\ At("none") /\ tasks > 0
    /\ w' = [w EXCEPT !.pc = "loop", !.out = <<>>]
    /\ UNCHANGED <<sc, c, tasks, e, p, cl>>

stalled == c.queue # <<>> /\ ~Writable
mustFlush == ~c.closed /\ w.out # <<>> /\ (c.queue = <<>> \/ stalled)
drained == c.closed \/ c.queue = <<>>

loopFlush ==
    /\ At("loop") /\ mustFlush
    /\ w' = goes("flush")
    /\ UNCHANGED <<sc, c, tasks, e, p, cl>>

flush ==
    /\ At("flush")
    /\ e' = Written(w.out)
    /\ w' = flushed(IF Refused THEN "close" ELSE "loop")
    /\ UNCHANGED <<sc, c, tasks, p, cl>>

loopHalfClosed ==
    /\ At("loop") /\ ~mustFlush /\ drained /\ c.halfClosed /\ ~c.closed
    /\ w' = goes("close")
    /\ UNCHANGED <<sc, c, tasks, e, p, cl>>

\* The queue is empty: the worker stops, and reading resumes if it was paused.
loopIdle ==
    /\ At("loop") /\ ~mustFlush /\ drained /\ (c.halfClosed => c.closed)
    /\ LET s == [c EXCEPT !.worker = "idle", !.readPaused = FALSE]
       IN c' = s /\ e' = [e EXCEPT !.deadline = setDeadline(s, @)]
    /\ w' = [w EXCEPT !.pc = IF c.readPaused THEN "resumeRead" ELSE "none", !.out = <<>>]
    /\ tasks' = IF c.readPaused THEN tasks ELSE tasks - 1
    /\ UNCHANGED <<sc, p, cl>>

resumeRead ==
    /\ At("resumeRead")
    /\ e' = Resumed
    /\ w' = goes("none") /\ tasks' = tasks - 1
    /\ UNCHANGED <<sc, c, p, cl>>

\* Mutant of loopWaits: the deadline stays that of a request being answered.
loopWaitsUnbounded ==
    /\ At("loop") /\ ~mustFlush /\ ~drained /\ stalled
    /\ c' = [c EXCEPT !.worker = "waiting"]
    /\ w' = goes("none") /\ tasks' = tasks - 1
    /\ UNCHANGED <<sc, e, p, cl>>

loopWaits ==
    /\ At("loop") /\ ~mustFlush /\ ~drained /\ stalled
    /\ LET s == [c EXCEPT !.worker = "waiting"]
       IN c' = s /\ e' = [e EXCEPT !.deadline = setDeadline(s, @)]
    /\ w' = goes("none") /\ tasks' = tasks - 1
    /\ UNCHANGED <<sc, p, cl>>

pop(s) == [s EXCEPT !.queue = Tail(@), !.taken = IF Len(s.queue) = 1 THEN 0 ELSE @ + 1]

loopTakes ==
    /\ At("loop") /\ ~mustFlush /\ ~drained /\ ~stalled
    /\ c' = pop(c)
    /\ w' = [w EXCEPT !.pc = "handle", !.r = Head(c.queue), !.streamed = FALSE, !.failed = FALSE]
    /\ UNCHANGED <<sc, tasks, e, p, cl>>

\* The end of a connection: what is left goes out, then closeFromWorker.
lastFlush ==
    /\ At("lastFlush")
    /\ e' = Written(w.out)
    /\ w' = flushed("close")
    /\ UNCHANGED <<sc, c, tasks, p, cl>>

closeFromWorker ==
    /\ At("close")
    /\ c' = [c EXCEPT !.worker = "closing"]
    /\ w' = goes("closeNow")
    /\ UNCHANGED <<sc, tasks, e, p, cl>>

closeNow ==
    /\ At("closeNow")
    /\ e' = [e EXCEPT !.deadline = "idle", !.closing = TRUE]
    /\ w' = flushed("none") /\ tasks' = tasks - 1
    /\ UNCHANGED <<sc, c, p, cl>>

(***************************************************************************)
(* Handling a request, and the Handler's response                          *)
(***************************************************************************)

Is(kinds) == w.r.status = "message" /\ w.r.i # 0 /\ Kind(w.r.i) \in kinds
puts(part, pc) == [w EXCEPT !.out = Append(@, Unit(w.r.i, part)), !.pc = pc]

handleContinue ==
    /\ At("handle") /\ w.r.status = "continue"
    /\ w' = puts("continue", "loop")
    /\ UNCHANGED <<sc, c, tasks, e, p, cl>>

\* What cannot be framed, or parsed by readRequest, is answered with an error.
handleError ==
    /\ At("handle") /\ (w.r.status = "error" \/ Is({"invalid"}))
    /\ w' = puts("error", "lastFlush")
    /\ UNCHANGED <<sc, c, tasks, e, p, cl>>

\* The Handler may ask for the request's context, made on the first time.
madeContext == IF ~May("context") \/ c.ctx # "none" THEN c.ctx
               ELSE IF c.closed \/ c.halfClosed \/ c.protocol # 0 THEN "cancelled" ELSE "live"

handle ==
    /\ At("handle") /\ Is(Kinds \ {"invalid"})
    /\ c' = [c EXCEPT !.ctx = madeContext]
    /\ w' = [w EXCEPT !.pieces = 2,
                      !.pc = CASE Is({"upgrade", "websocket"}) -> "upgrade" [] Is({"panic"}) -> "panic" [] OTHER -> "write"]
    /\ UNCHANGED <<sc, tasks, e, p, cl>>

\* The Handler has returned: finish puts the rest of the response into the output, which
\* goes out when it has grown large, unless a write has failed.
last == IF w.streamed THEN "end" ELSE IF Is({"last"}) THEN "final" ELSE IF Is({"short"}) THEN "cut" ELSE "whole"
finish ==
    /\ At("finish")
    /\ LET out == Append(w.out, Unit(w.r.i, last))
           large == Len(out) >= MaxOutput
           keepAlive == ~w.failed /\ ~Is({"last", "short"}) /\ ~(large /\ Refused)
       IN /\ e' = IF ~w.failed /\ large THEN Written(out) ELSE e
          /\ w' = [w EXCEPT !.out = IF w.failed THEN @ ELSE IF large THEN <<>> ELSE out,
                            !.pc = IF keepAlive THEN "loop" ELSE "lastFlush"]
    /\ UNCHANGED <<sc, c, tasks, p, cl>>

\* Mutant of panics: the worker goes on with the next request.
panicsKeepsAlive ==
    /\ At("panic")
    /\ w' = goes("loop")
    /\ UNCHANGED <<sc, c, tasks, e, p, cl>>

\* serveHTTP, and serve for runtime.Goexit: what a Handler that does not return put into
\* the output is dropped unless it is streamed, and the connection closed.
panics ==
    /\ At("panic")
    /\ w' = goes("lastFlush")
    /\ UNCHANGED <<sc, c, tasks, e, p, cl>>

\* The Handler writes: a small body is kept for finish, one over maxBufferedBody goes out in
\* pieces, the header before the first, each once the client has taken enough of the rest.
Write ==
    /\ At("write")
    /\ w' = IF c.closed THEN [w EXCEPT !.failed = TRUE, !.pc = "finish"]
            ELSE IF ~Is({"large", "torn"}) THEN goes("finish")
            ELSE [w EXCEPT !.out = IF w.streamed THEN @ ELSE Append(@, Unit(w.r.i, "head")),
                           !.streamed = TRUE, !.pc = "waitWritable"]
    /\ UNCHANGED <<sc, c, tasks, e, p, cl>>

waitWritable ==
    /\ At("waitWritable")
    /\ w' = goes(IF Writable THEN "writev" ELSE "makeChan")
    /\ UNCHANGED <<sc, c, tasks, e, p, cl>>

\* Mutant of makeChan: Writable is not looked at again before the wait.
makeChanThenSelects ==
    /\ At("makeChan")
    /\ c' = [c EXCEPT !.writable = IF @ = "nil" THEN "empty" ELSE @]
    /\ w' = goes("select")
    /\ UNCHANGED <<sc, tasks, e, p, cl>>

makeChan ==
    /\ At("makeChan")
    /\ c' = [c EXCEPT !.writable = IF @ = "nil" THEN "empty" ELSE @]
    /\ w' = goes("check")
    /\ UNCHANGED <<sc, tasks, e, p, cl>>

check ==
    /\ At("check")
    /\ w' = goes(IF Writable \/ c.closed THEN "writev" ELSE "select")
    /\ UNCHANGED <<sc, c, tasks, e, p, cl>>

woken ==
    /\ At("select") /\ c.writable = "signal"
    /\ c' = [c EXCEPT !.writable = "empty"]
    /\ w' = goes("check")
    /\ UNCHANGED <<sc, tasks, e, p, cl>>

expires ==
    /\ At("select") /\ May("expire")
    /\ w' = [w EXCEPT !.failed = TRUE, !.pc = "finish"]
    /\ UNCHANGED <<sc, c, tasks, e, p, cl>>

writev ==
    /\ At("writev")
    /\ e' = Written(Append(w.out, Unit(w.r.i, "piece")))
    /\ w' = [w EXCEPT !.out = <<>>, !.pieces = @ - 1, !.failed = Refused,
                      !.pc = IF Refused THEN "finish" ELSE IF w.pieces > 1 THEN "write"
                             ELSE IF Is({"torn"}) THEN "panic" ELSE "finish"]
    /\ UNCHANGED <<sc, c, tasks, p, cl>>

(***************************************************************************)
(* Upgrade, and the hand-off to net/http                                   *)
(***************************************************************************)

\* The requests' context ends with the connection's time as HTTP.
endContext(s) == [s EXCEPT !.ctx = cancelled(s), !.writable = "nil"]

\* Mutant of upgrade: reading stays paused for the full queue, and serve resumes it later.
upgradeLeavesPause ==
    /\ At("upgrade")
    /\ w' = goes("newProtocol")
    /\ UNCHANGED <<sc, c, tasks, e, p, cl>>

upgrade ==
    /\ At("upgrade")
    /\ c' = [c EXCEPT !.readPaused = FALSE]
    /\ w' = goes(IF c.readPaused THEN "upgradeResumes" ELSE "newProtocol")
    /\ UNCHANGED <<sc, tasks, e, p, cl>>

upgradeResumes ==
    /\ At("upgradeResumes")
    /\ e' = Resumed
    /\ w' = goes("newProtocol")
    /\ UNCHANGED <<sc, c, tasks, p, cl>>

\* A protocol is made, other than package websocket's; it may pause reading for a while.
newProtocol ==
    /\ At("newProtocol") /\ Is({"upgrade"})
    /\ p' = [p EXCEPT !.paused = May("pause")]
    /\ e' = [e EXCEPT !.paused = @ \/ p'.paused]
    /\ w' = goes("switch")
    /\ UNCHANGED <<sc, c, tasks, cl>>

switchFails ==
    /\ At("switch") /\ (c.closed \/ c.halfClosed)
    /\ w' = [w EXCEPT !.failed = TRUE, !.pc = "upgraded"]
    /\ UNCHANGED <<sc, c, tasks, e, p, cl>>

early == c.queue # <<>>
switchEarly ==
    /\ At("switch") /\ ~c.closed /\ ~c.halfClosed /\ early
    /\ w' = [puts("error", "upgraded") EXCEPT !.failed = TRUE]
    /\ UNCHANGED <<sc, c, tasks, e, p, cl>>

switch ==
    /\ At("switch") /\ ~c.closed /\ ~c.halfClosed /\ ~early
    /\ c' = releaseQueue([c EXCEPT !.protocol = w.r.i])
    /\ e' = [e EXCEPT !.deadline = IF c.partial THEN "header" ELSE @]
    /\ w' = puts("switching", "write101")
    /\ UNCHANGED <<sc, tasks, p, cl>>

write101 ==
    /\ At("write101")
    /\ e' = Written(w.out)
    /\ w' = [flushed(IF Is({"websocket"}) /\ ~Refused THEN "OnOpen" ELSE "upgraded") EXCEPT !.failed = Refused]
    /\ UNCHANGED <<sc, c, tasks, p, cl>>

upgraded ==
    /\ At("upgraded")
    /\ c' = endContext(c)
    /\ w' = goes(IF w.failed THEN "lastFlush" ELSE "loop")
    /\ UNCHANGED <<sc, tasks, e, p, cl>>

\* Such a protocol resumes reading from a goroutine of its own.
protocolResumes ==
    /\ p.paused /\ c.protocol # 0 /\ ~e.closed
    /\ p' = [p EXCEPT !.paused = FALSE]
    /\ e' = Resumed
    /\ UNCHANGED <<sc, c, w, tasks, cl>>

handoffFlush ==
    /\ At("handle") /\ w.r.status = "handoff" /\ (w.out = <<>> \/ ~Refused)
    /\ e' = [Written(w.out) EXCEPT !.deadline = "idle"]
    /\ w' = flushed("detach")
    /\ UNCHANGED <<sc, c, tasks, p, cl>>

handoffRefused ==
    /\ At("handle") /\ w.r.status = "handoff" /\ w.out # <<>> /\ Refused
    /\ e' = [e EXCEPT !.closing = TRUE]
    /\ w' = flushed("lastFlush")
    /\ UNCHANGED <<sc, c, tasks, p, cl>>

\* Detach fails on a connection that is closed or closing.
detachFails ==
    /\ At("detach") /\ Refused
    /\ w' = goes("lastFlush")
    /\ UNCHANGED <<sc, c, tasks, e, p, cl>>

detach ==
    /\ At("detach") /\ ~Refused /\ e.task = "idle"
    /\ e' = Detached
    /\ cl' = [cl EXCEPT !.got = @ \o e.out]
    /\ c' = endContext(c)
    /\ p' = [p EXCEPT !.handed = w.r.i]
    /\ w' = goes("lastFlush")
    /\ UNCHANGED <<sc, tasks>>

detachExpires ==
    /\ At("detach") /\ ~Refused /\ e.task = "idle" /\ e.out # <<>> /\ May("expire")
    /\ e' = Detached
    /\ p' = [p EXCEPT !.handed = -1]
    /\ w' = goes("lastFlush")
    /\ UNCHANGED <<sc, c, tasks, cl>>

Callback == OnData \/ onDataLate \/ onDataBroken \/ onData \/ OnResume \/ halfClose \/ onWritable \/ onClose
Worker == \/ serve \/ loopFlush \/ flush \/ loopHalfClosed \/ loopIdle \/ resumeRead \/ loopWaits \/ loopTakes
          \/ lastFlush \/ closeFromWorker \/ closeNow
          \/ handleContinue \/ handleError \/ handle \/ finish \/ panics
          \/ Write \/ waitWritable \/ makeChan \/ check \/ woken \/ expires \/ writev
          \/ upgrade \/ upgradeResumes \/ newProtocol \/ switchFails \/ switchEarly \/ switch \/ write101 \/ upgraded
          \/ handoffFlush \/ handoffRefused \/ detachFails \/ detach \/ detachExpires
HttpStep == Callback \/ Worker

(***************************************************************************)
(* What a client, a Handler and a protocol rely on                         *)
(***************************************************************************)

\* The properties below are of the connections that this package serves.
Http == sc.layer = "http"

TypeOK ==
    /\ c.worker \in {"idle", "serving", "waiting", "closing"} /\ c.writable \in {"nil", "empty", "signal"}
    /\ c.context \in {"http", "protocol"} /\ c.ctx \in {"none", "live", "cancelled"}
    /\ c.protocol \in 0..Len(sc.requests) /\ c.taken \in 0..2 * Len(sc.requests)
    /\ e.deadline \in {"none", "header", "idle", "wsIdle", "message", "closing"} /\ e.rx \in Nat /\ e.data \in Nat /\ tasks \in Nat
    /\ e.task \in {"idle", "read", "ws", "ws.OnData", "ws.OnWritable", "ws.OnClose", "OnData", "onData", "OnResume", "OnHalfClose", "OnWritable", "OnClose", "done"}

\* A unit may follow another: the rest of a streamed response, the response after its 100
\* Continue, the next request's after a whole one that leaves the connection open, or the
\* frames of a WebSocket connection, up to its close frame.
Begins == {"continue", "whole", "final", "cut", "head", "error", "switching"}
FrameParts == {"reply", "pong", "push", "close"}
Follows(u, v) ==
    \/ v.i = u.i /\ \/ u.part = "continue" /\ v.part \in Begins \ {"continue"}
                    \/ u.part \in {"head", "piece"} /\ v.part = "piece"
                    \/ u.part = "piece" /\ v.part = "end"
    \/ v.i = u.i + 1 /\ u.part \in {"whole", "end"} /\ v.part \in Begins
    \/ u.part \in ({"switching"} \cup FrameParts) \ {"close"} /\ v.part \in FrameParts

\* What goes to the client (serve, send, finish, Upgrade): every request's response in the
\* order of the requests, none left out, doubled or put into another, a 100 Continue ahead
\* of its own response, and nothing after one that closes or switches the connection or
\* is cut short.
ResponsesAreInOrder ==
    Http =>
      /\ wire # <<>> => wire[1].i = 1 /\ wire[1].part \in Begins
      /\ \A j \in 1..Len(wire) - 1 : Follows(wire[j], wire[j + 1])

\* The client is on its way to waking whoever waits for the send buffer to go down.
WakeComes == ~Writable \/ e.task = "OnWritable"

\* No request is left unanswered (onData, serveQueue, onWritable, waitWritable): queued
\* requests have a worker, submitted or stopped until an OnWritable that will come; so does
\* a Handler waiting in Write, or it is woken; reading is paused only while a worker, the
\* protocol or a hand-off will resume it; a half-closed connection without a worker is
\* closing; and an idle connection has answered all the requests it has taken.
NoRequestStranded ==
    Http =>
      /\ Alive /\ c.queue # <<>> /\ tasks = 0 => c.worker = "waiting"
      /\ Alive /\ c.worker = "waiting" => WakeComes
      /\ At("select") /\ c.writable = "empty" => ~c.closed /\ (WakeComes \/ e.task = "OnClose")
      /\ Alive /\ e.paused => tasks > 0 \/ c.worker = "waiting" \/ p.paused
      /\ Alive /\ c.halfClosed /\ tasks = 0 => c.worker = "waiting"
      /\ Alive /\ tasks = 0 /\ c.worker = "idle" /\ e.task = "idle" /\ c.protocol = 0 /\ Consumed > 0
           => wire # <<>> /\ \/ Last(wire).i = Consumed \div 2 /\ Last(wire).part \in {"whole", "end"}
                             \/ Last(wire) = Unit(Consumed \div 2 + 1, "continue")

\* A connection changes hands cleanly (upgrade, route, handoff): the protocol gets exactly
\* what follows the upgrade request, its OnClose once, and keeps the pause it made itself
\* however full the queue was; net/http gets the connection from the start of the request
\* left to it, after the whole response of every earlier one.
TakeoverIsClean ==
    /\ p.first # -1 => p.first = 2 * c.protocol
    /\ p.closes = IF e.task \in {"ws.OnClose", "done"} /\ c.protocol # 0 THEN 1 ELSE 0
    /\ p.paused /\ c.protocol # 0 => e.paused
    /\ p.handed > 0 => /\ Consumed = 2 * (p.handed - 1)
                       /\ p.handed > 1 => Last(cl.got).i = p.handed - 1 /\ Last(cl.got).part \in {"whole", "end"}
                       /\ p.handed = 1 => cl.got = <<>>

\* The connection's state, its worker and its deadline agree at every step (setDeadline,
\* closeFromWorker): one worker at most, submitted exactly while it serves; no limit while
\* a request is answered, ReadHeaderTimeout while one arrives, IdleTimeout otherwise, and
\* on closing too; and no request's context outlives the client or the take-over, but for
\* a hand-off whose Detach gives up (detachExpires), where it does.
LifecycleIsExact ==
    Http =>
      /\ TypeOK
      /\ tasks \in {0, 1} /\ (c.worker = "serving" => tasks = 1) /\ (c.worker = "waiting" => tasks = 0)
      /\ ~e.closed /\ c.protocol = 0 /\ c.worker # "closing" /\ ~(tasks = 1 /\ (w.r.status = "handoff" \/ Is({"websocket"})))
           => e.deadline = deadlineOf(c)
      /\ ~e.closed /\ c.worker = "closing" /\ tasks = 0 => e.closing /\ e.deadline = "idle"
      /\ c.closed \/ c.halfClosed \/ (c.protocol # 0 /\ w.pc \notin {"write101", "OnOpen", "opened", "wsResume", "upgraded"}) \/ p.handed > 0
           => c.ctx # "live"

=============================================================================
