-------------------------------- MODULE Conn --------------------------------
(***************************************************************************)
(* One TCP connection of the engine (conn_unix.go, task_unix.go and the    *)
(* event path of loop_unix.go), on an edge-triggered epoll.                *)
(*                                                                         *)
(* Actors: the connection's task, one round at a time, split where another *)
(* actor can get in between; goroutines of the application calling the     *)
(* methods of Conn (a callback calling them is one of these interleavings, *)
(* the task then standing in the callback); the pollers that collect the   *)
(* socket's readiness and hand it over; the server closing its             *)
(* connections; and the kernel and the peer.  A critical section under     *)
(* conn.mu is one step, and so is an atomic access together with the       *)
(* thread-local code around it; two such accesses share a step where no    *)
(* step of another actor in between could make a difference.  Data is      *)
(* counted in bytes.                                                       *)
(***************************************************************************)
EXTENDS Integers, FiniteSets

CONSTANTS
    Goroutines,      \* goroutines of the application
    Pollers,         \* workers that poll and call handleEvent
    ReadBufferSize,  \* Options.ReadBufferSize
    MaxBacklog,      \* maxBacklog
    SndBuf,          \* the size of the socket's send buffer
    Scenarios        \* what the surroundings of an instance may do, and how often

AllInputs == {"fin", "reset", "write", "close", "pause", "deadline", "detach",
              "halfclose", "panic", "drain", "unwatchable", "stale"}

\* What may happen, and the bounds: the bytes the peer sends, the most bytes of one
\* Write, the calls the application makes and how many of them at once, the events
\* pollers hold at once, and the system calls a signal interrupts.
Bounds == [inputs : SUBSET AllInputs, in : Nat, write : Nat, calls : Nat, callers : Nat,
           pollers : Nat, eintr : Nat]

ASSUME ConnAssumption ==
    /\ ReadBufferSize \in Nat \ {0} /\ MaxBacklog \in Nat /\ SndBuf \in Nat \ {0}
    /\ \A s \in Scenarios : s \in Bounds

VARIABLES
    events, scheduled, \* the state word, see module TaskWord
    queued,            \* the task is in the executor's queue
    t,                 \* the task's round: where it is and its local variables
    c,                 \* the fields of conn
    k,                 \* the kernel's socket
    polled,            \* what each poller collected and has not handed over
    call,              \* the rest of the call each goroutine is making
    srv,               \* what the server knows: the fd table, draining, openConnsWg
    left,              \* the scenario, its bounds counted down
    seen               \* history: callbacks made and bytes written and sent

word == <<events, scheduled, queued>>
vars == <<events, scheduled, queued, t, c, k, polled, call, srv, left, seen>>

Events == {"Read", "Write", "Hup", "Open", "Close", "Expired", "Shutdown", "Resume"}
PollEvents == {"Read", "Write", "Hup"}
Reasons == {"nil", "EOF", "failed", "deadline", "serverClosed", "panic"}
Callbacks == {"OnOpen", "OnWritable", "OnResume", "OnData", "OnHalfClose",
              "OnClosingEOF", "OnClosing", "OnClose"}
Steps == {"none", "watch", "flush", "read", "closeOnEOF", "reason", "requestClose", "close",
          "remove", "closeFd", "finish"}
CallSteps == {"none", "wrote", "closeRequested", "resumed", "tookOver", "taken", "deleted", "removed"}

TypeOK ==
    /\ events \subseteq Events /\ scheduled \in BOOLEAN /\ queued \in BOOLEAN
    /\ t \in [pc : Steps \cup Callbacks, ev : SUBSET Events, drained : BOOLEAN,
              err : Reasons]
    /\ c \in [readPaused : BOOLEAN, backlogged : BOOLEAN, closing : BOOLEAN, closed : BOOLEAN,
              peerClosed : BOOLEAN, readClosed : BOOLEAN, in : Nat, out : Nat,
              closeErr : Reasons, deadline : {"none", "set", "due"}]
    /\ k \in [open : BOOLEAN, rx : Nat, fin : BOOLEAN, reset : BOOLEAN, space : 0..SndBuf,
              nospace : BOOLEAN, watched : BOOLEAN, armed : BOOLEAN]
    /\ polled \in [Pollers -> SUBSET PollEvents]
    /\ call \in [Goroutines -> CallSteps]
    /\ srv \in [inTable : BOOLEAN, phase : {"serving", "draining", "notified"}, wg : Int]
    /\ left \in Bounds
    /\ seen \in [opened : 0..1, closes : Nat, reason : Reasons, owed : BOOLEAN,
                 unsent : Nat]

\* accept has just returned the connection and notified evOpen: its task is
\* queued, it is counted in openConnsWg, and nothing watches it.  An event for
\* the previous connection with this fd may still be on its way.
Init ==
    /\ events = {"Open"} /\ scheduled = TRUE /\ queued = TRUE
    /\ t = [pc |-> "none", ev |-> {}, drained |-> FALSE, err |-> "nil"]
    /\ c = [readPaused |-> FALSE, backlogged |-> FALSE, closing |-> FALSE, closed |-> FALSE,
            peerClosed |-> FALSE, readClosed |-> FALSE, in |-> 0, out |-> 0,
            closeErr |-> "nil", deadline |-> "none"]
    /\ k = [open |-> TRUE, rx |-> 0, fin |-> FALSE, reset |-> FALSE, space |-> SndBuf,
            nospace |-> FALSE, watched |-> FALSE, armed |-> FALSE]
    /\ left \in Scenarios
    /\ polled \in [Pollers -> SUBSET PollEvents]
    /\ Cardinality({p \in Pollers : polled[p] # {}}) <= (IF "stale" \in left.inputs THEN 1 ELSE 0)
    /\ call = [g \in Goroutines |-> "none"]
    /\ srv = [inTable |-> FALSE, phase |-> "serving", wg |-> 1]
    /\ seen = [opened |-> 0, closes |-> 0, reason |-> "nil", owed |-> FALSE,
               unsent |-> 0]

(***************************************************************************)
(* The state word.  Setting the bit and submitting the task are one step   *)
(* here; module TaskWord takes them apart.                                 *)
(***************************************************************************)

notify(evs) == /\ events' = events \cup evs
               /\ scheduled' = TRUE
               /\ queued' = (queued \/ ~scheduled)

\* The round goes on at pc, with the events the rest of it looks at.
to(pc) == [t EXCEPT !.pc = pc,
                    !.ev = @ \cap CASE pc \in {"watch", "OnOpen", "flush"} -> Events
                                    [] pc \in {"OnWritable", "OnResume", "read"} -> Events \ {"Open", "Write", "Hup"}
                                    [] OTHER -> {"Shutdown", "Expired", "Close"}]

\* abandon closes a connection that could not be watched, before OnOpen.
abandoned == /\ c' = [c EXCEPT !.closed = TRUE]
             /\ k' = [k EXCEPT !.open = FALSE]
             /\ srv' = [srv EXCEPT !.inTable = FALSE, !.wg = @ - 1]

\* run takes the pending events.  handle first notes evHup and, for evOpen, puts
\* the connection in the table (watch), or abandons one the table cannot hold.
run ==
    /\ queued /\ t.pc = "none"
    /\ events' = {} /\ scheduled' = TRUE /\ queued' = FALSE
    /\ LET round(pc) == [pc |-> pc, ev |-> events, drained |-> FALSE, err |-> "nil"] IN
       \/ /\ "Open" \notin events
          /\ t' = round("flush")
          /\ c' = [c EXCEPT !.peerClosed = @ \/ "Hup" \in events]
          /\ UNCHANGED <<k, srv>>
       \/ /\ "Open" \in events
          /\ t' = round("watch")
          /\ c' = [c EXCEPT !.peerClosed = @ \/ "Hup" \in events]
          /\ srv' = [srv EXCEPT !.inTable = TRUE]
          /\ UNCHANGED k
       \/ /\ "Open" \in events /\ "unwatchable" \in left.inputs
          /\ t' = round("finish")
          /\ abandoned
    /\ UNCHANGED <<polled, call, left, seen>>

\* Mutant of keepsTask: a closed connection's task is released.
releasesAlways == FALSE

keepsTask == c.closed

\* The end of run: a closed connection keeps its task, any other releases it.
release ==
    /\ t.pc = "finish"
    /\ t' = [t EXCEPT !.pc = "none", !.ev = {}, !.drained = FALSE, !.err = "nil"]
    /\ scheduled' = (keepsTask \/ events # {})
    /\ queued' = (~keepsTask /\ events # {})
    /\ UNCHANGED <<events, c, k, polled, call, srv, left, seen>>

(***************************************************************************)
(* handle: opening                                                         *)
(***************************************************************************)

\* Mutant of draining: watch leaves the server's shutdown to Serve.
neverDraining == FALSE

draining == srv.phase # "serving"

\* watch registers the fd: whatever is ready already, and the send buffer is,
\* makes an event at once.  A connection opened once the server is draining
\* closes itself.  Then OnOpen is called.
watch ==
    /\ t.pc = "watch"
    /\ \/ /\ k' = [k EXCEPT !.watched = TRUE, !.armed = TRUE]
          /\ IF draining THEN notify({"Shutdown"}) ELSE UNCHANGED word
          /\ t' = to("OnOpen")
          /\ seen' = [seen EXCEPT !.opened = 1]
          /\ UNCHANGED <<c, srv>>
       \/ /\ "unwatchable" \in left.inputs
          /\ abandoned
          /\ t' = to("finish")
          /\ UNCHANGED <<word, seen>>
    /\ UNCHANGED <<polled, call, left>>

(***************************************************************************)
(* handle: flushing                                                        *)
(***************************************************************************)
Writable == ~c.backlogged \/ c.out <= MaxBacklog
Min(a, b) == IF a < b THEN a ELSE b

\* What sysWrite of want bytes leaves of the socket when it takes n of them: a
\* write the buffer cuts short makes the kernel report when there is space again.
afterWrite(n, want) == [k EXCEPT !.space = @ - n, !.nospace = @ \/ n < want]

\* Mutant of closesNow: EOF closes at once as well.
closesNowOnEOF(err) == err # "nil"

closesNow(err) == err \notin {"nil", "EOF"}

\* Mutant of closeRequestedFor: the last reason is kept.
keepsLastReason(err) == [c EXCEPT !.closing = TRUE, !.closeErr = err]

\* The critical section of requestClose: the first reason that closes at once
\* is the one kept.
closeRequestedFor(err) ==
    [c EXCEPT !.closing = TRUE,
              !.closeErr = IF err # "nil" /\ ~closesNow(@) THEN err ELSE @]

\* The send buffer after n bytes of it are sent.
flushed(n) == [c EXCEPT !.out = @ - n, !.backlogged = @ /\ n < c.out]

\* The backlog comes back down to MaxBacklog from over it as n bytes are sent.
comesDown(n) == n > 0 /\ c.out > MaxBacklog /\ c.out - n <= MaxBacklog

\* Where handle goes on after flushing: OnResume once reading has resumed, then
\* reading.
resumed == IF "Resume" \in t.ev /\ ~c.readPaused THEN "OnResume" ELSE "read"

\* A write of the backlog, once per writable or hangup event: it is interrupted,
\* fails, or sends what fits and goes on to OnWritable, and to reading, when that
\* brings the backlog back down.
flush ==
    /\ t.pc = "flush"
    /\ IF t.ev \cap {"Write", "Hup"} = {} \/ ~c.backlogged
       THEN /\ t' = to(resumed)
            /\ UNCHANGED <<word, c, k, left, seen>>
       ELSE \/ /\ left.eintr > 0
               /\ left' = [left EXCEPT !.eintr = @ - 1]
               /\ notify({"Write"})
               /\ t' = to(resumed)
               /\ UNCHANGED <<c, k, seen>>
            \/ /\ k.reset
               /\ c' = closeRequestedFor("failed")
               /\ notify({"Close"})
               /\ t' = to(resumed)
               /\ UNCHANGED <<k, left, seen>>
            \/ /\ ~k.reset
               /\ LET n == Min(k.space, c.out)
                      writable == comesDown(n)
                  IN /\ k' = afterWrite(n, c.out)
                     /\ c' = flushed(n)
                     /\ t' = [to(IF writable THEN "OnWritable" ELSE resumed) EXCEPT
                                    !.drained = (n = c.out),
                                    !.ev = IF writable THEN @ \cup {"Read"} ELSE @]
                     /\ seen' = [seen EXCEPT !.unsent = @ - n, !.owed = @ /\ ~writable]
               /\ UNCHANGED <<word, left>>
    /\ UNCHANGED <<polled, call, srv>>

(***************************************************************************)
(* handle: reading                                                         *)
(***************************************************************************)

\* Inbound data kept from earlier rounds is joined in front of what is read when
\* it takes up at most half of the buffer.
pending == IF c.in <= ReadBufferSize \div 2 THEN c.in ELSE 0

\* Mutants of readsAgain: a full buffer alone; a closed peer alone.
readsAgainFull(n) == pending + n = ReadBufferSize
readsAgainClosed(n) == c.peerClosed

\* The socket may hold more than the n bytes read, and no event will say so.
readsAgain(n) == pending + n = ReadBufferSize \/ c.peerClosed

mayRead == "Read" \in t.ev /\ ~c.readClosed /\ ~c.readPaused /\ Writable

\* One sysRead, if the connection may be read: data, for OnData unless a close has
\* been requested (and evRead again when the buffer is full or the peer has
\* closed); EOF, for OnHalfClose or OnClosing unless a close has been requested;
\* an error; nothing; or an interruption.
read ==
    /\ t.pc = "read"
    /\ \/ /\ ~mayRead
          /\ t' = to("reason")
          /\ UNCHANGED <<word, c, k, left>>
       \/ /\ mayRead /\ k.rx > 0
          /\ LET n == Min(k.rx, ReadBufferSize - pending) IN
             /\ k' = [k EXCEPT !.rx = @ - n]
             /\ IF readsAgain(n) THEN notify({"Read"}) ELSE UNCHANGED word
             /\ t' = to(IF c.closing THEN "reason" ELSE "OnData")
             /\ c' = [c EXCEPT !.in = IF c.closing THEN @ ELSE @ + n]
          /\ UNCHANGED left
       \/ /\ mayRead /\ k.rx = 0 /\ k.fin /\ ~k.reset
          /\ t' = to(IF c.closing THEN "closeOnEOF"
                     ELSE IF "halfclose" \in left.inputs THEN "OnHalfClose"
                     ELSE "OnClosingEOF")
          /\ UNCHANGED <<word, c, k, left>>
       \/ /\ mayRead /\ k.rx = 0 /\ k.reset
          /\ c' = closeRequestedFor("failed")
          /\ notify({"Close"})
          /\ t' = to("reason")
          /\ UNCHANGED <<k, left>>
       \/ /\ mayRead /\ k.rx = 0 /\ ~k.fin /\ ~k.reset
          /\ t' = to("reason")
          /\ c' = [c EXCEPT !.peerClosed = FALSE]
          /\ UNCHANGED <<word, k, left>>
       \/ /\ mayRead /\ left.eintr > 0
          /\ left' = [left EXCEPT !.eintr = @ - 1]
          /\ notify({"Read"})
          /\ t' = to("reason")
          /\ UNCHANGED <<c, k>>
    /\ UNCHANGED <<polled, call, srv, seen>>

requestCloseOnEOF ==
    /\ t.pc = "closeOnEOF"
    /\ c' = IF c.closing THEN c ELSE [c EXCEPT !.closing = TRUE, !.closeErr = "EOF"]
    /\ notify({"Close"})
    /\ t' = to("reason")
    /\ UNCHANGED <<k, polled, call, srv, left, seen>>

(***************************************************************************)
(* handle: closing                                                         *)
(***************************************************************************)

\* The send buffer drained, or a close was requested before this round.
checksClose == t.drained \/ "Close" \in t.ev

\* The end of handle, with the connection as cc.
closeIfRequested(cc) ==
    t' = IF /\ checksClose
            /\ cc.closing /\ (closesNow(cc.closeErr) \/ cc.out = 0)
         THEN [t EXCEPT !.pc = "close", !.err = cc.closeErr]
         ELSE [t EXCEPT !.pc = "finish"]

\* The server is closing, or the deadline has expired and still has when the
\* task looks again: onClosing, unless a close has been requested already, then
\* requestClose.
closeReason ==
    /\ t.pc = "reason"
    /\ LET expired == "Expired" \in t.ev /\ c.deadline = "due"
           next == IF c.closing THEN "requestClose" ELSE "OnClosing"
       IN \/ /\ "Shutdown" \in t.ev
             /\ t' = [t EXCEPT !.err = "serverClosed", !.pc = next]
          \/ /\ "Shutdown" \notin t.ev /\ expired
             /\ t' = [t EXCEPT !.err = "deadline", !.pc = next]
          \/ /\ "Shutdown" \notin t.ev /\ ~expired
             /\ closeIfRequested(c)
    /\ UNCHANGED <<word, c, k, polled, call, srv, left, seen>>

requestClose ==
    /\ t.pc = "requestClose"
    /\ c' = closeRequestedFor(t.err)
    /\ notify({"Close"})
    /\ closeIfRequested(c')
    /\ UNCHANGED <<k, polled, call, srv, left, seen>>

\* close: closed is set under mu before anything happens to the fd.
close ==
    /\ t.pc = "close"
    /\ c' = [c EXCEPT !.closed = TRUE, !.out = 0, !.backlogged = FALSE, !.in = 0]
    /\ t' = to("remove")
    /\ UNCHANGED <<word, k, polled, call, srv, left, seen>>

\* Mutant of closeRemove: the fd is closed before the table entry goes.
closeRemoveLate ==
    /\ t.pc = "remove"
    /\ k' = [k EXCEPT !.open = FALSE, !.watched = FALSE, !.armed = FALSE]
    /\ t' = to("closeFd")
    /\ UNCHANGED <<word, c, polled, call, srv, left, seen>>

\* discardInbound reads once more, unless EOF was read; then the table entry goes
\* before the fd, which may be reused at once.
closeRemove ==
    /\ t.pc = "remove"
    /\ k' = IF t.err = "EOF" THEN k
            ELSE [k EXCEPT !.rx = IF @ > ReadBufferSize THEN @ - ReadBufferSize ELSE 0]
    /\ srv' = [srv EXCEPT !.inTable = FALSE]
    /\ t' = to("closeFd")
    /\ UNCHANGED <<word, c, polled, call, left, seen>>

closeFd ==
    /\ t.pc = "closeFd"
    /\ k' = [k EXCEPT !.open = FALSE, !.watched = FALSE, !.armed = FALSE]
    /\ t' = to("OnClose")
    /\ seen' = [seen EXCEPT !.closes = @ + 1, !.reason = t.err]
    /\ UNCHANGED <<word, c, polled, call, srv, left>>

(***************************************************************************)
(* Callbacks return, or panic                                              *)
(***************************************************************************)

\* Where the task goes on; OnData leaves some of its data unconsumed.
callbackReturns ==
    \/ /\ t.pc \in {"OnOpen", "OnWritable", "OnResume", "OnClosingEOF", "OnClosing"}
       /\ t' = to(CASE t.pc = "OnOpen" -> "flush"
                    [] t.pc = "OnWritable" -> resumed
                    [] t.pc = "OnResume" -> "read"
                    [] t.pc = "OnClosingEOF" -> "closeOnEOF"
                    [] t.pc = "OnClosing" -> "requestClose")
       /\ UNCHANGED <<word, c, k, polled, call, srv, left, seen>>
    \/ /\ t.pc = "OnData"
       /\ t' = to("reason")
       /\ \E rest \in 0..c.in : c' = [c EXCEPT !.in = rest]
       /\ UNCHANGED <<word, k, polled, call, srv, left, seen>>
    \/ /\ t.pc = "OnHalfClose"
       /\ \/ /\ t' = to("reason")
             /\ c' = [c EXCEPT !.readClosed = TRUE]
          \/ /\ t' = to(IF c.closing THEN "closeOnEOF" ELSE "OnClosingEOF")
             /\ UNCHANGED c
       /\ UNCHANGED <<word, k, polled, call, srv, left, seen>>

\* close's deferred openConnsWg.Done, whether OnClose returns or panics.
onCloseReturns ==
    /\ t.pc = "OnClose"
    /\ srv' = [srv EXCEPT !.wg = @ - 1]
    /\ t' = to("finish")
    /\ UNCHANGED <<word, c, k, polled, call, left, seen>>

\* run's deferred close(ErrHandlerPanic).
callbackPanics ==
    /\ "panic" \in left.inputs
    /\ t.pc \in Callbacks \ {"OnClose"}
    /\ t' = [t EXCEPT !.pc = "close", !.err = "panic"]
    /\ UNCHANGED <<word, c, k, polled, call, srv, left, seen>>

(***************************************************************************)
(* The methods of Conn, called from any goroutine once OnOpen has begun    *)
(***************************************************************************)
MayCall(g, input) ==
    /\ call[g] = "none" /\ seen.opened = 1 /\ input \in left.inputs /\ left.calls > 0
    /\ Cardinality({h \in Goroutines : call[h] # "none"}) < left.callers

called(eintr) == left' = [left EXCEPT !.calls = @ - 1, !.eintr = @ - eintr]

\* The outcomes of Write's own sysWrite, made when nothing is backed up: the bytes
\* taken, the socket and the interruptions used.  An error is returned and changes
\* nothing.
directWrite(want) ==
    IF c.out > 0 THEN {[n |-> 0, k |-> k, eintr |-> 0]}
    ELSE {[n |-> 0, k |-> k, eintr |-> 1] : i \in 1..left.eintr}
         \cup {[n |-> n, k |-> afterWrite(n, want), eintr |-> 0] :
                   n \in IF k.reset THEN {} ELSE {Min(k.space, want)}}

\* Write's critical section: refused once closing, direct to the socket when
\* nothing is backed up, and the rest into the send buffer.
Write(g, want) ==
    /\ MayCall(g, "write")
    /\ ~c.closed /\ ~c.closing
    /\ \E w \in directWrite(want) :
          /\ k' = w.k
          /\ called(w.eintr)
          /\ c' = [c EXCEPT !.out = @ + want - w.n, !.backlogged = @ \/ w.n < want]
          /\ call' = [call EXCEPT ![g] = IF w.n < want THEN "wrote" ELSE "none"]
          /\ seen' = [seen EXCEPT !.unsent = @ + want - w.n, !.owed = @ \/ c'.out > MaxBacklog]
    /\ UNCHANGED <<word, t, polled, srv>>

Close(g) ==
    /\ MayCall(g, "close") /\ called(0)
    /\ c' = closeRequestedFor("nil")
    /\ call' = [call EXCEPT ![g] = "closeRequested"]
    /\ UNCHANGED <<word, t, k, polled, srv, seen>>

PauseRead(g) ==
    /\ MayCall(g, "pause") /\ called(0)
    /\ c' = [c EXCEPT !.readPaused = TRUE]
    /\ UNCHANGED <<word, t, k, polled, call, srv, seen>>

ResumeRead(g) ==
    /\ MayCall(g, "pause") /\ called(0)
    /\ c' = [c EXCEPT !.readPaused = FALSE]
    /\ call' = [call EXCEPT ![g] = "resumed"]
    /\ UNCHANGED <<word, t, k, polled, srv, seen>>

SetDeadline(g) ==
    /\ MayCall(g, "deadline") /\ called(0)
    /\ \E d \in {"none", "set"} : c' = [c EXCEPT !.deadline = d]
    /\ UNCHANGED <<word, t, k, polled, call, srv, seen>>

notified(step) == CASE step = "wrote" -> {"Write"}
                    [] step = "closeRequested" -> {"Close"}
                    [] step = "resumed" -> {"Read", "Resume"}

\* The notification that ends Write, Close and ResumeRead, outside mu.
callNotify(g) ==
    /\ call[g] \in {"wrote", "closeRequested", "resumed"}
    /\ notify(notified(call[g]))
    /\ call' = [call EXCEPT ![g] = "none"]
    /\ UNCHANGED <<t, c, k, polled, srv, left, seen>>

\* Mutant of takeOver: it looks at the events alone.
takeOverScheduled == events = {}

takeOver == events = {} /\ ~scheduled

\* Detach, with reading paused as it requires: it takes the task over while no
\* task is queued or running...
Detach(g) ==
    /\ MayCall(g, "detach") /\ called(0)
    /\ c.readPaused
    /\ takeOver
    /\ scheduled' = TRUE
    /\ call' = [call EXCEPT ![g] = "tookOver"]
    /\ UNCHANGED <<events, queued, t, c, k, polled, srv, seen>>

\* ... gives it back when a close has been requested, or takes the connection...
detachTake(g) ==
    /\ call[g] = "tookOver"
    /\ IF c.closing
       THEN /\ call' = [call EXCEPT ![g] = "none"]
            /\ scheduled' = (events # {}) /\ queued' = (events # {})
            /\ UNCHANGED c
       ELSE /\ call' = [call EXCEPT ![g] = "taken"]
            /\ c' = [c EXCEPT !.closed = TRUE, !.out = 0, !.backlogged = FALSE, !.in = 0]
            /\ UNCHANGED <<scheduled, queued>>
    /\ UNCHANGED <<events, t, k, polled, srv, left, seen>>

\* ... and takes it out of the poller, then out of the table and of openConnsWg,
\* and closes the engine's descriptor of the socket.
detachDelete(g) ==
    /\ call[g] = "taken"
    /\ k' = [k EXCEPT !.watched = FALSE, !.armed = FALSE]
    /\ call' = [call EXCEPT ![g] = "deleted"]
    /\ UNCHANGED <<word, t, c, polled, srv, left, seen>>

detachRemove(g) ==
    /\ call[g] = "deleted"
    /\ srv' = [srv EXCEPT !.inTable = FALSE, !.wg = @ - 1]
    /\ call' = [call EXCEPT ![g] = "removed"]
    /\ UNCHANGED <<word, t, c, k, polled, left, seen>>

detachClose(g) ==
    /\ call[g] = "removed"
    /\ k' = [k EXCEPT !.open = FALSE]
    /\ call' = [call EXCEPT ![g] = "none"]
    /\ UNCHANGED <<word, t, c, polled, srv, left, seen>>

(***************************************************************************)
(* Pollers, the server, the kernel and the peer                            *)
(***************************************************************************)

\* What epoll reports of the socket, as poll.convert translates it.
readiness == {e \in PollEvents : \/ e = "Read" /\ (k.rx > 0 \/ k.fin \/ k.reset)
                                 \/ e = "Write" /\ (k.space > 0 \/ k.reset)
                                 \/ e = "Hup" /\ (k.fin \/ k.reset)}

\* A poller collects the event of an edge, one per edge.
Poll(p) ==
    /\ k.armed /\ polled[p] = {}
    /\ Cardinality({q \in Pollers : polled[q] # {}}) < left.pollers
    /\ k' = [k EXCEPT !.armed = FALSE]
    /\ polled' = [polled EXCEPT ![p] = readiness]
    /\ UNCHANGED <<word, t, c, call, srv, left, seen>>

\* The poller hands the event over to the connection it finds in the table; one
\* that only says writable matters to a backlog alone.
handleEvent(p) ==
    /\ polled[p] # {}
    /\ IF srv.inTable /\ (polled[p] # {"Write"} \/ c.backlogged)
       THEN notify(polled[p]) ELSE UNCHANGED word
    /\ polled' = [polled EXCEPT ![p] = {}]
    /\ UNCHANGED <<t, c, k, call, srv, left, seen>>

\* checkDeadlines finds the deadline passed (module Deadlines has the scan).
checkDeadlines ==
    /\ srv.inTable /\ c.deadline = "due" /\ "Expired" \notin events
    /\ notify({"Expired"})
    /\ UNCHANGED <<t, c, k, polled, call, srv, left, seen>>

deadlinePasses ==
    /\ c.deadline = "set"
    /\ c' = [c EXCEPT !.deadline = "due"]
    /\ UNCHANGED <<word, t, k, polled, call, srv, left, seen>>

\* Serve sets draining, then notifies every connection it finds in the table.
serveDraining ==
    /\ "drain" \in left.inputs /\ srv.phase = "serving"
    /\ srv' = [srv EXCEPT !.phase = "draining"]
    /\ UNCHANGED <<word, t, c, k, polled, call, left, seen>>

serveShutdown ==
    /\ srv.phase = "draining"
    /\ srv' = [srv EXCEPT !.phase = "notified"]
    /\ IF srv.inTable THEN notify({"Shutdown"}) ELSE UNCHANGED word
    /\ UNCHANGED <<t, c, k, polled, call, left, seen>>

peerSends ==
    /\ k.open /\ left.in > 0 /\ ~k.fin /\ ~k.reset
    /\ left' = [left EXCEPT !.in = @ - 1]
    /\ k' = [k EXCEPT !.rx = @ + 1, !.armed = @ \/ k.watched]
    /\ UNCHANGED <<word, t, c, polled, call, srv, seen>>

peerCloses ==
    /\ k.open /\ ~k.fin /\ ~k.reset
    /\ \/ "fin" \in left.inputs /\ k' = [k EXCEPT !.fin = TRUE, !.armed = @ \/ k.watched]
       \/ "reset" \in left.inputs /\ k' = [k EXCEPT !.reset = TRUE, !.armed = @ \/ k.watched]
    /\ UNCHANGED <<word, t, c, polled, call, srv, left, seen>>

\* The peer takes a byte; the kernel reports the space to a writer it cut short.
peerTakes ==
    /\ k.open /\ k.space < SndBuf
    /\ k' = [k EXCEPT !.space = @ + 1, !.nospace = FALSE,
                      !.armed = @ \/ (k.watched /\ k.nospace)]
    /\ UNCHANGED <<word, t, c, polled, call, srv, left, seen>>

taskStep == \/ run \/ watch \/ flush \/ read \/ requestCloseOnEOF \/ closeReason
            \/ requestClose \/ close \/ closeRemove \/ closeFd
            \/ callbackReturns \/ onCloseReturns \/ release

callStep(g) == \/ callNotify(g) \/ detachTake(g) \/ detachDelete(g)
               \/ detachRemove(g) \/ detachClose(g)

Application(g) == \/ \E n \in 1..left.write : Write(g, n)
                  \/ Close(g) \/ PauseRead(g) \/ ResumeRead(g) \/ SetDeadline(g) \/ Detach(g)

Next == \/ taskStep \/ callbackPanics
        \/ \E g \in Goroutines : Application(g) \/ callStep(g)
        \/ \E p \in Pollers : Poll(p) \/ handleEvent(p)
        \/ checkDeadlines \/ deadlinePasses \/ serveDraining \/ serveShutdown
        \/ peerSends \/ peerCloses \/ peerTakes

Spec == Init /\ [][Next]_vars

\* The executor runs the task and callbacks return; goroutines finish their
\* calls; the workers poll and hand over; the ticker scans the deadlines.  The
\* application, the peer and a Close of the server are not obliged to anything.
EngineFairness ==
    /\ WF_vars(taskStep)
    /\ \A g \in Goroutines : WF_vars(callStep(g))
    /\ \A p \in Pollers : WF_vars(handleEvent(p))
    /\ WF_vars(\E p \in Pollers : Poll(p))
    /\ WF_vars(checkDeadlines)
    /\ WF_vars(serveShutdown)

FairSpec == Spec /\ EngineFairness

(***************************************************************************)
(* Properties                                                              *)
(***************************************************************************)

\* The reasons that let the data already written reach the peer.
Graceful == {"nil", "EOF"}

\* Nothing is on its way to the connection: its task is idle, no readiness is
\* waiting in the kernel or with a poller, and no call is unfinished.
Quiet == /\ ~scheduled
         /\ ~k.armed
         /\ \A p \in Pollers : polled[p] = {}
         /\ \A g \in Goroutines : call[g] = "none"

\* Edge-triggered readiness is never forgotten by handle and read: a quiet
\* connection that may be read has nothing to read, and a close is requested for
\* any EOF or error, however pauses, backlog, full buffers, stale hangups and interruptions fell together.
NoInputStranded ==
    Quiet /\ ~c.readPaused /\ ~c.readClosed /\ c.out <= MaxBacklog
        => k.rx = 0 /\ (k.fin \/ k.reset => c.closing)

\* A backlog is never forgotten by Write and flush: a quiet connection with data
\* in the send buffer waits for the kernel to report space, which it will.
NoOutputStranded == Quiet /\ c.out > 0 => k.nospace /\ c.backlogged

\* A close request is never forgotten by handle: a quiet connection with a close
\* requested is one that still has data to send, for a reason that sends it.
NoCloseStranded == Quiet /\ c.closing => c.out > 0 /\ c.closeErr \in Graceful

\* What conn.mu promises (comment on conn): whoever finds closed false may use the
\* fd, and a connection in the table has its fd, so an fd that may be reused is
\* never used by the engine; discardInbound, the read of a closed connection,
\* comes before the close.
FdIsValid ==
    ~c.closed \/ srv.inTable \/ t.pc \in {"remove", "closeFd"} => k.open

\* Handler's order of callbacks: OnOpen comes first, OnClose at most once, and no
\* callback runs after OnClose or after Detach.
CallbackOrder ==
    /\ seen.closes <= 1
    /\ t.pc \in Callbacks => seen.opened = 1 /\ (seen.closes = 1 <=> t.pc = "OnClose")
    /\ t.pc # "none" => \A g \in Goroutines : call[g] \notin {"tookOver", "taken", "deleted", "removed"}

\* Serve waits on openConnsWg for exactly this: the connection is counted once,
\* and once it is not, its callbacks are over and its fd is closed or detached.
CountedUntilDone ==
    /\ srv.wg \in {0, 1}
    /\ srv.wg = 0 => /\ c.closed /\ ~srv.inTable
                     /\ t.pc \in {"none", "finish"}

\* Conn.Close and the comment on requestCloseOnEOF: a connection that ends for a
\* local close or the peer's EOF has handed every byte accepted by Write to the
\* socket.
GracefulCloseSendsAll ==
    seen.closes = 1 /\ seen.reason \in Graceful => seen.unsent = 0

\* Conn.Writable: whoever saw it false hears OnWritable as the buffer comes down,
\* unless the connection closes first.
WritableIsReported == seen.owed => c.out > MaxBacklog \/ c.closed

\* The edge-triggered engine forgets nothing: no input, no backlog, no requested
\* close and no OnWritable is left to an event that will not come.
NothingStranded ==
    NoInputStranded /\ NoOutputStranded /\ NoCloseStranded /\ WritableIsReported

\* The fd and the count in openConnsWg are held exactly as long as somebody may
\* still use the connection (conn.mu, close and Detach).
ResourcesAreHeld == TypeOK /\ FdIsValid /\ CountedUntilDone

\* OnClose reports what the close was requested for, except after a panic.
ReasonIsReported ==
    seen.closes = 1 => seen.reason \in {c.closeErr, "panic"}

\* The callbacks come in Handler's order, and OnClose with the reason.
ClosedInOrder == CallbackOrder /\ ReasonIsReported

\* The task is the serial task of module SerialTask.
taskPhase == IF c.closed /\ t.pc = "none" THEN "gone"
             ELSE IF t.pc # "none" \/ \E g \in Goroutines : call[g] = "tookOver" THEN "running"
             ELSE IF scheduled THEN "queued" ELSE "idle"

Task == INSTANCE SerialTask WITH pending <- events, phase <- taskPhase
TaskInit == events = {"Open"} /\ taskPhase = "queued"
RoundsAreSerial == TaskInit /\ [][Task!Next]_(Task!vars)

\* Liveness.  The server's shutdown closes every connection, whatever the peer and
\* the application do.
ShutdownCloses == srv.phase = "notified" ~> srv.wg = 0

\* A requested close (requestClose) ends the connection if the peer goes on taking
\* what it is sent.
CloseCompletes == WF_vars(peerTakes) => (c.closing ~> c.closed)

\* Closing ends (Server.Close, Conn.Close).
ClosingEnds == ShutdownCloses /\ CloseCompletes

\* Data that arrived is read, unless reading is paused or over, or the peer does
\* not take the backlog.
InputIsRead == k.rx > 0 ~> (k.rx = 0 \/ c.readPaused \/ c.closed \/ c.out > MaxBacklog)

\* The connection's task gets on with what it is notified of (run, handle).
ConnGoesOn == ClosingEnds /\ InputIsRead

=============================================================================
