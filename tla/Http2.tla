------------------------------- MODULE Http2 -------------------------------
(***************************************************************************)
(* One HTTP/2 server connection of package http2: the frames of a client   *)
(* are handled inside fnet's serial callbacks (conn.go), every request     *)
(* runs its http.Handler on the executor (stream.go, response.go,          *)
(* write.go), and both sides meet in two locks.  mu guards the flow        *)
(* control windows and the streams; an action that takes mu once is one    *)
(* step.  writeMu is held from the check that a stream may still be        *)
(* written to until the frames are written, which is two steps.            *)
(*                                                                         *)
(* The client obeys the protocol: it keeps the windows it was granted and  *)
(* sends no frame on a stream it has ended or knows to be reset.  Frames   *)
(* of the client wait in wire; frames of the server reach it when they are *)
(* written, since a later arrival only leaves it less credit.  A scenario  *)
(* bounds what client, handlers and network do.                            *)
(***************************************************************************)
EXTENDS Integers, FiniteSets, Sequences

LOCAL INSTANCE SequencesExt

CONSTANTS N,             \* streams the client may open
          ConnWindow,    \* Options.ConnectionWindowSize
          StreamWindow,  \* Options.InitialWindowSize
          PeerConn,      \* send window of the connection at first (65535)
          PeerStream,    \* send window of a stream at first (65535)
          MaxFrame,      \* SETTINGS_MAX_FRAME_SIZE of the client
          MaxResets,     \* maxResetBurst
          MaxControl,    \* maxControlBurst
          Remembered,    \* length of recentResets
          StatusBody,    \* bytes of the body replyErrorStatus sends
          Scenarios

ASSUME Http2Assumption ==
    /\ {N, MaxFrame, MaxResets, MaxControl, Remembered} \subseteq Nat \ {0}
    /\ {PeerConn, PeerStream, StatusBody} \subseteq Nat
    /\ ConnWindow \in Nat /\ ConnWindow >= 2 /\ StreamWindow \in Nat /\ StreamWindow >= 2

Streams == 1..N

VARIABLES sc,       \* the scenario (limit: MaxConcurrentStreams) and what is left of its budgets
          m,        \* the connection: everything guarded by mu or owned by the callbacks
          h,        \* h[i]: the goroutine that serves stream i
          cl,       \* the client
          wire,     \* frames of the client not yet handled
          cb,       \* the callback running: "none" or "data"
          writeMu,  \* the stream whose goroutine holds writeMu, or 0
          link      \* [open, writable, drained]: the fnet connection

vars == <<sc, m, h, cl, wire, cb, writeMu, link>>

Min2(a, b) == IF a < b THEN a ELSE b

----------------------------------------------------------------------------
(* State.                                                                  *)

NoStream == [state |-> "none", recv |-> 0, unacked |-> 0, got |-> 0, len |-> -1, buf |-> 0,
             send |-> 0, eof |-> FALSE, trailers |-> FALSE, bodyClosed |-> FALSE,
             readErr |-> FALSE, writeErr |-> FALSE, sentEnd |-> FALSE, sentReset |-> FALSE,
             waiting |-> FALSE, readReady |-> "nil", writeReady |-> "nil"]

newStream(f, send) ==
    [NoStream EXCEPT !.state = IF f.end THEN "remote" ELSE "open", !.eof = f.end,
                     !.recv = StreamWindow, !.send = send, !.len = f.len]

newConn == [recv |-> ConnWindow, unacked |-> 0, send |-> PeerConn, peerInit |-> PeerStream,
            active |-> 0, resets |-> MaxResets, control |-> MaxControl, noted |-> <<>>,
            refused |-> {}, culprit |-> 0, max |-> 0, settings |-> FALSE, cont |-> <<>>, inHeader |-> FALSE, partial |-> FALSE,
            goingAway |-> FALSE, closeWhenIdle |-> FALSE, broken |-> FALSE, abort |-> "none",
            closed |-> FALSE, deadline |-> "header", refresh |-> FALSE,
            st |-> [i \in Streams |-> NoStream],
            out |-> <<>>, reply |-> <<>>, fresh |-> {}]

Goroutine == [pc |-> "none", next |-> "none", after |-> "none", end |-> FALSE, left |-> 0,
              pend |-> <<>>, head |-> FALSE, err |-> FALSE, shut |-> FALSE, ok |-> TRUE]

(* The client: conn and win are the bytes it may still send, grant and     *)
(* sgrant the bytes the server may still send to it, saw what it received  *)
(* on a stream, wrong that a frame came where none may come, over that one *)
(* was larger than granted.                                                *)
Client == [conn |-> ConnWindow, win |-> [i \in Streams |-> StreamWindow],
           state |-> [i \in Streams |-> "idle"], saw |-> [i \in Streams |-> "none"],
           grant |-> PeerConn, sgrant |-> [i \in Streams |-> PeerStream],
           shrink |-> 0, acked |-> FALSE, cont |-> 0, goAway |-> FALSE, wrong |-> FALSE, over |-> FALSE]

Init == /\ sc \in Scenarios
        /\ m = newConn
        /\ h = [i \in Streams |-> Goroutine]
        /\ cl = Client
        /\ wire = << [t |-> "settings", w |-> PeerStream] >>
        /\ cb = "none" /\ writeMu = 0
        /\ link = [open |-> TRUE, writable |-> TRUE, drained |-> FALSE]

----------------------------------------------------------------------------
(* Frames the server writes, and what the client makes of them.            *)

Update(i, n) == [t |-> "update", i |-> i, n |-> n]
Reset(i)     == [t |-> "reset", i |-> i]
Headers(i, end) == [t |-> "headers", i |-> i, end |-> end]
Data(i, n, end) == [t |-> "data", i |-> i, n |-> n, end |-> end]
GoAway == [t |-> "goaway"]
Ack    == [t |-> "ack"]

Receive(c, f) ==
    CASE f.t = "update" /\ f.i = 0 -> [c EXCEPT !.conn = @ + f.n]
      [] f.t = "update" /\ f.i # 0 -> [c EXCEPT !.win[f.i] = @ + f.n]
      [] f.t = "reset"   -> [c EXCEPT !.saw[f.i] = IF @ = "ended" THEN @ ELSE "reset",
                                      !.state[f.i] = "reset"]
      [] f.t = "headers" -> [c EXCEPT !.saw[f.i] = IF f.end THEN "ended" ELSE "headers",
                                      !.wrong = @ \/ c.saw[f.i] \in {"ended", "reset"}
                                                  \/ (c.saw[f.i] = "headers" /\ ~f.end)]
      [] f.t = "data"    -> [c EXCEPT !.saw[f.i] = IF f.end THEN "ended" ELSE @,
                                      !.wrong = @ \/ c.saw[f.i] # "headers",
                                      !.over = @ \/ (f.n > 0 /\ f.n > Min2(c.grant, c.sgrant[f.i])),
                                      !.grant = @ - f.n, !.sgrant[f.i] = @ - f.n]
      [] f.t = "goaway"  -> [c EXCEPT !.goAway = TRUE]
      [] f.t = "ack"     -> [c EXCEPT !.sgrant = [i \in Streams |-> @[i] - c.shrink],
                                      !.shrink = 0, !.acked = TRUE]
      [] OTHER -> c

(* connection.Write: once the connection is closed nothing is sent.        *)
Deliver(frames) == cl' = IF link.open THEN FoldLeft(Receive, cl, frames) ELSE cl

----------------------------------------------------------------------------
(* Operations under mu.  Each takes a connection and returns it; frames to *)
(* send are appended to its out.                                           *)

Emit(c, f) == [c EXCEPT !.out = Append(@, f)]
Signal(token) == IF token = "nil" THEN "nil" ELSE "full"   \* a send to a channel of capacity 1

deadlineOf(c) ==
    IF \/ c.goingAway /\ c.active = 0
       \/ ~c.settings \/ c.inHeader
       \/ c.active = 0 /\ c.partial
    THEN "header"
    ELSE IF c.active > 0 THEN "none" ELSE "idle"

setDeadline(c) == IF c.closed THEN c ELSE [c EXCEPT !.deadline = deadlineOf(c)]

takeConnWindowUpdate(c) ==
    IF c.unacked >= ConnWindow \div 2
    THEN Emit([c EXCEPT !.recv = @ + c.unacked, !.unacked = 0], Update(0, c.unacked))
    ELSE c

(* noted has every stream that was noted; the ring holds the last ones.    *)
noteServerReset(c, i) == [c EXCEPT !.noted = Append(@, i)]
InRing(c) == {j \in DOMAIN c.noted : j > Len(c.noted) - Remembered}
wasRecentlyReset(c, i) == \E j \in InRing(c) : c.noted[j] = i

\* Mutant: the unread body is not credited.
discardNothing(c, i) == [c EXCEPT !.st[i].buf = 0]

discardUnreadBody(c, i) == [c EXCEPT !.unacked = @ + c.st[i].buf, !.st[i].buf = 0]
whenIdle(c) == IF c.active = 0 THEN setDeadline(c) ELSE c

removeStream(c, i, readErr, writeErr) ==
    LET s == c.st[i]
        gone == [s EXCEPT !.state = "closed", !.readErr = @ \/ readErr, !.writeErr = @ \/ writeErr,
                          !.waiting = FALSE,
                          !.readReady = Signal(@), !.writeReady = Signal(@)]
    IN IF s.state = "closed" THEN c
       ELSE whenIdle(discardUnreadBody([c EXCEPT !.st[i] = gone, !.active = @ - 1], i))

failStream(c, i) ==
    LET r == takeConnWindowUpdate(removeStream(
                 noteServerReset([c EXCEPT !.st[i].sentReset = TRUE], i), i, TRUE, TRUE))
    IN IF c.st[i].sentReset THEN r ELSE Emit(r, Reset(i))

wakeWaitingStreams(c) ==
    [c EXCEPT !.st = [i \in Streams |->
        IF @[i].waiting THEN [@[i] EXCEPT !.waiting = FALSE, !.writeReady = Signal(@)] ELSE @[i]]]

(* A larger send window wakes the writer when it becomes positive.         *)
grow(s, n) == [s EXCEPT !.send = @ + n,
                        !.writeReady = IF s.send <= 0 /\ s.send + n > 0 THEN Signal(@) ELSE @]

\* Mutant: the early reset is not remembered.
endEarlyForgotten(c, i) ==
    removeStream([c EXCEPT !.st[i].sentEnd = TRUE, !.st[i].sentReset = TRUE], i, TRUE, FALSE)

endEarly(c, i) ==
    removeStream(noteServerReset([c EXCEPT !.st[i].sentEnd = TRUE, !.st[i].sentReset = TRUE], i),
                 i, TRUE, FALSE)

endStreamLocal(c, i) ==
    IF c.st[i].state = "open" THEN endEarly(c, i)
    ELSE removeStream([c EXCEPT !.st[i].sentEnd = TRUE, !.resets = Min2(@ + 1, MaxResets)],
                      i, FALSE, FALSE)

(* The RST_STREAM(NO_ERROR) that follows END_STREAM to a client that is    *)
(* still sending.                                                          *)
EarlyReset(c, i) == IF c.st[i].state = "open" THEN << Reset(i) >> ELSE << >>

\* Mutant: only the connection is looked at.
WriteErrClosed(c, i) == c.closed

WriteErr(c, i) == LET s == c.st[i]
                  IN c.closed \/ s.writeErr \/ s.state = "closed" \/ s.sentEnd \/ s.sentReset

----------------------------------------------------------------------------
(* onData: the frames of the client, one step each.                        *)

abortInOnData(c, code) ==
    Emit([c EXCEPT !.broken = TRUE, !.goingAway = TRUE, !.abort = code], GoAway)

(* f(c) if a control token is left, the end of the connection otherwise.   *)
takeControlToken(c, r) ==
    IF c.control <= 0 THEN abortInOnData(c, "calm") ELSE [r EXCEPT !.control = c.control - 1]

Live(c, i) == c.st[i].state \in {"open", "remote"}

\* Mutant: only streams opened later get the new window.
resizedLater(c, n) == c.st

resized(c, n) == [i \in Streams |-> IF Live(c, i) THEN grow(c.st[i], n) ELSE c.st[i]]

handleSettings(c, f) ==
    LET r == [c EXCEPT !.settings = TRUE, !.peerInit = f.w, !.st = resized(c, f.w - c.peerInit)]
    IN takeControlToken(c, Emit(IF c.settings THEN r ELSE setDeadline(r), Ack))

handlePing(c, f) == takeControlToken(c, Emit([c EXCEPT !.refresh = TRUE], [t |-> "pong"]))

handleWindowUpdate(c, f) ==
    IF f.i = 0 THEN wakeWaitingStreams([c EXCEPT !.send = @ + f.n])
    ELSE IF Live(c, f.i) THEN [c EXCEPT !.st[f.i] = grow(@, f.n)] ELSE c

handleRSTStream(c, f) ==
    IF c.resets <= 0 THEN abortInOnData(c, "calm")
    ELSE LET r == [c EXCEPT !.resets = @ - 1]
         IN IF Live(c, f.i)
            THEN takeConnWindowUpdate(removeStream([r EXCEPT !.st[f.i].sentReset = TRUE], f.i, TRUE, TRUE))
            ELSE r

announce(c, i, n) == Emit([c EXCEPT !.st[i].unacked = 0, !.st[i].recv = @ + n], Update(i, n))

(* DATA of f.n body bytes and f.pad bytes of padding.                      *)
handleData(c, f) ==
    LET size == f.n + f.pad
        i == f.i
        s == c.st[i]
        took == [c EXCEPT !.recv = @ - size]
        dropped == [took EXCEPT !.unacked = @ + size]
        total == s.got + f.n
        kept == [s EXCEPT !.recv = @ - size, !.got = total, !.eof = @ \/ f.end,
                          !.state = IF f.end THEN "remote" ELSE @,
                          !.unacked = IF s.bodyClosed THEN @ ELSE @ + f.pad,
                          !.buf = IF s.bodyClosed THEN @ ELSE @ + f.n,
                          !.readReady = Signal(@)]
        r == takeConnWindowUpdate([took EXCEPT !.st[i] = kept,
                 !.unacked = @ + (IF s.bodyClosed THEN size ELSE f.pad)])
    IN IF size > c.recv THEN abortInOnData(c, "flow")
       ELSE IF ~Live(c, i)
       THEN LET d == takeConnWindowUpdate(dropped) IN takeControlToken(d, Emit(d, Reset(i)))
       ELSE IF \/ s.state = "remote" \/ s.trailers
               \/ size > s.recv
               \/ s.len >= 0 /\ (total > s.len \/ (f.end /\ total # s.len))
       THEN failStream(dropped, i)
       ELSE IF ~kept.eof /\ ~s.bodyClosed /\ kept.unacked >= StreamWindow \div 2
       THEN announce(r, i, kept.unacked)
       ELSE r

withTrailers(s) ==
    [s EXCEPT !.trailers = TRUE, !.eof = TRUE, !.state = "remote", !.readReady = Signal(@)]

finishTrailerBlock(c, f) ==
    LET s == c.st[f.i]
    IN IF ~Live(c, f.i) THEN c
       ELSE IF s.trailers THEN abortInOnData([c EXCEPT !.culprit = f.i], "protocol")
       ELSE IF s.state = "remote" \/ (s.len >= 0 /\ s.got # s.len) THEN failStream(c, f.i)
       ELSE [c EXCEPT !.st[f.i] = withTrailers(s)]

(* The answer to a request whose header is refused with a status.          *)
replyErrorStatus(c, f) ==
    LET noted == IF f.end THEN c ELSE noteServerReset(c, f.i)
        body == StatusBody <= Min2(Min2(c.send, c.peerInit), MaxFrame)
    IN IF c.closed THEN c
       ELSE [noted EXCEPT !.send = IF body THEN @ - StatusBody ELSE @,
                          !.reply = << Headers(f.i, ~body) >>
                                    \o (IF body THEN << Data(f.i, StatusBody, TRUE) >> ELSE << >>)
                                    \o (IF f.end THEN << >> ELSE << Reset(f.i) >>)]

\* Mutant: one stream more than the limit.
crowdedLater(c) == c.active > sc.limit

crowded(c) == c.active >= sc.limit

finishHeaderBlock(c, f) ==
    LET r == [c EXCEPT !.max = f.i, !.control = Min2(@ + 2, MaxControl)]
        refused == [r EXCEPT !.refused = @ \cup {f.i}]
        opened == [r EXCEPT !.st[f.i] = newStream(f, r.peerInit), !.active = @ + 1,
                            !.fresh = @ \cup {f.i}]
    IN IF f.trailer THEN finishTrailerBlock(c, f)
       ELSE IF r.goingAway THEN refused
       ELSE IF crowded(r) \/ f.kind = "bad" THEN takeControlToken(r, Emit(refused, Reset(f.i)))
       ELSE IF f.kind = "status" THEN replyErrorStatus(r, f)
       ELSE IF r.closed THEN r
       ELSE IF r.active = 0 THEN setDeadline(opened) ELSE opened

handleHeaders(c, f) ==
    LET trailer == Live(c, f.i) \/ wasRecentlyReset(c, f.i)
        block == [f EXCEPT !.trailer = trailer]
    IN IF ~trailer /\ f.i <= c.max THEN abortInOnData([c EXCEPT !.culprit = f.i], "protocol")
       ELSE IF f.more THEN [c EXCEPT !.cont = << block >>]
       ELSE finishHeaderBlock(c, block)

handleContinuation(c, f) == finishHeaderBlock([c EXCEPT !.cont = << >>], c.cont[1])

handleFrame(c, f) ==
    CASE f.t = "settings" -> handleSettings(c, f)
      [] f.t = "ping"     -> handlePing(c, f)
      [] f.t = "update"   -> handleWindowUpdate(c, f)
      [] f.t = "reset"    -> handleRSTStream(c, f)
      [] f.t = "data"     -> handleData(c, f)
      [] f.t = "headers"  -> handleHeaders(c, f)
      [] f.t = "cont"     -> handleContinuation(c, f)

(* One frame of the loop of onData.  replyErrorStatus writes by itself and *)
(* so needs writeMu; every other frame only adds to outControl.            *)
onFrame ==
    /\ (cb = "data" \/ (cb = "none" /\ link.open)) /\ ~m.broken /\ wire # << >>
    /\ LET r == handleFrame(m, Head(wire))
       IN /\ r.reply # << >> => writeMu = 0
          /\ m' = [r EXCEPT !.reply = << >>]
          /\ Deliver(r.reply)
    /\ wire' = Tail(wire) /\ cb' = "data"
    /\ UNCHANGED <<sc, h, writeMu, link>>

(* The end of onData: outControl is written, the deadline and the partial  *)
(* frame are settled, and the new streams go to the executor.              *)
onDataEnd(partial) ==
    /\ cb = "data" /\ (m.out # << >> => writeMu = 0)
    /\ partial => wire # << >>
    /\ LET c == [m EXCEPT !.out = << >>, !.fresh = {}, !.refresh = FALSE]
           inHeader == m.cont # << >>
           r == [c EXCEPT !.partial = partial, !.inHeader = inHeader]
           changed == partial # m.partial \/ inHeader # m.inHeader \/ m.refresh
           broken == m.broken \/ (m.out # << >> /\ ~link.open)
       IN /\ m' = IF broken THEN [c EXCEPT !.broken = TRUE] ELSE IF changed THEN setDeadline(r) ELSE r
          /\ link' = IF broken \/ (m.goingAway /\ m.active = 0)
                     THEN [link EXCEPT !.open = FALSE] ELSE link
    /\ Deliver(m.out)
    /\ h' = [i \in Streams |-> IF i \in m.fresh THEN [h[i] EXCEPT !.pc = "ready"] ELSE h[i]]
    /\ cb' = "none"
    /\ UNCHANGED <<sc, wire, writeMu>>

onWritable ==
    /\ cb = "none" /\ link.drained
    /\ m' = wakeWaitingStreams(m)
    /\ link' = [link EXCEPT !.drained = FALSE]
    /\ UNCHANGED <<sc, h, cl, wire, cb, writeMu>>

----------------------------------------------------------------------------
(* The end of the connection.                                              *)

sendGoAway(c, idleToo) ==
    LET r == [c EXCEPT !.closeWhenIdle = @ \/ idleToo]
    IN IF c.goingAway \/ c.closed THEN r ELSE Emit(setDeadline([r EXCEPT !.goingAway = TRUE]), GoAway)

(* The engine closes the connection by itself: the client went away, the   *)
(* deadline passed or the server closes.  onClosing comes first.           *)
onClosing ==
    /\ sc.drop /\ cb = "none" /\ link.open
    /\ IF m.broken \/ ~m.settings
       THEN UNCHANGED <<m, cl>>
       ELSE /\ writeMu = 0
            /\ LET r == sendGoAway([m EXCEPT !.out = << >>], FALSE)
               IN m' = [r EXCEPT !.out = m.out] /\ Deliver(r.out)
    /\ link' = [link EXCEPT !.open = FALSE]
    /\ UNCHANGED <<sc, h, wire, cb, writeMu>>

onClose ==
    /\ cb = "none" /\ ~link.open /\ ~m.closed /\ writeMu = 0
    /\ m' = FoldLeft(LAMBDA c, i : IF Live(c, i) THEN removeStream(c, i, TRUE, TRUE) ELSE c,
                     [m EXCEPT !.closed = TRUE], [i \in Streams |-> i])
    /\ UNCHANGED <<sc, h, cl, wire, cb, writeMu, link>>

----------------------------------------------------------------------------
(* The goroutine of stream i.  pend holds the frames to write: of the      *)
(* holder of writeMu at "write", of a goroutine that has yet to take it at *)
(* "flush".                                                                *)

Go(i, pc) == h' = [h EXCEPT ![i].pc = pc]

(* r came from an operation under mu on m without outControl.              *)
Bare == [m EXCEPT !.out = << >>]
Keep(r) == m' = [r EXCEPT !.out = m.out]

serveStream(i) ==
    /\ h[i].pc = "ready"
    /\ Go(i, "run")
    /\ UNCHANGED <<sc, m, cl, wire, cb, writeMu, link>>

(* flushHeader and finish say GOAWAY first for a response with             *)
(* "Connection: close".                                                    *)
FirstWrite(i) == IF h[i].head THEN "data" ELSE IF sc.closing THEN "goaway" ELSE "headers"

(* What the handler does next: read, write k bytes and flush them, return, *)
(* or panic.  The flush of a response without a body ends the stream.      *)
handler(i) ==
    /\ h[i].pc = "run"
    /\ \/ /\ sc.read /\ Go(i, "read") /\ UNCHANGED sc
       \/ /\ sc.writes > 0 /\ ~h[i].err
          /\ sc' = [sc EXCEPT !.writes = @ - 1]
          /\ IF WriteErr(m, i) THEN h' = [h EXCEPT ![i].err = TRUE]
             ELSE h' = [h EXCEPT ![i] = [@ EXCEPT !.pc = FirstWrite(i), !.left = sc.chunk,
                                                  !.end = sc.chunk = 0, !.head = TRUE, !.next = "run"]]
       \/ /\ \E ok \in sc.returns : h' = [h EXCEPT ![i].pc = "close", ![i].ok = ok]
          /\ UNCHANGED sc
    /\ UNCHANGED <<m, cl, wire, cb, writeMu, link>>

consumeReceiveBytes(c, i, n) ==
    LET r == takeConnWindowUpdate([c EXCEPT !.unacked = @ + n])
        s == r.st[i]
        owed == s.unacked + n
    IN IF s.eof \/ s.bodyClosed \/ s.state = "closed" THEN r
       ELSE IF owed < StreamWindow \div 2 THEN [r EXCEPT !.st[i].unacked = owed]
       ELSE announce(r, i, owed)

(* requestBody.Read, one turn of its loop, with a buffer of n bytes.       *)
Read(i) ==
    /\ h[i].pc = "read"
    /\ LET s == m.st[i]
       IN IF s.bodyClosed \/ (s.buf = 0 /\ (s.readErr \/ s.eof))
          THEN Go(i, "run") /\ UNCHANGED m
          ELSE IF s.buf = 0
          THEN /\ m' = [m EXCEPT !.st[i].readReady = IF @ = "nil" THEN "empty" ELSE @]
               /\ Go(i, "reading")
          ELSE \E n \in {1, s.buf} :
                 LET r == consumeReceiveBytes([Bare EXCEPT !.st[i].buf = @ - n], i, n)
                 IN /\ Keep(r)
                    /\ h' = [h EXCEPT ![i].pc = IF r.out = << >> THEN "run" ELSE "flush",
                                      ![i].pend = r.out, ![i].next = "run"]
    /\ UNCHANGED <<sc, cl, wire, cb, writeMu, link>>

(* <-ready                                                                 *)
ReadReady(i) ==
    /\ h[i].pc = "reading" /\ m.st[i].readReady = "full"
    /\ m' = [m EXCEPT !.st[i].readReady = "empty"]
    /\ Go(i, "read")
    /\ UNCHANGED <<sc, cl, wire, cb, writeMu, link>>

closeBody(c, i) ==
    takeConnWindowUpdate(
        [discardUnreadBody(c, i) EXCEPT !.st[i].bodyClosed = TRUE, !.st[i].readReady = Signal(@)])

(* runHandler's deferred reqBody.Close; http.NoBody has nothing to close.  *)
Close(i) ==
    /\ h[i].pc = "close"
    /\ LET next == IF h[i].ok THEN "finish" ELSE "reset"
           r == closeBody(Bare, i)
       IN IF m.st[i].bodyClosed \/ sc.streams[i].end THEN Go(i, next) /\ UNCHANGED m
          ELSE /\ Keep(r)
               /\ h' = [h EXCEPT ![i].pc = IF r.out = << >> THEN next ELSE "flush",
                                 ![i].pend = r.out, ![i].next = next]
    /\ UNCHANGED <<sc, cl, wire, cb, writeMu, link>>

(* sendWindowUpdates, and the last write of cleanupStreamAfterHandler.     *)
flush(i) ==
    /\ h[i].pc = "flush" /\ writeMu = 0
    /\ IF m.closed THEN UNCHANGED cl ELSE Deliver(h[i].pend)
    /\ IF h[i].shut
       THEN m' = [m EXCEPT !.deadline = "idle"] /\ link' = [link EXCEPT !.open = FALSE]
       ELSE UNCHANGED <<m, link>>
    /\ h' = [h EXCEPT ![i].pc = h[i].next, ![i].pend = << >>]
    /\ UNCHANGED <<sc, wire, cb, writeMu>>

(* response.finish: the headers and the rest of the body, with END_STREAM, *)
(* or trailers that carry it.  A handler that wrote less than it declared  *)
(* has its stream reset.                                                   *)
finish(i) ==
    /\ h[i].pc = "finish"
    /\ IF h[i].err THEN Go(i, "cleanup")
       ELSE \E e \in sc.ends :
              h' = [h EXCEPT ![i] = [@ EXCEPT
                  !.pc = IF e = "short" THEN "reset"
                         ELSE IF e = "trailers" /\ h[i].head THEN "headers" ELSE FirstWrite(i),
                  !.left = IF e = "body" /\ ~h[i].head THEN sc.chunk ELSE 0,
                  !.end = e # "trailers" \/ h[i].head,
                  !.next = "cleanup"]]
    /\ UNCHANGED <<sc, m, cl, wire, cb, writeMu, link>>

goAway(i) ==
    /\ h[i].pc = "goaway" /\ writeMu = 0
    /\ LET r == sendGoAway(Bare, TRUE) IN Keep(r) /\ Deliver(r.out)
    /\ Go(i, "headers")
    /\ UNCHANGED <<sc, wire, cb, writeMu, link>>

(* A write refused by writeErrLocked.                                      *)
Refused(i) ==
    /\ m' = [m EXCEPT !.st[i].waiting = FALSE]
    /\ h' = [h EXCEPT ![i].err = TRUE, ![i].pc = h[i].next]
    /\ UNCHANGED writeMu

(* frames are written with writeMu held, the goroutine then goes to after. *)
Locked(i, r, frames, after, left) ==
    /\ m' = r
    /\ h' = [h EXCEPT ![i] = [@ EXCEPT !.pc = "write", !.pend = frames, !.after = after, !.left = left]]
    /\ writeMu' = i

Charge(c, i, n) == [c EXCEPT !.send = @ - n, !.st[i].send = @ - n]

(* writeHeaders and writeHeadersAndBody.                                   *)
headers(i) ==
    /\ h[i].pc = "headers" /\ writeMu = 0
    /\ LET g == h[i]
           fits == g.left <= Min2(MaxFrame, Min2(m.send, m.st[i].send)) /\ link.writable
           ends == g.end /\ (g.left = 0 \/ fits)
       IN IF WriteErr(m, i) THEN Refused(i)
          ELSE IF ends
          THEN Locked(i, endStreamLocal(Charge(m, i, g.left), i),
                      (IF g.left = 0 THEN << Headers(i, TRUE) >>
                       ELSE << Headers(i, FALSE), Data(i, g.left, TRUE) >>) \o EarlyReset(m, i),
                      g.next, 0)
          ELSE Locked(i, m, << Headers(i, FALSE) >>, IF g.left > 0 THEN "data" ELSE "headers", g.left)
    /\ UNCHANGED <<sc, cl, wire, cb, link>>

(* writeData, the part that sends: an empty frame with END_STREAM, or as   *)
(* much as both windows and a frame hold.                                  *)
data(i) ==
    /\ h[i].pc = "data" /\ writeMu = 0
    /\ LET g == h[i]
           avail == Min2(m.send, m.st[i].send)
           n == IF g.left = 0 THEN 0 ELSE Min2(g.left, Min2(MaxFrame, avail))
           last == g.end /\ n = g.left
           sent == Charge([m EXCEPT !.st[i].waiting = FALSE], i, n)
       IN IF WriteErr(m, i) THEN Refused(i)
          ELSE /\ g.left = 0 \/ (link.writable /\ avail > 0)
               /\ Locked(i, IF last THEN endStreamLocal(sent, i) ELSE sent,
                         << Data(i, n, last) >> \o (IF last THEN EarlyReset(m, i) ELSE << >>),
                         IF n = g.left THEN g.next ELSE "data", g.left - n)
    /\ UNCHANGED <<sc, cl, wire, cb, link>>

\* Mutant: Writable is not read again.
writableAgainNot(w, avail) == FALSE

writableAgain(w, avail) == w /\ avail > 0

(* writeData, the part that waits.  Writable is read three times, w1, w2   *)
(* and w3, while mu keeps OnWritable out: the socket may drain in between. *)
dataWait(i) ==
    /\ h[i].pc = "data" /\ writeMu = 0 /\ h[i].left > 0 /\ ~WriteErr(m, i)
    /\ LET avail == Min2(m.send, m.st[i].send)
           w1 == link.writable
       IN /\ ~w1 \/ avail <= 0
          /\ \E w2, w3 \in BOOLEAN :
               LET registers == ~w2 \/ m.send <= 0
                   again == writableAgain(w3, avail)
               IN /\ (w1 => w2) /\ (w2 => w3)
                  /\ link' = [link EXCEPT !.writable = w3, !.drained = @ \/ w3 # w1]
                  /\ m' = [m EXCEPT !.st[i].writeReady = "empty",
                                    !.st[i].waiting = ~again /\ (@ \/ registers)]
                  /\ h' = [h EXCEPT ![i].pc = IF again THEN "data" ELSE "wait"]
    /\ UNCHANGED <<sc, cl, wire, cb, writeMu>>

(* <-ready, or the IdleTimeout.                                            *)
WriteReady(i) ==
    /\ h[i].pc = "wait" /\ m.st[i].writeReady = "full"
    /\ m' = [m EXCEPT !.st[i].writeReady = "empty"]
    /\ Go(i, "data")
    /\ UNCHANGED <<sc, cl, wire, cb, writeMu, link>>

Expire(i) ==
    /\ sc.timeout /\ h[i].pc = "wait"
    /\ h' = [h EXCEPT ![i].pc = h[i].next, ![i].err = TRUE]
    /\ UNCHANGED <<sc, m, cl, wire, cb, writeMu, link>>

(* connection.Write and the unlock of writeMu.  A write may fill the       *)
(* socket.                                                                 *)
write(i) ==
    /\ h[i].pc = "write"
    /\ Deliver(h[i].pend)
    /\ \E full \in IF sc.stalls > 0 /\ link.writable THEN BOOLEAN ELSE {FALSE} :
         /\ link' = IF full THEN [link EXCEPT !.writable = FALSE] ELSE link
         /\ sc' = IF full THEN [sc EXCEPT !.stalls = @ - 1] ELSE sc
    /\ writeMu' = 0
    /\ h' = [h EXCEPT ![i] = [@ EXCEPT !.pend = << >>, !.err = @ \/ ~link.open,
                                       !.pc = IF link.open THEN h[i].after ELSE h[i].next,
                                       !.end = @ \/ h[i].after = "headers"]]
    /\ UNCHANGED <<m, wire, cb>>

(* resetStream: a panic, or a response shorter than declared.              *)
resetStream(i) ==
    /\ h[i].pc = "reset" /\ writeMu = 0
    /\ LET r == takeConnWindowUpdate(removeStream(
                    noteServerReset([Bare EXCEPT !.st[i].sentReset = TRUE], i), i, TRUE, TRUE))
       IN /\ Keep(r)
          /\ Deliver(IF m.closed \/ m.st[i].sentReset THEN r.out ELSE Append(r.out, Reset(i)))
    /\ Go(i, IF h[i].ok THEN "cleanup" ELSE "done")
    /\ UNCHANGED <<sc, wire, cb, writeMu, link>>

cleanupStreamAfterHandler(i) ==
    /\ h[i].pc = "cleanup"
    /\ LET s == m.st[i]
           needReset == ~s.sentReset /\ (~s.sentEnd \/ s.state = "open")
           noted == IF needReset THEN noteServerReset([Bare EXCEPT !.st[i].sentReset = TRUE], i) ELSE Bare
           r == IF s.state = "closed" THEN Bare ELSE takeConnWindowUpdate(removeStream(noted, i, TRUE, TRUE))
           frames == IF s.state # "closed" /\ needReset THEN Append(r.out, Reset(i)) ELSE r.out
           shut == m.closeWhenIdle /\ r.active = 0
       IN /\ m' = [r EXCEPT !.out = m.out,
                            !.deadline = IF shut /\ frames = << >> THEN "idle" ELSE @]
          /\ link' = IF shut /\ frames = << >> THEN [link EXCEPT !.open = FALSE] ELSE link
          /\ h' = [h EXCEPT ![i] = [@ EXCEPT !.pc = IF frames = << >> THEN "done" ELSE "flush",
                                             !.pend = frames, !.shut = shut, !.next = "done"]]
    /\ UNCHANGED <<sc, cl, wire, cb, writeMu>>

----------------------------------------------------------------------------
(* The client and the network.                                             *)

Send(f) == wire' = Append(wire, f) /\ UNCHANGED <<m, h, cb, writeMu, link>>

Talks == link.open /\ cl.cont = 0

ClientHeaders(i) ==
    /\ Talks /\ ~cl.goAway /\ i <= Len(sc.streams)
    /\ cl.state[i] = "idle" /\ \A j \in 1..(i - 1) : cl.state[j] # "idle"
    /\ LET f == sc.streams[i]
       IN /\ Send([t |-> "headers", i |-> i, end |-> f.end, len |-> f.len, kind |-> f.kind,
                   more |-> f.more, trailer |-> FALSE])
          /\ cl' = [cl EXCEPT !.state[i] = IF f.end THEN "ended" ELSE "open",
                              !.cont = IF f.more THEN i ELSE 0]
    /\ UNCHANGED sc

ClientContinuation ==
    /\ link.open /\ cl.cont # 0
    /\ Send([t |-> "cont", i |-> cl.cont])
    /\ cl' = [cl EXCEPT !.cont = 0] /\ UNCHANGED sc

ClientData(i) ==
    /\ Talks /\ sc.data > 0 /\ cl.state[i] = "open"
    /\ \E d \in sc.sizes, end \in BOOLEAN :
         /\ d.n + d.pad <= Min2(cl.conn, cl.win[i])
         /\ Send([t |-> "data", i |-> i, n |-> d.n, pad |-> d.pad, end |-> end])
         /\ cl' = [cl EXCEPT !.conn = @ - d.n - d.pad, !.win[i] = @ - d.n - d.pad,
                             !.state[i] = IF end THEN "ended" ELSE "open"]
    /\ sc' = [sc EXCEPT !.data = @ - 1]

ClientTrailers(i) ==
    /\ Talks /\ sc.trailers /\ cl.state[i] = "open"
    /\ Send([t |-> "headers", i |-> i, end |-> TRUE, len |-> -1, kind |-> "good",
             more |-> FALSE, trailer |-> FALSE])
    /\ cl' = [cl EXCEPT !.state[i] = "ended"] /\ UNCHANGED sc

ClientReset(i) ==
    /\ Talks /\ sc.rsts > 0 /\ cl.state[i] \in {"open", "ended"} /\ cl.saw[i] # "ended"
    /\ Send([t |-> "reset", i |-> i])
    /\ cl' = [cl EXCEPT !.state[i] = "reset"]
    /\ sc' = [sc EXCEPT !.rsts = @ - 1]

(* WINDOW_UPDATE for the connection (0) or a stream.                       *)
ClientGrant(i) ==
    /\ Talks /\ sc.grants > 0
    /\ i # 0 => cl.state[i] \in {"open", "ended"} /\ cl.saw[i] # "ended"
    /\ Send([t |-> "update", i |-> i, n |-> 1])
    /\ cl' = IF i = 0 THEN [cl EXCEPT !.grant = @ + 1] ELSE [cl EXCEPT !.sgrant[i] = @ + 1]
    /\ sc' = [sc EXCEPT !.grants = @ - 1]

(* SETTINGS_INITIAL_WINDOW_SIZE: a larger one holds from now on, a smaller *)
(* one once the server has acknowledged it.                                *)
ClientSettings ==
    /\ Talks /\ cl.acked /\ sc.settings # << >>
    /\ LET w == Head(sc.settings)
       IN /\ Send([t |-> "settings", w |-> w])
          /\ cl' = IF w < PeerStream THEN [cl EXCEPT !.shrink = PeerStream - w]
                   ELSE [cl EXCEPT !.sgrant = [i \in Streams |-> @[i] + w - PeerStream]]
    /\ sc' = [sc EXCEPT !.settings = << >>]

ClientPing ==
    /\ Talks /\ sc.pings > 0
    /\ Send([t |-> "ping"])
    /\ sc' = [sc EXCEPT !.pings = @ - 1] /\ UNCHANGED cl

(* The socket takes the backlog: Writable turns true, OnWritable is due.   *)
Drain ==
    /\ ~link.writable
    /\ link' = [link EXCEPT !.writable = TRUE, !.drained = TRUE]
    /\ UNCHANGED <<sc, m, h, cl, wire, cb, writeMu>>

----------------------------------------------------------------------------
Serve(i) ==
    \/ serveStream(i) \/ handler(i) \/ Read(i) \/ ReadReady(i) \/ Close(i) \/ flush(i)
    \/ finish(i) \/ goAway(i) \/ headers(i) \/ data(i) \/ dataWait(i) \/ WriteReady(i)
    \/ Expire(i) \/ write(i) \/ resetStream(i) \/ cleanupStreamAfterHandler(i)

Callback == onFrame \/ (\E partial \in BOOLEAN : onDataEnd(partial)) \/ onWritable \/ onClosing \/ onClose

ClientStep ==
    \/ \E i \in Streams : ClientHeaders(i) \/ ClientData(i) \/ ClientTrailers(i) \/ ClientReset(i)
    \/ \E i \in 0..N : ClientGrant(i)
    \/ ClientContinuation \/ ClientSettings \/ ClientPing

Next == (\E i \in Streams : Serve(i)) \/ Callback \/ ClientStep \/ Drain

Spec == Init /\ [][Next]_vars

----------------------------------------------------------------------------
(* Properties.                                                             *)

SumData(q, i) == FoldLeft(LAMBDA a, f : IF f.t = "data" /\ i \in {0, f.i} THEN a + f.n + f.pad ELSE a, 0, q)
SumUpdates(q, i) == FoldLeft(LAMBDA a, f : IF f.t = "update" /\ f.i = i THEN a + f.n ELSE a, 0, q)
Sum(f) == FoldLeft(LAMBDA a, i : a + f[i], 0, [i \in Streams |-> i])

(* WINDOW_UPDATEs computed under mu and not yet written.                   *)
Unwritten(i) == SumUpdates(m.out, i) + Sum([j \in Streams |-> SumUpdates(h[j].pend, i)])

Healthy == link.open /\ ~m.broken /\ ~m.closed

(* No byte of the connection's receive window leaks, whatever way a stream *)
(* ends: what is free, owed to the client and buffered for handlers is     *)
(* always ConnectionWindowSize (discardUnreadBodyLocked).                  *)
ConnWindowConserved == m.recv + m.unacked + Sum([i \in Streams |-> m.st[i].buf]) = ConnWindow

(* The client and the server agree on both receive windows once the frames *)
(* under way are counted, so a client that obeys its windows is never      *)
(* accused of overrunning them.                                            *)
WindowsAgree ==
    /\ m.abort # "flow"
    /\ Healthy => /\ cl.conn + SumData(wire, 0) + Unwritten(0) = m.recv
                  /\ \A i \in Streams : m.st[i].state = "open" =>
                       cl.win[i] + SumData(wire, i) + Unwritten(i) = m.st[i].recv

(* Bytes thrown away are announced again: when no handler is left, less    *)
(* than half of the connection window is held back.                        *)
CreditIsAnnounced ==
    (\A i \in Streams : h[i].pc \in {"none", "done"}) /\ m.fresh = {} =>
        m.unacked < ConnWindow \div 2 \/ m.closed

(* Receive flow control of the connection, for the server and its client.  *)
ReceiveWindowsAreExact == ConnWindowConserved /\ WindowsAgree /\ CreditIsAnnounced

(* The response of a stream is one HEADERS, then DATA, then one            *)
(* END_STREAM, which a second HEADERS, the trailers, must carry; after     *)
(* that, or a reset of the server, neither HEADERS nor DATA follow,        *)
(* although handler, onData and onClose all end streams.                   *)
ResponseIsWellFormed == ~cl.wrong

(* The server never sends more than the client granted, also while the     *)
(* client shrinks the window under a handler that is writing.              *)
GrantsAreRespected == ~cl.over

(* Flow control in both directions: nobody sends more than was granted,    *)
(* and what is granted is exact for the connection and for each stream.    *)
FlowControlIsExact == ReceiveWindowsAreExact /\ GrantsAreRespected

(* A blocked response has something to wait for: no stream and no          *)
(* connection window, or a socket that OnWritable will report.  It never   *)
(* misses the wake-up (writeData checks Writable again).                   *)
NoWriterStranded ==
    \A i \in Streams : h[i].pc = "wait" /\ m.st[i].writeReady = "empty" =>
        LET s == m.st[i]
        IN /\ s.state # "closed"
           /\ \/ s.send <= 0
              \/ s.waiting /\ (m.send <= 0 \/ ~link.writable \/ link.drained)

(* A handler blocked in Read has nothing to read and no end to report.     *)
NoReaderStranded ==
    \A i \in Streams : h[i].pc = "reading" /\ m.st[i].readReady = "empty" =>
        LET s == m.st[i] IN s.buf = 0 /\ ~s.eof /\ ~s.readErr /\ s.state = "open"

(* No handler's goroutine is blocked for good (writeData, requestBody.Read).*)
NoHandlerStranded == NoWriterStranded /\ NoReaderStranded

(* activeStreams counts the streams of the map and stays within            *)
(* MaxConcurrentStreams.                                                   *)
ActiveIsExact == m.active = Cardinality({i \in Streams : Live(m, i)}) /\ m.active <= sc.limit

(* The deadline in force is the one the state of the connection calls for: *)
(* no idle connection without one, no running request under one.           *)
DeadlineFits == Healthy => m.deadline = deadlineOf(m)

(* What the connection knows of its activity is so (removeStreamLocked).    *)
ActivityIsExact == ActiveIsExact /\ DeadlineFits

(* Streams the server no longer knows: one it turned away without noting   *)
(* it (over the limit, malformed, or after GOAWAY: conn.go:746-764), and    *)
(* one it reset and noted, with as many others noted since as the ring     *)
(* recentResets holds (conn.go:860).                                       *)
TurnedAway(i) == i \in m.refused
Evicted(i) == \E j \in DOMAIN m.noted \ InRing(m) : m.noted[j] = i

(* A client that obeys the protocol is never told PROTOCOL_ERROR over the  *)
(* trailers it had under way when the server reset its stream              *)
(* (handleHeaders), whoever reset it and in whatever order, as long as     *)
(* fewer streams were reset since than the ring holds.  Two kinds of       *)
(* streams are excepted: those turned away, and those evicted from the     *)
(* ring; for both the connection does end.                                 *)
ObedientClientIsKept == m.abort = "protocol" => TurnedAway(m.culprit) \/ Evicted(m.culprit)
=============================================================================
