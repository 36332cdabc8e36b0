----------------------------- MODULE WebSocket -----------------------------
(***************************************************************************)
(* A WebSocket connection (websocket/conn.go, websocket.go) on the HTTP    *)
(* connection it was upgraded from: Upgrade and OnOpen on fhttp's worker,  *)
(* OnData, OnWritable and OnClose in the engine's callbacks, WriteMessage  *)
(* and Close from a goroutine of the application.                          *)
(*                                                                         *)
(* The client's frames follow its upgrade request, each in two halves of   *)
(* which the first holds the frame's header.  A critical section under     *)
(* writeMu is one step.                                                    *)
(***************************************************************************)
EXTENDS Fhttp, FiniteSets

CONSTANTS
    MaxCork,     \* maxCorkBytes, in frames
    MaxMessage   \* MaxMessageSize, in frames

ASSUME WebSocketAssumption == MaxCork \in Nat \ {0} /\ MaxMessage \in Nat \ {0}

\* Frames: messages in one frame (the Handler answers it, closes the connection in its
\* callback or panics), fragments of one it answers, control frames, a message that is too
\* large and one that is not UTF-8. Anything else, an HTTP request say, has reserved bits.
Whole == {"text", "bye", "boom", "notUtf8", "big"}
Control == {"ping", "close"}
Frames == Whole \cup {"begin", "more", "rest"} \cup Control
\* What ends a connection, and the status code of the close frame.
Code == [local |-> 1000, peer |-> 1001, protocol |-> 1002, utf8 |-> 1007, tooBig |-> 1009, panic |-> 1011]

VARIABLES
    ws,    \* the fields of websocket.Conn, and where its OnData is
    k,     \* where the task, the worker and the application are in closeWith, and why
    a,     \* the application's goroutine: messages left to send, its wait, its Close
    seen   \* history: the callbacks, the frames written, the first sight of what is incomplete

websocket == <<ws, k, a, seen>>
Threads == {"task", "worker", "app"}
OnOpenCall == 0
OnCloseCall == -1

WsInit ==
    /\ ws = [phase |-> "opened", closing |-> FALSE, closeErr |-> "nil", corked |-> FALSE, cork |-> <<>>,
             corking |-> FALSE, message |-> 0, length |-> 0, receiving |-> FALSE, finished |-> FALSE,
             at |-> "none", n |-> 0, armed |-> 0]
    /\ k = [t \in Threads |-> [pc |-> "none", err |-> "nil"]]
    /\ a = [pc |-> "run", left |-> IF May("push") THEN 2 ELSE 0, close |-> IF May("close") THEN "due" ELSE "none"]
    /\ seen = [calls |-> <<>>, sent |-> <<>>, err |-> "nil", closed |-> -1, kept |-> FALSE, early |-> FALSE,
               pending |-> 0, since |-> 0]

(***************************************************************************)
(* Writing: WriteMessage, cork and closeWith                               *)
(***************************************************************************)

\* WriteMessage: refused once closing, corked while OnData has frames to process, and
\* written out with what is corked when the cork buffer is full.
fits == Len(ws.cork) < MaxCork
corkAfter(u) == IF ws.closing \/ ~ws.corked THEN ws.cork ELSE IF fits THEN Append(ws.cork, u) ELSE <<>>
outAfter(u) == IF ws.closing \/ (ws.corked /\ fits) THEN e ELSE Written(Append(ws.cork, u))
sentAfter(u) == IF ws.closing THEN seen ELSE [seen EXCEPT !.sent = Append(@, u)]

uncorkLocked(s) == [s EXCEPT !.corked = FALSE, !.cork = <<>>]

calls(t, err) == [k EXCEPT ![t] = [pc |-> "lock", err |-> err]]
returned(t) == k[t].pc = "none"

\* Mutant of closeLock: the corked frames are left for OnData to write out.
closeLockCorked(t) ==
    /\ k[t].pc = "lock"
    /\ IF ws.closing
       THEN k' = [k EXCEPT ![t].pc = "none"] /\ UNCHANGED <<e, ws, seen>>
       ELSE LET u == Unit(Code[k[t].err], "close")
            IN /\ ws' = [ws EXCEPT !.closing = TRUE, !.closeErr = k[t].err]
               /\ e' = Written(<<u>>)
               /\ seen' = [seen EXCEPT !.sent = Append(@, u)]
               /\ k' = [k EXCEPT ![t].pc = "deadline"]
    /\ UNCHANGED <<sc, cl, http, a>>

closeLock(t) ==
    /\ k[t].pc = "lock"
    /\ IF ws.closing
       THEN k' = [k EXCEPT ![t].pc = "none"] /\ UNCHANGED <<e, ws, seen>>
       ELSE LET u == Unit(Code[k[t].err], "close")
            IN /\ ws' = [uncorkLocked(ws) EXCEPT !.closing = TRUE, !.closeErr = k[t].err]
               /\ e' = Written(Append(ws.cork, u))
               /\ seen' = [seen EXCEPT !.sent = Append(@, u)]
               /\ k' = [k EXCEPT ![t].pc = "deadline"]
    /\ UNCHANGED <<sc, cl, http, a>>

closeDeadline(t) ==
    /\ k[t].pc = "deadline"
    /\ e' = [e EXCEPT !.deadline = "closing"]
    /\ k' = [k EXCEPT ![t].pc = "close"]
    /\ UNCHANGED <<sc, cl, http, ws, a, seen>>

closeConn(t) ==
    /\ k[t].pc = "close"
    /\ e' = [e EXCEPT !.closing = TRUE]
    /\ k' = [k EXCEPT ![t].pc = "none"]
    /\ UNCHANGED <<sc, cl, http, ws, a, seen>>

(***************************************************************************)
(* OnData, in the connection's task                                        *)
(***************************************************************************)

OnDataEarly ==
    /\ e.task = "ws.OnData" /\ ws.phase # "opened"
    /\ e' = [e EXCEPT !.task = "idle"]
    /\ seen' = [seen EXCEPT !.kept = TRUE]
    /\ UNCHANGED <<sc, cl, http, ws, k, a>>

OnDataBegins ==
    /\ e.task = "ws.OnData" /\ ws.phase = "opened"
    /\ e' = [e EXCEPT !.task = "ws"]
    /\ ws' = [ws EXCEPT !.at = "loop", !.n = 0]
    /\ seen' = [seen EXCEPT !.kept = FALSE]
    /\ UNCHANGED <<sc, cl, http, k, a>>

TaskAt(at) == e.task = "ws" /\ ws.at = at /\ returned("task")

\* The frame after the n halves processed so far, what there is of it, and checkHeader.
frame == (Consumed + ws.n) \div 2 + 1
have == e.data - ws.n
invalid(kind) == \/ kind \notin Frames
                 \/ kind \in {"more", "rest"} /\ ws.message = 0
                 \/ kind \in Whole \cup {"begin"} /\ ws.message # 0
size(kind) == IF kind = "big" THEN MaxMessage + 1 ELSE 1
tooBig(kind) == kind \notin Control /\ size(kind) > MaxMessage - ws.length
accepted == ~ws.closing /\ have > 0 /\ ~invalid(Kind(frame)) /\ ~tooBig(Kind(frame))

loopEnds ==
    /\ TaskAt("loop") /\ (ws.closing \/ have = 0 \/ (accepted /\ have = 1))
    /\ ws' = [ws EXCEPT !.at = "uncork"]
    /\ UNCHANGED <<sc, cl, http, e, k, a, seen>>

readFrameRejects ==
    /\ TaskAt("loop") /\ ~ws.closing /\ have > 0 /\ ~accepted
    /\ ws' = [ws EXCEPT !.at = "uncork"]
    /\ k' = calls("task", IF invalid(Kind(frame)) THEN "protocol" ELSE "tooBig")
    /\ UNCHANGED <<sc, cl, http, e, a, seen>>

readFrame ==
    /\ TaskAt("loop") /\ accepted /\ have > 1
    /\ ws' = [ws EXCEPT !.at = IF have > 2 /\ ~ws.corking THEN "cork" ELSE "frame"]
    /\ UNCHANGED <<sc, cl, http, e, k, a, seen>>

cork ==
    /\ TaskAt("cork")
    /\ ws' = [ws EXCEPT !.corking = TRUE, !.corked = TRUE, !.at = "frame"]
    /\ UNCHANGED <<sc, cl, http, e, k, a, seen>>

\* The frame has been processed; the last fragment's message is released.
processed == [ws EXCEPT !.n = @ + 2, !.at = "loop",
                        !.message = IF Kind(frame) = "rest" THEN 0 ELSE @,
                        !.length = IF Kind(frame) = "rest" THEN 0 ELSE @]

readPing ==
    /\ TaskAt("frame") /\ Kind(frame) = "ping"
    /\ LET pong == Unit(frame, "pong")
       IN ws' = [processed EXCEPT !.cork = corkAfter(pong)] /\ e' = outAfter(pong) /\ seen' = sentAfter(pong)
    /\ UNCHANGED <<sc, cl, http, k, a>>

onCloseFrame ==
    /\ TaskAt("frame") /\ Kind(frame) = "close"
    /\ ws' = processed
    /\ k' = calls("task", "peer")
    /\ UNCHANGED <<sc, cl, http, e, a, seen>>

readFragment ==
    /\ TaskAt("frame") /\ Kind(frame) \in {"begin", "more"}
    /\ ws' = [processed EXCEPT !.message = IF @ = 0 THEN frame ELSE @, !.length = @ + 1]
    /\ UNCHANGED <<sc, cl, http, e, k, a, seen>>

\* deliver: what is not UTF-8 ends the connection, and closing is looked at once more.
deliver ==
    /\ TaskAt("frame") /\ Kind(frame) \in Whole \cup {"rest"}
    /\ k' = IF Kind(frame) = "notUtf8" THEN calls("task", "utf8") ELSE k
    /\ ws' = IF Kind(frame) = "notUtf8" \/ ws.closing THEN [processed EXCEPT !.finished = TRUE]
             ELSE [ws EXCEPT !.finished = TRUE, !.at = "OnMessage"]
    /\ UNCHANGED <<sc, cl, http, e, a, seen>>

OnMessage ==
    /\ TaskAt("OnMessage")
    /\ seen' = [seen EXCEPT !.calls = Append(@, frame)]
    /\ ws' = [ws EXCEPT !.at = "callback"]
    /\ UNCHANGED <<sc, cl, http, e, k, a>>

callbackReplies ==
    /\ TaskAt("callback") /\ Kind(frame) \in {"text", "rest"}
    /\ LET reply == Unit(frame, "reply")
       IN ws' = [processed EXCEPT !.cork = corkAfter(reply)] /\ e' = outAfter(reply) /\ seen' = sentAfter(reply)
    /\ UNCHANGED <<sc, cl, http, k, a>>

callbackCloses ==
    /\ TaskAt("callback") /\ Kind(frame) = "bye"
    /\ ws' = processed
    /\ k' = calls("task", "local")
    /\ UNCHANGED <<sc, cl, http, e, a, seen>>

\* The Handler panics: OnData uncorks and closes, then the engine closes the connection
\* at once.
uncorked(s) == [uncorkLocked(s) EXCEPT !.corking = FALSE]
callbackPanics ==
    /\ TaskAt("callback") /\ Kind(frame) = "boom"
    /\ ws' = [uncorked(ws) EXCEPT !.at = "panicked"]
    /\ e' = Written(ws.cork)
    /\ k' = calls("task", "panic")
    /\ UNCHANGED <<sc, cl, http, a, seen>>

panicked ==
    /\ TaskAt("panicked")
    /\ ws' = [ws EXCEPT !.at = "none"]
    /\ e' = [e EXCEPT !.closing = TRUE, !.closed = TRUE, !.out = <<>>, !.task = "OnClose"]
    /\ cl' = [cl EXCEPT !.got = @ \o SubSeq(e.out, 1, Min({SndBuf, Len(e.out)}))]
    /\ UNCHANGED <<sc, http, k, a, seen>>

uncork ==
    /\ TaskAt("uncork")
    /\ ws' = [IF ws.corking THEN uncorked(ws) ELSE ws EXCEPT !.at = "end"]
    /\ e' = IF ws.corking THEN Written(ws.cork) ELSE e
    /\ UNCHANGED <<sc, cl, http, k, a, seen>>

OnDataDiscards ==
    /\ TaskAt("end") /\ ws.closing
    /\ ws' = [ws EXCEPT !.at = "none"]
    /\ e' = [e EXCEPT !.data = 0, !.task = "idle"]
    /\ UNCHANGED <<sc, cl, http, k, a, seen>>

OnDataEnds ==
    /\ TaskAt("end") /\ ~ws.closing
    /\ ws' = [ws EXCEPT !.at = "deadline"]
    /\ UNCHANGED <<sc, cl, http, e, k, a, seen>>

(***************************************************************************)
(* updateDeadline: MessageTimeout while something is incomplete, counted   *)
(* from when it was first seen; IdleTimeout otherwise                      *)
(***************************************************************************)

received == Consumed + e.data
pendingFrame == IF ws.message # 0 THEN ws.message ELSE IF have > 0 THEN frame ELSE 0
pending == pendingFrame # 0
sight == [seen EXCEPT !.pending = pendingFrame,
                      !.since = IF pendingFrame = seen.pending THEN @ ELSE received]

updateDeadline ==
    /\ TaskAt("deadline")
    /\ LET sets == pending /\ (~ws.receiving \/ ws.finished)
       IN /\ ws' = [ws EXCEPT !.finished = FALSE, !.receiving = pending, !.at = "check",
                              !.armed = IF sets THEN received ELSE @]
          /\ e' = [e EXCEPT !.deadline = IF ~pending THEN "wsIdle" ELSE IF sets THEN "message" ELSE @]
    /\ seen' = sight
    /\ UNCHANGED <<sc, cl, http, k, a>>

\* Mutant of updateDeadlineChecks: OnData's earlier look at closing is relied on.
updateDeadlineTrusts ==
    /\ TaskAt("check")
    /\ ws' = [ws EXCEPT !.at = "none"]
    /\ e' = [e EXCEPT !.data = @ - ws.n, !.task = "idle"]
    /\ UNCHANGED <<sc, cl, http, k, a, seen>>

\* closeWith may have set its deadline before this one did; OnData returns.
updateDeadlineChecks ==
    /\ TaskAt("check")
    /\ ws' = [ws EXCEPT !.at = "none"]
    /\ e' = [e EXCEPT !.deadline = IF ws.closing THEN "closing" ELSE @, !.data = @ - ws.n, !.task = "idle"]
    /\ UNCHANGED <<sc, cl, http, k, a, seen>>

(***************************************************************************)
(* OnWritable and OnClose; Upgrade and OnOpen on fhttp's worker            *)
(***************************************************************************)

OnWritable ==
    /\ e.task = "ws.OnWritable"
    /\ e' = [e EXCEPT !.task = "idle"]
    /\ a' = [a EXCEPT !.pc = IF ws.phase = "opened" THEN "run" ELSE @]
    /\ UNCHANGED <<sc, cl, http, ws, k, seen>>

OnCloseLocks ==
    /\ e.task = "ws.OnClose" /\ ws.at = "none"
    /\ ws' = [ws EXCEPT !.at = "OnClose", !.closing = TRUE, !.closeErr = IF ws.closing THEN @ ELSE "engine",
                        !.length = 0]
    /\ UNCHANGED <<sc, cl, http, e, k, a, seen>>

called(c0) == [seen EXCEPT !.calls = Append(@, c0), !.err = IF c0 = OnCloseCall THEN ws.closeErr ELSE @]

OnClose ==
    /\ e.task = "ws.OnClose" /\ ws.at = "OnClose"
    /\ ws' = [ws EXCEPT !.at = "none", !.phase = IF @ = "opening" THEN "closedEarly" ELSE @]
    /\ seen' = IF ws.phase = "opening" THEN seen ELSE called(OnCloseCall)
    /\ e' = [e EXCEPT !.task = "done"]
    /\ UNCHANGED <<sc, cl, http, k, a>>

\* newProtocol: no reads until OnOpen returns, and the deadline of an idle connection.
newWebSocket ==
    /\ At("newProtocol") /\ Is({"websocket"})
    /\ ws' = [ws EXCEPT !.phase = "opening"]
    /\ e' = [e EXCEPT !.paused = TRUE, !.deadline = "wsIdle"]
    /\ w' = goes("switch")
    /\ UNCHANGED <<sc, cl, c, tasks, p, k, a, seen>>

OnOpen ==
    /\ At("OnOpen")
    /\ seen' = called(OnOpenCall)
    /\ k' = IF May("openPanics") THEN calls("worker", "panic")
            ELSE IF May("openCloses") THEN calls("worker", "local") ELSE k
    /\ w' = [w EXCEPT !.pc = "opened", !.failed = May("openPanics")]
    /\ UNCHANGED <<sc, cl, c, tasks, p, e, ws, a>>

\* Mutant of opened: the close that came before OnOpen returned is not made up for.
openedForgets ==
    /\ At("opened") /\ returned("worker")
    /\ ws' = [ws EXCEPT !.phase = "opened"]
    /\ w' = goes("wsResume")
    /\ UNCHANGED <<sc, cl, c, tasks, p, e, k, a, seen>>

\* OnOpen has returned, or panicked and the connection was closed for it.
opened ==
    /\ At("opened") /\ returned("worker")
    /\ IF ws.phase = "opening"
       THEN ws' = [ws EXCEPT !.phase = "opened"] /\ w' = goes("wsResume") /\ UNCHANGED seen
       ELSE seen' = called(OnCloseCall) /\ w' = goes("upgraded") /\ UNCHANGED ws
    /\ UNCHANGED <<sc, cl, c, tasks, p, e, k, a>>

wsResume ==
    /\ At("wsResume")
    /\ e' = Resumed
    /\ w' = goes("upgraded")
    /\ UNCHANGED <<sc, cl, c, tasks, p, ws, k, a, seen>>

(***************************************************************************)
(* A goroutine of the application, once OnOpen has given it the connection *)
(***************************************************************************)

HasConn == seen.calls # <<>>

\* It sends what it has while Writable reports true.
appSends ==
    /\ HasConn /\ a.pc = "run" /\ a.left > 0
    /\ IF Writable
       THEN LET push == Unit(0, "push")
            IN /\ ws' = [ws EXCEPT !.cork = corkAfter(push)] /\ e' = outAfter(push) /\ seen' = sentAfter(push)
               /\ a' = [a EXCEPT !.left = @ - 1]
       ELSE a' = [a EXCEPT !.pc = "again"] /\ UNCHANGED <<e, ws, seen>>
    /\ UNCHANGED <<sc, cl, http, k>>

\* It has started to wait for OnWritable, and looks once more.
appWaits ==
    /\ a.pc = "again"
    /\ a' = [a EXCEPT !.pc = IF Writable THEN "run" ELSE "wait"]
    /\ seen' = [seen EXCEPT !.early = ~Writable /\ ws.phase = "opening"]
    /\ UNCHANGED <<sc, cl, http, e, ws, k>>

appCloses ==
    /\ HasConn /\ a.close = "due"
    /\ a' = [a EXCEPT !.close = "called"]
    /\ k' = calls("app", "local")
    /\ UNCHANGED <<sc, cl, http, e, ws, seen>>

\* deliver has looked at closing and is about to call OnMessage.
PassedItsCheck == ws.at = "OnMessage"

appClosed ==
    /\ a.close = "called" /\ returned("app")
    /\ a' = [a EXCEPT !.close = "done"]
    /\ seen' = [seen EXCEPT !.closed = Len(seen.calls) + IF PassedItsCheck THEN 1 ELSE 0]
    /\ UNCHANGED <<sc, cl, http, e, ws, k>>

CloseStep == \E t \in Threads : closeLock(t) \/ closeDeadline(t) \/ closeConn(t)
OnDataStep == \/ OnDataEarly \/ OnDataBegins \/ loopEnds \/ readFrameRejects \/ readFrame \/ cork
              \/ readPing \/ onCloseFrame \/ readFragment \/ deliver \/ OnMessage
              \/ callbackReplies \/ callbackCloses \/ callbackPanics \/ panicked
              \/ uncork \/ OnDataDiscards \/ OnDataEnds \/ updateDeadline \/ updateDeadlineChecks
WsStep == \/ CloseStep \/ OnDataStep \/ OnWritable \/ OnCloseLocks \/ OnClose
          \/ newWebSocket \/ OnOpen \/ opened \/ wsResume
          \/ appSends \/ appWaits \/ appCloses \/ appClosed

\* A client sends frames once it has received the 101.
MaySend == Kind(cl.sent \div 2 + 1) \in Frames => \E j \in 1..Len(cl.got) : cl.got[j].part = "switching"
Client == (clientSends /\ MaySend) \/ clientCloses

WebNext == \/ (EngineStep \/ Client) /\ UNCHANGED <<http, websocket>>
           \/ (HttpStep \/ protocolResumes) /\ UNCHANGED websocket
           \/ WsStep

(***************************************************************************)
(* What a Handler and a client rely on                                     *)
(***************************************************************************)

Open == ws.phase = "opened" /\ toWebSocket /\ Alive /\ ~ws.closing
Quiet == Open /\ e.task = "idle"
sentFrames == SelectSeq(wire, LAMBDA u : u.part \in FrameParts)

\* The frames on the wire are those that were written (WriteMessage, closeWith, cork): in
\* order, none doubled, none left in the cork buffer after OnData, every one of them before
\* the close frame, and nothing after it; an application that waits for OnWritable, since
\* OnOpen returned, gets it.
FramesAreExact ==
    /\ IsPrefix(sentFrames, seen.sent)
    /\ Alive => sentFrames \o ws.cork = seen.sent
    /\ \A j \in 1..Len(seen.sent) : seen.sent[j].part = "close" => j = Len(seen.sent)
    /\ ws.corked \/ ws.cork # <<>> => e.task = "ws"
    /\ a.pc = "wait" /\ ~seen.early /\ Open => WakeComes \/ e.task = "ws.OnWritable"

\* OnData left data in the engine because OnOpen had not returned, and has not run since.
KeptEarly == seen.kept

\* The messages among the frames, in the order they come.
MessageFrames == SelectSeq([j \in 1..Len(sc.requests) |-> j],
                           LAMBDA j : j > c.protocol /\ Kind(j) \in {"text", "bye", "boom", "rest"})
messages == SelectSeq(seen.calls, LAMBDA x : x > 0)

\* A Handler's callbacks (OnData, deliver, OnClose, Upgrade): OnOpen first, OnClose last and
\* once, for the reason that closed the connection first; not one before OnOpen has
\* returned; every message once, in order and without waiting for more data; and none
\* after Close has returned. Two cases are excepted by name. PassedItsCheck: deliver had
\* found the connection open when Close was called, and OnMessage starts after Close has
\* returned, though conn.go:120 says it is "no longer called" then. KeptEarly: the data a
\* read took before OnOpen had returned does wait for more (DataWaitsForOnOpen is about it).
CallbacksAreExact ==
    /\ \A j \in 1..Len(seen.calls) : /\ seen.calls[j] = OnOpenCall <=> j = 1
                                     /\ seen.calls[j] = OnCloseCall => j = Len(seen.calls) /\ e.closed
    /\ At("opened") => e.task # "ws"
    /\ IsPrefix(messages, MessageFrames)
    /\ Quiet => Len(messages) = Cardinality({j \in Range(MessageFrames) : 2 * j <= Consumed})
    /\ Quiet /\ ~KeptEarly => e.data < 2
    /\ seen.closed # -1 => \A j \in seen.closed + 1..Len(seen.calls) : seen.calls[j] <= 0
    /\ e.task = "done" /\ tasks = 0 /\ seen.calls # <<>>
         => /\ Last(seen.calls) = OnCloseCall
            /\ LET final == Last(seen.sent)
               IN IF seen.sent # <<>> /\ final.part = "close" THEN seen.err # "engine" /\ final.i = Code[seen.err]
                  ELSE seen.err = "engine"

\* The deadline (updateDeadline, closeWith): IdleTimeout with nothing incomplete;
\* MessageTimeout with something incomplete, counted from no later than when it was first
\* seen, whatever arrived since; closeTimeout once closing, which "must stand"
\* (conn.go:291) and which no OnData undoes. One case is excepted by name, OpenPanicked:
\* there closeFromWorker (fhttp/conn.go:397) replaces closeTimeout by fhttp's IdleTimeout,
\* and the connection may wait that long for the peer to take the close frame.
OpenPanicked == May("openPanics") /\ c.worker = "closing" /\ tasks = 0
WebSocketDeadlineIsExact ==
    /\ Quiet /\ ~KeptEarly /\ e.deadline # "header"
         => IF ws.message # 0 \/ e.data > 0 THEN e.deadline = "message" /\ ws.armed <= seen.since
            ELSE e.deadline = "wsIdle"
    /\ ws.closing /\ ~e.closed /\ ws.at # "check" /\ (\A t \in Threads : returned(t))
         => e.closing /\ e.deadline = IF OpenPanicked THEN "idle" ELSE "closing"

\* What a Handler sees of its connection: the callbacks, and how long it is kept, but for
\* PassedItsCheck, KeptEarly and OpenPanicked, where the code does otherwise.
WebSocketIsExact == CallbacksAreExact /\ WebSocketDeadlineIsExact

\* websocket.go:181 says of the pause that Upgrade makes: "no reads until OnOpen returns:
\* peer data sent after the 101 waits in the kernel". A read that had passed its check
\* before the pause takes it all the same; OnData leaves it in the engine, and once OnOpen
\* has returned nothing hands it on before more arrives.
DataWaitsForOnOpen == Quiet /\ e.rx = 0 /\ ~e.paused /\ ~e.resumed /\ ~e.again => e.data < 2

=============================================================================
