------------------------------- MODULE Engine -------------------------------
(***************************************************************************)
(* A connection of the engine as the packages above it see it: fnet.Conn   *)
(* and the callbacks of fnet.Handler, with the client at the other end.    *)
(* (Module Conn has the engine's own side of it: the events, the task that *)
(* takes them and the locks.)                                              *)
(*                                                                         *)
(* The task runs one callback at a time: task names the callback that is   *)
(* due, and the package above returns from it by making the task idle      *)
(* again.  What the client sends arrives in halves, two to a request, a    *)
(* frame or a record; what goes to it is a sequence of units, the first    *)
(* SndBuf of them in the socket, the rest in the send buffer.              *)
(***************************************************************************)
EXTENDS Integers, Sequences, SequencesExt

CONSTANTS
    SndBuf,      \* what the socket holds, in units
    MaxBacklog,  \* what Conn.Writable allows in the send buffer, in units
    Scenarios    \* the packages above, what a client sends, and what else may happen

\* Layers: a handler with an OnClosing (ftls), or without one (fhttp).
Layers == {"http", "tls"}

ASSUME EngineAssumption ==
    /\ SndBuf \in Nat \ {0} /\ MaxBacklog \in Nat
    /\ \A s \in Scenarios : s.layer \in Layers /\ s.requests \in Seq(STRING)

VARIABLES
    sc,   \* the scenario
    e,    \* the connection and the callback its task is in
    cl    \* the client: the halves it has sent, whether it has closed, what it has received

EngineInit ==
    /\ sc \in Scenarios
    /\ e = [task |-> "idle", rx |-> 0, data |-> 0, again |-> FALSE, paused |-> FALSE, resumed |-> FALSE,
            readClosed |-> FALSE, closing |-> FALSE, now |-> FALSE, closed |-> FALSE, out |-> <<>>,
            deadline |-> "idle"]
    /\ cl = [sent |-> 0, fin |-> FALSE, got |-> <<>>]

May(input) == input \in sc.inputs
Kind(i) == sc.requests[i]

Writable == Len(e.out) <= SndBuf + MaxBacklog
\* Write and Writev fail once a close has been requested or the connection is gone.
Refused == e.closing \/ e.closed
Written(u) == [e EXCEPT !.out = IF Refused THEN @ ELSE @ \o u]
Resumed == [e EXCEPT !.paused = FALSE, !.resumed = TRUE, !.again = TRUE]
Alive == ~e.closing /\ ~e.closed

\* The task is between callbacks and the connection is open.
Free == e.task = "idle" /\ ~e.closed

\* handle looks whether it may read; read reads afterwards, whatever has been paused or
\* requested meanwhile.
handleEvents ==
    /\ Free /\ ~e.paused /\ ~e.readClosed /\ Writable
    /\ e.rx > 0 \/ e.again \/ (cl.fin /\ ~e.closing)
    /\ e' = [e EXCEPT !.task = "read", !.again = FALSE]
    /\ UNCHANGED <<sc, cl>>

\* Mutant of read: what arrives after a close request is passed on.
readPassesOn ==
    /\ e.task = "read" /\ e.rx > 0
    /\ \E n \in 1..e.rx, full \in BOOLEAN :
         /\ (n < e.rx => full) /\ (full => n < e.rx \/ May("full"))
         /\ e' = [e EXCEPT !.rx = @ - n, !.again = full, !.task = "OnData", !.data = @ + n]
    /\ UNCHANGED <<sc, cl>>

\* A read that fills the buffer makes another one follow. Data is passed on with what the
\* handler left unconsumed, unless a close has been requested: then it is read away.
read ==
    /\ e.task = "read" /\ e.rx > 0
    /\ \E n \in 1..e.rx, full \in BOOLEAN :
         /\ (n < e.rx => full) /\ (full => n < e.rx \/ May("full"))
         /\ e' = [e EXCEPT !.rx = @ - n, !.again = full, !.task = IF e.closing THEN "idle" ELSE "OnData",
                           !.data = IF e.closing THEN @ ELSE @ + n]
    /\ UNCHANGED <<sc, cl>>

readNothing ==
    /\ e.task = "read" /\ e.rx = 0
    /\ e' = [e EXCEPT !.task = IF cl.fin /\ ~e.closing THEN "OnHalfClose" ELSE "idle"]
    /\ UNCHANGED <<sc, cl>>

resumes ==
    /\ Free /\ e.resumed /\ ~e.paused
    /\ e' = [e EXCEPT !.resumed = FALSE, !.task = "OnResume"]
    /\ UNCHANGED <<sc, cl>>

\* The client takes a unit. The task is needed to flush what the socket had no room for,
\* and calls OnWritable when the send buffer comes back down.
takes ==
    /\ e.out # <<>> /\ ~e.closed
    /\ Len(e.out) > SndBuf => e.task = "idle"
    /\ e' = [e EXCEPT !.out = Tail(@), !.task = IF Len(e.out) = SndBuf + MaxBacklog + 1 THEN "OnWritable" ELSE @]
    /\ cl' = [cl EXCEPT !.got = Append(@, Head(e.out))]
    /\ UNCHANGED sc

\* The connection fails: no OnClosing, and nothing is sent any more.
fails ==
    /\ Free /\ May("reset") /\ ~e.now
    /\ e' = [e EXCEPT !.closing = TRUE, !.now = TRUE]
    /\ UNCHANGED <<sc, cl>>

\* Its deadline passes, or the server is closing: OnClosing comes first, unless a close
\* has been requested already.
isClosing == IF sc.layer = "tls" /\ ~e.closing THEN [e EXCEPT !.task = "OnClosing"] ELSE e
timesOut ==
    /\ Free /\ ~e.now
    /\ May("shutdown") \/ (May("expire") /\ e.deadline # "none")
    /\ e' = [isClosing EXCEPT !.now = TRUE, !.closing = @ \/ isClosing.task = "idle"]
    /\ UNCHANGED <<sc, cl>>

requestClose ==
    /\ e.task = "requestClose"
    /\ e' = [e EXCEPT !.closing = TRUE, !.task = "idle"]
    /\ UNCHANGED <<sc, cl>>

\* A close that was requested is carried out once the send buffer is empty, or now.
\* What the socket holds still reaches the client.
closes ==
    /\ Free /\ e.closing /\ (e.now \/ Len(e.out) <= SndBuf)
    /\ e' = [e EXCEPT !.closed = TRUE, !.out = <<>>, !.task = "OnClose"]
    /\ cl' = [cl EXCEPT !.got = @ \o SubSeq(e.out, 1, IF Len(e.out) < SndBuf THEN Len(e.out) ELSE SndBuf)]
    /\ UNCHANGED sc

\* Detach waits for a running callback, and writes out what the engine holds, or gives up
\* when the deadline passes first; either way the engine is done with the connection.
Detached == [e EXCEPT !.closed = TRUE, !.out = <<>>, !.task = "done"]

clientSends ==
    /\ ~cl.fin /\ ~e.closed /\ cl.sent < 2 * Len(sc.requests)
    /\ cl' = [cl EXCEPT !.sent = @ + 1]
    /\ e' = [e EXCEPT !.rx = @ + 1]
    /\ UNCHANGED sc

clientCloses ==
    /\ May("fin") /\ ~cl.fin /\ ~e.closed
    /\ cl' = [cl EXCEPT !.fin = TRUE]
    /\ UNCHANGED <<sc, e>>

\* The halves the callbacks have consumed, and the units sent.
Consumed == cl.sent - e.rx - e.data
wire == cl.got \o e.out

EngineStep == handleEvents \/ read \/ readNothing \/ resumes \/ takes \/ fails \/ timesOut \/ requestClose \/ closes

=============================================================================
