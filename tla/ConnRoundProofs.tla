-------------------------- MODULE ConnRoundProofs --------------------------
(***************************************************************************)
(* The inductive invariant of a connection (module Conn), and that the     *)
(* steps of its task keep it: whatever a round of the task does, for any   *)
(* sizes.                                                                  *)
(*                                                                         *)
(* The invariant says who has the task (Serial, OneDetach), what is held   *)
(* before, during and after the life of the connection (Opens, Holds,      *)
(* Ends), what the send buffer has to do with closing (Sent), and, for     *)
(* everything that could be stranded, on which way its event still is      *)
(* (Output, Closes, Hangup, Input).                                        *)
(***************************************************************************)
EXTENDS Conn, TLAPS

DetachSteps == {"tookOver", "taken", "deleted", "removed"}

\* What the goroutines are at, and what is on its way to the task.
Calls == {call[g] : g \in Goroutines}
Pending == events \cup UNION {polled[p] : p \in Pollers}
HangupPending == \E evs \in {polled[p] : p \in Pollers} \cup {events} : {"Read", "Hup"} \subseteq evs

\* The steps of handle, and the ones of close once closed is set.
InHandle == {"watch", "flush", "read", "closeOnEOF", "reason", "requestClose", "OnOpen", "OnWritable",
             "OnResume", "OnData", "OnHalfClose", "OnClosingEOF", "OnClosing"}
InClose == {"remove", "closeFd", "OnClose"}
OnEOF == {"OnHalfClose", "OnClosingEOF", "closeOnEOF"}

\* The queue, the round or Detach has the task, and whoever closed the connection
\* keeps it.
Serial ==
    /\ queued => scheduled /\ t.pc = "none" /\ ~c.closed
    /\ t.pc # "none" => scheduled
    /\ events # {} => scheduled
    /\ c.closed => scheduled /\ t.pc \in InClose \cup {"none", "finish"}
    /\ t.pc \in InClose => c.closed
    /\ Calls \cap DetachSteps # {} => scheduled /\ ~queued /\ t.pc = "none"
    /\ "tookOver" \in Calls => ~c.closed
    /\ Calls \cap {"taken", "deleted", "removed"} # {} => c.closed

\* There is one Detach at a time.
OneDetach == \A g, h \in Goroutines : call[g] \in DetachSteps /\ call[h] \in DetachSteps => g = h

\* Before OnOpen nobody has the connection.
Opens ==
    /\ "Open" \in events => queued /\ seen.opened = 0
    /\ seen.opened = 0 => /\ "Open" \in events \/ t.pc = "watch" \/ c.closed
                          /\ Calls \subseteq {"none"}
                          /\ ~c.closing /\ c.out = 0 /\ ~seen.owed
    /\ t.pc = "watch" => seen.opened = 0 /\ ~c.closed /\ srv.inTable
    /\ t.pc \in (InHandle \ {"watch"}) \cup InClose \cup {"close"} => seen.opened = 1
    /\ seen.opened = 1 /\ ~c.closed => srv.inTable /\ k.watched

\* What is held: the table entry, the fd and the count.
Holds ==
    /\ srv.inTable => ~c.closed \/ t.pc = "remove" \/ "taken" \in Calls \/ "deleted" \in Calls
    /\ ~k.open => /\ c.closed /\ t.pc \in {"none", "finish", "OnClose"}
                  /\ Calls \cap {"taken", "deleted", "removed"} = {}
    /\ srv.wg = IF ~c.closed \/ t.pc \in InClose \/ "taken" \in Calls \/ "deleted" \in Calls THEN 1 ELSE 0

\* OnClose comes last, with the reason that was found.
Ends ==
    /\ seen.closes = 0 \/ (seen.closes = 1 /\ c.closed /\ t.pc \in {"OnClose", "finish", "none"})
    /\ t.pc = "OnClose" => seen.closes = 1
    /\ t.pc \in {"close", "remove", "closeFd"} => t.err \in {c.closeErr, "panic"}
    /\ seen.closes = 1 => seen.reason \in {c.closeErr, "panic"}

\* What Write has accepted and the socket has not is in the send buffer.
Sent ==
    /\ c.backlogged <=> c.out > 0
    /\ c.closed => c.out = 0
    /\ ~c.closed => seen.unsent = c.out
    /\ t.pc = "close" /\ t.err \in Graceful => c.closing /\ c.out = 0
    /\ t.pc \in {"remove", "closeFd"} /\ t.err \in Graceful => seen.unsent = 0
    /\ seen.closes = 1 /\ seen.reason \in Graceful => seen.unsent = 0
    /\ seen.owed => c.out > MaxBacklog \/ c.closed

\* The backlog waits for space, or a flush is on its way.
Output ==
    c.out > 0 /\ ~c.closed =>
        \/ k.nospace
        \/ k.armed /\ (k.space > 0 \/ k.reset)
        \/ "Write" \in Pending \/ "wrote" \in Calls
        \/ t.pc \in {"watch", "OnOpen", "flush"} /\ "Write" \in t.ev
        \/ c.closing /\ c.closeErr \notin Graceful
        \/ t.pc = "close"

\* A requested close waits for the backlog, or a look at it is on its way.
Closes ==
    /\ t.pc \in {"watch", "OnOpen", "flush"} => ~t.drained
    /\ c.closing /\ ~c.closed =>
        \/ c.out > 0 /\ c.closeErr \in Graceful
        \/ "Close" \in events \/ "closeRequested" \in Calls
        \/ t.pc \in InHandle /\ (t.drained \/ "Close" \in t.ev)
        \/ t.pc = "close"

\* The peer's hangup is known, or on its way together with evRead.
Hangup ==
    seen.opened = 1 /\ ~c.closed /\ (k.fin \/ k.reset) => c.peerClosed \/ k.armed \/ HangupPending

\* What there is to read cannot be read, or a read is on its way.
Input ==
    /\ t.pc \in OnEOF => k.rx = 0 /\ k.fin
    /\ seen.opened = 1 /\ ~c.closed /\ (k.rx > 0 \/ ((k.fin \/ k.reset) /\ ~c.closing)) =>
        \/ c.readPaused \/ c.readClosed \/ c.out > MaxBacklog
        \/ k.armed \/ "Read" \in Pending \/ "resumed" \in Calls
        \/ t.pc \in {"OnOpen", "flush", "OnWritable", "OnResume", "read"} /\ "Read" \in t.ev
        \/ t.pc \in OnEOF \cup {"close"}

IInv == TypeOK /\ Serial /\ OneDetach /\ Opens /\ Holds /\ Ends /\ Sent /\ Output /\ Closes /\ Hangup /\ Input

(***************************************************************************)
(* Types                                                                   *)
(***************************************************************************)
TType == [pc : Steps \cup Callbacks, ev : SUBSET Events, drained : BOOLEAN, err : Reasons]
CType == [readPaused : BOOLEAN, backlogged : BOOLEAN, closing : BOOLEAN, closed : BOOLEAN,
          peerClosed : BOOLEAN, readClosed : BOOLEAN, in : Nat, out : Nat,
          closeErr : Reasons, deadline : {"none", "set", "due"}]
KType == [open : BOOLEAN, rx : Nat, fin : BOOLEAN, reset : BOOLEAN, space : 0..SndBuf,
          nospace : BOOLEAN, watched : BOOLEAN, armed : BOOLEAN]
SrvType == [inTable : BOOLEAN, phase : {"serving", "draining", "notified"}, wg : Int]
SeenType == [opened : 0..1, closes : Nat, reason : Reasons, owed : BOOLEAN, unsent : Nat]

Types == /\ events \subseteq Events /\ scheduled \in BOOLEAN /\ queued \in BOOLEAN
         /\ t \in TType /\ c \in CType /\ k \in KType
         /\ polled \in [Pollers -> SUBSET PollEvents] /\ call \in [Goroutines -> CallSteps]
         /\ srv \in SrvType /\ left \in Bounds /\ seen \in SeenType

\* TypeOK, with a name for the type of each record.
LEMMA TypesAre == (TypeOK <=> Types) /\ (TypeOK' <=> Types')
  BY DEF TypeOK, Types, TType, CType, KType, SrvType, SeenType

\* The round goes on: its events are the ones the rest of it looks at.
LEMMA To ==
    ASSUME t \in TType, NEW pc \in Steps \cup Callbacks
    PROVE  /\ to(pc) \in TType /\ to(pc).pc = pc /\ to(pc).drained = t.drained /\ to(pc).err = t.err
           /\ to(pc).ev \subseteq t.ev /\ ("Close" \in t.ev => "Close" \in to(pc).ev)
           /\ pc \in {"watch", "OnOpen", "flush"} => to(pc).ev = t.ev
           /\ pc \in {"OnWritable", "OnResume", "read"} /\ "Read" \in t.ev => "Read" \in to(pc).ev
  BY Zenon DEF to, TType, Events

\* requestClose changes closing and the reason, and keeps a reason that closes at once.
LEMMA CloseRequested ==
    ASSUME c \in CType, NEW err \in Reasons
    PROVE  /\ closeRequestedFor(err) \in CType
           /\ closeRequestedFor(err) = [c EXCEPT !.closing = TRUE, !.closeErr = closeRequestedFor(err).closeErr]
           /\ closeRequestedFor(err).closeErr = IF err # "nil" /\ c.closeErr \in Graceful THEN err ELSE c.closeErr
  BY Zenon DEF closeRequestedFor, closesNow, CType, Graceful

(***************************************************************************)
(* Steps of a round                                                        *)
(***************************************************************************)

\* What handle leaves alone, and what its notifications do.
RoundGoes ==
    /\ t.pc \in InHandle \ {"watch"} /\ t'.pc \in (InHandle \ {"watch"}) \cup {"close", "finish"}
    /\ events \subseteq events' /\ ("Open" \in events' => "Open" \in events) /\ scheduled' /\ queued' = queued
    /\ UNCHANGED <<polled, call, srv>>
    /\ c'.closed = c.closed /\ k'.open = k.open /\ k'.watched = k.watched
    /\ seen'.opened = seen.opened /\ seen'.closes = seen.closes /\ seen'.reason = seen.reason
    /\ t'.pc = "close" => t'.err \in {c'.closeErr, "panic"}

InRound == ~c.closed /\ seen.opened = 1 /\ ~queued /\ scheduled /\ "Open" \notin events

\* It keeps what is held, and who has the task.
LEMMA RoundKeeps ==
    ASSUME IInv, RoundGoes
    PROVE  /\ Serial' /\ OneDetach' /\ Opens' /\ Holds' /\ Ends'
           /\ Pending \subseteq Pending' /\ Calls' = Calls /\ (HangupPending => HangupPending')
  <1>1. InRound
    BY DEF IInv, Serial, Opens, RoundGoes, InHandle, InClose, InRound
  <1>2. Calls' = Calls /\ Pending \subseteq Pending' /\ (HangupPending => HangupPending')
    BY DEF RoundGoes, Calls, Pending, HangupPending
  <1>3. Serial'
    BY <1>1, <1>2 DEF IInv, Serial, RoundGoes, InHandle, InClose, DetachSteps, InRound
  <1>4. OneDetach'
    BY DEF IInv, OneDetach, RoundGoes
  <1>5. Opens'
    BY <1>1, <1>2 DEF IInv, Opens, RoundGoes, InHandle, InClose, InRound
  <1>6. Holds'
    BY <1>1, <1>2 DEF IInv, Holds, RoundGoes, InHandle, InClose, InRound
  <1>7. Ends'
    BY <1>1, <1>2 DEF IInv, Ends, RoundGoes, InHandle, InClose, InRound
  <1>8. QED
    BY <1>2, <1>3, <1>4, <1>5, <1>6, <1>7

\* A notification out of the round.
LEMMA RoundNotifies ==
    ASSUME IInv, t.pc \in InHandle, NEW evs \in SUBSET (Events \ {"Open"}), notify(evs)
    PROVE  /\ events \subseteq events' /\ evs \subseteq events' /\ events' \subseteq Events
           /\ "Open" \notin events' /\ scheduled' = TRUE /\ queued' = FALSE /\ queued = FALSE
  BY TypesAre DEF IInv, Types, Serial, Opens, notify, InHandle

\* The round still looks at what it has to flush or to read, or a later round will.
StillWrites ==
    \/ c.out = 0 \/ t.pc \notin {"OnOpen", "flush"} \/ "Write" \notin t.ev
    \/ "Write" \in events'
    \/ t'.pc \in {"OnOpen", "flush"} /\ "Write" \in t'.ev

StillReads ==
    \/ t.pc \notin {"OnOpen", "flush", "OnWritable", "OnResume", "read"} \cup OnEOF
    \/ "Read" \notin t.ev /\ t.pc \notin OnEOF
    \/ "Read" \in events'
    \/ t'.pc \in {"OnOpen", "flush", "OnWritable", "OnResume", "read"} /\ "Read" \in t'.ev
    \/ t'.pc \in OnEOF
    \/ c.readPaused \/ c.readClosed \/ c.out > MaxBacklog

\* It goes on within handle.
StaysInHandle ==
    /\ RoundGoes /\ t' \in TType /\ left' \in Bounds /\ events' \subseteq Events
    /\ t'.pc \in InHandle /\ (t'.pc \in {"OnOpen", "flush"} => t.pc = "OnOpen")
    /\ t'.pc \in OnEOF => k.rx = 0 /\ k.fin
    /\ t'.drained = t.drained /\ ("Close" \in t.ev => "Close" \in t'.ev)

\* A round that leaves the connection alone.
LEMMA RoundMoves ==
    ASSUME IInv, StaysInHandle, UNCHANGED <<c, k, seen>>,
           StillWrites, StillReads \/ (k.rx = 0 /\ ~k.fin /\ ~k.reset)
    PROVE  IInv'
  <1>1. /\ Serial' /\ OneDetach' /\ Opens' /\ Holds' /\ Ends'
        /\ Pending \subseteq Pending' /\ Calls' = Calls /\ (HangupPending => HangupPending')
        /\ events \subseteq events' /\ events' \subseteq Pending' /\ t.pc \in InHandle \ {"watch"}
    BY RoundKeeps DEF StaysInHandle, RoundGoes, Pending
  <1>2. TypeOK'
    BY TypesAre DEF Types, IInv, StaysInHandle, RoundGoes
  <1>3. Sent'
    BY <1>1 DEF IInv, Sent, StaysInHandle, RoundGoes, InHandle
  <1>4. Output'
    BY <1>1 DEF IInv, Output, StaysInHandle, StillWrites, InHandle
  <1>5. Closes'
    BY <1>1 DEF IInv, Closes, StaysInHandle, RoundGoes, InHandle
  <1>6. Hangup'
    BY <1>1 DEF IInv, Hangup
  <1>7. Input'
    BY <1>1 DEF IInv, Input, StaysInHandle, StillReads, InHandle, OnEOF
  <1>8. QED
    BY <1>1, <1>2, <1>3, <1>4, <1>5, <1>6, <1>7 DEF IInv

\* A round that requests a close.
LEMMA RoundRequests ==
    ASSUME IInv, StaysInHandle, UNCHANGED <<k, seen>>, c \in CType, c' \in CType, "Close" \in events',
           c' = [c EXCEPT !.closing = TRUE, !.closeErr = c'.closeErr],
           c.closing /\ c.closeErr \notin Graceful => c'.closeErr \notin Graceful,
           c'.closeErr \notin Graceful \/ StillWrites,
           StillReads \/ k.rx = 0
    PROVE  IInv'
  <1>1. /\ Serial' /\ OneDetach' /\ Opens' /\ Holds' /\ Ends'
        /\ Pending \subseteq Pending' /\ Calls' = Calls /\ (HangupPending => HangupPending')
        /\ events \subseteq events' /\ events' \subseteq Pending' /\ t.pc \in InHandle \ {"watch"}
    BY RoundKeeps DEF StaysInHandle, RoundGoes, Pending
  <1>2. TypeOK'
    BY TypesAre DEF Types, IInv, StaysInHandle, RoundGoes
  <1>3. /\ c'.closing = TRUE /\ c'.closed = c.closed /\ c'.out = c.out /\ c'.backlogged = c.backlogged
        /\ c'.readPaused = c.readPaused /\ c'.readClosed = c.readClosed /\ c'.peerClosed = c.peerClosed
    BY Zenon DEF CType
  <1>4. Sent'
    BY <1>1, <1>3 DEF IInv, Sent, StaysInHandle, RoundGoes, InHandle
  <1>5. Output'
    BY <1>1, <1>3 DEF IInv, Output, StaysInHandle, StillWrites, InHandle
  <1>6. Closes'
    BY <1>1 DEF IInv, Closes, StaysInHandle, RoundGoes, InHandle
  <1>7. Hangup'
    BY <1>1, <1>3 DEF IInv, Hangup
  <1>8. Input'
    BY <1>1, <1>3 DEF IInv, Input, StaysInHandle, StillReads, InHandle, OnEOF
  <1>9. QED
    BY <1>1, <1>2, <1>4, <1>5, <1>6, <1>7, <1>8 DEF IInv

\* The backlog is written, or not.
LEMMA FlushKeeps ==
    ASSUME IInv, flush
    PROVE  IInv'
  <1> DEFINE n == Min(k.space, c.out)
             writable == comesDown(n)
             skips == t.ev \cap {"Write", "Hup"} = {} \/ ~c.backlogged
  <1>1. /\ t \in TType /\ c \in CType /\ k \in KType /\ seen \in SeenType /\ left \in Bounds /\ events \subseteq Events
        /\ t.pc = "flush" /\ UNCHANGED <<polled, call, srv>>
        /\ InRound /\ resumed \in {"OnResume", "read"} /\ resumed \in Steps \cup Callbacks
    BY TypesAre DEF IInv, Types, flush, resumed, Steps, Callbacks, Serial, Opens, InHandle, InClose, InRound
  <1>2. /\ to(resumed) \in TType /\ to(resumed).pc = resumed /\ to(resumed).drained = t.drained
        /\ "Close" \in t.ev => "Close" \in to(resumed).ev
        /\ "Read" \in t.ev => "Read" \in to(resumed).ev
    BY <1>1, To
  <1>3. CASE skips
    <2>1. t' = to(resumed) /\ UNCHANGED <<events, scheduled, queued, c, k, left, seen>>
      BY <1>3 DEF flush, word
    <2>2. StaysInHandle
      BY <1>1, <1>2, <2>1 DEF StaysInHandle, RoundGoes, InHandle, InRound, OnEOF
    <2>3. StillWrites /\ StillReads
      BY <1>1, <1>2, <1>3, <2>1 DEF IInv, Sent, CType, StillWrites, StillReads, OnEOF
    <2>4. QED
      BY <2>1, <2>2, <2>3, RoundMoves
  <1>4. CASE ~skips /\ left.eintr > 0 /\ left' = [left EXCEPT !.eintr = @ - 1] /\ notify({"Write"})
             /\ t' = to(resumed) /\ UNCHANGED <<c, k, seen>>
    <2>1. left' \in Bounds
      BY <1>1, <1>4 DEF Bounds
    <2>2. /\ events \subseteq events' /\ "Write" \in events' /\ events' \subseteq Events
          /\ "Open" \notin events' /\ scheduled' = TRUE /\ queued' = queued
      BY <1>1, <1>4, RoundNotifies, Zenon DEF InHandle, Events
    <2>3. StaysInHandle
      BY <1>1, <1>2, <1>4, <2>1, <2>2 DEF StaysInHandle, RoundGoes, InHandle, InRound, OnEOF
    <2>4. QED
      BY <1>1, <1>2, <1>4, <2>2, <2>3, RoundMoves DEF StillWrites, StillReads, OnEOF
  <1>5. CASE ~skips /\ c' = closeRequestedFor("failed") /\ notify({"Close"}) /\ t' = to(resumed) /\ UNCHANGED <<k, left, seen>>
    <2>1. /\ events \subseteq events' /\ "Close" \in events' /\ events' \subseteq Events
          /\ "Open" \notin events' /\ scheduled' = TRUE /\ queued' = queued
      BY <1>1, <1>5, RoundNotifies, Zenon DEF InHandle, Events
    <2>2. /\ c' \in CType /\ c' = [c EXCEPT !.closing = TRUE, !.closeErr = c'.closeErr]
          /\ c'.closeErr \notin Graceful
      BY <1>1, <1>5, CloseRequested DEF Reasons, Graceful
    <2>3. StaysInHandle
      BY <1>1, <1>2, <1>5, <2>1, <2>2, Zenon DEF StaysInHandle, RoundGoes, InHandle, InRound, CType, OnEOF
    <2>4. QED
      BY <1>1, <1>2, <1>5, <2>1, <2>2, <2>3, RoundRequests DEF StillReads, OnEOF
  <1>6. CASE /\ ~skips /\ ~k.reset /\ k' = afterWrite(n, c.out) /\ c' = flushed(n)
             /\ t' = [to(IF writable THEN "OnWritable" ELSE resumed) EXCEPT
                        !.drained = (n = c.out), !.ev = IF writable THEN @ \cup {"Read"} ELSE @]
             /\ seen' = [seen EXCEPT !.unsent = @ - n, !.owed = @ /\ ~writable] /\ UNCHANGED <<word, left>>
    <2>1. /\ n \in Nat /\ n <= c.out /\ n <= k.space /\ (n < c.out => n = k.space) /\ seen.unsent = c.out /\ c.out > 0
          /\ writable <=> n > 0 /\ c.out > MaxBacklog /\ c.out - n <= MaxBacklog
      BY <1>1, <1>6, ConnAssumption DEF Min, CType, KType, IInv, Sent, InRound, comesDown
    <2> DEFINE rest == n < c.out
    <2>0. rest \in BOOLEAN /\ (~rest => n = c.out) /\ (rest => c.out - n > 0)
      BY <1>1, <2>1 DEF CType
    <2>2. /\ c' \in CType /\ c' = [c EXCEPT !.out = c.out - n, !.backlogged = rest]
      <3>1. c.out - n \in Nat /\ c.backlogged = TRUE
        BY <1>1, <1>6, <2>1 DEF CType
      <3>2. (c.backlogged /\ rest) = rest
        BY <2>0, <3>1
      <3>3. c' = [c EXCEPT !.out = c.out - n, !.backlogged = rest]
        BY <1>6, <3>2, Zenon DEF flushed
      <3>4. QED
        BY <1>1, <2>0, <3>1, <3>3, Zenon DEF CType
    <2>3. /\ k' \in KType /\ k' = [k EXCEPT !.space = k.space - n, !.nospace = k.nospace \/ rest]
      <3>1. k.space - n \in 0..SndBuf
        BY <1>1, <2>1, ConnAssumption DEF KType
      <3>2. (k.nospace \/ rest) \in BOOLEAN
        BY Zenon
      <3>3. k' = [k EXCEPT !.space = k.space - n, !.nospace = k.nospace \/ rest]
        BY <1>6, Zenon DEF afterWrite
      <3>4. QED
        BY <1>1, <3>1, <3>2, <3>3, Zenon DEF KType
    <2>4. /\ seen' \in SeenType /\ seen'.unsent = c.out - n /\ (seen'.owed <=> seen.owed /\ ~writable)
          /\ seen'.opened = seen.opened /\ seen'.closes = seen.closes /\ seen'.reason = seen.reason
      <3>1. seen.unsent - n \in Nat /\ seen.unsent - n = c.out - n
        BY <1>1, <2>1 DEF CType
      <3>2. (seen.owed /\ ~writable) \in BOOLEAN /\ seen' = [seen EXCEPT !.unsent = seen.unsent - n, !.owed = seen.owed /\ ~writable]
        BY <1>6, Zenon
      <3>3. QED
        BY <1>1, <3>1, <3>2, Zenon DEF SeenType
    <2>5. /\ t' \in TType /\ t'.pc \in {"OnWritable", "OnResume", "read"} /\ (t'.drained <=> n = c.out)
          /\ writable => "Read" \in t'.ev
          /\ "Close" \in t.ev => "Close" \in t'.ev
          /\ "Read" \in t.ev => "Read" \in t'.ev
      <3> DEFINE u == to(IF writable THEN "OnWritable" ELSE resumed)
      <3>1. /\ u \in TType /\ u.pc \in {"OnWritable", "OnResume", "read"}
            /\ "Close" \in t.ev => "Close" \in u.ev
            /\ "Read" \in t.ev => "Read" \in u.ev
        BY <1>1, To DEF Callbacks
      <3>2. t' = [u EXCEPT !.drained = (n = c.out), !.ev = IF writable THEN u.ev \cup {"Read"} ELSE u.ev]
        BY <1>6
      <3> HIDE DEF u, n, writable
      <3>3. QED
        BY <3>1, <3>2, Zenon DEF TType, Events
    <2> HIDE DEF n, writable, rest
    <2>6. RoundGoes
      BY <1>1, <1>6, <2>2, <2>3, <2>4, <2>5 DEF RoundGoes, InHandle, InRound, CType, KType, word
    <2>7. /\ Serial' /\ OneDetach' /\ Opens' /\ Holds' /\ Ends'
          /\ Pending \subseteq Pending' /\ Calls' = Calls /\ (HangupPending => HangupPending') /\ events' = events
      BY <1>6, <2>6, RoundKeeps DEF word
    <2>8. TypeOK'
      BY <1>1, <1>6, <2>2, <2>3, <2>4, <2>5, TypesAre DEF IInv, Types, word
    <2>9. /\ c'.out > 0 <=> rest
          /\ c'.closing = c.closing /\ c'.closeErr = c.closeErr /\ c'.closed = c.closed
          /\ rest => k'.nospace
      BY <1>1, <2>0, <2>1, <2>2, <2>3 DEF CType, KType
    <2>10. Sent'
      BY <1>1, <2>0, <2>1, <2>2, <2>4, <2>5, <2>9, ConnAssumption DEF IInv, Sent, CType, InRound, SeenType
    <2>11. Output'
      BY <2>9 DEF Output
    <2>12. Closes'
      BY <1>1, <2>0, <2>1, <2>5, <2>7, <2>9 DEF IInv, Closes, InHandle
    <2>13. Hangup' /\ Input'
      BY <1>1, <2>1, <2>2, <2>3, <2>4, <2>5, <2>7, ConnAssumption DEF IInv, Hangup, Input, CType, KType, InRound, OnEOF
    <2>14. QED
      BY <2>7, <2>8, <2>10, <2>11, <2>12, <2>13 DEF IInv
  <1>7. QED
    BY <1>3, <1>4, <1>5, <1>6 DEF flush

\* One sysRead.
LEMMA ReadKeeps ==
    ASSUME IInv, read
    PROVE  IInv'
  <1>1. /\ t \in TType /\ c \in CType /\ k \in KType /\ seen \in SeenType /\ left \in Bounds /\ events \subseteq Events
        /\ t.pc = "read" /\ UNCHANGED <<polled, call, srv, seen>> /\ InRound
    BY TypesAre DEF IInv, Types, read, Serial, Opens, InHandle, InClose, InRound
  <1>2. \A pc \in {"reason", "OnData", "closeOnEOF", "OnHalfClose", "OnClosingEOF"} :
           /\ to(pc) \in TType /\ to(pc).pc = pc /\ to(pc).drained = t.drained
           /\ "Close" \in t.ev => "Close" \in to(pc).ev
    BY <1>1, To DEF Steps, Callbacks
  <1>3. CASE ~mayRead /\ t' = to("reason") /\ UNCHANGED <<word, c, k, left>>
    <2>1. StaysInHandle
      BY <1>1, <1>2, <1>3 DEF StaysInHandle, RoundGoes, InHandle, InRound, OnEOF, word
    <2>2. StillWrites /\ StillReads
      BY <1>1, <1>3, ConnAssumption DEF StillWrites, StillReads, mayRead, Writable, CType, OnEOF
    <2>3. QED
      BY <1>1, <1>3, <2>1, <2>2, RoundMoves
  <1>4. CASE /\ mayRead /\ k.rx = 0 /\ k.fin /\ ~k.reset
             /\ t' = to(IF c.closing THEN "closeOnEOF"
                        ELSE IF "halfclose" \in left.inputs THEN "OnHalfClose" ELSE "OnClosingEOF")
             /\ UNCHANGED <<word, c, k, left>>
    <2>1. t' \in TType /\ t'.pc \in OnEOF /\ t'.drained = t.drained /\ ("Close" \in t.ev => "Close" \in t'.ev)
      BY <1>2, <1>4 DEF OnEOF
    <2>2. StaysInHandle
      BY <1>1, <1>4, <2>1 DEF StaysInHandle, RoundGoes, InHandle, InRound, OnEOF, word
    <2>3. QED
      BY <1>1, <1>4, <2>1, <2>2, RoundMoves DEF StillWrites, StillReads
  <1>5. CASE mayRead /\ k.rx = 0 /\ c' = closeRequestedFor("failed") /\ notify({"Close"}) /\ t' = to("reason") /\ UNCHANGED <<k, left>>
    <2>1. /\ events \subseteq events' /\ "Close" \in events' /\ events' \subseteq Events
          /\ "Open" \notin events' /\ scheduled' = TRUE /\ queued' = queued
      BY <1>1, <1>5, RoundNotifies, Zenon DEF InHandle, Events
    <2>2. /\ c' \in CType /\ c' = [c EXCEPT !.closing = TRUE, !.closeErr = c'.closeErr]
          /\ c'.closeErr \notin Graceful
      BY <1>1, <1>5, CloseRequested DEF Reasons, Graceful
    <2>3. StaysInHandle
      BY <1>1, <1>2, <1>5, <2>1, <2>2, Zenon DEF StaysInHandle, RoundGoes, InHandle, InRound, CType, OnEOF
    <2>4. QED
      BY <1>1, <1>5, <2>1, <2>2, <2>3, RoundRequests
  <1>6. CASE mayRead /\ left.eintr > 0 /\ left' = [left EXCEPT !.eintr = @ - 1] /\ notify({"Read"}) /\ t' = to("reason") /\ UNCHANGED <<c, k>>
    <2>1. left' \in Bounds
      BY <1>1, <1>6 DEF Bounds
    <2>2. /\ events \subseteq events' /\ "Read" \in events' /\ events' \subseteq Events
          /\ "Open" \notin events' /\ scheduled' = TRUE /\ queued' = queued
      BY <1>1, <1>6, RoundNotifies, Zenon DEF InHandle, Events
    <2>3. StaysInHandle
      BY <1>1, <1>2, <1>6, <2>1, <2>2 DEF StaysInHandle, RoundGoes, InHandle, InRound, OnEOF
    <2>4. QED
      BY <1>1, <1>6, <2>2, <2>3, RoundMoves DEF StillWrites, StillReads
  <1>7. CASE mayRead /\ k.rx = 0 /\ ~k.fin /\ ~k.reset /\ t' = to("reason") /\ c' = [c EXCEPT !.peerClosed = FALSE] /\ UNCHANGED <<word, k, left>>
    <2>1. c' \in CType /\ \A f \in {"closed", "closing", "out", "backlogged", "closeErr"} : c'[f] = c[f]
      BY <1>1, <1>7, Zenon DEF CType
    <2>2. StaysInHandle
      BY <1>1, <1>2, <1>7, <2>1 DEF StaysInHandle, RoundGoes, InHandle, InRound, OnEOF, word
    <2>3. /\ Serial' /\ OneDetach' /\ Opens' /\ Holds' /\ Ends'
          /\ Pending \subseteq Pending' /\ Calls' = Calls /\ events' = events
      BY <1>7, <2>2, RoundKeeps DEF StaysInHandle, word
    <2>4. TypeOK'
      BY <1>1, <1>7, <2>1, <2>2, TypesAre DEF Types, IInv, StaysInHandle, word
    <2>5. Sent' /\ Output' /\ Closes'
      BY <1>1, <1>2, <1>7, <2>1, <2>3 DEF IInv, Sent, Output, Closes, InHandle
    <2>6. Hangup' /\ Input'
      BY <1>1, <1>2, <1>7 DEF Hangup, Input, OnEOF, KType
    <2>7. QED
      BY <2>3, <2>4, <2>5, <2>6 DEF IInv
  <1> DEFINE n == Min(k.rx, ReadBufferSize - pending)
  <1>8. CASE /\ mayRead /\ k.rx > 0 /\ k' = [k EXCEPT !.rx = @ - n]
             /\ IF readsAgain(n) THEN notify({"Read"}) ELSE UNCHANGED word
             /\ t' = to(IF c.closing THEN "reason" ELSE "OnData")
             /\ c' = [c EXCEPT !.in = IF c.closing THEN @ ELSE @ + n] /\ UNCHANGED left
    <2>1. pending \in Nat /\ pending < ReadBufferSize /\ ReadBufferSize \in Nat
      BY <1>1, ConnAssumption DEF pending, CType
    <2>2. /\ n \in Nat /\ n <= k.rx /\ (readsAgain(n) \/ (n = k.rx /\ ~c.peerClosed))
      BY <1>1, <2>1 DEF Min, KType, readsAgain
    <2>3. /\ events \subseteq events' /\ events' \subseteq Events /\ "Open" \notin events' /\ scheduled' = TRUE /\ queued' = queued
          /\ "Read" \in events' \/ (n = k.rx /\ ~c.peerClosed)
      <3>1. CASE notify({"Read"})
        BY <1>1, <3>1, RoundNotifies, Zenon DEF InHandle, Events
      <3>2. CASE ~readsAgain(n)
        BY <1>1, <1>8, <2>2, <3>2 DEF InRound, word, IInv, TypeOK
      <3>3. QED
        BY <1>8, <3>1, <3>2, Zenon
    <2>4. k.rx - n \in Nat /\ (IF c.closing THEN c.in ELSE c.in + n) \in Nat
      BY <1>1, <2>2 DEF KType, CType
    <2> HIDE DEF n
    <2>5. k' \in KType /\ k' = [k EXCEPT !.rx = k.rx - n]
      BY <1>1, <1>8, <2>4 DEF KType
    <2>6. c' \in CType /\ c' = [c EXCEPT !.in = c'.in]
      BY <1>1, <1>8, <2>4 DEF CType
    <2>7. StaysInHandle
      BY <1>1, <1>2, <1>8, <2>3, <2>5, <2>6 DEF StaysInHandle, RoundGoes, InHandle, OnEOF, InRound, KType, CType
    <2>8. /\ Serial' /\ OneDetach' /\ Opens' /\ Holds' /\ Ends'
          /\ Pending \subseteq Pending' /\ Calls' = Calls /\ (HangupPending => HangupPending') /\ events' \subseteq Pending'
          /\ HangupPending => "Read" \in Pending
      BY <2>7, RoundKeeps DEF StaysInHandle, Pending, HangupPending
    <2>9. TypeOK'
      BY <1>1, <1>8, <2>3, <2>5, <2>6, <2>7, TypesAre DEF Types, IInv, StaysInHandle
    <2>10. t'.pc \in {"reason", "OnData"} /\ t'.drained = t.drained /\ ("Close" \in t.ev => "Close" \in t'.ev)
      BY <1>2, <1>8
    <2>11. Sent' /\ Output'
      BY <1>1, <2>5, <2>6, <2>8, <2>10 DEF IInv, Sent, Output, KType, CType, InRound
    <2>12. Closes' /\ Hangup'
      BY <1>1, <2>3, <2>5, <2>6, <2>8, <2>10 DEF IInv, Closes, Hangup, KType, CType, InRound, InHandle
    <2>13. Input'
      BY <1>1, <2>2, <2>3, <2>5, <2>6, <2>8, <2>10 DEF IInv, Input, Hangup, KType, CType, InRound, OnEOF
    <2>14. QED
      BY <2>8, <2>9, <2>11, <2>12, <2>13 DEF IInv
  <1>9. QED
    BY <1>1, <1>3, <1>4, <1>5, <1>6, <1>7, <1>8 DEF read

\* requestCloseOnEOF, and the callbacks that return.
LEMMA EOFKeeps ==
    ASSUME IInv, requestCloseOnEOF
    PROVE  IInv'
  <1>1. /\ t \in TType /\ c \in CType /\ left' \in Bounds /\ t.pc = "closeOnEOF" /\ InRound
        /\ UNCHANGED <<k, polled, call, srv, left, seen>> /\ k.rx = 0
    BY TypesAre DEF IInv, Types, requestCloseOnEOF, Serial, Opens, Input, InHandle, InClose, OnEOF, InRound
  <1>2. /\ events \subseteq events' /\ "Close" \in events' /\ events' \subseteq Events
        /\ "Open" \notin events' /\ scheduled' = TRUE /\ queued' = queued
    BY <1>1, RoundNotifies, Zenon DEF requestCloseOnEOF, InHandle, Events
  <1>3. /\ t' \in TType /\ t'.pc = "reason" /\ t'.drained = t.drained /\ ("Close" \in t.ev => "Close" \in t'.ev)
    BY <1>1, To DEF requestCloseOnEOF, Steps
  <1>4. /\ c' \in CType /\ c' = [c EXCEPT !.closing = TRUE, !.closeErr = c'.closeErr]
        /\ c.closing => c'.closeErr = c.closeErr
    BY <1>1, Zenon DEF requestCloseOnEOF, CType, Reasons
  <1>5. StaysInHandle
    BY <1>1, <1>2, <1>3, <1>4, Zenon DEF StaysInHandle, RoundGoes, InHandle, InRound, CType, OnEOF
  <1>6. QED
    BY <1>1, <1>2, <1>4, <1>5, RoundRequests DEF StillWrites

\* A callback returns to where the round goes on.
LEMMA CallbackKeeps ==
    ASSUME IInv, callbackReturns
    PROVE  IInv'
  <1>1. /\ t \in TType /\ c \in CType /\ left' \in Bounds /\ events \subseteq Events
        /\ t.pc \in {"OnOpen", "OnWritable", "OnResume", "OnClosingEOF", "OnClosing", "OnData", "OnHalfClose"}
        /\ InRound /\ UNCHANGED <<word, k, polled, call, srv, left, seen>>
    BY TypesAre DEF IInv, Types, callbackReturns, Serial, Opens, InHandle, InClose, InRound
  <1>2. \A pc \in {"flush", "OnResume", "read", "closeOnEOF", "requestClose", "reason", "OnClosingEOF"} :
           /\ to(pc) \in TType /\ to(pc).pc = pc /\ to(pc).drained = t.drained
           /\ "Close" \in t.ev => "Close" \in to(pc).ev
           /\ pc = "flush" => to(pc).ev = t.ev
           /\ pc \in {"OnResume", "read"} /\ "Read" \in t.ev => "Read" \in to(pc).ev
    BY <1>1, To DEF Steps, Callbacks
  <1>3. CASE /\ t.pc \in {"OnOpen", "OnWritable", "OnResume", "OnClosingEOF", "OnClosing"} /\ c' = c
             /\ t' = to(CASE t.pc = "OnOpen" -> "flush"
                          [] t.pc = "OnWritable" -> resumed
                          [] t.pc = "OnResume" -> "read"
                          [] t.pc = "OnClosingEOF" -> "closeOnEOF"
                          [] t.pc = "OnClosing" -> "requestClose")
    <2>1. \/ t.pc = "OnOpen" /\ t' = to("flush")
          \/ t.pc = "OnWritable" /\ (t' = to("OnResume") \/ t' = to("read"))
          \/ t.pc = "OnResume" /\ t' = to("read")
          \/ t.pc = "OnClosingEOF" /\ t' = to("closeOnEOF")
          \/ t.pc = "OnClosing" /\ t' = to("requestClose")
      BY <1>3, Zenon DEF resumed
    <2>2. StaysInHandle
      BY <1>1, <1>2, <1>3, <2>1 DEF StaysInHandle, RoundGoes, InHandle, InRound, OnEOF, word, IInv, Input
    <2>3. StillWrites /\ StillReads
      BY <1>1, <1>2, <2>1 DEF StillWrites, StillReads, OnEOF
    <2>4. QED
      BY <1>1, <1>3, <2>2, <2>3, RoundMoves
  <1>4. CASE t.pc = "OnData" /\ t' = to("reason") /\ \E rest \in 0..c.in : c' = [c EXCEPT !.in = rest]
    <2>1. PICK rest \in 0..c.in : c' = [c EXCEPT !.in = rest]
      BY <1>4
    <2>2. c' \in CType
      BY <1>1, <2>1 DEF CType
    <2>3. StaysInHandle
      BY <1>1, <1>2, <1>4, <2>1 DEF StaysInHandle, RoundGoes, InHandle, InRound, OnEOF, word, CType
    <2>4. /\ Serial' /\ OneDetach' /\ Opens' /\ Holds' /\ Ends'
          /\ Pending \subseteq Pending' /\ Calls' = Calls /\ (HangupPending => HangupPending') /\ events' = events
      BY <1>1, <2>3, RoundKeeps DEF StaysInHandle, word
    <2>5. TypeOK'
      BY <1>1, <2>2, <2>3, TypesAre DEF Types, IInv, StaysInHandle, word
    <2>6. Sent' /\ Output' /\ Closes'
      BY <1>1, <1>2, <1>4, <2>1, <2>4 DEF IInv, Sent, Output, Closes, InHandle, CType
    <2>7. Hangup' /\ Input'
      BY <1>1, <1>2, <1>4, <2>1, <2>4 DEF IInv, Hangup, Input, OnEOF, CType
    <2>8. QED
      BY <2>4, <2>5, <2>6, <2>7 DEF IInv
  <1>5. CASE t.pc = "OnHalfClose" /\ t' = to("reason") /\ c' = [c EXCEPT !.readClosed = TRUE]
    <2>2. c' \in CType
      BY <1>1, <1>5, Zenon DEF CType
    <2>3. StaysInHandle
      BY <1>1, <1>2, <1>5 DEF StaysInHandle, RoundGoes, InHandle, InRound, OnEOF, word, CType
    <2>4. /\ Serial' /\ OneDetach' /\ Opens' /\ Holds' /\ Ends'
          /\ Pending \subseteq Pending' /\ Calls' = Calls /\ (HangupPending => HangupPending') /\ events' = events
      BY <1>1, <2>3, RoundKeeps DEF StaysInHandle, word
    <2>5. TypeOK'
      BY <1>1, <2>2, <2>3, TypesAre DEF Types, IInv, StaysInHandle, word
    <2>6. Sent' /\ Output' /\ Closes'
      BY <1>1, <1>2, <1>5, <2>4 DEF IInv, Sent, Output, Closes, InHandle, CType
    <2>7. Hangup' /\ Input'
      BY <1>1, <1>2, <1>5, <2>4 DEF IInv, Hangup, Input, OnEOF, CType
    <2>8. QED
      BY <2>4, <2>5, <2>6, <2>7 DEF IInv
  <1>6. CASE t.pc = "OnHalfClose" /\ t' = to(IF c.closing THEN "closeOnEOF" ELSE "OnClosingEOF") /\ UNCHANGED c
    <2>1. StaysInHandle
      BY <1>1, <1>2, <1>6 DEF StaysInHandle, RoundGoes, InHandle, InRound, OnEOF, word, IInv, Input
    <2>2. StillWrites /\ StillReads
      BY <1>1, <1>2, <1>6 DEF StillWrites, StillReads, OnEOF
    <2>3. QED
      BY <1>1, <1>6, <2>1, <2>2, RoundMoves
  <1>7. QED
    BY <1>3, <1>4, <1>5, <1>6 DEF callbackReturns

(***************************************************************************)
(* The end of handle, and close                                            *)
(***************************************************************************)

\* The end of handle closes the connection, or leaves it.
LEMMA HandleEnds ==
    ASSUME IInv, t.pc \in {"reason", "requestClose"}, closeIfRequested(c'), c' \in CType, events' \subseteq Events,
           UNCHANGED <<k, polled, call, srv, left, seen>>,
           events \subseteq events', "Open" \notin events', scheduled' = TRUE, queued' = queued,
           \/ c' = c
           \/ /\ c' = [c EXCEPT !.closing = TRUE, !.closeErr = c'.closeErr] /\ "Close" \in events'
              /\ c.closing /\ c.closeErr \notin Graceful => c'.closeErr \notin Graceful
    PROVE  IInv'
  <1>1. /\ t \in TType /\ c \in CType /\ InRound /\ c'.closeErr \in Reasons /\ c'.out \in Nat
    BY TypesAre DEF IInv, Types, Serial, Opens, InHandle, InClose, InRound, CType
  <1>2. /\ c'.closed = c.closed /\ c'.out = c.out /\ c'.backlogged = c.backlogged /\ (c.closing => c'.closing)
        /\ c'.readPaused = c.readPaused /\ c'.readClosed = c.readClosed /\ c'.peerClosed = c.peerClosed
    BY <1>1, ZenonT(60) DEF CType
  <1>3. /\ t' \in TType
        /\ \/ /\ t'.pc = "close" /\ t'.err = c'.closeErr /\ c'.closing /\ (c'.closeErr \in Graceful => c'.out = 0)
           \/ /\ t'.pc = "finish"
              /\ t.drained \/ "Close" \in t.ev => ~c'.closing \/ (c'.closeErr \in Graceful /\ c'.out > 0)
    <2>1. \/ /\ t' = [t EXCEPT !.pc = "close", !.err = c'.closeErr] /\ c'.closing
             /\ closesNow(c'.closeErr) \/ c'.out = 0
          \/ /\ t' = [t EXCEPT !.pc = "finish"]
             /\ t.drained \/ "Close" \in t.ev => ~c'.closing \/ (~closesNow(c'.closeErr) /\ c'.out # 0)
      BY DEF closeIfRequested, checksClose
    <2>2. closesNow(c'.closeErr) <=> c'.closeErr \notin Graceful
      BY DEF closesNow, Graceful
    <2>3. c'.out # 0 => c'.out > 0
      BY <1>1
    <2>4. QED
      BY <1>1, <2>1, <2>2, <2>3, Zenon DEF TType, Steps
  <1>4. RoundGoes
    BY <1>1, <1>2, <1>3 DEF RoundGoes, InHandle, InRound
  <1>5. /\ Serial' /\ OneDetach' /\ Opens' /\ Holds' /\ Ends'
        /\ Pending \subseteq Pending' /\ Calls' = Calls /\ (HangupPending => HangupPending')
    BY <1>4, RoundKeeps
  <1>6. TypeOK'
    BY <1>1, <1>3, TypesAre DEF Types, IInv
  <1>7. Sent'
    BY <1>1, <1>2, <1>3 DEF IInv, Sent, InRound, Ends
  <1>8. Output'
    BY <1>2, <1>3, <1>5 DEF IInv, Output
  <1>9. Closes'
    BY <1>2, <1>3, <1>5 DEF IInv, Closes
  <1>10. Hangup' /\ Input'
    BY <1>2, <1>3, <1>5 DEF IInv, Hangup, Input, OnEOF
  <1>11. QED
    BY <1>5, <1>6, <1>7, <1>8, <1>9, <1>10 DEF IInv

\* The server is closing, the deadline has expired, or the round is at its end.
LEMMA ReasonKeeps ==
    ASSUME IInv, closeReason
    PROVE  IInv'
  <1>1. /\ t \in TType /\ c \in CType /\ left \in Bounds /\ events \subseteq Events /\ t.pc = "reason" /\ InRound
        /\ UNCHANGED <<word, c, k, polled, call, srv, left, seen>>
    BY TypesAre DEF IInv, Types, closeReason, Serial, Opens, InHandle, InClose, InRound
  <1>2. CASE closeIfRequested(c)
    <2>1. closeIfRequested(c')
      BY <1>1, <1>2 DEF closeIfRequested
    <2>2. QED
      BY <1>1, <2>1, HandleEnds DEF word, InRound
  <1>3. CASE \E err \in {"serverClosed", "deadline"}, pc \in {"requestClose", "OnClosing"} :
                t' = [t EXCEPT !.err = err, !.pc = pc]
    <2>1. /\ t' \in TType /\ t'.pc \in {"requestClose", "OnClosing"} /\ t'.drained = t.drained /\ t'.ev = t.ev
      BY <1>1, <1>3, Zenon DEF TType, Steps, Callbacks, Reasons
    <2>2. StaysInHandle
      BY <1>1, <2>1 DEF StaysInHandle, RoundGoes, InHandle, InRound, OnEOF, word
    <2>3. QED
      BY <1>1, <2>2, RoundMoves DEF StillWrites, StillReads, OnEOF
  <1>4. QED
    BY <1>2, <1>3, Zenon DEF closeReason

\* requestClose, and the end of the round.
LEMMA RequestKeeps ==
    ASSUME IInv, requestClose
    PROVE  IInv'
  <1>1. /\ c \in CType /\ t.err \in Reasons /\ t.pc = "requestClose" /\ InRound
    BY TypesAre DEF IInv, Types, requestClose, Serial, Opens, InHandle, InClose, InRound, TType
  <1>2. /\ events \subseteq events' /\ "Close" \in events' /\ events' \subseteq Events
        /\ "Open" \notin events' /\ scheduled' = TRUE /\ queued' = queued
    BY <1>1, RoundNotifies, Zenon DEF requestClose, InHandle, Events
  <1>3. /\ c' \in CType /\ c' = [c EXCEPT !.closing = TRUE, !.closeErr = c'.closeErr]
        /\ c.closing /\ c.closeErr \notin Graceful => c'.closeErr \notin Graceful
    BY <1>1, CloseRequested, Zenon DEF requestClose
  <1>4. QED
    BY <1>1, <1>2, <1>3, HandleEnds DEF requestClose

\* A callback panics.
LEMMA PanicKeeps ==
    ASSUME IInv, callbackPanics
    PROVE  IInv'
  <1>1. /\ t \in TType /\ t.pc \in InHandle \ {"watch"} /\ InRound
        /\ UNCHANGED <<word, c, k, polled, call, srv, left, seen>> /\ t' = [t EXCEPT !.pc = "close", !.err = "panic"]
    BY TypesAre DEF IInv, Types, callbackPanics, Callbacks, Serial, Opens, InHandle, InClose, InRound
  <1>2. t' \in TType /\ t'.pc = "close" /\ t'.err = "panic"
    BY <1>1, Zenon DEF TType, Steps, Reasons
  <1>3. RoundGoes
    BY <1>1, <1>2 DEF RoundGoes, InRound, word
  <1>4. Serial' /\ OneDetach' /\ Opens' /\ Holds' /\ Ends' /\ (HangupPending => HangupPending')
    BY <1>3, RoundKeeps
  <1>5. TypeOK'
    BY <1>1, <1>2, TypesAre DEF Types, IInv, word
  <1>6. Sent' /\ Output' /\ Closes' /\ Hangup' /\ Input'
    BY <1>1, <1>2, <1>4 DEF IInv, Sent, Output, Closes, Hangup, Input, Graceful, OnEOF
  <1>7. QED
    BY <1>4, <1>5, <1>6 DEF IInv

\* Once it is closed nothing can be stranded.
LEMMA ClosedIsQuiet ==
    ASSUME c'.closed, t'.pc \in InClose \cup {"none", "finish"}
    PROVE  Output' /\ Closes' /\ Hangup' /\ Input'
  BY DEF Output, Closes, Hangup, Input, InClose, OnEOF

\* close sets closed.
LEMMA CloseKeeps ==
    ASSUME IInv, close
    PROVE  IInv'
  <1>1. /\ t \in TType /\ c \in CType /\ t.pc = "close" /\ ~c.closed /\ seen.opened = 1 /\ scheduled /\ ~queued
        /\ UNCHANGED <<word, k, polled, call, srv, left, seen>> /\ Calls' = Calls /\ "Open" \notin events
        /\ Calls \cap DetachSteps = {}
    BY TypesAre DEF IInv, Types, close, Serial, Opens, InHandle, InClose, Calls, word
  <1>2. t' \in TType /\ t'.pc = "remove" /\ t'.err = t.err
    BY <1>1, To DEF close, Steps
  <1>3. c' \in CType /\ c'.closed /\ c'.out = 0 /\ ~c'.backlogged /\ c'.closing = c.closing /\ c'.closeErr = c.closeErr
    BY <1>1, Zenon DEF close, CType
  <1>4. Output' /\ Closes' /\ Hangup' /\ Input'
    BY <1>2, <1>3, ClosedIsQuiet DEF InClose
  <1>5. TypeOK'
    BY <1>1, <1>2, <1>3, TypesAre DEF IInv, Types, word
  <1>6. Serial' /\ OneDetach'
    BY <1>1, <1>2, <1>3 DEF IInv, Serial, OneDetach, InClose, DetachSteps, word
  <1>7. Opens' /\ Holds' /\ Ends'
    BY <1>1, <1>2, <1>3 DEF IInv, Opens, Holds, Ends, InClose, InHandle, DetachSteps, word
  <1>8. Sent'
    BY <1>1, <1>2, <1>3 DEF IInv, Sent, Ends
  <1>9. QED
    BY <1>4, <1>5, <1>6, <1>7, <1>8 DEF IInv

\* The table entry goes.
LEMMA CloseRemoveKeeps ==
    ASSUME IInv, closeRemove
    PROVE  IInv'
  <1>1. /\ t \in TType /\ k \in KType /\ srv \in SrvType /\ t.pc = "remove" /\ c.closed /\ scheduled /\ ~queued
        /\ UNCHANGED <<word, c, polled, call, left, seen>> /\ Calls' = Calls /\ Calls \cap DetachSteps = {}
    BY TypesAre DEF IInv, Types, closeRemove, Serial, InClose, Calls, word
  <1>2. t' \in TType /\ t'.pc = "closeFd" /\ t'.err = t.err
    BY <1>1, To DEF closeRemove, Steps
  <1>3. (IF k.rx > ReadBufferSize THEN k.rx - ReadBufferSize ELSE 0) \in Nat
    BY <1>1, ConnAssumption DEF KType
  <1>4. k' \in KType /\ k'.open = k.open
    BY <1>1, <1>3 DEF closeRemove, KType
  <1>5. srv' \in SrvType /\ ~srv'.inTable /\ srv'.wg = srv.wg
    BY <1>1, Zenon DEF closeRemove, SrvType
  <1>6. Output' /\ Closes' /\ Hangup' /\ Input'
    BY <1>1, <1>2, ClosedIsQuiet DEF InClose
  <1>7. TypeOK'
    BY <1>1, <1>2, <1>4, <1>5, TypesAre DEF IInv, Types, word
  <1>8. Serial' /\ OneDetach' /\ Opens'
    BY <1>1, <1>2 DEF IInv, Serial, OneDetach, Opens, InClose, InHandle, DetachSteps, word
  <1>9. Holds' /\ Ends' /\ Sent'
    BY <1>1, <1>2, <1>4, <1>5 DEF IInv, Holds, Ends, Sent, InClose, DetachSteps
  <1>10. QED
    BY <1>6, <1>7, <1>8, <1>9 DEF IInv

\* The fd is closed, and OnClose begins.
LEMMA CloseFdKeeps ==
    ASSUME IInv, closeFd
    PROVE  IInv'
  <1>1. /\ t \in TType /\ k \in KType /\ seen \in SeenType /\ t.pc = "closeFd" /\ c.closed /\ scheduled /\ ~queued
        /\ UNCHANGED <<word, c, polled, call, srv, left>> /\ Calls' = Calls /\ Calls \cap DetachSteps = {}
        /\ seen.closes = 0
    BY TypesAre DEF IInv, Types, closeFd, Serial, InClose, Calls, word, Ends
  <1>2. t' \in TType /\ t'.pc = "OnClose"
    BY <1>1, To DEF closeFd, Callbacks
  <1>3. k' \in KType
    BY <1>1, Zenon DEF closeFd, KType
  <1>4. /\ seen' \in SeenType /\ seen'.closes = 1 /\ seen'.reason = t.err
        /\ seen'.opened = seen.opened /\ seen'.unsent = seen.unsent /\ seen'.owed = seen.owed
    <2>1. t.err \in Reasons /\ seen.closes + 1 = 1 /\ seen.closes + 1 \in Nat
      BY <1>1 DEF TType
    <2>2. seen' = [seen EXCEPT !.closes = seen.closes + 1, !.reason = t.err]
      BY DEF closeFd
    <2>3. QED
      BY <1>1, <2>1, <2>2, Zenon DEF SeenType
  <1>5. Output' /\ Closes' /\ Hangup' /\ Input'
    BY <1>1, <1>2, ClosedIsQuiet DEF InClose
  <1>6. TypeOK'
    BY <1>1, <1>2, <1>3, <1>4, TypesAre DEF IInv, Types, word
  <1>7. Serial' /\ OneDetach' /\ Opens'
    BY <1>1, <1>2, <1>4 DEF IInv, Serial, OneDetach, Opens, InClose, InHandle, DetachSteps, word
  <1>8. Holds' /\ Ends' /\ Sent'
    BY <1>1, <1>2, <1>4 DEF IInv, Holds, Ends, Sent, InClose, DetachSteps
  <1>9. QED
    BY <1>5, <1>6, <1>7, <1>8 DEF IInv

\* OnClose is over, and the count goes.
LEMMA OnCloseKeeps ==
    ASSUME IInv, onCloseReturns
    PROVE  IInv'
  <1>1. /\ t \in TType /\ srv \in SrvType /\ t.pc = "OnClose" /\ c.closed /\ scheduled /\ ~queued
        /\ UNCHANGED <<word, c, k, polled, call, left, seen>> /\ Calls' = Calls /\ Calls \cap DetachSteps = {}
    BY TypesAre DEF IInv, Types, onCloseReturns, Serial, InClose, Calls, word
  <1>2. t' \in TType /\ t'.pc = "finish"
    BY <1>1, To DEF onCloseReturns, Steps
  <1>3. srv' \in SrvType /\ srv'.inTable = srv.inTable /\ srv'.wg = srv.wg - 1
    BY <1>1 DEF onCloseReturns, SrvType
  <1>4. Output' /\ Closes' /\ Hangup' /\ Input'
    BY <1>1, <1>2, ClosedIsQuiet
  <1>5. TypeOK'
    BY <1>1, <1>2, <1>3, TypesAre DEF IInv, Types, word
  <1>6. Serial' /\ OneDetach' /\ Opens'
    BY <1>1, <1>2 DEF IInv, Serial, OneDetach, Opens, InClose, InHandle, DetachSteps, word
  <1>7. Holds' /\ Ends' /\ Sent'
    BY <1>1, <1>2, <1>3 DEF IInv, Holds, Ends, Sent, InClose, DetachSteps
  <1>8. QED
    BY <1>4, <1>5, <1>6, <1>7 DEF IInv

(***************************************************************************)
(* A round begins and ends                                                 *)
(***************************************************************************)

\* A connection that cannot be watched is closed before anybody has it.
LEMMA AbandonKeeps ==
    ASSUME IInv, abandoned, t.pc = "watch" \/ ("Open" \in events /\ t.pc = "none"),
           t' \in TType, t'.pc = "finish", scheduled' = TRUE, queued' = FALSE,
           events' \subseteq events, "Open" \notin events', UNCHANGED <<polled, call, left, seen>>
    PROVE  IInv'
  <1>1. /\ c \in CType /\ k \in KType /\ srv \in SrvType /\ seen.opened = 0 /\ ~c.closed /\ Calls' = Calls
        /\ Calls \subseteq {"none"} /\ ~c.closing /\ c.out = 0 /\ ~seen.owed /\ seen.closes = 0 /\ srv.wg = 1
        /\ seen.unsent = 0
    BY TypesAre DEF IInv, Types, Serial, Opens, Ends, Holds, Sent, Calls, CType
  <1>2. /\ c' \in CType /\ c'.closed /\ c'.out = c.out /\ c'.backlogged = c.backlogged /\ c'.closing = c.closing
    BY <1>1, Zenon DEF abandoned, CType
  <1>3. k' \in KType
    BY <1>1, Zenon DEF abandoned, KType
  <1>4. srv' \in SrvType /\ ~srv'.inTable /\ srv'.wg = 0
    <2>1. srv' = [srv EXCEPT !.inTable = FALSE, !.wg = srv.wg - 1] /\ srv.wg - 1 = 0 /\ 0 \in Int
      BY <1>1 DEF abandoned
    <2>2. QED
      BY <1>1, <2>1, Zenon DEF SrvType
  <1>5. Output' /\ Closes' /\ Hangup' /\ Input'
    BY <1>2, ClosedIsQuiet
  <1>6. TypeOK'
    BY <1>2, <1>3, <1>4, TypesAre, Zenon DEF IInv, Types
  <1>7. Serial' /\ OneDetach'
    BY <1>1, <1>2 DEF IInv, Serial, OneDetach, InClose, DetachSteps
  <1>8. Opens' /\ Holds'
    BY <1>1, <1>2, <1>4 DEF Opens, Holds, InHandle, InClose
  <1>9. Ends' /\ Sent'
    BY <1>1, <1>2 DEF Ends, Sent, IInv
  <1>10. QED
    BY <1>5, <1>6, <1>7, <1>8, <1>9, Zenon DEF IInv

\* run takes the events.
LEMMA RunKeeps ==
    ASSUME IInv, run
    PROVE  IInv'
  <1> DEFINE round(pc) == [pc |-> pc, ev |-> events, drained |-> FALSE, err |-> "nil"]
             hup == c.peerClosed \/ "Hup" \in events
  <1>1. /\ queued /\ t.pc = "none" /\ events' = {} /\ scheduled' = TRUE /\ queued' = FALSE
        /\ UNCHANGED <<polled, call, left, seen>> /\ Calls' = Calls /\ events \subseteq Events
        /\ c \in CType /\ k \in KType /\ srv \in SrvType /\ ~c.closed /\ Calls \cap DetachSteps = {}
        /\ \A e \in Pending : e \in Pending' \/ e \in events
        /\ HangupPending => HangupPending' \/ {"Read", "Hup"} \subseteq events
    BY TypesAre DEF IInv, Types, run, Serial, Calls, Pending, HangupPending
  <1>2. \A pc \in {"flush", "watch", "finish"} :
           /\ round(pc) \in TType /\ round(pc).pc = pc /\ round(pc).ev = events /\ round(pc).drained = FALSE
    BY <1>1 DEF TType, Steps, Reasons
  <1>3. hup \in BOOLEAN
    BY <1>1 DEF CType
  <1>4. CASE "Open" \in events /\ t' = round("finish") /\ abandoned
    BY <1>1, <1>2, <1>4, AbandonKeeps, Zenon
  <1>5. CASE /\ t' \in {round("flush"), round("watch")} /\ (t' = round("watch") <=> "Open" \in events)
             /\ c' = [c EXCEPT !.peerClosed = hup] /\ k' = k
             /\ srv' = [srv EXCEPT !.inTable = srv.inTable \/ "Open" \in events]
    <2> HIDE DEF hup
    <2>1. /\ c' \in CType /\ c'.peerClosed = hup
          /\ \A f \in {"readPaused", "readClosed", "closed", "closing", "out", "backlogged", "closeErr"} : c'[f] = c[f]
      BY <1>1, <1>3, <1>5, Zenon DEF CType
    <2>2. /\ t' \in TType /\ t'.pc \in {"flush", "watch"} /\ (t'.pc = "watch" <=> "Open" \in events)
          /\ t'.ev = events /\ t'.drained = FALSE
      BY <1>2, <1>5, Zenon
    <2>3. /\ srv' \in SrvType /\ srv'.wg = srv.wg /\ (srv.inTable => srv'.inTable) /\ ("Open" \in events => srv'.inTable)
      BY <1>1, <1>5, Zenon DEF SrvType
    <2>4. TypeOK'
      BY <1>1, <1>5, <2>1, <2>2, <2>3, TypesAre, Zenon DEF IInv, Types
    <2>5. Serial' /\ OneDetach'
      BY <1>1, <2>1, <2>2 DEF IInv, Serial, OneDetach, InClose
    <2>6. Opens'
      <3>1. seen.opened = 0 \/ seen.opened = 1
        BY DEF IInv, TypeOK
      <3>2. QED
        BY <1>1, <1>5, <2>1, <2>2, <2>3, <3>1 DEF IInv, Opens, InHandle, InClose
    <2>7. Holds' /\ Ends' /\ Sent'
      BY <1>1, <1>5, <2>1, <2>2, <2>3 DEF IInv, Holds, Ends, Sent, InClose
    <2>8. Output' /\ Closes'
      BY <1>1, <1>5, <2>1, <2>2 DEF IInv, Output, Closes, InHandle
    <2>9. Hangup'
      BY <1>1, <1>5, <2>1, Zenon DEF IInv, Hangup, hup
    <2>10. Input'
      BY <1>1, <1>5, <2>1, <2>2 DEF IInv, Input, OnEOF, Opens
    <2>11. QED
      BY <2>4, <2>5, <2>6, <2>7, <2>8, <2>9, <2>10 DEF IInv
  <1>6. CASE "Open" \notin events /\ t' = round("flush") /\ c' = [c EXCEPT !.peerClosed = hup] /\ UNCHANGED <<k, srv>>
    BY <1>1, <1>2, <1>5, <1>6 DEF SrvType
  <1>7. CASE "Open" \in events /\ t' = round("watch") /\ c' = [c EXCEPT !.peerClosed = hup] /\ UNCHANGED k
             /\ srv' = [srv EXCEPT !.inTable = TRUE]
    BY <1>1, <1>2, <1>5, <1>7, Zenon DEF SrvType
  <1>8. QED
    BY <1>4, <1>6, <1>7 DEF run

\* watch registers the fd.
LEMMA WatchKeeps ==
    ASSUME IInv, watch
    PROVE  IInv'
  <1>1. /\ t \in TType /\ c \in CType /\ k \in KType /\ seen \in SeenType /\ events \subseteq Events
        /\ t.pc = "watch" /\ UNCHANGED <<polled, call, left>> /\ Calls' = Calls /\ ~t.drained
        /\ ~c.closed /\ seen.opened = 0 /\ srv.inTable /\ ~c.closing /\ c.out = 0 /\ ~seen.owed
        /\ Calls \subseteq {"none"} /\ scheduled /\ ~queued /\ "Open" \notin events
    BY TypesAre DEF IInv, Types, watch, Serial, Opens, Calls, Closes
  <1>2. CASE /\ k' = [k EXCEPT !.watched = TRUE, !.armed = TRUE]
             /\ IF draining THEN notify({"Shutdown"}) ELSE UNCHANGED word
             /\ t' = to("OnOpen") /\ seen' = [seen EXCEPT !.opened = 1] /\ UNCHANGED <<c, srv>>
    <2>1. /\ k' \in KType /\ k'.watched /\ k'.armed /\ k'.open = k.open /\ k'.rx = k.rx
      BY <1>1, <1>2, Zenon DEF KType
    <2>2. /\ t' \in TType /\ t'.pc = "OnOpen" /\ t'.ev = t.ev /\ t'.drained = t.drained
      BY <1>1, <1>2, To DEF Callbacks
    <2>3. /\ seen' \in SeenType /\ seen'.opened = 1 /\ \A f \in {"closes", "reason", "owed", "unsent"} : seen'[f] = seen[f]
      BY <1>1, <1>2 DEF SeenType
    <2>4. /\ events \subseteq events' /\ events' \subseteq Events /\ "Open" \notin events' /\ scheduled' = TRUE /\ queued' = FALSE
      BY <1>1, <1>2, RoundNotifies, TypesAre, Zenon DEF InHandle, Events, word, IInv, Types
    <2>5. TypeOK'
      BY <1>1, <1>2, <2>1, <2>2, <2>3, <2>4, TypesAre, Zenon DEF IInv, Types
    <2>6. Serial' /\ OneDetach'
      BY <1>1, <1>2, <2>2, <2>4 DEF IInv, Serial, OneDetach, InClose, DetachSteps
    <2>7. Opens'
      BY <1>1, <1>2, <2>1, <2>2, <2>3, <2>4 DEF Opens, InHandle
    <2>8. Holds' /\ Ends' /\ Sent'
      BY <1>1, <1>2, <2>1, <2>2, <2>3 DEF IInv, Holds, Ends, Sent, InClose
    <2>9. Output' /\ Closes' /\ Hangup' /\ Input'
      BY <1>1, <1>2, <2>1, <2>2 DEF Output, Closes, Hangup, Input, OnEOF, CType
    <2>10. QED
      BY <2>5, <2>6, <2>7, <2>8, <2>9 DEF IInv
  <1>3. CASE abandoned /\ t' = to("finish") /\ UNCHANGED <<word, seen>>
    <2>1. t' \in TType /\ t'.pc = "finish" /\ scheduled = TRUE /\ queued = FALSE
      BY <1>1, <1>3, To, TypesAre, Zenon DEF Steps, IInv, Types
    <2>2. QED
      BY <1>1, <1>3, <2>1, AbandonKeeps, Zenon DEF word
  <1>4. QED
    BY <1>2, <1>3 DEF watch

\* The round ends.
LEMMA ReleaseKeeps ==
    ASSUME IInv, release
    PROVE  IInv'
  <1>1. /\ t \in TType /\ t.pc = "finish" /\ scheduled /\ ~queued /\ Calls \cap DetachSteps = {} /\ "Open" \notin events
        /\ UNCHANGED <<events, c, k, polled, call, srv, left, seen>> /\ Calls' = Calls
        /\ Pending' = Pending /\ HangupPending' = HangupPending
    BY TypesAre DEF IInv, Types, release, Serial, Opens, Calls, Pending, HangupPending
  <1>2. t' \in TType /\ t'.pc = "none"
    BY <1>1, Zenon DEF release, TType, Steps, Reasons
  <1>3. /\ scheduled' \in BOOLEAN /\ queued' \in BOOLEAN /\ (scheduled' <=> c.closed \/ events # {})
        /\ queued' <=> ~c.closed /\ events # {}
    BY Zenon DEF release, keepsTask
  <1>4. TypeOK'
    BY <1>1, <1>2, <1>3, TypesAre DEF IInv, Types
  <1>5. Serial' /\ OneDetach' /\ Opens'
    BY <1>1, <1>2, <1>3 DEF IInv, Serial, OneDetach, Opens, InClose, InHandle, DetachSteps
  <1>6. Holds' /\ Ends' /\ Sent'
    BY <1>1, <1>2, Zenon DEF IInv, Holds, Ends, Sent, InClose, DetachSteps
  <1>7. Output' /\ Closes' /\ Hangup' /\ Input'
    BY <1>1, <1>2 DEF IInv, Output, Closes, Hangup, Input, OnEOF, InHandle
  <1>8. QED
    BY <1>4, <1>5, <1>6, <1>7 DEF IInv

=============================================================================
