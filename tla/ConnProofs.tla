----------------------------- MODULE ConnProofs -----------------------------
(***************************************************************************)
(* The connection of module Conn, for any number of goroutines and         *)
(* pollers, any sizes and any scenario: nothing is stranded, a graceful    *)
(* close sends everything, the fd and the count are held as long as they   *)
(* are used, the callbacks come in order, and its task is a SerialTask.    *)
(* ConnRoundProofs has the invariant and the steps of the task; the steps  *)
(* of everybody else are here.                                             *)
(***************************************************************************)
EXTENDS ConnRoundProofs

(***************************************************************************)
(* Steps of the others                                                     *)
(***************************************************************************)

\* One goroutine goes on to another step.
LEMMA CallGoes ==
    ASSUME call \in [Goroutines -> CallSteps], NEW g \in Goroutines, NEW x \in CallSteps, call' = [call EXCEPT ![g] = x]
    PROVE  /\ call' \in [Goroutines -> CallSteps] /\ x \in Calls' /\ call[g] \in Calls
           /\ Calls' \subseteq Calls \cup {x} /\ Calls \subseteq Calls' \cup {call[g]}
  BY DEF Calls

\* The one in Detach is the only one.
LEMMA DetachGoes ==
    ASSUME IInv, NEW g \in Goroutines, NEW x \in CallSteps, call' = [call EXCEPT ![g] = x],
           call[g] \in DetachSteps \/ Calls \cap DetachSteps = {}
    PROVE  /\ OneDetach' /\ Calls' \cap DetachSteps \subseteq {x} /\ Calls \cap DetachSteps \subseteq {call[g]}
  <1>1. call \in [Goroutines -> CallSteps]
    BY DEF IInv, TypeOK
  <1>2. \A h \in Goroutines : h # g => call[h] \notin DetachSteps /\ call'[h] = call[h]
    BY <1>1 DEF IInv, OneDetach, Calls
  <1>3. QED
    BY <1>1, <1>2 DEF OneDetach, Calls

\* What the others leave alone: the round, what is held, and Detach.
OthersGo ==
    /\ t' = t
    /\ events \subseteq events' /\ events' \subseteq Events /\ ("Open" \in events' => "Open" \in events)
    /\ \/ UNCHANGED word
       \/ scheduled' = TRUE /\ queued' = (queued \/ ~scheduled)
    /\ UNCHANGED call \/ (/\ Calls' \cap DetachSteps = Calls \cap DetachSteps
                          /\ \A g \in Goroutines : call'[g] \in DetachSteps <=> call[g] \in DetachSteps)
    /\ seen.opened = 0 => UNCHANGED call /\ c'.closing = c.closing /\ c'.out = c.out /\ seen'.owed = seen.owed
    /\ c'.closed = c.closed /\ c'.closeErr = c.closeErr /\ k'.open = k.open /\ k'.watched = k.watched
    /\ srv'.inTable = srv.inTable /\ srv'.wg = srv.wg
    /\ seen'.opened = seen.opened /\ seen'.closes = seen.closes /\ seen'.reason = seen.reason

\* The others keep what is held, and what the task is at.
LEMMA OthersKeep ==
    ASSUME IInv, OthersGo
    PROVE  Serial' /\ OneDetach' /\ Opens' /\ Holds' /\ Ends'
  <1>1. /\ Calls' \cap DetachSteps = Calls \cap DetachSteps
        /\ seen.opened = 0 => Calls' = Calls
        /\ "tookOver" \in Calls' <=> "tookOver" \in Calls
        /\ "taken" \in Calls' <=> "taken" \in Calls
        /\ "deleted" \in Calls' <=> "deleted" \in Calls
        /\ "removed" \in Calls' <=> "removed" \in Calls
    BY SMTT(40) DEF OthersGo, Calls, DetachSteps
  <1>2. OneDetach'
    BY DEF IInv, OthersGo, OneDetach
  <1>3. /\ scheduled \in BOOLEAN /\ queued \in BOOLEAN /\ (scheduled => scheduled') /\ (queued => queued')
        /\ scheduled => queued' = queued
        /\ ~scheduled /\ scheduled' => t.pc = "none" /\ ~c.closed /\ Calls \cap DetachSteps = {}
        /\ queued' => scheduled'
        /\ events' # {} => scheduled'
    BY DEF IInv, OthersGo, Serial, TypeOK, word
  <1>4. Serial'
    BY <1>1, <1>3 DEF IInv, OthersGo, Serial, InClose, DetachSteps
  <1>5. Opens'
    BY <1>1, <1>3 DEF IInv, OthersGo, Opens
  <1>6. Holds'
    BY <1>1 DEF IInv, OthersGo, Holds
  <1>7. Ends'
    BY DEF IInv, OthersGo, Ends
  <1>8. QED
    BY <1>2, <1>4, <1>5, <1>6, <1>7

\* A notification by the others.
LEMMA OthersNotify ==
    ASSUME IInv, NEW evs \in SUBSET (Events \ {"Open"}), notify(evs)
    PROVE  /\ events \subseteq events' /\ events' \subseteq Events /\ ("Open" \in events' => "Open" \in events)
           /\ scheduled' = TRUE /\ queued' = (queued \/ ~scheduled) /\ queued' \in BOOLEAN /\ evs \subseteq events'
  BY DEF IInv, TypeOK, notify

\* They leave the connection and the socket alone, and drop nothing.
LEMMA OthersMove ==
    ASSUME IInv, OthersGo, UNCHANGED <<c, k, seen>>, scheduled' \in BOOLEAN, queued' \in BOOLEAN,
           polled' \in [Pollers -> SUBSET PollEvents], call' \in [Goroutines -> CallSteps], srv' \in SrvType, left' \in Bounds,
           "Write" \in Pending \/ "wrote" \in Calls => "Write" \in Pending' \/ "wrote" \in Calls' \/ c.out = 0,
           "Read" \in Pending \/ "resumed" \in Calls =>
               "Read" \in Pending' \/ "resumed" \in Calls' \/ seen.opened = 0 \/ c.closed,
           "closeRequested" \in Calls => "Close" \in events' \/ "closeRequested" \in Calls',
           HangupPending => HangupPending' \/ seen.opened = 0 \/ c.closed
    PROVE  IInv'
  <1>1. Serial' /\ OneDetach' /\ Opens' /\ Holds' /\ Ends'
    BY OthersKeep
  <1>2. TypeOK'
    BY TypesAre DEF IInv, Types, OthersGo
  <1>3. Sent' /\ Output'
    BY DEF IInv, Sent, Output, OthersGo
  <1>4. Closes' /\ Hangup'
    BY DEF IInv, Closes, Hangup, OthersGo
  <1>5. Input'
    BY DEF IInv, Input, OthersGo
  <1>6. QED
    BY <1>1, <1>2, <1>3, <1>4, <1>5 DEF IInv

\* The notification that ends a call.
LEMMA NotifyKeeps ==
    ASSUME IInv, NEW g \in Goroutines, callNotify(g)
    PROVE  IInv'
  <1>1. /\ call \in [Goroutines -> CallSteps] /\ call[g] \in {"wrote", "closeRequested", "resumed"} /\ notify(notified(call[g]))
        /\ call' = [call EXCEPT ![g] = "none"] /\ UNCHANGED <<t, c, k, polled, srv, left, seen>>
        /\ srv \in SrvType /\ left \in Bounds /\ polled \in [Pollers -> SUBSET PollEvents]
    BY TypesAre DEF IInv, Types, callNotify
  <1>2. /\ call[g] = "wrote" => notified(call[g]) = {"Write"}
        /\ call[g] = "closeRequested" => notified(call[g]) = {"Close"}
        /\ call[g] = "resumed" => notified(call[g]) = {"Read", "Resume"}
    BY DEF notified
  <1>3. /\ events \subseteq events' /\ events' \subseteq Events /\ ("Open" \in events' => "Open" \in events)
        /\ scheduled' = TRUE /\ queued' = (queued \/ ~scheduled) /\ queued' \in BOOLEAN /\ notified(call[g]) \subseteq events'
    <2>1. notified(call[g]) \in SUBSET (Events \ {"Open"})
      BY <1>1, <1>2 DEF Events
    <2>2. QED
      BY <1>1, <2>1, OthersNotify, Zenon
  <1>4. /\ call' \in [Goroutines -> CallSteps] /\ call[g] \in Calls
        /\ Calls' \subseteq Calls \cup {"none"} /\ Calls \subseteq Calls' \cup {call[g]}
    BY <1>1, CallGoes, Zenon DEF CallSteps
  <1>5. \A h \in Goroutines : call'[h] \in DetachSteps <=> call[h] \in DetachSteps
    BY <1>1 DEF DetachSteps
  <1>6. Calls' \cap DetachSteps = Calls \cap DetachSteps
    BY <1>1, <1>4 DEF DetachSteps
  <1>7. seen.opened # 0
    BY <1>1, <1>4 DEF IInv, Opens
  <1>8. OthersGo
    BY <1>1, <1>3, <1>5, <1>6, <1>7 DEF OthersGo
  <1>9. Pending \subseteq Pending' /\ events' \subseteq Pending' /\ (HangupPending => HangupPending')
    BY <1>1, <1>3 DEF Pending, HangupPending
  <1>10. QED
    BY <1>1, <1>2, <1>3, <1>4, <1>8, <1>9, OthersMove

\* The deadline scan and the server notify.
LEMMA ServerKeeps ==
    ASSUME IInv, checkDeadlines \/ serveDraining \/ serveShutdown
    PROVE  IInv'
  <1>1. /\ UNCHANGED <<t, c, k, polled, call, left, seen>> /\ srv \in SrvType
        /\ \/ UNCHANGED word
           \/ \E evs \in SUBSET (Events \ {"Open"}) : notify(evs)
        /\ srv' = srv \/ \E ph \in {"draining", "notified"} : srv' = [srv EXCEPT !.phase = ph]
    BY TypesAre DEF checkDeadlines, serveDraining, serveShutdown, Events, IInv, Types
  <1>2. srv' \in SrvType /\ srv'.inTable = srv.inTable /\ srv'.wg = srv.wg
    BY <1>1 DEF SrvType
  <1>3. /\ events \subseteq events' /\ events' \subseteq Events /\ ("Open" \in events' => "Open" \in events)
        /\ scheduled' \in BOOLEAN /\ queued' \in BOOLEAN
        /\ UNCHANGED word \/ (scheduled' = TRUE /\ queued' = (queued \/ ~scheduled))
    BY <1>1, OthersNotify, TypesAre, Zenon DEF word, IInv, Types
  <1>4. OthersGo
    BY <1>1, <1>2, <1>3 DEF OthersGo
  <1>5. Pending \subseteq Pending' /\ Calls' = Calls /\ (HangupPending => HangupPending')
    BY <1>1, <1>3 DEF Pending, HangupPending, Calls
  <1>6. QED
    BY <1>1, <1>2, <1>3, <1>4, <1>5, OthersMove, TypesAre DEF IInv, Types

\* A poller hands an event over, or drops it.
LEMMA HandleEventKeeps ==
    ASSUME IInv, NEW p \in Pollers, handleEvent(p)
    PROVE  IInv'
  <1>1. /\ UNCHANGED <<t, c, k, call, srv, left, seen>> /\ polled \in [Pollers -> SUBSET PollEvents]
        /\ polled' = [polled EXCEPT ![p] = {}] /\ Calls' = Calls
        /\ polled[p] \in SUBSET (Events \ {"Open"})
        /\ IF srv.inTable /\ (polled[p] # {"Write"} \/ c.backlogged) THEN notify(polled[p]) ELSE UNCHANGED word
    BY TypesAre DEF handleEvent, Events, PollEvents, IInv, Types, Calls
  <1>2. /\ polled' \in [Pollers -> SUBSET PollEvents]
        /\ \A q \in Pollers \ {p} : polled'[q] = polled[q]
    BY <1>1
  <1>3. /\ events \subseteq events' /\ events' \subseteq Events /\ ("Open" \in events' => "Open" \in events)
        /\ scheduled' \in BOOLEAN /\ queued' \in BOOLEAN
        /\ UNCHANGED word \/ (scheduled' = TRUE /\ queued' = (queued \/ ~scheduled))
        /\ polled[p] \subseteq events' \/ ~srv.inTable \/ (polled[p] = {"Write"} /\ ~c.backlogged)
    BY <1>1, OthersNotify, TypesAre, Zenon DEF word, IInv, Types
  <1>4. OthersGo
    BY <1>1, <1>3 DEF OthersGo
  <1>5. /\ \A e \in Pending : e \in Pending' \/ e \in polled[p]
        /\ HangupPending => HangupPending' \/ {"Read", "Hup"} \subseteq polled[p]
        /\ events' \subseteq Pending' /\ ({"Read", "Hup"} \subseteq events' => HangupPending')
    BY <1>2, <1>3 DEF Pending, HangupPending
  <1>6. /\ ~srv.inTable => seen.opened = 0 \/ c.closed
        /\ ~c.backlogged => c.out = 0
        /\ seen.opened = 0 => c.out = 0
        /\ c.closed => c.out = 0
    BY TypesAre DEF IInv, Opens, Sent, Types, SeenType, CType
  <1>7. QED
    BY <1>1, <1>2, <1>3, <1>4, <1>5, <1>6, OthersMove, TypesAre, Zenon DEF IInv, Types

\* The clock.
LEMMA DeadlineKeeps ==
    ASSUME IInv, UNCHANGED <<word, t, k, polled, call, srv, seen>>, left' \in Bounds,
           \E d \in {"none", "set", "due"} : c' = [c EXCEPT !.deadline = d]
    PROVE  IInv'
  <1>1. /\ c' \in CType
        /\ \A f \in {"readPaused", "backlogged", "closing", "closed", "peerClosed", "readClosed", "out", "closeErr"} : c'[f] = c[f]
    BY TypesAre DEF IInv, Types, CType
  <1>2. TypeOK'
    BY <1>1, TypesAre DEF IInv, Types, word
  <1>3. /\ Calls' = Calls /\ Pending' = Pending /\ HangupPending' = HangupPending
    BY DEF Calls, Pending, HangupPending, word
  <1>4. OthersGo
    BY <1>1, <1>2 DEF OthersGo, word, TypeOK
  <1>5. Serial' /\ OneDetach' /\ Opens' /\ Holds' /\ Ends'
    BY <1>4, OthersKeep
  <1>6. Sent' /\ Output' /\ Closes' /\ Hangup' /\ Input'
    BY <1>1, <1>3 DEF IInv, Sent, Output, Closes, Hangup, Input, word
  <1>7. QED
    BY <1>2, <1>5, <1>6 DEF IInv

\* The kernel and a poller.
LEMMA PollKeeps ==
    ASSUME IInv, NEW p \in Pollers, Poll(p)
    PROVE  IInv'
  <1>1. /\ k \in KType /\ k' = [k EXCEPT !.armed = FALSE] /\ polled[p] = {} /\ polled' = [polled EXCEPT ![p] = readiness]
        /\ polled \in [Pollers -> SUBSET PollEvents] /\ UNCHANGED <<word, t, c, call, srv, left, seen>> /\ Calls' = Calls
    BY TypesAre DEF IInv, Types, Poll, Calls
  <1>2. /\ k' \in KType /\ \A f \in {"open", "rx", "fin", "reset", "space", "nospace", "watched"} : k'[f] = k[f]
    BY <1>1, Zenon DEF KType
  <1>3. polled' \in [Pollers -> SUBSET PollEvents] /\ polled'[p] = readiness /\ \A q \in Pollers \ {p} : polled'[q] = polled[q]
    BY <1>1 DEF readiness
  <1>4. /\ Pending \subseteq Pending' /\ readiness \subseteq Pending'
        /\ HangupPending \/ {"Read", "Hup"} \subseteq readiness => HangupPending'
    BY <1>1, <1>3 DEF Pending, HangupPending, word
  <1>5. /\ "Read" \in readiness <=> k.rx > 0 \/ k.fin \/ k.reset
        /\ "Write" \in readiness <=> k.space > 0 \/ k.reset
        /\ "Hup" \in readiness <=> k.fin \/ k.reset
    BY DEF readiness, PollEvents
  <1>6. TypeOK'
    BY <1>1, <1>2, <1>3, TypesAre DEF IInv, Types, word
  <1>7. OthersGo
    BY <1>1, <1>2, <1>6 DEF OthersGo, word, TypeOK
  <1>8. Serial' /\ OneDetach' /\ Opens' /\ Holds' /\ Ends'
    BY <1>7, OthersKeep
  <1>9. Sent' /\ Output' /\ Closes'
    BY <1>1, <1>2, <1>4, <1>5 DEF IInv, Sent, Output, Closes, word
  <1>10. Hangup' /\ Input'
    BY <1>1, <1>2, <1>4, <1>5 DEF IInv, Hangup, Input, word
  <1>11. QED
    BY <1>6, <1>8, <1>9, <1>10 DEF IInv

\* What the peer does to the socket.
LEMMA PeerKeeps ==
    ASSUME IInv, peerSends \/ peerCloses \/ peerTakes
    PROVE  IInv'
  <1>1. /\ k \in KType /\ c \in CType /\ left \in Bounds /\ UNCHANGED <<word, t, c, polled, call, srv, seen>>
        /\ Calls' = Calls /\ Pending' = Pending /\ HangupPending' = HangupPending
    BY TypesAre DEF IInv, Types, peerSends, peerCloses, peerTakes, Calls, Pending, HangupPending, word
  <1>2. (k.armed \/ k.watched) \in BOOLEAN /\ (k.armed \/ (k.watched /\ k.nospace)) \in BOOLEAN
    BY <1>1 DEF KType
  <1>3. /\ k' \in KType /\ left' \in Bounds /\ k'.open = k.open /\ k'.watched = k.watched /\ (k.armed => k'.armed)
        /\ \/ peerSends /\ k'.armed = (k.armed \/ k.watched) /\ \A f \in {"fin", "reset", "space", "nospace"} : k'[f] = k[f]
           \/ /\ peerCloses /\ k'.armed = (k.armed \/ k.watched) /\ \A f \in {"rx", "space", "nospace"} : k'[f] = k[f]
              /\ k.reset => k'.reset
           \/ /\ peerTakes /\ k'.armed = (k.armed \/ (k.watched /\ k.nospace)) /\ k'.space > 0
              /\ \A f \in {"rx", "fin", "reset"} : k'[f] = k[f]
    <2>1. CASE peerSends
      <3>1. k.rx + 1 \in Nat /\ k' = [k EXCEPT !.rx = k.rx + 1, !.armed = k.armed \/ k.watched]
        BY <1>1, <2>1 DEF peerSends, KType
      <3>2. left' \in Bounds
        BY <1>1, <2>1 DEF peerSends, Bounds
      <3>3. QED
        BY <1>1, <1>2, <2>1, <3>1, <3>2, Zenon DEF KType
    <2>2. CASE peerCloses
      <3>1. left' = left /\ (k' = [k EXCEPT !.fin = TRUE, !.armed = k.armed \/ k.watched] \/ k' = [k EXCEPT !.reset = TRUE, !.armed = k.armed \/ k.watched])
        BY <2>2 DEF peerCloses
      <3>2. QED
        BY <1>1, <1>2, <2>2, <3>1, Zenon DEF KType
    <2>3. CASE peerTakes
      <3>1. /\ k.space + 1 \in 0..SndBuf /\ k.space + 1 > 0 /\ left' = left
            /\ k' = [k EXCEPT !.space = k.space + 1, !.nospace = FALSE, !.armed = k.armed \/ (k.watched /\ k.nospace)]
        BY <1>1, <2>3, ConnAssumption DEF peerTakes, KType
      <3>2. QED
        BY <1>1, <1>2, <2>3, <3>1, Zenon DEF KType
    <2>4. QED
      BY <2>1, <2>2, <2>3
  <1>4. TypeOK'
    BY <1>1, <1>3, TypesAre DEF IInv, Types, word
  <1>5. OthersGo
    BY <1>1, <1>3, <1>4 DEF OthersGo, word, TypeOK
  <1>6. Serial' /\ OneDetach' /\ Opens' /\ Holds' /\ Ends'
    BY <1>5, OthersKeep
  <1>7. /\ seen.opened = 1 /\ ~c.closed => k.watched
        /\ c.out > 0 => seen.opened = 1
    BY <1>1, TypesAre DEF IInv, Opens, Types, SeenType
  <1>8. Sent' /\ Closes'
    BY <1>1 DEF IInv, Sent, Closes, word
  <1>9. Output'
    BY <1>1, <1>3, <1>7, Zenon DEF IInv, Output, word
  <1>10. Hangup'
    BY <1>1, <1>3, <1>7, Zenon DEF IInv, Hangup, word
  <1>11. Input'
    BY <1>1, <1>3, <1>7, Zenon DEF IInv, Input, word, peerSends, peerCloses, OnEOF
  <1>12. QED
    BY <1>4, <1>6, <1>8, <1>9, <1>10, <1>11 DEF IInv

(***************************************************************************)
(* Calls of the application                                                *)
(***************************************************************************)

\* A call begins.
LEMMA Calling ==
    ASSUME IInv, NEW g \in Goroutines, NEW input, MayCall(g, input), NEW e \in Nat, e <= left.eintr, called(e)
    PROVE  left' \in Bounds /\ call[g] = "none" /\ seen.opened = 1
  <1>1. left.calls - 1 \in Nat /\ left.eintr - e \in Nat /\ left \in Bounds
    BY TypesAre DEF MayCall, IInv, Types, Bounds
  <1>2. QED
    BY <1>1, Zenon DEF MayCall, called, Bounds

\* PauseRead, ResumeRead and Close: what they change of the connection, and the
\* notification they owe.
LEMMA CallKeeps ==
    ASSUME IInv, NEW g \in Goroutines, call[g] = "none", seen.opened = 1, left' \in Bounds,
           UNCHANGED <<word, t, k, polled, srv, seen>>, c' \in CType,
           \/ c' = [c EXCEPT !.readPaused = TRUE] /\ call' = call
           \/ c' = [c EXCEPT !.readPaused = FALSE] /\ call' = [call EXCEPT ![g] = "resumed"]
           \/ c' = [c EXCEPT !.closing = TRUE, !.closeErr = c.closeErr] /\ call' = [call EXCEPT ![g] = "closeRequested"]
    PROVE  IInv'
  <1>1. /\ c \in CType /\ call \in [Goroutines -> CallSteps] /\ Pending' = Pending /\ HangupPending' = HangupPending
    BY TypesAre DEF IInv, Types, Pending, HangupPending, word
  <1>2. /\ \A f \in {"backlogged", "closed", "peerClosed", "readClosed", "out", "closeErr"} : c'[f] = c[f]
        /\ \/ c'.readPaused /\ c'.closing = c.closing /\ call' = call
           \/ c'.closing = c.closing /\ call' = [call EXCEPT ![g] = "resumed"]
           \/ c'.closing /\ c'.readPaused = c.readPaused /\ call' = [call EXCEPT ![g] = "closeRequested"]
    BY <1>1, ZenonT(60) DEF CType
  <1>3. /\ call' \in [Goroutines -> CallSteps] /\ Calls \subseteq Calls' \cup {"none"}
        /\ \A h \in Goroutines : call'[h] \in DetachSteps <=> call[h] \in DetachSteps
        /\ call' = [call EXCEPT ![g] = "resumed"] => "resumed" \in Calls'
        /\ call' = [call EXCEPT ![g] = "closeRequested"] => "closeRequested" \in Calls'
        /\ Calls' \subseteq Calls \cup {"resumed", "closeRequested"}
    BY <1>1, <1>2 DEF Calls, CallSteps, DetachSteps
  <1>4. Calls' \cap DetachSteps = Calls \cap DetachSteps
    BY <1>3 DEF DetachSteps
  <1>5. TypeOK'
    BY <1>3, TypesAre DEF IInv, Types, word
  <1>6. OthersGo
    BY <1>2, <1>3, <1>4, <1>5 DEF OthersGo, word, TypeOK
  <1>7. Serial' /\ OneDetach' /\ Opens' /\ Holds' /\ Ends'
    BY <1>6, OthersKeep
  <1>8. Sent' /\ Output' /\ Closes'
    BY <1>1, <1>2, <1>3 DEF IInv, Sent, Output, Closes, word
  <1>9. Hangup' /\ Input'
    BY <1>1, <1>2, <1>3 DEF IInv, Hangup, Input, word
  <1>10. QED
    BY <1>5, <1>7, <1>8, <1>9 DEF IInv

\* What Write's own sysWrite does: bytes are left over only when the socket is full,
\* something is backed up, or a signal interrupts.
LEMMA DirectWrite ==
    ASSUME IInv, NEW want \in Nat \ {0}, NEW w \in directWrite(want), NEW g \in Goroutines, MayCall(g, "write"), called(w.eintr)
    PROVE  /\ w.n \in Nat /\ w.n <= want /\ (c.out > 0 => w.n = 0) /\ left' \in Bounds
           /\ w.k \in KType /\ \A f \in {"open", "rx", "fin", "reset", "watched", "armed"} : w.k[f] = k[f]
  <1>1. k \in KType /\ c \in CType /\ left.eintr \in Nat
    BY TypesAre DEF IInv, Types, Bounds
  <1>0. w.eintr \in Nat /\ w.eintr <= left.eintr => left' \in Bounds
    BY Calling
  <1>2. CASE c.out > 0 /\ w = [n |-> 0, k |-> k, eintr |-> 0]
    BY <1>0, <1>1, <1>2
  <1>3. CASE \E i \in 1..left.eintr : w = [n |-> 0, k |-> k, eintr |-> 1]
    <2>1. w.n = 0 /\ w.k = k /\ w.eintr = 1 /\ 1 <= left.eintr
      BY <1>1, <1>3
    <2>2. QED
      BY <1>0, <1>1, <2>1
  <1>4. CASE ~(c.out > 0) /\ w = [n |-> Min(k.space, want), k |-> afterWrite(Min(k.space, want), want), eintr |-> 0]
    <2> DEFINE n == Min(k.space, want)
               rest == n < want
    <2>1. n \in Nat /\ n <= want /\ k.space - n \in 0..SndBuf
      BY <1>1, ConnAssumption DEF Min, KType
    <2>2. (k.nospace \/ rest) \in BOOLEAN /\ afterWrite(n, want) = [k EXCEPT !.space = k.space - n, !.nospace = k.nospace \/ rest]
      BY Zenon DEF afterWrite
    <2>3. left' \in Bounds
      BY <1>0, <1>1, <1>4
    <2> HIDE DEF n, rest
    <2>4. afterWrite(n, want) \in KType /\ \A f \in {"open", "rx", "fin", "reset", "watched", "armed"} : afterWrite(n, want)[f] = k[f]
      BY <1>1, <2>1, <2>2, Zenon DEF KType
    <2>5. w.n = n /\ w.k = afterWrite(n, want)
      BY <1>4 DEF n
    <2>6. QED
      BY <1>4, <2>1, <2>3, <2>4, <2>5
  <1>5. QED
    BY <1>2, <1>3, <1>4 DEF directWrite

\* Write's critical section.
LEMMA WriteKeeps ==
    ASSUME IInv, NEW g \in Goroutines, NEW want \in Nat \ {0}, Write(g, want)
    PROVE  IInv'
  <1>1. PICK w \in directWrite(want) :
           /\ k' = w.k /\ called(w.eintr)
           /\ c' = [c EXCEPT !.out = @ + want - w.n, !.backlogged = @ \/ w.n < want]
           /\ call' = [call EXCEPT ![g] = IF w.n < want THEN "wrote" ELSE "none"]
           /\ seen' = [seen EXCEPT !.unsent = @ + want - w.n, !.owed = @ \/ c'.out > MaxBacklog]
    BY Zenon DEF Write
  <1>2. /\ MayCall(g, "write") /\ ~c.closed /\ ~c.closing /\ call[g] = "none" /\ seen.opened = 1
        /\ UNCHANGED <<word, t, polled, srv>>
    BY DEF Write, MayCall
  <1>3. /\ w.n \in Nat /\ w.n <= want /\ (c.out > 0 => w.n = 0) /\ left' \in Bounds
        /\ w.k \in KType /\ \A f \in {"open", "rx", "fin", "reset", "watched", "armed"} : w.k[f] = k[f]
    BY <1>1, <1>2, DirectWrite, Zenon
  <1>4. /\ c \in CType /\ seen \in SeenType /\ call \in [Goroutines -> CallSteps] /\ k \in KType
        /\ seen.unsent = c.out /\ (c.backlogged <=> c.out > 0) /\ (seen.owed => c.out > MaxBacklog)
    BY <1>2, TypesAre DEF IInv, Types, Sent
  <1> DEFINE out == c.out + want - w.n
             rest == w.n < want
             over == out > MaxBacklog
  <1>5. /\ out \in Nat /\ out >= c.out /\ (c.backlogged \/ rest <=> out > 0) /\ (out > 0 => rest)
        /\ seen.owed => over
        /\ seen.unsent + want - w.n = out
    BY <1>3, <1>4, ConnAssumption DEF CType
  <1>6. (c.backlogged \/ rest) \in BOOLEAN /\ (seen.owed \/ over) \in BOOLEAN
    BY Zenon
  <1>7. c' = [c EXCEPT !.out = out, !.backlogged = c.backlogged \/ rest]
    BY <1>1
  <1>8. c' \in CType /\ c'.out = out /\ c'.backlogged = (c.backlogged \/ rest)
        /\ \A f \in {"readPaused", "closing", "closed", "peerClosed", "readClosed", "closeErr"} : c'[f] = c[f]
    <2> HIDE DEF out, rest
    <2>1. QED
      BY <1>4, <1>5, <1>6, <1>7, Zenon DEF CType
  <1>9. seen' = [seen EXCEPT !.unsent = out, !.owed = seen.owed \/ over]
    <2>1. seen' = [seen EXCEPT !.unsent = seen.unsent + want - w.n, !.owed = seen.owed \/ c'.out > MaxBacklog]
      BY <1>1
    <2>2. QED
      BY <1>5, <1>8, <2>1, Zenon
  <1>10. /\ call' = [call EXCEPT ![g] = IF rest THEN "wrote" ELSE "none"]
    BY <1>1
  <1> HIDE DEF rest, over
  <1>11. /\ seen' \in SeenType /\ seen'.unsent = out /\ seen'.owed = (seen.owed \/ over)
         /\ seen'.opened = seen.opened /\ seen'.closes = seen.closes /\ seen'.reason = seen.reason
    <2> HIDE DEF out
    <2>1. QED
      BY <1>4, <1>5, <1>6, <1>9, Zenon DEF SeenType
  <1>12. /\ call' \in [Goroutines -> CallSteps] /\ Calls \subseteq Calls' \cup {"none"} /\ (rest => "wrote" \in Calls')
         /\ \A h \in Goroutines : call'[h] \in DetachSteps <=> call[h] \in DetachSteps
         /\ Calls' \subseteq Calls \cup {"wrote", "none"}
    BY <1>2, <1>4, <1>10 DEF Calls, CallSteps, DetachSteps
  <1>13. Calls' \cap DetachSteps = Calls \cap DetachSteps /\ Pending' = Pending /\ HangupPending' = HangupPending
    BY <1>2, <1>12 DEF DetachSteps, Pending, HangupPending, word
  <1>14. TypeOK'
    BY <1>1, <1>2, <1>3, <1>8, <1>11, <1>12, TypesAre DEF IInv, Types, word
  <1>15. OthersGo
    BY <1>1, <1>2, <1>3, <1>8, <1>11, <1>12, <1>13, <1>14 DEF OthersGo, word, TypeOK
  <1>16. Serial' /\ OneDetach' /\ Opens' /\ Holds' /\ Ends'
    BY <1>15, OthersKeep, Zenon
  <1>17. Sent'
    <2>1. c'.backlogged <=> c'.out > 0
      BY <1>5, <1>8, Zenon
    <2>2. seen'.owed => c'.out > MaxBacklog
      BY <1>5, <1>8, <1>11, Zenon DEF over
    <2>3. QED
      BY <1>2, <1>8, <1>11, <2>1, <2>2 DEF IInv, Sent, Ends, Serial, InClose
  <1>18. Output'
    BY <1>5, <1>8, <1>12 DEF Output
  <1>19. Closes' /\ Hangup'
    BY <1>1, <1>2, <1>3, <1>8, <1>11, <1>13 DEF IInv, Closes, Hangup
  <1>20. Input'
    <2>1. c.out > MaxBacklog => c'.out > MaxBacklog
      BY <1>4, <1>5, <1>8, ConnAssumption DEF CType
    <2>2. QED
      BY <1>1, <1>2, <1>3, <1>8, <1>11, <1>12, <1>13, <2>1 DEF IInv, Input
  <1>21. QED
    BY <1>14, <1>16, <1>17, <1>18, <1>19, <1>20 DEF IInv

\* Detach takes the task over.
LEMMA DetachKeeps ==
    ASSUME IInv, NEW g \in Goroutines, Detach(g)
    PROVE  IInv'
  <1>1. /\ call[g] = "none" /\ seen.opened = 1 /\ left' \in Bounds /\ events = {} /\ ~scheduled /\ scheduled' = TRUE
        /\ call' = [call EXCEPT ![g] = "tookOver"] /\ UNCHANGED <<events, queued, t, c, k, polled, srv, seen>>
        /\ call \in [Goroutines -> CallSteps]
    <2>1. left.eintr \in Nat /\ call \in [Goroutines -> CallSteps]
      BY TypesAre DEF IInv, Types, Bounds
    <2>2. QED
      BY <2>1, Calling DEF Detach, takeOver
  <1>2. /\ t.pc = "none" /\ ~queued /\ ~c.closed /\ Calls \cap DetachSteps = {}
    BY <1>1, Zenon DEF IInv, Serial
  <1>3. OneDetach' /\ Calls' \cap DetachSteps \subseteq {"tookOver"}
    BY <1>1, <1>2, DetachGoes, Zenon DEF CallSteps
  <1>4. /\ call' \in [Goroutines -> CallSteps] /\ "tookOver" \in Calls' /\ Calls \subseteq Calls' \cup {"none"}
    BY <1>1, CallGoes, Zenon DEF CallSteps
  <1>5. Pending' = Pending /\ HangupPending' = HangupPending
    BY <1>1 DEF Pending, HangupPending
  <1>6. TypeOK'
    BY <1>1, <1>4, TypesAre DEF IInv, Types
  <1>7. Serial' /\ Opens'
    BY <1>1, <1>2, <1>3 DEF IInv, Serial, Opens, DetachSteps, InClose
  <1>8. Holds' /\ Ends' /\ Sent'
    BY <1>1, <1>2, <1>3, Zenon DEF IInv, Holds, Ends, Sent, DetachSteps
  <1>9. Output' /\ Closes' /\ Hangup' /\ Input'
    BY <1>1, <1>4, <1>5 DEF IInv, Output, Closes, Hangup, Input
  <1>10. QED
    BY <1>3, <1>6, <1>7, <1>8, <1>9 DEF IInv

\* Detach gives the task back, or takes the connection.
LEMMA DetachTakeKeeps ==
    ASSUME IInv, NEW g \in Goroutines, detachTake(g)
    PROVE  IInv'
  <1>1. /\ call \in [Goroutines -> CallSteps] /\ call[g] = "tookOver" /\ "tookOver" \in Calls /\ c \in CType
        /\ UNCHANGED <<events, t, k, polled, srv, left, seen>>
        /\ Pending' = Pending /\ HangupPending' = HangupPending
    BY TypesAre DEF IInv, Types, detachTake, Calls, Pending, HangupPending
  <1>2. /\ t.pc = "none" /\ ~queued /\ ~c.closed /\ scheduled /\ seen.opened = 1
    BY <1>1, TypesAre DEF IInv, Serial, Opens, DetachSteps, Types, SeenType
  <1>3. CASE c.closing /\ call' = [call EXCEPT ![g] = "none"] /\ scheduled' = (events # {}) /\ queued' = (events # {}) /\ c' = c
    <2>1. OneDetach' /\ Calls' \cap DetachSteps = {}
      BY <1>1, <1>3, DetachGoes, Zenon DEF CallSteps, DetachSteps
    <2>2. /\ call' \in [Goroutines -> CallSteps] /\ Calls \subseteq Calls' \cup {"tookOver"}
      BY <1>1, <1>3, CallGoes, Zenon DEF CallSteps
    <2>3. TypeOK'
      BY <1>1, <1>3, <2>2, TypesAre, Zenon DEF IInv, Types
    <2>4. Serial' /\ Opens'
      BY <1>1, <1>2, <1>3, <2>1, Zenon DEF IInv, Serial, Opens, DetachSteps, InClose
    <2>5. Holds' /\ Ends' /\ Sent'
      BY <1>1, <1>2, <1>3, <2>1, Zenon DEF IInv, Holds, Ends, Sent, DetachSteps
    <2>6. Output' /\ Closes' /\ Hangup' /\ Input'
      BY <1>1, <1>3, <2>2 DEF IInv, Output, Closes, Hangup, Input
    <2>7. QED
      BY <2>1, <2>3, <2>4, <2>5, <2>6, Zenon DEF IInv
  <1>4. CASE /\ ~c.closing /\ call' = [call EXCEPT ![g] = "taken"] /\ UNCHANGED <<scheduled, queued>>
             /\ c' = [c EXCEPT !.closed = TRUE, !.out = 0, !.backlogged = FALSE, !.in = 0]
    <2>1. OneDetach' /\ Calls' \cap DetachSteps \subseteq {"taken"}
      BY <1>1, <1>4, DetachGoes, Zenon DEF CallSteps, DetachSteps
    <2>2. /\ call' \in [Goroutines -> CallSteps] /\ "taken" \in Calls'
      BY <1>1, <1>4, CallGoes, Zenon DEF CallSteps
    <2>3. c' \in CType /\ c'.closed /\ c'.out = 0 /\ ~c'.backlogged /\ c'.closeErr = c.closeErr
      BY <1>1, <1>4, Zenon DEF CType
    <2>4. TypeOK'
      BY <1>1, <1>4, <2>2, <2>3, TypesAre DEF IInv, Types
    <2>5. Serial' /\ Opens'
      BY <1>1, <1>2, <1>4, <2>1, <2>2, <2>3 DEF IInv, Serial, Opens, DetachSteps, InClose
    <2>6. Holds' /\ Ends' /\ Sent'
      BY <1>1, <1>2, <1>4, <2>1, <2>2, <2>3 DEF IInv, Holds, Ends, Sent, DetachSteps
    <2>7. Output' /\ Closes' /\ Hangup' /\ Input'
      BY <1>1, <1>2, <2>3, ClosedIsQuiet
    <2>8. QED
      BY <2>1, <2>4, <2>5, <2>6, <2>7, Zenon DEF IInv
  <1>5. QED
    BY <1>3, <1>4 DEF detachTake

\* The connection that Detach has taken is let go of, part by part.
LEMMA LetGo ==
    ASSUME IInv, NEW g \in Goroutines, NEW x \in {"deleted", "removed", "none"}, call[g] \in {"taken", "deleted", "removed"},
           call' = [call EXCEPT ![g] = x], UNCHANGED <<word, t, c, polled, left, seen>>, k' \in KType, srv' \in SrvType,
           srv'.inTable => x = "deleted", ~k'.open => x = "none", srv'.wg = IF x = "deleted" THEN 1 ELSE 0
    PROVE  IInv'
  <1>1. /\ call \in [Goroutines -> CallSteps] /\ call[g] \in Calls /\ x \in CallSteps /\ call[g] \in DetachSteps
    BY TypesAre, Zenon DEF IInv, Types, Calls, CallSteps, DetachSteps
  <1>2. /\ t.pc = "none" /\ ~queued /\ c.closed /\ scheduled /\ seen.opened = 1 /\ "Open" \notin events
    BY <1>1, TypesAre DEF IInv, Serial, Opens, DetachSteps, Types, SeenType
  <1>3. OneDetach' /\ Calls' \cap DetachSteps \subseteq {x}
    BY <1>1, DetachGoes, Zenon
  <1>4. x \in Calls' /\ call' \in [Goroutines -> CallSteps]
    BY <1>1, CallGoes, Zenon
  <1>5. /\ "tookOver" \notin Calls' /\ "taken" \notin Calls' /\ ("deleted" \in Calls' <=> x = "deleted")
        /\ "removed" \in Calls' => x = "removed"
    BY <1>3, <1>4 DEF DetachSteps
  <1>6. TypeOK'
    BY <1>4, TypesAre DEF IInv, Types, word
  <1>7. Serial'
    BY <1>2, <1>5 DEF IInv, Serial, InClose, word
  <1>8. Opens'
    BY <1>2 DEF IInv, Opens, InClose, InHandle, word
  <1>9. Holds'
    BY <1>2, <1>5 DEF Holds, InClose
  <1>10. Ends' /\ Sent'
    BY DEF IInv, Ends, Sent
  <1>11. Output' /\ Closes' /\ Hangup' /\ Input'
    BY <1>2, ClosedIsQuiet
  <1>12. QED
    BY <1>3, <1>6, <1>7, <1>8, <1>9, <1>10, <1>11 DEF IInv

\* detachDelete, detachRemove and detachClose.
LEMMA DetachedKeeps ==
    ASSUME IInv, NEW g \in Goroutines, detachDelete(g) \/ detachRemove(g) \/ detachClose(g)
    PROVE  IInv'
  <1>1. /\ call \in [Goroutines -> CallSteps] /\ k \in KType /\ srv \in SrvType
        /\ call[g] \in {"taken", "deleted", "removed"} /\ call[g] \in Calls
    BY TypesAre DEF IInv, Types, detachDelete, detachRemove, detachClose, Calls
  <1>2. Calls \cap DetachSteps \subseteq {call[g]}
    BY <1>1 DEF IInv, OneDetach, Calls, DetachSteps
  <1>3. /\ c.closed /\ k.open /\ t.pc = "none"
        /\ srv.wg = IF call[g] = "removed" THEN 0 ELSE 1
        /\ srv.inTable => call[g] # "removed"
    BY <1>1, <1>2 DEF IInv, Serial, Holds, DetachSteps, InClose
  <1>4. CASE detachDelete(g)
    <2>1. /\ call[g] = "taken" /\ call' = [call EXCEPT ![g] = "deleted"] /\ UNCHANGED <<word, t, c, polled, srv, left, seen>>
          /\ k' \in KType /\ k'.open
      BY <1>1, <1>3, <1>4, Zenon DEF detachDelete, KType
    <2>2. QED
      BY <1>1, <1>3, <2>1, LetGo, Zenon
  <1>5. CASE detachRemove(g)
    <2>0. call[g] = "deleted" /\ srv' = [srv EXCEPT !.inTable = FALSE, !.wg = srv.wg - 1]
      BY <1>5 DEF detachRemove
    <2>1. srv.wg - 1 = 0 /\ 0 \in Int
      BY <1>3, <2>0
    <2>2. srv' \in SrvType /\ ~srv'.inTable /\ srv'.wg = 0
      BY <1>1, <2>0, <2>1, Zenon DEF SrvType
    <2>3. /\ call' = [call EXCEPT ![g] = "removed"] /\ UNCHANGED <<word, t, c, k, polled, left, seen>>
      BY <1>5 DEF detachRemove
    <2>4. QED
      BY <1>1, <1>3, <2>2, <2>3, LetGo, Zenon
  <1>6. CASE detachClose(g)
    <2>1. /\ call[g] = "removed" /\ call' = [call EXCEPT ![g] = "none"] /\ UNCHANGED <<word, t, c, polled, srv, left, seen>>
          /\ k' \in KType
      BY <1>1, <1>6, Zenon DEF detachClose, KType
    <2>2. QED
      BY <1>1, <1>3, <2>1, LetGo, Zenon
  <1>7. QED
    BY <1>4, <1>5, <1>6

(***************************************************************************)
(* The theorems                                                            *)
(***************************************************************************)

\* A connection just accepted satisfies the invariant.
LEMMA ConnInitIInv == Init => IInv
  <1> SUFFICES ASSUME Init PROVE IInv
    OBVIOUS
  <1>1. Calls \subseteq {"none"}
    BY Zenon DEF Init, Calls
  <1>2. t \in TType /\ t.pc = "none" /\ t.drained = FALSE
    BY Zenon DEF Init, TType, Steps, Reasons
  <1>3. 0 \in Nat /\ 1 \in Int /\ 0 \in 0..1 /\ SndBuf \in 0..SndBuf /\ ~(0 > 0)
    BY ConnAssumption
  <1>4. /\ c \in CType /\ ~c.closed /\ ~c.closing /\ c.out = 0 /\ ~c.backlogged
    BY <1>3, Zenon DEF Init, CType, Reasons
  <1>5. k \in KType /\ k.open
    BY <1>3, Zenon DEF Init, KType
  <1>6. srv \in SrvType /\ ~srv.inTable /\ srv.wg = 1
    BY <1>3, Zenon DEF Init, SrvType
  <1>7. seen \in SeenType /\ seen.opened = 0 /\ seen.closes = 0 /\ ~seen.owed /\ seen.unsent = 0
    BY <1>3, Zenon DEF Init, SeenType, Reasons
  <1>8. /\ events = {"Open"} /\ scheduled = TRUE /\ queued = TRUE /\ left \in Bounds
        /\ polled \in [Pollers -> SUBSET PollEvents] /\ call = [g \in Goroutines |-> "none"]
    BY ConnAssumption, Zenon DEF Init
  <1>9. TypeOK
    BY <1>2, <1>4, <1>5, <1>6, <1>7, <1>8, TypesAre, Zenon DEF Types, Events, CallSteps
  <1>10. OneDetach
    BY <1>8, Zenon DEF OneDetach, DetachSteps
  <1>11. Serial
    BY <1>1, <1>2, <1>4, <1>8 DEF Serial, DetachSteps, InClose
  <1>12. Opens
    BY <1>1, <1>2, <1>4, <1>7, <1>8 DEF Opens, InClose, InHandle
  <1>13. Holds /\ Ends
    BY <1>1, <1>2, <1>4, <1>5, <1>6, <1>7 DEF Holds, Ends
  <1>14. Sent
    BY <1>2, <1>4, <1>7 DEF Sent
  <1>15. Output /\ Closes /\ Hangup /\ Input
    BY <1>2, <1>4, <1>7 DEF Output, Closes, Hangup, Input, OnEOF
  <1>16. QED
    BY <1>9, <1>10, <1>11, <1>12, <1>13, <1>14, <1>15 DEF IInv

\* One step of the application, or of a call it has begun.
LEMMA ApplicationKeeps ==
    ASSUME IInv, NEW g \in Goroutines, Application(g) \/ callStep(g)
    PROVE  IInv'
  <1>1. c \in CType /\ left.eintr \in Nat /\ 0 \in Nat /\ 0 <= left.eintr /\ left.write \in Nat
    BY TypesAre DEF IInv, Types, Bounds
  <1>2. CASE \E n \in 1..left.write : Write(g, n)
    BY <1>1, <1>2, WriteKeeps
  <1>3. CASE Close(g)
    <2>1. /\ closeRequestedFor("nil") \in CType
          /\ closeRequestedFor("nil") = [c EXCEPT !.closing = TRUE, !.closeErr = c.closeErr]
      BY <1>1, CloseRequested, Zenon DEF Reasons
    <2>2. QED
      BY <1>1, <1>3, <2>1, Calling, CallKeeps, Zenon DEF Close
  <1>4. CASE PauseRead(g)
    <2>1. [c EXCEPT !.readPaused = TRUE] \in CType
      BY <1>1, Zenon DEF CType
    <2>2. QED
      BY <1>1, <1>4, <2>1, Calling, CallKeeps, Zenon DEF PauseRead
  <1>5. CASE ResumeRead(g)
    <2>1. [c EXCEPT !.readPaused = FALSE] \in CType
      BY <1>1, Zenon DEF CType
    <2>2. QED
      BY <1>1, <1>5, <2>1, Calling, CallKeeps, Zenon DEF ResumeRead
  <1>6. CASE SetDeadline(g)
    BY <1>1, <1>6, Calling, DeadlineKeeps DEF SetDeadline
  <1>7. CASE Detach(g)
    BY <1>7, DetachKeeps
  <1>8. CASE callStep(g)
    BY <1>8, NotifyKeeps, DetachTakeKeeps, DetachedKeeps DEF callStep
  <1>9. QED
    BY <1>2, <1>3, <1>4, <1>5, <1>6, <1>7, <1>8 DEF Application

\* Every step keeps the invariant.
LEMMA ConnNextIInv == IInv /\ [Next]_vars => IInv'
  <1> SUFFICES ASSUME IInv, [Next]_vars PROVE IInv'
    OBVIOUS
  <1>1. CASE taskStep
    BY <1>1, RunKeeps, WatchKeeps, FlushKeeps, ReadKeeps, EOFKeeps, ReasonKeeps, RequestKeeps, CloseKeeps,
       CloseRemoveKeeps, CloseFdKeeps, CallbackKeeps, OnCloseKeeps, ReleaseKeeps DEF taskStep
  <1>2. CASE callbackPanics
    BY <1>2, PanicKeeps
  <1>3. CASE \E g \in Goroutines : Application(g) \/ callStep(g)
    BY <1>3, ApplicationKeeps
  <1>4. CASE \E p \in Pollers : Poll(p) \/ handleEvent(p)
    BY <1>4, PollKeeps, HandleEventKeeps
  <1>5. CASE checkDeadlines \/ serveDraining \/ serveShutdown
    BY <1>5, ServerKeeps
  <1>6. CASE deadlinePasses
    <2>1. left' \in Bounds
      BY <1>6, TypesAre DEF deadlinePasses, IInv, Types
    <2>2. QED
      BY <1>6, <2>1, DeadlineKeeps DEF deadlinePasses
  <1>7. CASE peerSends \/ peerCloses \/ peerTakes
    BY <1>7, PeerKeeps
  <1>8. CASE UNCHANGED vars
    <2>1. c' = [c EXCEPT !.deadline = c.deadline] /\ c.deadline \in {"none", "set", "due"} /\ left' \in Bounds
      BY <1>8, TypesAre DEF vars, IInv, Types, CType
    <2>2. QED
      BY <1>8, <2>1, DeadlineKeeps, Zenon DEF vars, word
  <1>9. QED
    BY <1>1, <1>2, <1>3, <1>4, <1>5, <1>6, <1>7, <1>8 DEF Next

\* The invariant of a connection, whatever its surroundings do (IInv).
THEOREM ConnInductive == Spec => []IInv
  BY ConnInitIInv, ConnNextIInv, PTL DEF Spec

\* The edge-triggered engine forgets nothing (conn_unix.go: handle, read, flush,
\* Write): no input, no backlog, no requested close and no OnWritable is left to an
\* event that will not come.
THEOREM ConnForgetsNothing == Spec => []NothingStranded
  <1>1. IInv => NothingStranded
    <2> SUFFICES ASSUME IInv PROVE NothingStranded
      OBVIOUS
    <2>1. WritableIsReported
      BY DEF IInv, Sent, WritableIsReported
    <2>2. ASSUME Quiet
          PROVE  /\ events = {} /\ Pending = {} /\ ~HangupPending /\ Calls \subseteq {"none"} /\ ~k.armed
                 /\ t.pc = "none" /\ ~c.closed
      BY <2>2 DEF IInv, Serial, Quiet, Pending, HangupPending, Calls
    <2>3. /\ c.out \in Nat /\ k.rx \in Nat /\ (seen.opened = 0 \/ seen.opened = 1) /\ MaxBacklog \in Nat
      BY ConnAssumption DEF IInv, TypeOK
    <2>4. ASSUME Quiet PROVE seen.opened = 1
      BY <2>2, <2>3, <2>4, Zenon DEF IInv, Opens
    <2>5. NoOutputStranded
      BY <2>2 DEF IInv, Output, Sent, Closes, NoOutputStranded, Graceful, InHandle
    <2>6. NoCloseStranded
      BY <2>2 DEF IInv, Closes, NoCloseStranded, InHandle
    <2>7. NoInputStranded
      BY <2>2, <2>3, <2>4 DEF IInv, Input, NoInputStranded, OnEOF
    <2>8. QED
      BY <2>1, <2>5, <2>6, <2>7 DEF NothingStranded
  <1>2. QED
    BY <1>1, ConnInductive, PTL

\* A connection that ends for a local close or the peer's EOF has handed every byte
\* accepted by Write to the socket (Conn.Close, requestCloseOnEOF).
THEOREM ConnSendsAll == Spec => []GracefulCloseSendsAll
  <1>1. IInv => GracefulCloseSendsAll
    BY DEF IInv, Sent, GracefulCloseSendsAll
  <1>2. QED
    BY <1>1, ConnInductive, PTL

\* The fd and the count in openConnsWg are held exactly as long as somebody may
\* still use the connection (conn.mu, close and Detach).
THEOREM ConnHolds == Spec => []ResourcesAreHeld
  <1>1. IInv => ResourcesAreHeld
    <2>1. IInv => FdIsValid
      BY DEF IInv, Serial, Holds, FdIsValid, InClose
    <2>2. IInv => CountedUntilDone
      BY DEF IInv, Serial, Holds, CountedUntilDone, InClose
    <2>3. QED
      BY <2>1, <2>2 DEF IInv, ResourcesAreHeld
  <1>2. QED
    BY <1>1, ConnInductive, PTL

\* The callbacks come in Handler's order, none after OnClose or Detach, and OnClose
\* comes once, with the reason (close, Detach).
THEOREM ConnOrder == Spec => []ClosedInOrder
  <1>1. IInv => ClosedInOrder
    BY DEF IInv, Serial, Opens, Ends, ClosedInOrder, CallbackOrder, ReasonIsReported, Calls, DetachSteps,
           Callbacks, InHandle, InClose
  <1>2. QED
    BY <1>1, ConnInductive, PTL

(***************************************************************************)
(* The task is a serial task                                               *)
(***************************************************************************)
LEMMA PhaseIs ==
    /\ taskPhase = IF c.closed /\ t.pc = "none" THEN "gone"
                   ELSE IF t.pc # "none" \/ "tookOver" \in Calls THEN "running"
                   ELSE IF scheduled THEN "queued" ELSE "idle"
    /\ taskPhase' = IF c'.closed /\ t'.pc = "none" THEN "gone"
                    ELSE IF t'.pc # "none" \/ "tookOver" \in Calls' THEN "running"
                    ELSE IF scheduled' THEN "queued" ELSE "idle"
  BY DEF taskPhase, Calls

\* Events are notified, or nothing happens to the task.
LEMMA Notifies ==
    ASSUME events \subseteq events', events' \subseteq Events,
           \/ taskPhase' = taskPhase
           \/ events' # events /\ taskPhase = "idle" /\ taskPhase' = "queued",
           taskPhase = "idle" => taskPhase' = "queued" \/ events' = events
    PROVE  [Task!Next]_(Task!vars)
  <1>1. CASE events' = events
    BY <1>1 DEF Task!vars
  <1>2. CASE events' # events
    <2>1. events' \in (SUBSET Events) \ {{}} /\ events' = events \cup events'
      BY <1>2
    <2>2. Task!Notify(events')
      BY <1>2, <2>1 DEF Task!Notify
    <2>3. QED
      BY <2>1, <2>2 DEF Task!Next
  <1>3. QED
    BY <1>1, <1>2

\* The steps within a round.
LEMMA RoundIsOne ==
    ASSUME IInv, IInv', taskStep \/ callbackPanics, ~run, ~release
    PROVE  [Task!Next]_(Task!vars)
  <1>1. t \in TType /\ \A pc : to(pc).pc = pc
    BY TypesAre, Zenon DEF IInv, Types, TType, to
  <1>2. events \subseteq events'
    BY DEF taskStep, callbackPanics, watch, flush, read, requestCloseOnEOF, closeReason, requestClose, close, closeRemove,
           closeFd, callbackReturns, onCloseReturns, notify, word
  <1>3. t.pc # "none"
    BY DEF taskStep, callbackPanics, watch, flush, read, requestCloseOnEOF, closeReason, requestClose, close, closeRemove,
           closeFd, callbackReturns, onCloseReturns, Callbacks
  <1>4. t'.pc # "none"
    <2>1. CASE watch
      BY <1>1, <2>1 DEF watch
    <2>2. CASE flush
      <3>1. resumed # "none"
        BY DEF resumed
      <3> DEFINE n == Min(k.space, c.out)
                 next == IF comesDown(n) THEN "OnWritable" ELSE resumed
                 u == to(next)
      <3>2. \/ t' = to(resumed)
            \/ t' = [u EXCEPT !.drained = (n = c.out), !.ev = IF comesDown(n) THEN u.ev \cup {"Read"} ELSE u.ev]
        BY <2>2 DEF flush
      <3>3. next # "none" /\ u.pc = next /\ u \in TType
        <4>1. next \in Steps \cup Callbacks
          BY DEF resumed, Steps, Callbacks
        <4>2. QED
          BY <1>1, <3>1, <4>1, To
      <3> HIDE DEF u, n, next
      <3>4. QED
        BY <1>1, <3>1, <3>2, <3>3, Zenon DEF TType
    <2>3. CASE read \/ requestCloseOnEOF
      BY <1>1, <2>3 DEF read, requestCloseOnEOF
    <2>4. CASE closeReason \/ requestClose \/ callbackPanics
      BY <1>1, <2>4, Zenon DEF closeReason, requestClose, callbackPanics, closeIfRequested, TType
    <2>5. CASE close \/ closeRemove \/ closeFd \/ onCloseReturns
      BY <1>1, <2>5 DEF close, closeRemove, closeFd, onCloseReturns
    <2>6. CASE callbackReturns
      BY <1>1, <2>6 DEF callbackReturns, resumed
    <2>7. QED
      BY <2>1, <2>2, <2>3, <2>4, <2>5, <2>6 DEF taskStep
  <1>5. taskPhase = "running" /\ taskPhase' = "running" /\ events' \subseteq Events
    BY <1>3, <1>4, PhaseIs, Zenon DEF IInv, TypeOK
  <1>6. QED
    BY <1>2, <1>5, Notifies

\* The steps of the others notify at most.
LEMMA OthersNotifyAtMost ==
    ASSUME IInv, IInv', t' = t, c'.closed = c.closed, "tookOver" \in Calls' <=> "tookOver" \in Calls,
           UNCHANGED word \/ \E evs \in (SUBSET Events) \ {{}} : notify(evs)
    PROVE  [Task!Next]_(Task!vars)
  <1>1. /\ events' \subseteq Events /\ events \subseteq events' /\ (events' = events => scheduled' = scheduled) /\ (scheduled => scheduled')
        /\ events' # events => scheduled'
        /\ events # {} => scheduled
    BY ZenonT(60) DEF IInv, TypeOK, Serial, notify, word
  <1>2. /\ taskPhase' = taskPhase \/ (events' # events /\ taskPhase = "idle" /\ taskPhase' = "queued")
        /\ taskPhase = "idle" => taskPhase' = "queued" \/ events' = events
    BY <1>1, PhaseIs
  <1>3. QED
    BY <1>1, <1>2, Notifies

\* Detach takes the task over and gives it back, or keeps it for good.
LEMMA DetachIsARound ==
    ASSUME IInv, IInv', NEW g \in Goroutines, Detach(g) \/ detachTake(g)
    PROVE  Task!Next
  <1>1. /\ t' = t /\ events' = events /\ call \in [Goroutines -> CallSteps] /\ t.pc = "none" /\ ~c.closed
        /\ Detach(g) => c' = c /\ ~scheduled /\ "tookOver" \notin Calls /\ "tookOver" \in Calls'
        /\ detachTake(g) => "tookOver" \in Calls
    <2>1. CASE Detach(g)
      <3>1. call \in [Goroutines -> CallSteps] /\ call' = [call EXCEPT ![g] = "tookOver"]
        BY <2>1, Zenon DEF Detach, IInv, TypeOK
      <3>2. "tookOver" \in Calls'
        BY <3>1 DEF Calls
      <3>3. ~detachTake(g)
        BY <2>1 DEF Detach, detachTake, MayCall
      <3>4. QED
        BY <2>1, <3>1, <3>2, <3>3 DEF Detach, takeOver, IInv, Serial, DetachSteps
    <2>2. CASE detachTake(g)
      <3>1. "tookOver" \in Calls
        BY <2>2 DEF detachTake, Calls
      <3>2. ~Detach(g)
        BY <2>2 DEF Detach, detachTake, MayCall
      <3>3. QED
        BY <2>2, <3>1, <3>2 DEF detachTake, IInv, TypeOK, Serial, DetachSteps
    <2>3. QED
      BY <2>1, <2>2, Zenon
  <1>2. CASE Detach(g)
    <2>1. taskPhase = "idle" /\ taskPhase' = "running"
      BY <1>1, <1>2, PhaseIs
    <2>2. QED
      BY <1>1, <2>1 DEF Task!Next, Task!TakeOver
  <1>3. CASE detachTake(g)
    <2>1. taskPhase = "running"
      BY <1>1, <1>3, PhaseIs
    <2>2. CASE c.closing
      <3>1. "tookOver" \notin Calls'
        BY <1>1, <1>3, <2>2, DetachGoes DEF detachTake, CallSteps, DetachSteps
      <3>2. c' = c /\ (scheduled' <=> events # {})
        BY <1>3, <2>2, Zenon DEF detachTake
      <3>3. taskPhase' = IF events = {} THEN "idle" ELSE "queued"
        BY <1>1, <3>1, <3>2, PhaseIs
      <3>4. QED
        BY <1>1, <2>1, <3>3 DEF Task!Next, Task!End
    <2>3. CASE ~c.closing
      <3>1. c'.closed
        BY <1>3, <2>3, TypesAre, Zenon DEF detachTake, IInv, Types, CType
      <3>2. taskPhase' = "gone"
        BY <1>1, <3>1, PhaseIs
      <3>3. QED
        BY <1>1, <2>1, <3>2 DEF Task!Next, Task!Retire
    <2>4. QED
      BY <2>2, <2>3
  <1>4. QED
    BY <1>2, <1>3

\* A round begins, and ends.
LEMMA RoundBeginsAndEnds ==
    ASSUME IInv, run \/ release
    PROVE  Task!Next
  <1>1. CASE run
    <2>1. /\ queued /\ t.pc = "none" /\ scheduled /\ ~c.closed /\ "tookOver" \notin Calls /\ events' = {}
      BY <1>1 DEF run, IInv, Serial, DetachSteps
    <2>2. t'.pc # "none"
      BY <1>1 DEF run
    <2>3. taskPhase = "queued" /\ taskPhase' = "running"
      BY <2>1, <2>2, PhaseIs
    <2>4. QED
      BY <2>1, <2>3 DEF Task!Next, Task!Begin
  <1>2. CASE release
    <2>1. /\ t.pc = "finish" /\ t'.pc = "none" /\ c' = c /\ events' = events /\ "tookOver" \notin Calls' /\ (scheduled' <=> c.closed \/ events # {})
      <3>1. t'.pc = "none" /\ t.pc = "finish"
        BY <1>2, TypesAre DEF release, IInv, Types, TType
      <3>2. Calls' = Calls /\ "tookOver" \notin Calls
        BY <1>2 DEF release, IInv, Serial, DetachSteps, Calls
      <3>3. QED
        BY <1>2, <3>1, <3>2, Zenon DEF release, keepsTask
    <2>2. taskPhase = "running"
      BY <2>1, PhaseIs
    <2>3. CASE c.closed
      <3>1. taskPhase' = "gone"
        BY <2>1, <2>3, PhaseIs
      <3>2. QED
        BY <2>1, <2>2, <3>1 DEF Task!Next, Task!Retire
    <2>4. CASE ~c.closed
      <3>1. taskPhase' = IF events = {} THEN "idle" ELSE "queued"
        BY <2>1, <2>4, PhaseIs
      <3>2. QED
        BY <2>1, <2>2, <3>1 DEF Task!Next, Task!End
    <2>5. QED
      BY <2>3, <2>4
  <1>3. QED
    BY <1>1, <1>2

\* The other steps of the application leave the task to whoever has it.
LEMMA CallsNotifyAtMost ==
    ASSUME IInv, IInv', NEW g \in Goroutines, Application(g) \/ callStep(g), ~Detach(g), ~detachTake(g)
    PROVE  [Task!Next]_(Task!vars)
  <1>1. c \in CType /\ call \in [Goroutines -> CallSteps] /\ t' = t
    BY TypesAre, Zenon DEF IInv, Types, Application, callStep, Write, Close, PauseRead, ResumeRead, SetDeadline, callNotify,
                    detachDelete, detachRemove, detachClose
  <1>2. c'.closed = c.closed
    BY <1>1, Zenon DEF Application, callStep, Write, Close, PauseRead, ResumeRead, SetDeadline, callNotify,
                detachDelete, detachRemove, detachClose, closeRequestedFor, CType
  <1>3. UNCHANGED word \/ \E evs \in (SUBSET Events) \ {{}} : notify(evs)
    <2>1. CASE callNotify(g)
      <3>1. notified(call[g]) \in (SUBSET Events) \ {{}}
        BY <2>1 DEF callNotify, notified, Events
      <3>2. QED
        BY <2>1, <3>1 DEF callNotify
    <2>2. CASE ~callNotify(g)
      BY <2>2, Zenon DEF Application, callStep, Write, Close, PauseRead, ResumeRead, SetDeadline,
                  detachDelete, detachRemove, detachClose
    <2>3. QED
      BY <2>1, <2>2
  <1>4. \/ call' = call
        \/ call[g] # "tookOver" /\ \E x \in CallSteps \ {"tookOver"} : call' = [call EXCEPT ![g] = x]
    <2>1. CASE \E n \in 1..left.write : Write(g, n)
      BY <2>1, Zenon DEF Write, MayCall, CallSteps
    <2>2. CASE Close(g) \/ PauseRead(g) \/ ResumeRead(g) \/ SetDeadline(g)
      BY <2>2 DEF Close, PauseRead, ResumeRead, SetDeadline, MayCall, CallSteps
    <2>3. CASE callStep(g)
      BY <2>3 DEF callStep, callNotify, detachDelete, detachRemove, detachClose, CallSteps
    <2>4. QED
      BY <2>1, <2>2, <2>3 DEF Application
  <1>5. "tookOver" \in Calls' <=> "tookOver" \in Calls
    BY <1>1, <1>4, Zenon DEF Calls
  <1>6. QED
    BY <1>1, <1>2, <1>3, <1>5, OthersNotifyAtMost

\* So do the pollers, the server, the clock and the peer.
LEMMA SurroundingsNotifyAtMost ==
    ASSUME IInv, IInv',
           \/ \E p \in Pollers : Poll(p) \/ handleEvent(p)
           \/ checkDeadlines \/ deadlinePasses \/ serveDraining \/ serveShutdown \/ peerSends \/ peerCloses \/ peerTakes
    PROVE  [Task!Next]_(Task!vars)
  <1>0. t' = t /\ call' = call
    BY Zenon DEF Poll, handleEvent, checkDeadlines, deadlinePasses, serveDraining, serveShutdown, peerSends, peerCloses, peerTakes
  <1>1. t' = t /\ Calls' = Calls
    BY <1>0, Zenon DEF Calls
  <1>2. c'.closed = c.closed
    BY TypesAre, Zenon DEF Poll, handleEvent, checkDeadlines, deadlinePasses, serveDraining, serveShutdown, peerSends, peerCloses,
                    peerTakes, IInv, Types, CType
  <1>3. UNCHANGED word \/ \E evs \in (SUBSET Events) \ {{}} : notify(evs)
    <2>1. \A p \in Pollers : polled[p] \subseteq Events
      BY DEF IInv, TypeOK, PollEvents, Events
    <2>2. {"Expired"} \in (SUBSET Events) \ {{}} /\ {"Shutdown"} \in (SUBSET Events) \ {{}}
      BY DEF Events
    <2>3. QED
      BY <2>1, <2>2, Zenon DEF Poll, handleEvent, checkDeadlines, deadlinePasses, serveDraining, serveShutdown, peerSends, peerCloses, peerTakes
  <1>4. QED
    BY <1>1, <1>2, <1>3, OthersNotifyAtMost

\* The task of a connection is the serial task the engine promises (task_unix.go:
\* notify, run, release and takeOver): rounds never overlap, whoever notifies, and
\* every event is taken by a round that begins after its notification.
THEOREM ConnIsSerial == Spec => RoundsAreSerial
  <1>1. Init => TaskInit
    <2> SUFFICES ASSUME Init PROVE TaskInit
      OBVIOUS
    <2>1. t.pc = "none" /\ ~c.closed /\ scheduled /\ "tookOver" \notin Calls /\ events = {"Open"}
      BY Zenon DEF Init, Calls
    <2>2. QED
      BY <2>1, PhaseIs DEF TaskInit
  <1>2. IInv /\ IInv' /\ [Next]_vars => [Task!Next]_(Task!vars)
    <2> SUFFICES ASSUME IInv, IInv', [Next]_vars PROVE [Task!Next]_(Task!vars)
      OBVIOUS
    <2>1. CASE run \/ release
      BY <2>1, RoundBeginsAndEnds
    <2>2. CASE (taskStep \/ callbackPanics) /\ ~run /\ ~release
      BY <2>2, RoundIsOne
    <2>3. ASSUME NEW g \in Goroutines, Application(g) \/ callStep(g) PROVE [Task!Next]_(Task!vars)
      BY <2>3, DetachIsARound, CallsNotifyAtMost
    <2>4. CASE \/ \E p \in Pollers : Poll(p) \/ handleEvent(p)
               \/ checkDeadlines \/ deadlinePasses \/ serveDraining \/ serveShutdown \/ peerSends \/ peerCloses \/ peerTakes
      BY <2>4, SurroundingsNotifyAtMost
    <2>5. CASE UNCHANGED vars
      <3>1. UNCHANGED <<t, c, scheduled, events>> /\ Calls' = Calls
        BY <2>5 DEF vars, Calls
      <3>2. taskPhase' = taskPhase
        BY <3>1, PhaseIs
      <3>3. QED
        BY <3>1, <3>2 DEF Task!vars
    <2>6. QED
      BY <2>1, <2>2, <2>3, <2>4, <2>5 DEF Next
  <1>3. QED
    BY <1>1, <1>2, ConnInductive, PTL DEF Spec, RoundsAreSerial

=============================================================================
