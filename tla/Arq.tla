-------------------------------- MODULE Arq --------------------------------
(***************************************************************************)
(* The KCP ARQ state machine (kcp/arq.go) as operators on its state: what  *)
(* send, input, popMessage and flush make of it, and the datagrams flush   *)
(* puts out. Sequence numbers keep their width. Timestamps and the RTT are *)
(* left out: flush is told which segments' resend time has come, and       *)
(* whether the window probe's has. A payload fills its segment, so that a  *)
(* datagram holds one segment of data, or acks and probes.                 *)
(***************************************************************************)
EXTENDS Integers, FiniteSets, SequencesExt, FiniteSetsExt

CONSTANTS Modulus,       \* 2^32: sequence numbers are taken modulo this
          DeadLinkLimit, \* deadLinkLimit
          Mss            \* maxSegmentSize

ASSUME ArqAssumption ==
    /\ Modulus \in Nat \ {0} /\ Modulus % 2 = 0
    /\ DeadLinkLimit \in Nat \ {0, 1} /\ Mss \in Nat \ {0}

ThreshMin == 2
MaxFragments == 255

newArq(noDelay, window, start) ==
    [noDelay |-> noDelay, dead |-> FALSE,
     sendUnacknowledged |-> start, sendNext |-> start, receiveNext |-> start,
     sendWindow |-> window, receiveWindow |-> window, remoteWindow |-> window,
     congestionWindow |-> 0, slowStartThreshold |-> ThreshMin, congestionIncrement |-> 0,
     ask |-> FALSE, tell |-> FALSE, probing |-> FALSE,
     sendQueue |-> <<>>, sendBuf |-> <<>>, receiveBuf |-> <<>>, receiveQueue |-> <<>>,
     pendingAcks |-> <<>>]

fastResend(a) == IF a.noDelay THEN 2 ELSE 0

plus(sn, n) == (sn + n) % Modulus

timeDiff(later, earlier) ==
    LET d == (later - earlier) % Modulus IN IF d < Modulus \div 2 THEN d ELSE d - Modulus

\* The longest prefix of s all of whose elements satisfy P.
prefixLen(s, P(_)) == Max({n \in 0..Len(s) : \A i \in 1..n : P(s[i])})

release(a) == [a EXCEPT !.sendQueue = <<>>, !.sendBuf = <<>>, !.receiveBuf = <<>>,
                        !.receiveQueue = <<>>, !.pendingAcks = <<>>]

\* Message mode: a message of these fragments is too large, or joins sendQueue.
fits(a, msg) == Len(msg) - 1 <= Min({a.receiveWindow - 1, MaxFragments})

send(a, msg) ==
    [a EXCEPT !.sendQueue = @ \o [i \in 1..Len(msg) |->
        [sequence |-> 0, fragment |-> Len(msg) - i, data |-> msg[i],
         transmissions |-> 0, fastAckCount |-> 0]]]

\* Mutant: a gap before the segment is overlooked.
dueNextOrLater(a, i) == TRUE
dueNext(a, i) == a.receiveBuf[i].sequence = plus(a.receiveNext, i - 1)

promoteReceiveBuf(a) ==
    LET room == Max({a.receiveWindow - Len(a.receiveQueue), 0})
        n == Max({k \in 0..Min({room, Len(a.receiveBuf)}) : \A i \in 1..k : dueNext(a, i)})
    IN  [a EXCEPT !.receiveQueue = @ \o SubSeq(a.receiveBuf, 1, n),
                  !.receiveBuf = SubSeq(@, n + 1, Len(@)),
                  !.receiveNext = plus(@, n)]

peekSize(a) ==
    IF a.receiveQueue = <<>> \/ Len(a.receiveQueue) < Head(a.receiveQueue).fragment + 1 THEN 0
    ELSE Head(a.receiveQueue).fragment + 1

nextMessage(a) == [i \in 1..peekSize(a) |-> a.receiveQueue[i].data]

reopened(before, after) == /\ Len(before.receiveQueue) >= before.receiveWindow
                           /\ Len(after.receiveQueue) < after.receiveWindow

popMessage(a) ==
    LET b == promoteReceiveBuf([a EXCEPT !.receiveQueue = SubSeq(@, peekSize(a) + 1, Len(@))])
    IN  [b EXCEPT !.tell = @ \/ reopened(a, b)]

parseUnacknowledged(a, una) ==
    LET acked(s) == timeDiff(una, s.sequence) > 0
    IN  [a EXCEPT !.sendBuf = SubSeq(@, prefixLen(@, acked) + 1, Len(@))]

refreshSendUnacknowledged(a) ==
    [a EXCEPT !.sendUnacknowledged =
        IF a.sendBuf # <<>> THEN Head(a.sendBuf).sequence ELSE a.sendNext]

outstanding(a, sn) == timeDiff(sn, a.sendUnacknowledged) >= 0 /\ timeDiff(sn, a.sendNext) < 0

parseAck(a, sn) ==
    LET other(s) == s.sequence # sn
    IN  IF outstanding(a, sn) THEN [a EXCEPT !.sendBuf = SelectSeq(@, other)] ELSE a

\* fastAckCount is only compared with fastResend, and is kept no further than that.
parseFastAck(a, sn) ==
    IF ~outstanding(a, sn) THEN a
    ELSE [a EXCEPT !.sendBuf = [i \in 1..Len(@) |->
            IF timeDiff(sn, @[i].sequence) > 0
            THEN [@[i] EXCEPT !.fastAckCount = Min({@ + 1, fastResend(a)})]
            ELSE @[i]]]

fastAcked(a, sn) ==
    /\ outstanding(a, sn) /\ fastResend(a) > 0
    /\ \E i \in 1..Len(a.sendBuf) : /\ timeDiff(sn, a.sendBuf[i].sequence) > 0
                                    /\ a.sendBuf[i].fastAckCount >= fastResend(a)

duplicate(a, sn, at) == \E i \in at + 1..Len(a.receiveBuf) : a.receiveBuf[i].sequence = sn

\* The fast path for a segment in order comes to the same as inserting and promoting it.
insertDataSegment(a, s) ==
    LET at == Max({0} \cup {i \in 1..Len(a.receiveBuf) :
                              timeDiff(s.sn, a.receiveBuf[i].sequence) > 0})
        new == [sequence |-> s.sn, fragment |-> s.frg, data |-> s.data]
    IN  IF duplicate(a, s.sn, at) THEN a
        ELSE promoteReceiveBuf([a EXCEPT !.receiveBuf = InsertAt(@, at + 1, new)])

inWindow(a, sn) == timeDiff(sn, plus(a.receiveNext, a.receiveWindow)) < 0

acks(a, sn) == inWindow(a, sn)

receivePush(a, s) ==
    LET b == IF acks(a, s.sn) THEN [a EXCEPT !.pendingAcks = Append(@, s.sn)] ELSE a
    IN  IF inWindow(a, s.sn) /\ timeDiff(s.sn, a.receiveNext) >= 0
        THEN insertDataSegment(b, s) ELSE b

inputSegment(r, s) ==
    LET a == r.arq
        b == parseUnacknowledged([a EXCEPT !.remoteWindow = s.wnd], s.una)
        c == refreshSendUnacknowledged(b)
        acked == refreshSendUnacknowledged(parseAck(c, s.sn))
        d == CASE s.cmd = "ack" -> parseFastAck(acked, s.sn)
               [] s.cmd = "push" -> receivePush(c, s)
               [] s.cmd = "ask" -> [c EXCEPT !.tell = TRUE]
               [] s.cmd = "tell" -> c
    IN  [arq |-> d,
         fastTrigger |-> \/ r.fastTrigger \/ Len(b.sendBuf) < Len(a.sendBuf)
                         \/ s.cmd = "ack" /\ fastAcked(d, s.sn)]

growCongestionWindow(a) ==
    LET from == Max({a.congestionIncrement, Mss})
        to == from + (Mss * Mss) \div from + Mss \div 16
        b == IF a.congestionWindow < a.slowStartThreshold
             THEN [a EXCEPT !.congestionWindow = @ + 1, !.congestionIncrement = @ + Mss]
             ELSE [a EXCEPT !.congestionIncrement = to, !.congestionWindow =
                        IF (@ + 1) * Mss <= to THEN (to + Mss - 1) \div Mss ELSE @]
    IN  IF a.congestionWindow >= a.remoteWindow THEN a
        ELSE IF b.congestionWindow <= b.remoteWindow THEN b
        ELSE [b EXCEPT !.congestionWindow = b.remoteWindow,
                       !.congestionIncrement = b.remoteWindow * Mss]

\* input: the state after the datagram, and whether the caller is to flush.
input(a, segs) ==
    LET r == FoldLeft(inputSegment, [arq |-> a, fastTrigger |-> FALSE], segs)
        advanced == timeDiff(r.arq.sendUnacknowledged, a.sendUnacknowledged) > 0
    IN  IF ~a.noDelay /\ advanced THEN [r EXCEPT !.arq = growCongestionWindow(@)] ELSE r

unusedReceiveWindow(a) == Max({a.receiveWindow - Len(a.receiveQueue), 0})

hasPendingWork(a) == \/ a.pendingAcks # <<>> \/ a.sendQueue # <<>> \/ a.sendBuf # <<>>
                     \/ a.ask \/ a.tell

encode(a, cmd, frg, sn, data) ==
    [cmd |-> cmd, frg |-> frg, wnd |-> unusedReceiveWindow(a), sn |-> sn,
     una |-> a.receiveNext, data |-> data]

\* The acks flush sends: those una does not cover, and the last one.
ackSegments(a) ==
    LET n == Len(a.pendingAcks)
        told == SelectSeq([i \in 1..n |-> i],
                          LAMBDA i : timeDiff(a.pendingAcks[i], a.receiveNext) >= 0 \/ i = n)
    IN  [j \in 1..Len(told) |-> encode(a, "ack", 0, a.pendingAcks[told[j]], <<>>)]

\* Mutant: the probe timer is armed and never fires.
probeTimerOnly(a, probeDue) == [a EXCEPT !.probing = a.remoteWindow = 0]

probeTimer(a, probeDue) ==
    IF a.remoteWindow # 0 THEN [a EXCEPT !.probing = FALSE]
    ELSE IF ~a.probing THEN [a EXCEPT !.probing = TRUE]
    ELSE [a EXCEPT !.ask = @ \/ probeDue]

sendLimit(a) == Min({a.sendWindow, a.remoteWindow}
                    \cup (IF a.noDelay THEN {} ELSE {a.congestionWindow}))

\* Segments the window has room for get their sequence numbers and move to sendBuf.
moveToSendBuf(a) ==
    LET room == Max({timeDiff(plus(a.sendUnacknowledged, sendLimit(a)), a.sendNext), 0})
        n == Min({room, Len(a.sendQueue)})
    IN  [a EXCEPT !.sendQueue = SubSeq(@, n + 1, Len(@)),
                  !.sendNext = plus(@, n),
                  !.sendBuf = @ \o [i \in 1..n |->
                      [a.sendQueue[i] EXCEPT !.sequence = plus(a.sendNext, i - 1)]]]

timedOut(s, due) == s.transmissions > 0 /\ s.sequence \in due
fastResent(a, s, due) == /\ s.transmissions > 0 /\ s.sequence \notin due
                         /\ fastResend(a) > 0 /\ s.fastAckCount >= fastResend(a)
needSend(a, s, due) == s.transmissions = 0 \/ timedOut(s, due) \/ fastResent(a, s, due)

transmit(a, s, due) ==
    IF ~needSend(a, s, due) THEN s
    ELSE [s EXCEPT !.transmissions = Min({@ + 1, DeadLinkLimit}),
                   !.fastAckCount = IF fastResent(a, s, due) THEN 0 ELSE @]

\* What a timeout and a fast resend do to the congestion window.
congestion(a, cwnd, fast, lost) ==
    LET inflight == (a.sendNext - a.sendUnacknowledged) % Modulus
        b == IF ~fast THEN a
             ELSE LET t == Max({inflight \div 2, ThreshMin})
                  IN [a EXCEPT !.slowStartThreshold = t, !.congestionWindow = t + fastResend(a),
                               !.congestionIncrement = (t + fastResend(a)) * Mss]
        c == IF lost THEN [b EXCEPT !.slowStartThreshold = Max({cwnd \div 2, ThreshMin})] ELSE b
    IN  IF lost \/ c.congestionWindow < 1
        THEN [c EXCEPT !.congestionWindow = 1, !.congestionIncrement = Mss] ELSE c

transmitAll(a, due) ==
    LET moved == moveToSendBuf(a)
        Buf == 1..Len(moved.sendBuf)
        sends(s) == needSend(moved, s, due)
        sent == [moved EXCEPT !.sendBuf = [i \in Buf |-> transmit(moved, @[i], due)]]
        dead == \E i \in Buf : /\ sends(moved.sendBuf[i])
                               /\ sent.sendBuf[i].transmissions >= DeadLinkLimit
        lost == \E i \in Buf : timedOut(moved.sendBuf[i], due)
        fast == \E i \in Buf : fastResent(moved, moved.sendBuf[i], due)
        pushed == SelectSeq(moved.sendBuf, sends)
        final == [sent EXCEPT !.dead = @ \/ dead]
    IN  [arq |-> IF a.noDelay THEN final ELSE congestion(final, sendLimit(a), fast, lost),
         out |-> [i \in 1..Len(pushed) |->
                    <<encode(a, "push", pushed[i].fragment, pushed[i].sequence, pushed[i].data)>>]]

\* flush: the state after it, and the datagrams it puts out.
flush(a, due, probeDue, ackOnly) ==
    LET acked == [a EXCEPT !.pendingAcks = <<>>]
        probed == probeTimer(acked, probeDue)
        control == ackSegments(a)
                   \o (IF probed.ask THEN <<encode(a, "ask", 0, 0, <<>>)>> ELSE <<>>)
                   \o (IF probed.tell THEN <<encode(a, "tell", 0, 0, <<>>)>> ELSE <<>>)
        r == transmitAll([probed EXCEPT !.ask = FALSE, !.tell = FALSE], due)
        datagram(segs) == IF segs = <<>> THEN <<>> ELSE <<segs>>
    IN  IF ~hasPendingWork(a) /\ a.remoteWindow > 0 THEN [arq |-> a, out |-> <<>>]
        ELSE IF ackOnly THEN [arq |-> acked, out |-> datagram(ackSegments(a))]
        ELSE [arq |-> r.arq, out |-> datagram(control) \o r.out]
=============================================================================
