-------------------------------- MODULE Kcp --------------------------------
(***************************************************************************)
(* A KCP server (kcp/server.go, kcp/conn.go) and its peers: the table of   *)
(* sessions, the goroutines that read datagrams, tick, close and run the   *)
(* callbacks of a session, and the ARQ of module Arq at both ends of a     *)
(* network that loses, duplicates and reorders datagrams. A section under  *)
(* a mutex is one step, and so is an atomic access. A handler that calls   *)
(* Write or Close in a callback is the application's goroutine doing so    *)
(* while the callback stands.                                              *)
(***************************************************************************)
EXTENDS Arq

CONSTANTS Addrs,     \* the peers' addresses
          Scenarios, \* what the surroundings of an instance do, and how often
          MaxInFlight \* bound: the datagrams in the network when a timer fires

(***************************************************************************)
(* A scenario: the peers there are (addrs); the options of the sessions    *)
(* (noDelay, window, limit for MaxSessions) and the window of a peer; the  *)
(* sequence number established sessions are at (-1: none is established);  *)
(* the messages each peer sends, by their numbers of fragments, and the    *)
(* fragments of a reply; patient, when no timer is shorter than the        *)
(* network's delay; and how often things happen: losses, duplicates,       *)
(* overtakings, writes and closes of the application, evictions, peers     *)
(* restarting, and the server closing.                                     *)
(***************************************************************************)
Budgets == {"loss", "dup", "reorder", "write", "close", "idle", "restart", "shutdown"}

ASSUME KcpAssumption ==
    /\ MaxInFlight \in Nat
    /\ \A s \in Scenarios :
         /\ s.addrs \subseteq Addrs /\ s.noDelay \in BOOLEAN /\ s.patient \in BOOLEAN /\ s.window \in Nat \ {0} /\ s.peerWindow \in Nat \ {0}
         /\ s.limit \in Nat /\ s.start \in -1..Modulus - 1
         /\ s.left \in [Budgets -> Nat]

VARIABLES
    sc,     \* the scenario, with what is left of it
    conn,   \* the sessions there have been, in order of creation
    table,  \* sessions: the session of an address, 0 for none
    count,  \* sessionCount
    th,     \* where each goroutine of the server is
    srv,    \* the fields of Server
    peer,   \* the peers
    up,     \* datagrams to the server
    down    \* datagrams to the peers

vars == <<sc, conn, table, count, th, srv, peer, up, down>>

Threads == {"udp", "tick", "serve", "app"}
Idle == [pc |-> "idle", c |-> 0, err |-> "nil", ev |-> {}, delivered |-> FALSE,
         pkt |-> <<>>, back |-> "idle", todo |-> {}, expired |-> {}]

newConn(addr, conv, start) ==
    [addr |-> addr, conv |-> conv, closed |-> FALSE, closeErr |-> "nil", opened |-> FALSE,
     events |-> {}, scheduled |-> FALSE, arq |-> newArq(sc.noDelay, sc.window, start),
     got |-> <<>>, sent |-> 0, reason |-> "open", why |-> "open"]

newPeer(conv, start) ==
    [conv |-> conv, arq |-> newArq(sc.noDelay, sc.peerWindow, start), got |-> <<>>, sent |-> 0]

Established(addr) == [newConn(addr, 1, sc.start) EXCEPT !.opened = TRUE]

Init ==
    /\ sc \in Scenarios
    /\ \E addrs \in {<<>>} \cup {<<a>> : a \in sc.addrs} :
         /\ (addrs = <<>>) <=> (sc.start = -1)
         /\ conn = [i \in 1..Len(addrs) |-> Established(addrs[i])]
         /\ table = [a \in Addrs |-> IF addrs = <<a>> THEN 1 ELSE 0]
         /\ count = Len(addrs)
    /\ th = [t \in Threads |-> Idle]
    /\ srv = [closed |-> FALSE, stopping |-> FALSE, socket |-> TRUE, done |-> FALSE]
    /\ peer = [a \in Addrs |-> newPeer(1, Max({sc.start, 0}))]
    /\ up = <<>> /\ down = <<>>

spend(b) == sc.left[b] > 0 /\ sc' = [sc EXCEPT !.left[b] = @ - 1]
Go(t, r) == th' = [th EXCEPT ![t] = r @@ @]
message(k, n) == [i \in 1..n |-> <<k, i>>]

-----------------------------------------------------------------------------
(* The network and the timers. *)

\* Taking the i-th datagram of a queue: one that overtakes others or stays behind as a
\* duplicate is one of those the scenario allows.
Take(q, i, dup) ==
    /\ i = 1 \/ sc.left.reorder > 0
    /\ ~dup \/ sc.left.dup > 0
    /\ sc' = [sc EXCEPT !.left.reorder = IF i = 1 THEN @ ELSE @ - 1,
                        !.left.dup = IF dup THEN @ - 1 ELSE @]
    /\ q' = IF dup THEN q ELSE RemoveAt(q, i)

Lose ==
    /\ spend("loss")
    /\ \/ \E i \in 1..Len(up) : up' = RemoveAt(up, i) /\ UNCHANGED down
       \/ \E i \in 1..Len(down) : down' = RemoveAt(down, i) /\ UNCHANGED up
    /\ UNCHANGED <<conn, table, count, th, srv, peer>>

Dgrams(addr, conv, out) == [i \in 1..Len(out) |-> [addr |-> addr, conv |-> conv, segs |-> out[i]]]

Transmitted(a) == {a.sendBuf[i].sequence : i \in {j \in 1..Len(a.sendBuf) : a.sendBuf[j].transmissions > 0}}
quiet == up = <<>> /\ down = <<>>

\* Whether a timer may fire: in a patient scenario not while datagrams are under way.
MayTick == IF sc.patient THEN quiet ELSE Len(up) + Len(down) < MaxInFlight

\* The segments whose resend time may have come, and whether the probe's may have.
Dues(a) == IF ~sc.patient THEN SUBSET Transmitted(a)
           ELSE IF quiet THEN {Transmitted(a)} ELSE {{}}
ProbeDues == IF ~sc.patient THEN BOOLEAN ELSE {quiet}

\* flush of session c with state a: the socket drops what it sends once it is closed.
FlushConn(c, new, ackOnly) ==
    \E due \in Dues(new.arq), probeDue \in ProbeDues :
        LET r == flush(new.arq, due, probeDue, ackOnly)
        IN  /\ conn' = [conn EXCEPT ![c] = [new EXCEPT !.arq = r.arq]]
            /\ down' = IF srv.socket THEN down \o Dgrams(new.addr, new.conv, r.out) ELSE down

-----------------------------------------------------------------------------
(* The peers: any KCP endpoint, here one with the same ARQ. *)

FlushPeer(p, new) ==
    \E due \in Dues(new.arq), probeDue \in ProbeDues :
        LET r == flush(new.arq, due, probeDue, FALSE)
        IN  /\ peer' = [peer EXCEPT ![p] = [new EXCEPT !.arq = r.arq]]
            /\ up' = up \o Dgrams(p, new.conv, r.out)

PeerSend(p) ==
    LET k == peer[p].sent + 1
    IN  /\ p \in sc.addrs /\ k <= Len(sc.messages) /\ ~peer[p].arq.dead
        /\ FlushPeer(p, [peer[p] EXCEPT !.sent = k,
                                        !.arq = send(@, message(k, sc.messages[k]))])
        /\ UNCHANGED <<sc, conn, table, count, th, srv, down>>

PeerTick(p) ==
    /\ MayTick /\ ~peer[p].arq.dead
    /\ FlushPeer(p, peer[p])
    /\ UNCHANGED <<sc, conn, table, count, th, srv, down>>

PeerReceive(p) ==
    \E i \in 1..Len(down), dup \in BOOLEAN :
        /\ down[i].addr = p
        /\ Take(down, i, dup)
        /\ LET r == input(peer[p].arq, down[i].segs)
               new == [peer[p] EXCEPT !.arq = r.arq]
           IN  IF down[i].conv # peer[p].conv THEN UNCHANGED <<peer, up>>
               ELSE IF r.fastTrigger /\ ~r.arq.dead THEN FlushPeer(p, new)
               ELSE peer' = [peer EXCEPT ![p] = new] /\ UNCHANGED up
        /\ UNCHANGED <<conn, table, count, th, srv>>

PeerRead(p) ==
    /\ peekSize(peer[p].arq) > 0
    /\ peer' = [peer EXCEPT ![p].got = Append(@, nextMessage(peer[p].arq)),
                            ![p].arq = popMessage(@)]
    /\ UNCHANGED <<sc, conn, table, count, th, srv, up, down>>

\* The peer's program starts again from the same port, with a new conversation.
PeerRestart(p) ==
    /\ spend("restart")
    /\ peer' = [peer EXCEPT ![p] = newPeer(@.conv + 1, 0)]
    /\ UNCHANGED <<conn, table, count, th, srv, up, down>>

-----------------------------------------------------------------------------
(* OnPacket, in the task of the one UDP socket. *)

\* reserveSessionSlot and newConn, under the shard's mutex; then handleInbound.
OpenSession(pkt) ==
    IF count >= sc.limit THEN Go("udp", Idle) /\ UNCHANGED <<conn, table, count>>
    ELSE /\ count' = count + 1
         /\ conn' = Append(conn, newConn(pkt.addr, pkt.conv, 0))
         /\ table' = [table EXCEPT ![pkt.addr] = Len(conn) + 1]
         /\ Go("udp", [pc |-> "inbound", c |-> Len(conn) + 1, pkt |-> pkt])

\* Mutant: the slot of a session that is replaced is not given back.
replacedCountKept == count
replacedCount == count - 1

OnPacket ==
    /\ th["udp"].pc = "idle" /\ srv.socket
    /\ \E i \in 1..Len(up), dup \in BOOLEAN :
        LET pkt == up[i]
            c == table[pkt.addr]
        IN  /\ Take(up, i, dup)
            /\ CASE srv.closed -> UNCHANGED <<conn, table, count, th>>
                 [] ~srv.closed /\ c = 0 -> OpenSession(pkt)
                 [] ~srv.closed /\ c # 0 /\ conn[c].conv = pkt.conv ->
                        /\ Go("udp", [pc |-> "inbound", c |-> c, pkt |-> pkt])
                        /\ UNCHANGED <<conn, table, count>>
                 [] ~srv.closed /\ c # 0 /\ conn[c].conv # pkt.conv ->
                        IF pkt.segs[1].cmd = "push" /\ pkt.segs[1].sn = 0
                        THEN /\ table' = [table EXCEPT ![pkt.addr] = 0]
                             /\ count' = replacedCount
                             /\ Go("udp", [pc |-> "close", c |-> c, err |-> "EOF", pkt |-> pkt,
                                           back |-> "reopen"])
                             /\ UNCHANGED conn
                        ELSE UNCHANGED <<conn, table, count, th>>
    /\ UNCHANGED <<srv, peer, down>>

Reopen == /\ th["udp"].pc = "reopen"
          /\ OpenSession(th["udp"].pkt)
          /\ UNCHANGED <<sc, srv, peer, up, down>>

Inbound ==
    LET c == th["udp"].c
        r == input(conn[c].arq, th["udp"].pkt.segs)
        next == IF conn'[c].arq.dead THEN [Idle EXCEPT !.pc = "close", !.c = c, !.err = "ErrDeadLink"]
                ELSE [Idle EXCEPT !.pc = "notify", !.c = c, !.ev = {"read"}]
    IN  /\ th["udp"].pc = "inbound"
        /\ IF conn[c].closed THEN Go("udp", Idle) /\ UNCHANGED <<conn, down>>
           ELSE /\ IF r.fastTrigger THEN FlushConn(c, [conn[c] EXCEPT !.arq = r.arq], FALSE)
                   ELSE conn' = [conn EXCEPT ![c].arq = r.arq] /\ UNCHANGED down
                /\ Go("udp", next)
        /\ UNCHANGED <<sc, table, count, srv, peer, up>>

-----------------------------------------------------------------------------
(* closeWith and notify, on any goroutine. A goroutine that is done with them goes on *)
(* with what it was called from: back. *)

Return(t) == Go(t, [Idle EXCEPT !.pc = th[t].back, !.pkt = th[t].pkt, !.todo = th[t].todo,
                                !.expired = th[t].expired])

\* closeWith: closed.CompareAndSwap(false, true).
CloseWith(t) ==
    LET c == th[t].c
    IN  /\ th[t].pc = "close"
        /\ IF conn[c].closed THEN Return(t) /\ UNCHANGED conn
           ELSE /\ conn' = [conn EXCEPT ![c].closed = TRUE, ![c].why = th[t].err]
                /\ Go(t, [pc |-> "remove"])
        /\ UNCHANGED <<sc, table, count, srv, peer, up, down>>

removes(c) == table[conn[c].addr] = c

Unmap(t) ==
    LET c == th[t].c
    IN  /\ th[t].pc = "remove"
        /\ table' = IF removes(c) THEN [table EXCEPT ![conn[c].addr] = 0] ELSE table
        /\ count' = IF removes(c) THEN count - 1 ELSE count
        /\ Go(t, [pc |-> "settle"])
        /\ UNCHANGED <<sc, conn, srv, peer, up, down>>

Settle(t) ==
    LET c == th[t].c
        new == [conn[c] EXCEPT !.closeErr = th[t].err]
    IN  /\ th[t].pc = "settle"
        /\ IF th[t].err # "nil"
           THEN conn' = [conn EXCEPT ![c] = [new EXCEPT !.arq = release(@)]] /\ UNCHANGED down
           ELSE \E due \in Dues(new.arq), probeDue \in ProbeDues :
                  LET r == flush(new.arq, due, probeDue, FALSE)
                  IN  /\ conn' = [conn EXCEPT ![c] = [new EXCEPT !.arq = release(r.arq)]]
                      /\ down' = IF srv.socket THEN down \o Dgrams(new.addr, new.conv, r.out)
                                 ELSE down
        /\ Go(t, [pc |-> "notify", ev |-> {"close"}])
        /\ UNCHANGED <<sc, table, count, srv, peer, up>>

Notify(t) ==
    LET c == th[t].c
    IN  /\ th[t].pc = "notify"
        /\ conn' = [conn EXCEPT ![c].events = @ \cup th[t].ev, ![c].scheduled = TRUE]
        /\ IF conn[c].scheduled THEN Return(t) ELSE Go(t, [pc |-> "swap"])
        /\ UNCHANGED <<sc, table, count, srv, peer, up, down>>

(* runCallbacks. *)

\* The round's events, and OnOpen.
Swap(t) ==
    LET c == th[t].c
        ev == conn[c].events
    IN  /\ th[t].pc = "swap"
        /\ conn' = [conn EXCEPT ![c].events = {}, ![c].opened = @ \/ "close" \notin ev]
        /\ Go(t, [ev |-> ev, delivered |-> FALSE,
                  pc |-> IF "read" \in ev /\ ~conn[c].closed THEN "drain" ELSE "check"])
        /\ UNCHANGED <<sc, table, count, srv, peer, up, down>>

\* Mutant: one message for each datagram.
afterMessageAcks == "acks"
afterMessage == "drain"

\* drainMessages looks at closed without the mutex.
Drain(t) ==
    /\ th[t].pc = "drain"
    /\ Go(t, [pc |-> IF conn[th[t].c].closed THEN "acks" ELSE "pop"])
    /\ UNCHANGED <<sc, conn, table, count, srv, peer, up, down>>

\* A message is popped under the mutex and given to OnData, or there is none left.
Pop(t) ==
    LET c == th[t].c
        a == conn[c].arq
    IN  /\ th[t].pc = "pop"
        /\ IF peekSize(a) > 0
           THEN /\ conn' = [conn EXCEPT ![c].arq = popMessage(@),
                                        ![c].got = Append(@, nextMessage(a))]
                /\ Go(t, [delivered |-> TRUE, pc |-> afterMessage])
           ELSE Go(t, [pc |-> "acks"]) /\ UNCHANGED conn
        /\ UNCHANGED <<sc, table, count, srv, peer, up, down>>

FlushAcks(t) ==
    LET c == th[t].c
        a == conn[c].arq
    IN  /\ th[t].pc = "acks"
        /\ IF ~conn[c].closed /\ a.pendingAcks # <<>>
           THEN FlushConn(c, conn[c], ~th[t].delivered /\ a.sendQueue = <<>>)
           ELSE UNCHANGED <<conn, down>>
        /\ Go(t, [pc |-> "check"])
        /\ UNCHANGED <<sc, table, count, srv, peer, up>>

Check(t) ==
    LET c == th[t].c
    IN  /\ th[t].pc = "check"
        /\ IF "close" \notin th[t].ev /\ ~conn[c].closed THEN Go(t, [pc |-> "release"])
           ELSE IF conn[c].opened THEN Go(t, [pc |-> "report"])
           ELSE Return(t)
        /\ UNCHANGED <<sc, conn, table, count, srv, peer, up, down>>

\* Mutant: the round ends for further rounds after OnClose.
keepsScheduledNot == FALSE
keepsScheduled == TRUE

\* closeErr is read under the mutex, and OnClose called; cbScheduled stays.
Report(t) ==
    LET c == th[t].c
    IN  /\ th[t].pc = "report"
        /\ conn' = [conn EXCEPT ![c].reason = conn[c].closeErr, ![c].scheduled = keepsScheduled]
        /\ Return(t)
        /\ UNCHANGED <<sc, table, count, srv, peer, up, down>>

mayRelease(c) == conn[c].events = {}

Release(t) ==
    LET c == th[t].c
    IN  /\ th[t].pc = "release"
        /\ IF mayRelease(c) THEN conn' = [conn EXCEPT ![c].scheduled = FALSE] /\ Return(t)
           ELSE Go(t, [pc |-> "swap"]) /\ UNCHANGED conn
        /\ UNCHANGED <<sc, table, count, srv, peer, up, down>>

Callbacks(t) == Swap(t) \/ Drain(t) \/ Pop(t) \/ FlushAcks(t) \/ Check(t) \/ Report(t) \/ Release(t)
Closing(t) == CloseWith(t) \/ Unmap(t) \/ Settle(t) \/ Notify(t)
InCallbacks(t) == th[t].pc \in {"swap", "drain", "pop", "acks", "check", "report", "release"}

-----------------------------------------------------------------------------
(* The application, the ticker, Serve and Close. *)

\* Conn.Write: closed, send and flush are one section under the mutex.
Write(c) ==
    /\ th["app"].pc = "idle" /\ conn[c].opened /\ spend("write")
    /\ IF conn[c].closed THEN UNCHANGED <<conn, down, th>>
       ELSE LET k == conn[c].sent + 1
                msg == message(k, sc.reply)
            IN  IF ~fits(conn[c].arq, msg) THEN UNCHANGED <<conn, down, th>>
                ELSE /\ FlushConn(c, [conn[c] EXCEPT !.sent = k, !.arq = send(@, msg)], FALSE)
                     /\ IF conn'[c].arq.dead
                        THEN Go("app", [pc |-> "close", c |-> c, err |-> "ErrDeadLink"])
                        ELSE UNCHANGED th
    /\ UNCHANGED <<table, count, srv, peer, up>>

CloseConn(c) ==
    /\ th["app"].pc = "idle" /\ conn[c].opened /\ spend("close")
    /\ Go("app", [pc |-> "close", c |-> c, err |-> "nil"])
    /\ UNCHANGED <<conn, table, count, srv, peer, up, down>>

\* tick: the sessions are collected under the mutex of the shard that holds them all.
Tick ==
    /\ th["tick"].pc = "idle" /\ MayTick
    /\ ~srv.done /\ th["serve"].pc = "idle"
    /\ LET Live == {table[a] : a \in Addrs} \ {0}
       IN  \E expired \in SUBSET Live :
             /\ Live # {}
             /\ Cardinality(expired) <= sc.left.idle
             /\ sc' = [sc EXCEPT !.left.idle = @ - Cardinality(expired)]
             /\ Go("tick", [pc |-> "ticking", back |-> "ticking", todo |-> Live \ expired,
                            expired |-> expired])
    /\ UNCHANGED <<conn, table, count, srv, peer, up, down>>

\* Conn.update on the next of them, and closeWith on those that expired.
UpdateNext ==
    LET r == th["tick"]
    IN  /\ r.pc = "ticking"
        /\ \/ \E c \in r.todo :
                IF conn[c].closed
                THEN Go("tick", [todo |-> r.todo \ {c}]) /\ UNCHANGED <<conn, down>>
                ELSE /\ FlushConn(c, conn[c], FALSE)
                     /\ IF conn'[c].arq.dead
                        THEN Go("tick", [todo |-> r.todo \ {c}, pc |-> "close", c |-> c,
                                         err |-> "ErrDeadLink", back |-> "ticking"])
                        ELSE Go("tick", [todo |-> r.todo \ {c}])
           \/ \E c \in r.expired :
                /\ r.todo = {}
                /\ Go("tick", [expired |-> r.expired \ {c}, pc |-> "close", c |-> c,
                               err |-> "ErrDeadlineExceeded", back |-> "ticking"])
                /\ UNCHANGED <<conn, down>>
           \/ r.todo = {} /\ r.expired = {} /\ Go("tick", Idle) /\ UNCHANGED <<conn, down>>
        /\ UNCHANGED <<sc, table, count, srv, peer, up>>

\* Close: closed, stopTicker and udpServer.Close.
CloseServer ==
    /\ spend("shutdown")
    /\ srv' = [srv EXCEPT !.closed = TRUE, !.stopping = TRUE]
    /\ UNCHANGED <<conn, table, count, th, peer, up, down>>

\* udpServer.Serve returns once its socket's task is over and the socket closed.
SocketCloses ==
    /\ srv.stopping /\ srv.socket /\ th["udp"].pc = "idle"
    /\ srv' = [srv EXCEPT !.socket = FALSE]
    /\ UNCHANGED <<sc, conn, table, count, th, peer, up, down>>

\* Serve, after it has waited for the ticker to stop: closeAllSessions collects them.
CloseAllSessions ==
    /\ ~srv.socket /\ ~srv.done /\ th["tick"].pc = "idle" /\ th["serve"].pc = "idle"
    /\ Go("serve", [pc |-> "closeAll", back |-> "closeAll",
                    todo |-> {table[a] : a \in Addrs} \ {0}])
    /\ UNCHANGED <<sc, conn, table, count, srv, peer, up, down>>

CloseNext ==
    LET r == th["serve"]
    IN  /\ r.pc = "closeAll"
        /\ \/ \E c \in r.todo : /\ Go("serve", [pc |-> "close", c |-> c, err |-> "ErrServerClosed",
                                                todo |-> r.todo \ {c}, back |-> "closeAll"])
                                /\ UNCHANGED srv
           \/ /\ r.todo = {} /\ \A t \in Threads : ~InCallbacks(t)  \* callbacksWg.Wait
              /\ srv' = [srv EXCEPT !.done = TRUE]
              /\ Go("serve", Idle)
        /\ UNCHANGED <<sc, conn, table, count, peer, up, down>>

Udp == OnPacket \/ Reopen \/ Inbound \/ Closing("udp") \/ Callbacks("udp")
Ticker == Tick \/ UpdateNext \/ Closing("tick") \/ Callbacks("tick")
Serve == SocketCloses \/ CloseAllSessions \/ CloseNext \/ Closing("serve") \/ Callbacks("serve")
App == \/ \E c \in 1..Len(conn) : Write(c) \/ CloseConn(c)
       \/ Closing("app") \/ Callbacks("app")
Peer(p) == PeerSend(p) \/ PeerTick(p) \/ PeerReceive(p) \/ PeerRead(p) \/ PeerRestart(p)

Next == Udp \/ Ticker \/ Serve \/ App \/ CloseServer \/ Lose \/ \E p \in Addrs : Peer(p)

Spec == Init /\ [][Next]_vars

-----------------------------------------------------------------------------
(* What the server promises. *)

Sessions == 1..Len(conn)

\* The sessions there have been with the conversation a peer is in.
SessionsWith(p) == {c \in Sessions : conn[c].addr = p /\ conn[c].conv = peer[p].conv}

\* Messages are delivered in the order they were written, whole, each once, whatever the
\* network loses, duplicates and reorders: what OnData has been given is a prefix of what
\* the peer wrote (input, popMessage), and what the peer got a prefix of what Write took,
\* as long as one session serves the conversation.
DeliveredInOrder ==
    /\ \A c \in Sessions : \A k \in 1..Len(conn[c].got) :
           k <= Len(sc.messages) /\ conn[c].got[k] = message(k, sc.messages[k])
    /\ \A p \in Addrs : \A c \in SessionsWith(p) :
           SessionsWith(p) = {c} => \A k \in 1..Len(peer[p].got) :
               k <= conn[c].sent /\ peer[p].got[k] = message(k, sc.reply)

\* The sequence numbers from lo up to and not including hi.
Between(lo, hi) == {(lo + i) % Modulus : i \in 0..((hi - lo) % Modulus) - 1}
Start == IF sc.start = -1 THEN 0 ELSE sc.start
SeqsOf(s) == {s[i].sequence : i \in 1..Len(s)}
Holds(from, to) == \A sn \in Between(Start, from.sendNext) \ SeqsOf(from.sendBuf) :
                       sn \in Between(Start, to.receiveNext) \cup SeqsOf(to.receiveBuf)

\* A segment its sender has stopped resending, for an ack or for una, is one the other
\* end has: nothing is acknowledged that was not kept (input acknowledges what it inserts).
NothingAckedIsLost ==
    \A p \in Addrs : \A c \in SessionsWith(p) :
        (SessionsWith(p) = {c} /\ ~conn[c].closed)
            => Holds(peer[p].arq, conn[c].arq) /\ Holds(conn[c].arq, peer[p].arq)

Ordered(s, lo, hi) ==
    /\ SeqsOf(s) \subseteq Between(lo, hi)
    /\ \A i, j \in 1..Len(s) : i < j => (s[i].sequence - lo) % Modulus < (s[j].sequence - lo) % Modulus

\* Neither end holds more than the windows allow, also where sequence numbers wrap:
\* receiveQueue and receiveBuf stay within receiveWindow and sendBuf within sendWindow, and
\* both buffers are in order without duplicates, which their scans rely on.
BuffersFitWindows ==
    \A a \in {conn[c].arq : c \in Sessions} \cup {peer[p].arq : p \in Addrs} :
        /\ Len(a.receiveQueue) <= a.receiveWindow
        /\ Ordered(a.receiveBuf, a.receiveNext, (a.receiveNext + a.receiveWindow) % Modulus)
        /\ Ordered(a.sendBuf, a.sendUnacknowledged, a.sendNext)
        /\ Cardinality(Between(a.sendUnacknowledged, a.sendNext)) <= a.sendWindow

RunnerOf(c) == \E t \in Threads : th[t].c = c /\ InCallbacks(t)

\* A complete message of an open session is on its way to OnData: a goroutine is draining,
\* or about to notify, or cbRead is pending and somebody runs the callbacks.
NoMessageStranded ==
    \A c \in Sessions : (~conn[c].closed /\ peekSize(conn[c].arq) > 0) =>
        \/ "read" \in conn[c].events /\ RunnerOf(c)
        \/ \E t \in Threads : th[t].c = c /\ (th[t].pc \in {"drain", "pop"} \/ (th[t].pc = "notify" /\ "read" \in th[t].ev))

\* A session that was opened and is closed has had its OnClose, or a goroutine is on the
\* way there: closing it, or running its callbacks (closeWith, runCallbacks).
NoCloseStranded ==
    \A c \in Sessions : (conn[c].closed /\ conn[c].opened /\ conn[c].reason = "open") =>
        \/ RunnerOf(c)
        \/ \E t \in Threads : /\ th[t].c = c
                              /\ \/ th[t].pc \in {"remove", "settle"}
                                 \/ th[t].pc = "notify" /\ "close" \in th[t].ev

\* No OnData and no OnClose is left to a goroutine that has gone (notify, runCallbacks).
NoCallbackStranded == NoMessageStranded /\ NoCloseStranded

\* The callbacks of a session run on one goroutine at a time, and OnClose is the last of
\* them: nobody runs callbacks of a session that has had it.
CallbacksAreSerial ==
    /\ \A t, u \in Threads : (t # u /\ InCallbacks(t) /\ InCallbacks(u)) => th[t].c # th[u].c
    /\ \A c \in Sessions : RunnerOf(c) => conn[c].reason = "open"

\* The callbacks of a session: one at a time, none left out, none after OnClose.
SessionCallbacksAreExact == NoCallbackStranded /\ CallbacksAreSerial

\* sessionCount is the number of sessions in the shards, within MaxSessions, also while a
\* session is replaced by a new conversation and closed at the same time.
SessionsAreCounted == /\ count = Cardinality({a \in Addrs : table[a] # 0})
                      /\ count <= sc.limit

\* A session that is not closed is in its shard, where datagrams and the ticker find it,
\* except while OnPacket is replacing it; and Serve leaves none open behind it.
LiveSessionsAreFound ==
    \A c \in Sessions : ~conn[c].closed =>
        /\ \/ table[conn[c].addr] = c
           \/ th["udp"].pc = "close" /\ th["udp"].c = c
        /\ ~srv.done

\* The table holds the live sessions and the count is that of the table.
SessionsAreExact == SessionsAreCounted /\ LiveSessionsAreFound

\* OnClose is given the reason the session was closed for. It does not hold: closeWith sets
\* closed before it stores the reason, and runCallbacks may report the close in between.
ReasonIsReported == \A c \in Sessions : conn[c].reason \in {"open", conn[c].why}

\* The flushes of the timers, when all of them have expired, would change nothing.
Settled(a) == flush(a, Transmitted(a), TRUE, FALSE) = [arq |-> a, out |-> <<>>]

\* An exchange never comes to rest before everything has arrived: when no datagram is under
\* way, everybody has read what there is, and the timers of neither end do anything more,
\* then every message written has been delivered. What is lost is sent again, and a
\* window that closed opens again although the news of it may be lost (flush, popMessage).
NoStall ==
    \A p \in Addrs : \A c \in SessionsWith(p) :
        (/\ SessionsWith(p) = {c} /\ ~conn[c].closed /\ ~peer[p].arq.dead
         /\ quiet /\ \A t \in Threads : th[t].pc = "idle"
         /\ peekSize(peer[p].arq) = 0
         /\ Settled(peer[p].arq) /\ Settled(conn[c].arq))
            => Len(peer[p].got) = conn[c].sent /\ Len(conn[c].got) = peer[p].sent

\* Every message arrives, in order and once, out of buffers that stay within their
\* windows, and no exchange rests unfinished (arq.go).
DeliveryIsReliable == DeliveredInOrder /\ NothingAckedIsLost /\ BuffersFitWindows /\ NoStall

=============================================================================
