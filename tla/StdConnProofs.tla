--------------------------- MODULE StdConnProofs ---------------------------
(***************************************************************************)
(* The connections of the server of the other platforms, whatever is sent  *)
(* and called.  ConnInv says of a connection who has closed it (closedBy), *)
(* and from it what may have become of its net.Conn, its loop's error, its *)
(* deadlines and its bytes.  Every step of a connection's keeps it, and so *)
(* does what the server does to it.                                        *)
(***************************************************************************)
EXTENDS StdServer, TLAPS

Before == {"away", "queued", "accepted", "refused"}
Over == {"onClose", "forget", "done"}
Registered == InLoop \cup {"failed", "closing", "ended", "onClose", "forget", "handOver"}
Running == Registered \cup {"handing", "handedOver"}

Places == Before \cup Running \cup {"done"}
Owners == {"no", "user", "server", "detach", "engine"}
Errors == {"nil", "closed", "timeout", "reset", "EOF", "panic"}
Reasons == Errors \cup {"none", "server"}
Times == {"none", "future", "past"}
Ends == {"no", "fin", "reset"}
Calls == {"no", "wake", "wait", "returned"}
Bytes == Seq(Int)
Cat(a, b) == a \o b
Numbers(n) == [i \in 1..n |-> i]
Bools == BOOLEAN
Nats == Nat
Ints == Int

ConnType ==
    [rx : Bytes, sent : Nats, end : Ends, open : Bools, rdl : Times, wdl : Times,
     at : Places, by : Owners, paused : Bools, resumed : Bools, in : Bytes, data : Bytes,
     err : Errors, writing : Bools, wake : Bools, det : Calls, calls : Ints, taken : Bytes,
     reason : Reasons, expired : Bools, moved : Bools]

\* Whoever closes a connection takes closedBy first, once.
Taken(c) ==
    /\ c.by = "detach" <=> c.det # "no"
    /\ c.wake => c.by = "user"
    /\ c.at \in Before => c.by # "detach"
    /\ c.by = "engine" => c.at \in Over
    /\ c.at \in Over => c.by # "no" /\ (c.by = "detach" => c.at = "done")
    /\ c.at \in {"handOver", "handing", "handedOver"} => c.by = "detach"
    /\ c.det = "returned" => c.at \in {"handedOver", "done"} /\ c.rdl = "none" /\ c.wdl = "none"

\* The net.Conn is open until somebody who may close it does.
Socket(c) ==
    /\ c.by = "no" /\ c.at # "refused" => c.open
    /\ c.by = "detach" => c.open
    /\ c.at \in {"forget", "done"} /\ c.by # "detach" => ~c.open

\* What the loop ended with, and why.
Ended(c) ==
    /\ c.at \in Before \cup InLoop => c.err = "nil"
    /\ c.at \in {"failed", "closing"} => c.err # "nil"
    /\ c.at = "ended" /\ c.err = "nil" => c.by # "no"
    /\ c.err = "EOF" => c.end = "fin" /\ c.rx = <<>>
    /\ c.err = "closed" => c.by \in {"user", "server"}
    /\ c.rdl = "past" /\ c.by = "no" => c.expired
    /\ c.err = "timeout" /\ c.by \in {"no", "engine"} => c.expired
    /\ c.at = "closing" => c.wdl # "none" \/ c.moved

\* What OnClose was called with.
Told(c) ==
    /\ c.reason # "none" => c.at \in Over /\ c.by # "detach"
    /\ c.reason = "server" => c.by = "server"
    /\ c.reason = "nil" => c.by = "user"
    /\ c.reason = "EOF" => c.err = "EOF"
    /\ c.reason = "timeout" => c.expired
    /\ c.reason # "closed"

\* BytesAreInOrder, of one connection.
InOrder(c) == c.err # "panic" => Cat(Cat(c.taken, Held(c)), c.rx) = Numbers(c.sent)

ConnInv(c) == c \in ConnType /\ Taken(c) /\ Socket(c) /\ Ended(c) /\ Told(c) /\ InOrder(c)

Connections == con \in [use.clients -> ConnType] /\ \A p \in use.clients : ConnInv(con[p])

\* Bytes pass from one place to the next.
LEMMA Joins ==
    ASSUME NEW a \in Bytes, NEW b \in Bytes, NEW c \in Bytes
    PROVE  Cat(a, b) \in Bytes /\ Cat(Cat(a, b), c) = Cat(a, Cat(b, c))
  <1>1. Cat(a, b) \in Bytes
    BY DEF Bytes, Cat
  <1>2. Cat(Cat(a, b), c) = Cat(a, Cat(b, c))
    BY SMTT(60) DEF Bytes, Cat
  <1>3. QED
    BY <1>1, <1>2

\* Sequences with the same bytes are the same.
LEMMA SameBytes ==
    ASSUME NEW s \in Bytes, NEW t \in Bytes, Len(s) = Len(t), \A i \in 1..Len(s) : s[i] = t[i]
    PROVE  s = t
  <1>1. s = [i \in 1..Len(s) |-> s[i]] /\ t = [i \in 1..Len(t) |-> t[i]]
    BY DEF Bytes
  <1>2. [i \in 1..Len(s) |-> s[i]] = [i \in 1..Len(t) |-> t[i]]
    BY Zenon
  <1>3. QED
    BY <1>1, <1>2, Zenon

\* The first n of r, and the rest.
LEMMA Parts ==
    ASSUME NEW r \in Bytes, NEW n \in 0..Len(r)
    PROVE  /\ SubSeq(r, 1, n) \in Bytes /\ SubSeq(r, n + 1, Len(r)) \in Bytes
           /\ Cat(SubSeq(r, 1, n), SubSeq(r, n + 1, Len(r))) = r
  <1> DEFINE a == SubSeq(r, 1, n)
             b == SubSeq(r, n + 1, Len(r))
  <1>1. a \in Seq(Int) /\ Len(a) = n /\ \A i \in 1..n : a[i] = r[i]
    BY DEF Bytes
  <1>2. b \in Seq(Int) /\ Len(b) = Len(r) - n /\ \A i \in 1..(Len(r) - n) : b[i] = r[n + i]
    BY DEF Bytes
  <1> HIDE DEF a, b
  <1>3. /\ a \o b \in Seq(Int) /\ Len(a \o b) = Len(r)
        /\ \A i \in 1..Len(r) : (a \o b)[i] = IF i <= n THEN a[i] ELSE b[i - n]
    <2>1. \A s, t \in Seq(Int) : /\ s \o t \in Seq(Int) /\ Len(s \o t) = Len(s) + Len(t)
                               /\ \A i \in 1..Len(s \o t) : (s \o t)[i] = IF i <= Len(s) THEN s[i] ELSE t[i - Len(s)]
      OBVIOUS
    <2>2. /\ a \o b \in Seq(Int) /\ Len(a \o b) = n + (Len(r) - n)
          /\ \A i \in 1..Len(a \o b) : (a \o b)[i] = IF i <= n THEN a[i] ELSE b[i - n]
      BY <1>1, <1>2, <2>1, Zenon
    <2>3. n + (Len(r) - n) = Len(r)
      BY DEF Bytes
    <2>4. QED
      BY <2>2, <2>3, Zenon
  <1>4. \A i \in 1..Len(r) : (a \o b)[i] = r[i]
    BY <1>1, <1>2, <1>3, SMTT(40) DEF Bytes
  <1>5. a \o b = r
    BY <1>3, <1>4, SameBytes, Zenon DEF Bytes
  <1>6. QED
    BY <1>1, <1>2, <1>5, Zenon DEF a, b, Bytes, Cat

\* The next byte is the next number.
LEMMA NextNumber ==
    ASSUME NEW a \in Bytes, NEW r \in Bytes, NEW n \in Nat, Cat(a, r) = Numbers(n)
    PROVE  Append(r, n + 1) \in Bytes /\ Cat(a, Append(r, n + 1)) = Numbers(n + 1)
  <1>1. a \in Seq(Int) /\ r \in Seq(Int) /\ <<n + 1>> \in Bytes /\ n + 1 \in Int /\ Numbers(n) \in Seq(Int) /\ Len(Numbers(n)) = n
    BY DEF Bytes, Numbers
  <1>2. \A s \in Seq(Int), i \in Int : Append(s, i) = Cat(s, <<i>>)
    BY DEF Cat
  <1>3. Cat(a, Cat(r, <<n + 1>>)) = Cat(Cat(a, r), <<n + 1>>) /\ Cat(r, <<n + 1>>) \in Bytes
    BY <1>1, Joins, ZenonT(60)
  <1>4. Append(Numbers(n), n + 1) = Numbers(n + 1)
    BY <1>1 DEF Numbers
  <1>5. QED
    BY <1>1, <1>2, <1>3, <1>4, Zenon

\* A step of one connection's that is not one of the server's.
Turn(p) == con' = [con EXCEPT ![p] = con'[p]] /\ UNCHANGED <<use, net, ear, gor, udp>>

\* What such a step may do to where the connection is and to who has closed it.
Moves(c, d) ==
    /\ d.at = c.at \/ {c.at, d.at} \subseteq Registered \/ {c.at, d.at} \subseteq {"handing", "handedOver"}
    /\ d.by = c.by \/ (c.by = "no" /\ d.by # "server")

\* turns(p, c) is such a step.
LEMMA TurnsTo ==
    ASSUME NEW p \in use.clients, con \in [use.clients -> ConnType], NEW c, turns(p, c)
    PROVE  Turn(p) /\ con'[p] = c
  BY Zenon DEF turns, Turn

\* The steps of one connection's.
ConnStep(p) ==
    \/ sends(p)
    \/ \E how \in {"fin", "reset"} : ends(p, how)
    \/ peerTakes(p)
    \/ writeFails(p)
    \/ readExpires(p)
    \/ writeExpires(p)
    \/ connClose(p)
    \/ closeWakes(p)
    \/ \E d \in {"none", "future"} : SetDeadline(p, d)
    \/ PauseRead(p)
    \/ ResumeRead(p)
    \/ Detach(p)
    \/ detachWakes(p)
    \/ detachReturns(p)
    \/ Write(p)
    \/ panics(p)
    \/ onOpen(p)
    \/ waitsToRead(p)
    \/ waitsToDeliver(p)
    \/ onResume(p)
    \/ checks(p)
    \/ reads(p)
    \/ \E e \in {"closed", "timeout", "reset", "EOF"} : readFails(p, e)
    \/ delivers(p)
    \/ \E n \in -1..(Len(con[p].data) + 1) : onData(p, n)
    \/ closing(p)
    \/ onClosing(p)
    \/ serveConn(p)
    \/ onClose(p)
    \/ handsOver(p)

\* The values a step may give to a field.
LEMMA Literals ==
    /\ TRUE \in Bools /\ FALSE \in Bools
    /\ "fin" \in Ends /\ "reset" \in Ends
    /\ "none" \in Times /\ "future" \in Times /\ "past" \in Times
    /\ "wake" \in Calls /\ "wait" \in Calls /\ "returned" \in Calls
    /\ "user" \in Owners /\ "detach" \in Owners /\ "engine" \in Owners
    /\ "closed" \in Errors /\ "timeout" \in Errors /\ "reset" \in Errors /\ "EOF" \in Errors /\ "panic" \in Errors
    /\ "wait" \in Places /\ "resume" \in Places /\ "resumeData" \in Places /\ "waitData" \in Places /\ "check" \in Places
    /\ "read" \in Places /\ "checkData" \in Places /\ "data" \in Places /\ "failed" \in Places /\ "closing" \in Places
    /\ "queued" \in Places /\ "accepted" \in Places /\ "refused" \in Places /\ "opening" \in Places /\ "handing" \in Places
    /\ "done" \in Places /\ "server" \in Owners
    /\ "ended" \in Places /\ "forget" \in Places /\ "onClose" \in Places /\ "handOver" \in Places /\ "handedOver" \in Places
  BY DEF Bools, Ends, Times, Calls, Owners, Errors, Places, Before, Running, Registered, InLoop

\* What is held is bytes.
LEMMA HeldBytes ==
    ASSUME NEW c \in ConnType
    PROVE  Held(c) \in Bytes /\ Cat(c.taken, Held(c)) \in Bytes
  <1>1. Held(c) \in Bytes /\ c.taken \in Bytes
    BY DEF Held, ConnType
  <1>2. QED
    BY <1>1, Joins

Kept(p) == Turn(p) /\ ConnInv(con'[p]) /\ Moves(con[p], con'[p])

\* Every step of a connection keeps what is true of it.
LEMMA ConnStepKeeps ==
    ASSUME NEW p \in use.clients, Connections, ConnStep(p)
    PROVE  Kept(p)
  <1> DEFINE c == con[p]
  <1>0. c \in ConnType /\ ConnInv(c) /\ con \in [use.clients -> ConnType]
    BY DEF Connections
  <1>t. c \in ConnType
    BY <1>0
  <1>i. c.calls - 1 \in Ints /\ c.sent + 1 \in Nats
    BY <1>0 DEF ConnType, Ints, Nats
  <1>k. ASSUME NEW d, turns(p, d), d \in ConnType, Taken(d), Socket(d), Ended(d), Told(d), InOrder(d), Moves(c, d)
        PROVE  Kept(p)
    BY <1>0, <1>k, TurnsTo DEF Kept, ConnInv
  <1>1. CASE \E how \in {"fin", "reset"} : ends(p, how)
    <2>0. PICK how \in {"fin", "reset"} : ends(p, how)
      BY <1>1
    <2> DEFINE d == [c EXCEPT !.end = how]
    <2>1. turns(p, d)
      BY <2>0 DEF ends, Linked
    <2>2. d \in ConnType
      BY <1>t, <1>i, Literals, Zenon DEF ConnType
    <2>3. Taken(d) /\ Socket(d) /\ Ended(d) /\ Told(d) /\ Moves(c, d)
      BY <1>0, <2>0, SMTT(20) DEF ends, Linked, ConnInv, ConnType, Taken, Socket, Ended, Told, Moves, Over, Registered, InLoop, Before
    <2>4. InOrder(d)
      BY <1>0, <2>0, Zenon DEF ends, Linked, ConnInv, ConnType, InOrder, Held
    <2>5. QED
      BY <1>k, <2>1, <2>2, <2>3, <2>4
  <1>2. CASE peerTakes(p)
    <2> DEFINE d == [c EXCEPT !.writing = FALSE]
    <2>1. turns(p, d)
      BY <1>2 DEF peerTakes
    <2>2. d \in ConnType
      BY <1>t, <1>i, Literals, Zenon DEF ConnType
    <2>3. Taken(d) /\ Socket(d) /\ Ended(d) /\ Told(d) /\ Moves(c, d)
      BY <1>0, <1>2, SMTT(20) DEF peerTakes, ConnInv, ConnType, Taken, Socket, Ended, Told, Moves, Over, Registered, InLoop, Before
    <2>4. InOrder(d)
      BY <1>0, <1>2, Zenon DEF peerTakes, ConnInv, ConnType, InOrder, Held
    <2>5. QED
      BY <1>k, <2>1, <2>2, <2>3, <2>4
  <1>3. CASE writeFails(p)
    <2> DEFINE d == [c EXCEPT !.writing = FALSE]
    <2>1. turns(p, d)
      BY <1>3 DEF writeFails
    <2>2. d \in ConnType
      BY <1>t, <1>i, Literals, Zenon DEF ConnType
    <2>3. Taken(d) /\ Socket(d) /\ Ended(d) /\ Told(d) /\ Moves(c, d)
      BY <1>0, <1>3, SMTT(20) DEF writeFails, ConnInv, ConnType, Taken, Socket, Ended, Told, Moves, Over, Registered, InLoop, Before
    <2>4. InOrder(d)
      BY <1>0, <1>3, Zenon DEF writeFails, ConnInv, ConnType, InOrder, Held
    <2>5. QED
      BY <1>k, <2>1, <2>2, <2>3, <2>4
  <1>4. CASE readExpires(p)
    <2> DEFINE d == [c EXCEPT !.rdl = "past", !.expired = TRUE]
    <2>1. turns(p, d)
      BY <1>4 DEF readExpires
    <2>2. d \in ConnType
      BY <1>t, <1>i, Literals, Zenon DEF ConnType
    <2>3. Taken(d) /\ Socket(d) /\ Ended(d) /\ Told(d) /\ Moves(c, d)
      BY <1>0, <1>4, SMTT(20) DEF readExpires, ConnInv, ConnType, Taken, Socket, Ended, Told, Moves, Over, Registered, InLoop, Before
    <2>4. InOrder(d)
      BY <1>0, <1>4, Zenon DEF readExpires, ConnInv, ConnType, InOrder, Held
    <2>5. QED
      BY <1>k, <2>1, <2>2, <2>3, <2>4
  <1>5. CASE writeExpires(p)
    <2> DEFINE d == [c EXCEPT !.wdl = "past"]
    <2>1. turns(p, d)
      BY <1>5 DEF writeExpires
    <2>2. d \in ConnType
      BY <1>t, <1>i, Literals, Zenon DEF ConnType
    <2>3. Taken(d) /\ Socket(d) /\ Ended(d) /\ Told(d) /\ Moves(c, d)
      BY <1>0, <1>5, SMTT(20) DEF writeExpires, ConnInv, ConnType, Taken, Socket, Ended, Told, Moves, Over, Registered, InLoop, Before
    <2>4. InOrder(d)
      BY <1>0, <1>5, Zenon DEF writeExpires, ConnInv, ConnType, InOrder, Held
    <2>5. QED
      BY <1>k, <2>1, <2>2, <2>3, <2>4
  <1>6. CASE connClose(p)
    <2> DEFINE d == [c EXCEPT !.calls = @ - 1, !.by = "user", !.wake = TRUE]
    <2>1. turns(p, d)
      BY <1>6 DEF connClose, called, mayCall
    <2>2. d \in ConnType
      BY <1>t, <1>i, Literals, Zenon DEF ConnType
    <2>3. Taken(d) /\ Socket(d) /\ Ended(d) /\ Told(d) /\ Moves(c, d)
      BY <1>0, <1>6, SMTT(20) DEF connClose, mayCall, ConnInv, ConnType, Taken, Socket, Ended, Told, Moves, Over, Registered, InLoop, Before
    <2>4. InOrder(d)
      BY <1>0, <1>6, Zenon DEF connClose, mayCall, ConnInv, ConnType, InOrder, Held
    <2>5. QED
      BY <1>k, <2>1, <2>2, <2>3, <2>4
  <1>7. CASE closeWakes(p)
    <2> DEFINE d == [c EXCEPT !.wake = FALSE, !.rdl = "past"]
    <2>1. turns(p, d)
      BY <1>7 DEF closeWakes
    <2>2. d \in ConnType
      BY <1>t, <1>i, Literals, Zenon DEF ConnType
    <2>3. Taken(d) /\ Socket(d) /\ Ended(d) /\ Told(d) /\ Moves(c, d)
      BY <1>0, <1>7, SMTT(20) DEF closeWakes, ConnInv, ConnType, Taken, Socket, Ended, Told, Moves, Over, Registered, InLoop, Before
    <2>4. InOrder(d)
      BY <1>0, <1>7, Zenon DEF closeWakes, ConnInv, ConnType, InOrder, Held
    <2>5. QED
      BY <1>k, <2>1, <2>2, <2>3, <2>4
  <1>8. CASE \E d \in {"none", "future"} : SetDeadline(p, d)
    <2>0. PICK when \in {"none", "future"} : SetDeadline(p, when)
      BY <1>8
    <2> DEFINE d == [c EXCEPT !.calls = @ - 1, !.rdl = when, !.wdl = when, !.moved = @ \/ c.at = "closing"]
    <2>1. turns(p, d)
      BY <2>0 DEF SetDeadline, setsDeadline, called, mayCall
    <2>2. d \in ConnType
      BY <1>t, <1>i, Literals, Zenon DEF ConnType
    <2>3. Taken(d) /\ Socket(d) /\ Ended(d) /\ Told(d) /\ Moves(c, d)
      <3>1. c.by = "no" /\ c.at \notin Before /\ when # "past"
        BY <2>0 DEF SetDeadline, mayCall, Before
      <3>2. Taken(d) /\ Socket(d) /\ Told(d) /\ Moves(c, d)
        BY <1>0, <3>1 DEF ConnInv, ConnType, Taken, Socket, Told, Moves, Before
      <3>3. Ended(d)
        BY <1>0, <3>1, Zenon DEF ConnInv, ConnType, Ended, Before, InLoop
      <3>4. QED
        BY <3>2, <3>3
    <2>4. InOrder(d)
      BY <1>0, <2>0, Zenon DEF SetDeadline, mayCall, ConnInv, ConnType, InOrder, Held
    <2>5. QED
      BY <1>k, <2>1, <2>2, <2>3, <2>4
  <1>9. CASE PauseRead(p)
    <2> DEFINE d == [c EXCEPT !.calls = @ - 1, !.paused = TRUE]
    <2>1. turns(p, d)
      BY <1>9 DEF PauseRead, called, mayCall
    <2>2. d \in ConnType
      BY <1>t, <1>i, Literals, Zenon DEF ConnType
    <2>3. Taken(d) /\ Socket(d) /\ Ended(d) /\ Told(d) /\ Moves(c, d)
      BY <1>0, <1>9, SMTT(20) DEF PauseRead, mayCall, ConnInv, ConnType, Taken, Socket, Ended, Told, Moves, Over, Registered, InLoop, Before
    <2>4. InOrder(d)
      BY <1>0, <1>9, Zenon DEF PauseRead, mayCall, ConnInv, ConnType, InOrder, Held
    <2>5. QED
      BY <1>k, <2>1, <2>2, <2>3, <2>4
  <1>10. CASE ResumeRead(p)
    <2> DEFINE d == [c EXCEPT !.calls = @ - 1, !.paused = FALSE, !.resumed = TRUE]
    <2>1. turns(p, d)
      BY <1>10 DEF ResumeRead, called, mayCall
    <2>2. d \in ConnType
      BY <1>t, <1>i, Literals, Zenon DEF ConnType
    <2>3. Taken(d) /\ Socket(d) /\ Ended(d) /\ Told(d) /\ Moves(c, d)
      BY <1>0, <1>10, SMTT(20) DEF ResumeRead, mayCall, ConnInv, ConnType, Taken, Socket, Ended, Told, Moves, Over, Registered, InLoop, Before
    <2>4. InOrder(d)
      BY <1>0, <1>10, Zenon DEF ResumeRead, mayCall, ConnInv, ConnType, InOrder, Held
    <2>5. QED
      BY <1>k, <2>1, <2>2, <2>3, <2>4
  <1>11. CASE Detach(p)
    <2> DEFINE d == [c EXCEPT !.calls = @ - 1, !.by = "detach", !.det = "wake"]
    <2>1. turns(p, d)
      BY <1>11 DEF Detach, called, mayCall
    <2>2. d \in ConnType
      BY <1>t, <1>i, Literals, Zenon DEF ConnType
    <2>3. Taken(d) /\ Socket(d) /\ Ended(d) /\ Told(d) /\ Moves(c, d)
      BY <1>0, <1>11, SMTT(20) DEF Detach, mayCall, ConnInv, ConnType, Taken, Socket, Ended, Told, Moves, Over, Registered, InLoop, Before
    <2>4. InOrder(d)
      BY <1>0, <1>11, Zenon DEF Detach, mayCall, ConnInv, ConnType, InOrder, Held
    <2>5. QED
      BY <1>k, <2>1, <2>2, <2>3, <2>4
  <1>12. CASE detachWakes(p)
    <2> DEFINE d == [c EXCEPT !.det = "wait", !.rdl = "past"]
    <2>1. turns(p, d)
      BY <1>12 DEF detachWakes
    <2>2. d \in ConnType
      BY <1>t, <1>i, Literals, Zenon DEF ConnType
    <2>3. Taken(d) /\ Socket(d) /\ Ended(d) /\ Told(d) /\ Moves(c, d)
      BY <1>0, <1>12, SMTT(20) DEF detachWakes, ConnInv, ConnType, Taken, Socket, Ended, Told, Moves, Over, Registered, InLoop, Before
    <2>4. InOrder(d)
      BY <1>0, <1>12, Zenon DEF detachWakes, ConnInv, ConnType, InOrder, Held
    <2>5. QED
      BY <1>k, <2>1, <2>2, <2>3, <2>4
  <1>13. CASE detachReturns(p)
    <2> DEFINE d == [c EXCEPT !.det = "returned", !.rdl = "none", !.wdl = "none"]
    <2>1. turns(p, d)
      BY <1>13 DEF detachReturns
    <2>2. d \in ConnType
      BY <1>t, <1>i, Literals, Zenon DEF ConnType
    <2>3. Taken(d) /\ Socket(d) /\ Ended(d) /\ Told(d) /\ Moves(c, d)
      BY <1>0, <1>13, SMTT(20) DEF detachReturns, ConnInv, ConnType, Taken, Socket, Ended, Told, Moves, Over, Registered, InLoop, Before
    <2>4. InOrder(d)
      BY <1>0, <1>13, Zenon DEF detachReturns, ConnInv, ConnType, InOrder, Held
    <2>5. QED
      BY <1>k, <2>1, <2>2, <2>3, <2>4
  <1>14. CASE Write(p)
    <2> DEFINE d == [c EXCEPT !.calls = @ - 1, !.writing = TRUE]
    <2>1. turns(p, d)
      BY <1>14 DEF Write, called, mayCall
    <2>2. d \in ConnType
      BY <1>t, <1>i, Literals, Zenon DEF ConnType
    <2>3. Taken(d) /\ Socket(d) /\ Ended(d) /\ Told(d) /\ Moves(c, d)
      BY <1>0, <1>14, SMTT(20) DEF Write, mayCall, ConnInv, ConnType, Taken, Socket, Ended, Told, Moves, Over, Registered, InLoop, Before
    <2>4. InOrder(d)
      BY <1>0, <1>14, Zenon DEF Write, mayCall, ConnInv, ConnType, InOrder, Held
    <2>5. QED
      BY <1>k, <2>1, <2>2, <2>3, <2>4
  <1>15. CASE panics(p)
    <2> DEFINE d == [c EXCEPT !.at = "ended", !.err = "panic"]
    <2>1. turns(p, d)
      BY <1>15 DEF panics, In
    <2>2. d \in ConnType
      BY <1>t, <1>i, Literals, Zenon DEF ConnType
    <2>3. Taken(d) /\ Socket(d) /\ Ended(d) /\ Told(d) /\ Moves(c, d)
      BY <1>0, <1>15, SMTT(20) DEF panics, In, ConnInv, ConnType, Taken, Socket, Ended, Told, Moves, Over, Registered, InLoop, Before
    <2>4. InOrder(d)
      BY <1>0, <1>15, Zenon DEF panics, In, ConnInv, ConnType, InOrder, Held
    <2>5. QED
      BY <1>k, <2>1, <2>2, <2>3, <2>4
  <1>16. CASE onOpen(p)
    <2> DEFINE d == [c EXCEPT !.at = "wait"]
    <2>1. turns(p, d)
      BY <1>16 DEF onOpen, In
    <2>2. d \in ConnType
      BY <1>t, <1>i, Literals, Zenon DEF ConnType
    <2>3. Taken(d) /\ Socket(d) /\ Ended(d) /\ Told(d) /\ Moves(c, d)
      BY <1>0, <1>16, SMTT(20) DEF onOpen, In, ConnInv, ConnType, Taken, Socket, Ended, Told, Moves, Over, Registered, InLoop, Before
    <2>4. InOrder(d)
      BY <1>0, <1>16, Zenon DEF onOpen, In, ConnInv, ConnType, InOrder, Held
    <2>5. QED
      BY <1>k, <2>1, <2>2, <2>3, <2>4
  <1>17. CASE waitsToRead(p)
    <2>1. CASE c.resumed /\ c.by = "no"
      <3> DEFINE d == [c EXCEPT !.resumed = FALSE, !.at = "resume"]
      <3>1. turns(p, d)
        BY <1>17, <2>1 DEF waitsToRead, waitRead
      <3>2. d \in ConnType
        BY <1>t, <1>i, Literals, Zenon DEF ConnType
      <3>3. Taken(d) /\ Socket(d) /\ Ended(d) /\ Told(d) /\ Moves(c, d)
        BY <1>0, <1>17, <2>1, SMTT(20) DEF waitsToRead, ConnInv, ConnType, Taken, Socket, Ended, Told, Moves, Over, Registered, InLoop, Before
      <3>4. InOrder(d)
        BY <1>0, <1>17, <2>1, Zenon DEF waitsToRead, ConnInv, ConnType, InOrder, Held
      <3>5. QED
        BY <1>k, <3>1, <3>2, <3>3, <3>4
    <2>2. CASE c.by = "detach"
      <3> DEFINE d == [c EXCEPT !.resumed = FALSE, !.in = c.in, !.at = "ended"]
      <3>1. turns(p, d)
        BY <1>17, <2>2 DEF waitsToRead, waitRead
      <3>2. d \in ConnType
        BY <1>t, <1>i, Literals, Zenon DEF ConnType
      <3>3. Taken(d) /\ Socket(d) /\ Ended(d) /\ Told(d) /\ Moves(c, d)
        BY <1>0, <1>17, <2>2, SMTT(20) DEF waitsToRead, ConnInv, ConnType, Taken, Socket, Ended, Told, Moves, Over, Registered, InLoop, Before
      <3>4. InOrder(d)
        BY <1>0, <1>17, <2>2, Zenon DEF waitsToRead, ConnInv, ConnType, InOrder, Held
      <3>5. QED
        BY <1>k, <3>1, <3>2, <3>3, <3>4
    <2>3. CASE ~(c.resumed /\ c.by = "no") /\ c.by # "detach"
      <3> DEFINE d == [c EXCEPT !.resumed = FALSE, !.at = "check"]
      <3>1. turns(p, d)
        BY <1>17, <2>3 DEF waitsToRead, waitRead
      <3>2. d \in ConnType
        BY <1>t, <1>i, Literals, Zenon DEF ConnType
      <3>3. Taken(d) /\ Socket(d) /\ Ended(d) /\ Told(d) /\ Moves(c, d)
        BY <1>0, <1>17, <2>3, SMTT(20) DEF waitsToRead, ConnInv, ConnType, Taken, Socket, Ended, Told, Moves, Over, Registered, InLoop, Before
      <3>4. InOrder(d)
        BY <1>0, <1>17, <2>3, Zenon DEF waitsToRead, ConnInv, ConnType, InOrder, Held
      <3>5. QED
        BY <1>k, <3>1, <3>2, <3>3, <3>4
    <2>4. QED
      BY <1>17, <2>1, <2>2, <2>3 DEF waitsToRead, waitRead
  <1>18. CASE waitsToDeliver(p)
    <2>1. CASE c.resumed /\ c.by = "no"
      <3> DEFINE d == [c EXCEPT !.resumed = FALSE, !.at = "resumeData"]
      <3>1. turns(p, d)
        BY <1>18, <2>1 DEF waitsToDeliver, waitRead
      <3>2. d \in ConnType
        BY <1>t, <1>i, Literals, Zenon DEF ConnType
      <3>3. Taken(d) /\ Socket(d) /\ Ended(d) /\ Told(d) /\ Moves(c, d)
        BY <1>0, <1>18, <2>1, SMTT(20) DEF waitsToDeliver, ConnInv, ConnType, Taken, Socket, Ended, Told, Moves, Over, Registered, InLoop, Before
      <3>4. InOrder(d)
        BY <1>0, <1>18, <2>1, Zenon DEF waitsToDeliver, ConnInv, ConnType, InOrder, Held
      <3>5. QED
        BY <1>k, <3>1, <3>2, <3>3, <3>4
    <2>2. CASE c.by = "detach"
      <3> DEFINE d == [c EXCEPT !.resumed = FALSE, !.in = c.data, !.at = "ended"]
      <3>1. turns(p, d)
        BY <1>18, <2>2 DEF waitsToDeliver, waitRead
      <3>2. d \in ConnType
        BY <1>t, <1>i, Literals, Zenon DEF ConnType
      <3>3. Taken(d) /\ Socket(d) /\ Ended(d) /\ Told(d) /\ Moves(c, d)
        BY <1>0, <1>18, <2>2, SMTT(20) DEF waitsToDeliver, ConnInv, ConnType, Taken, Socket, Ended, Told, Moves, Over, Registered, InLoop, Before
      <3>4. InOrder(d)
        BY <1>0, <1>18, <2>2, Zenon DEF waitsToDeliver, ConnInv, ConnType, InOrder, Held
      <3>5. QED
        BY <1>k, <3>1, <3>2, <3>3, <3>4
    <2>3. CASE ~(c.resumed /\ c.by = "no") /\ c.by # "detach"
      <3> DEFINE d == [c EXCEPT !.resumed = FALSE, !.at = "checkData"]
      <3>1. turns(p, d)
        BY <1>18, <2>3 DEF waitsToDeliver, waitRead
      <3>2. d \in ConnType
        BY <1>t, <1>i, Literals, Zenon DEF ConnType
      <3>3. Taken(d) /\ Socket(d) /\ Ended(d) /\ Told(d) /\ Moves(c, d)
        BY <1>0, <1>18, <2>3, SMTT(20) DEF waitsToDeliver, ConnInv, ConnType, Taken, Socket, Ended, Told, Moves, Over, Registered, InLoop, Before
      <3>4. InOrder(d)
        BY <1>0, <1>18, <2>3, Zenon DEF waitsToDeliver, ConnInv, ConnType, InOrder, Held
      <3>5. QED
        BY <1>k, <3>1, <3>2, <3>3, <3>4
    <2>4. QED
      BY <1>18, <2>1, <2>2, <2>3 DEF waitsToDeliver, waitRead
  <1>19. CASE onResume(p)
    <2>1. CASE c.at = "resume"
      <3> DEFINE d == [c EXCEPT !.at = "wait"]
      <3>1. turns(p, d)
        BY <1>19, <2>1 DEF onResume, In
      <3>2. d \in ConnType
        BY <1>t, <1>i, Literals, Zenon DEF ConnType
      <3>3. Taken(d) /\ Socket(d) /\ Ended(d) /\ Told(d) /\ Moves(c, d)
        BY <1>0, <1>19, <2>1, SMTT(20) DEF onResume, In, ConnInv, ConnType, Taken, Socket, Ended, Told, Moves, Over, Registered, InLoop, Before
      <3>4. InOrder(d)
        BY <1>0, <1>19, <2>1, Zenon DEF onResume, In, ConnInv, ConnType, InOrder, Held
      <3>5. QED
        BY <1>k, <3>1, <3>2, <3>3, <3>4
    <2>2. CASE c.at = "resumeData"
      <3> DEFINE d == [c EXCEPT !.at = "waitData"]
      <3>1. turns(p, d)
        BY <1>19, <2>2 DEF onResume, In
      <3>2. d \in ConnType
        BY <1>t, <1>i, Literals, Zenon DEF ConnType
      <3>3. Taken(d) /\ Socket(d) /\ Ended(d) /\ Told(d) /\ Moves(c, d)
        BY <1>0, <1>19, <2>2, SMTT(20) DEF onResume, In, ConnInv, ConnType, Taken, Socket, Ended, Told, Moves, Over, Registered, InLoop, Before
      <3>4. InOrder(d)
        BY <1>0, <1>19, <2>2, Zenon DEF onResume, In, ConnInv, ConnType, InOrder, Held
      <3>5. QED
        BY <1>k, <3>1, <3>2, <3>3, <3>4
    <2>3. QED
      BY <1>19, <2>1, <2>2 DEF onResume, In
  <1>20. CASE checks(p)
    <2> DEFINE d == [c EXCEPT !.at = IF c.by = "no" THEN "read" ELSE "ended"]
    <2>1. turns(p, d)
      BY <1>20 DEF checks
    <2>2. d \in ConnType
      BY <1>t, <1>i, Literals, Zenon DEF ConnType
    <2>3. Taken(d) /\ Socket(d) /\ Ended(d) /\ Told(d) /\ Moves(c, d)
      BY <1>0, <1>20, SMTT(20) DEF checks, ConnInv, ConnType, Taken, Socket, Ended, Told, Moves, Over, Registered, InLoop, Before
    <2>4. InOrder(d)
      BY <1>0, <1>20, Zenon DEF checks, ConnInv, ConnType, InOrder, Held
    <2>5. QED
      BY <1>k, <2>1, <2>2, <2>3, <2>4
  <1>21. CASE delivers(p)
    <2>1. CASE c.by = "no"
      <3> DEFINE d == [c EXCEPT !.at = "data"]
      <3>1. turns(p, d)
        BY <1>21, <2>1 DEF delivers
      <3>2. d \in ConnType
        BY <1>t, <1>i, Literals, Zenon DEF ConnType
      <3>3. Taken(d) /\ Socket(d) /\ Ended(d) /\ Told(d) /\ Moves(c, d)
        BY <1>0, <1>21, <2>1, SMTT(20) DEF delivers, ConnInv, ConnType, Taken, Socket, Ended, Told, Moves, Over, Registered, InLoop, Before
      <3>4. InOrder(d)
        BY <1>0, <1>21, <2>1, Zenon DEF delivers, ConnInv, ConnType, InOrder, Held
      <3>5. QED
        BY <1>k, <3>1, <3>2, <3>3, <3>4
    <2>2. CASE c.by # "no"
      <3> DEFINE d == [c EXCEPT !.at = "wait", !.in = c.data]
      <3>1. turns(p, d)
        BY <1>21, <2>2 DEF delivers
      <3>2. d \in ConnType
        BY <1>t, <1>i, Literals, Zenon DEF ConnType
      <3>3. Taken(d) /\ Socket(d) /\ Ended(d) /\ Told(d) /\ Moves(c, d)
        BY <1>0, <1>21, <2>2, SMTT(20) DEF delivers, ConnInv, ConnType, Taken, Socket, Ended, Told, Moves, Over, Registered, InLoop, Before
      <3>4. InOrder(d)
        BY <1>0, <1>21, <2>2, Zenon DEF delivers, ConnInv, ConnType, InOrder, Held
      <3>5. QED
        BY <1>k, <3>1, <3>2, <3>3, <3>4
    <2>3. QED
      BY <1>21, <2>1, <2>2 DEF delivers
  <1>22. CASE closing(p)
    <2>1. CASE Closes(c)
      <3> DEFINE d == [c EXCEPT !.at = "closing", !.wdl = "future"]
      <3>1. turns(p, d)
        BY <1>22, <2>1 DEF closing
      <3>2. d \in ConnType
        BY <1>t, <1>i, Literals, Zenon DEF ConnType
      <3>3. Taken(d) /\ Socket(d) /\ Ended(d) /\ Told(d) /\ Moves(c, d)
        BY <1>0, <1>22, <2>1, SMTT(20) DEF closing, ConnInv, ConnType, Taken, Socket, Ended, Told, Moves, Over, Registered, InLoop, Before
      <3>4. InOrder(d)
        BY <1>0, <1>22, <2>1, Zenon DEF closing, ConnInv, ConnType, InOrder, Held
      <3>5. QED
        BY <1>k, <3>1, <3>2, <3>3, <3>4
    <2>2. CASE ~Closes(c)
      <3> DEFINE d == [c EXCEPT !.at = "ended"]
      <3>1. turns(p, d)
        BY <1>22, <2>2 DEF closing
      <3>2. d \in ConnType
        BY <1>t, <1>i, Literals, Zenon DEF ConnType
      <3>3. Taken(d) /\ Socket(d) /\ Ended(d) /\ Told(d) /\ Moves(c, d)
        BY <1>0, <1>22, <2>2, SMTT(20) DEF closing, ConnInv, ConnType, Taken, Socket, Ended, Told, Moves, Over, Registered, InLoop, Before
      <3>4. InOrder(d)
        BY <1>0, <1>22, <2>2, Zenon DEF closing, ConnInv, ConnType, InOrder, Held
      <3>5. QED
        BY <1>k, <3>1, <3>2, <3>3, <3>4
    <2>3. QED
      BY <1>22, <2>1, <2>2 DEF closing
  <1>23. CASE onClosing(p)
    <2> DEFINE d == [c EXCEPT !.at = "ended", !.wdl = "none"]
    <2>1. turns(p, d)
      BY <1>23 DEF onClosing, In
    <2>2. d \in ConnType
      BY <1>t, <1>i, Literals, Zenon DEF ConnType
    <2>3. Taken(d) /\ Socket(d) /\ Ended(d) /\ Told(d) /\ Moves(c, d)
      BY <1>0, <1>23, SMTT(20) DEF onClosing, In, ConnInv, ConnType, Taken, Socket, Ended, Told, Moves, Over, Registered, InLoop, Before
    <2>4. InOrder(d)
      BY <1>0, <1>23, Zenon DEF onClosing, In, ConnInv, ConnType, InOrder, Held
    <2>5. QED
      BY <1>k, <2>1, <2>2, <2>3, <2>4
  <1>24. CASE onClose(p)
    <2> DEFINE d == [c EXCEPT !.at = "forget", !.open = FALSE]
    <2>1. turns(p, d)
      BY <1>24 DEF onClose
    <2>2. d \in ConnType
      BY <1>t, <1>i, Literals, Zenon DEF ConnType
    <2>3. Taken(d) /\ Socket(d) /\ Ended(d) /\ Told(d) /\ Moves(c, d)
      BY <1>0, <1>24, SMTT(20) DEF onClose, ConnInv, ConnType, Taken, Socket, Ended, Told, Moves, Over, Registered, InLoop, Before
    <2>4. InOrder(d)
      BY <1>0, <1>24, Zenon DEF onClose, ConnInv, ConnType, InOrder, Held
    <2>5. QED
      BY <1>k, <2>1, <2>2, <2>3, <2>4
  <1>25. CASE handsOver(p)
    <2> DEFINE d == [c EXCEPT !.at = "handedOver"]
    <2>1. turns(p, d)
      BY <1>25 DEF handsOver
    <2>2. d \in ConnType
      BY <1>t, <1>i, Literals, Zenon DEF ConnType
    <2>3. Taken(d) /\ Socket(d) /\ Ended(d) /\ Told(d) /\ Moves(c, d)
      BY <1>0, <1>25, SMTT(20) DEF handsOver, ConnInv, ConnType, Taken, Socket, Ended, Told, Moves, Over, Registered, InLoop, Before
    <2>4. InOrder(d)
      BY <1>0, <1>25, Zenon DEF handsOver, ConnInv, ConnType, InOrder, Held
    <2>5. QED
      BY <1>k, <2>1, <2>2, <2>3, <2>4
  <1>26. CASE sends(p)
    <2> DEFINE d == [c EXCEPT !.sent = @ + 1, !.rx = Append(@, c.sent + 1)]
    <2>1. turns(p, d)
      BY <1>26 DEF sends
    <2>2. c.rx \in Bytes /\ c.sent \in Nat /\ Append(c.rx, c.sent + 1) \in Bytes
      BY <1>t DEF ConnType, Bytes, Nats
    <2>3. d \in ConnType
      BY <1>t, <1>i, <2>2, Zenon DEF ConnType
    <2>4. Taken(d) /\ Socket(d) /\ Ended(d) /\ Told(d) /\ Moves(c, d)
      BY <1>0, <1>26, SMTT(20) DEF sends, Linked, ConnInv, ConnType, Taken, Socket, Ended, Told, Moves, Over, Registered, InLoop, Before
    <2>5. InOrder(d)
      <3> SUFFICES ASSUME c.err # "panic" PROVE Cat(Cat(c.taken, Held(c)), Append(c.rx, c.sent + 1)) = Numbers(c.sent + 1)
        BY <1>t, Zenon DEF InOrder, Held, ConnType
      <3>1. Cat(Cat(c.taken, Held(c)), c.rx) = Numbers(c.sent) /\ Cat(c.taken, Held(c)) \in Bytes
        BY <1>0, HeldBytes DEF ConnInv, InOrder
      <3>2. QED
        BY <2>2, <3>1, NextNumber, Zenon
    <2>6. QED
      BY <1>k, <2>1, <2>3, <2>4, <2>5
  <1>27. CASE \E e \in {"closed", "timeout", "reset", "EOF"} : readFails(p, e)
    <2>0. PICK e \in {"closed", "timeout", "reset", "EOF"} : readFails(p, e)
      BY <1>27
    <2> DEFINE d == [c EXCEPT !.at = "failed", !.err = e]
    <2>1. turns(p, d)
      BY <2>0 DEF readFails
    <2>2. d \in ConnType
      BY <1>t, Literals, Zenon DEF ConnType
    <2>3. Taken(d) /\ Socket(d) /\ Told(d) /\ Moves(c, d)
      BY <1>0, <2>0, SMTT(20) DEF readFails, ConnInv, ConnType, Taken, Socket, Ended, Told, Moves, Over, Registered, InLoop, Before
    <2>4. Ended(d)
      <3>1. c.at = "read" /\ c.err = "nil" /\ c.by # "engine" /\ e \in ReadErrors(c)
        BY <1>0, <2>0 DEF readFails, ConnInv, Taken, Ended, Over, InLoop
      <3>2. e = "closed" => c.by \in {"user", "server"}
        BY <1>0, <3>1 DEF ReadErrors, ConnInv, ConnType, Owners, Socket
      <3>3. e = "timeout" => c.by # "no" \/ c.expired
        BY <1>0, <3>1 DEF ReadErrors, ConnInv, Ended
      <3>4. e = "EOF" => c.end = "fin" /\ c.rx = <<>>
        BY <3>1 DEF ReadErrors
      <3>5. QED
        BY <1>0, <3>1, <3>2, <3>3, <3>4 DEF ConnInv, ConnType, Ended, Before, InLoop
    <2>5. InOrder(d)
      <3>1. c.at = "read" /\ c.err = "nil"
        BY <1>0, <2>0 DEF readFails, ConnInv, Ended, InLoop
      <3>2. QED
        BY <1>0, <3>1, Zenon DEF ConnInv, ConnType, InOrder, Held
    <2>6. QED
      BY <1>k, <2>1, <2>2, <2>3, <2>4, <2>5
  <1>28. CASE reads(p)
    <2> DEFINE n == IF Len(c.rx) < readBufferSize THEN Len(c.rx) ELSE readBufferSize
               first == SubSeq(c.rx, 1, n)
               rest == SubSeq(c.rx, n + 1, Len(c.rx))
               joined == Cat(c.in, first)
               left == IF c.in = <<>> THEN c.in ELSE joined
               d == [c EXCEPT !.at = "waitData", !.data = joined, !.in = left, !.rx = rest]
    <2>1. turns(p, d)
      BY <1>28 DEF reads, Cat
    <2>2. c.rx \in Bytes /\ c.in \in Bytes /\ c.taken \in Bytes /\ n \in 0..Len(c.rx)
      BY <1>t, StdAssumption DEF ConnType, Bytes
    <2>3. first \in Bytes /\ rest \in Bytes /\ Cat(first, rest) = c.rx
      BY <2>2, Parts
    <2>4. joined \in Bytes /\ left \in Bytes
      BY <2>2, <2>3, Joins, Zenon
    <2> HIDE DEF n, first, rest, joined, left
    <2>5. d \in ConnType
      BY <1>t, <2>3, <2>4, Literals, Zenon DEF ConnType
    <2>6. c.at = "read" /\ c.rx # <<>>
      BY <1>28 DEF reads
    <2>7. Taken(d) /\ Socket(d) /\ Ended(d) /\ Told(d) /\ Moves(c, d)
      BY <1>0, <2>6, SMTT(20) DEF ConnInv, ConnType, Taken, Socket, Ended, Told, Moves, Over, Registered, InLoop, Before
    <2>8. InOrder(d)
      <3>1. c.err # "panic"
        BY <1>0, <2>6 DEF ConnInv, Ended, InLoop
      <3>2. Cat(Cat(c.taken, c.in), c.rx) = Numbers(c.sent)
        BY <1>0, <2>6, <3>1 DEF ConnInv, InOrder, Held
      <3>3. Cat(Cat(c.taken, joined), rest) = Cat(Cat(c.taken, c.in), c.rx)
        <4>1. Cat(c.taken, joined) = Cat(Cat(c.taken, c.in), first) /\ Cat(c.taken, c.in) \in Bytes
          BY <2>2, <2>3, Joins, ZenonT(60) DEF joined
        <4>2. Cat(Cat(Cat(c.taken, c.in), first), rest) = Cat(Cat(c.taken, c.in), Cat(first, rest))
          BY <2>3, <4>1, Joins, Zenon
        <4>3. QED
          BY <2>3, <4>1, <4>2
      <3>4. QED
        BY <1>t, <3>2, <3>3, Zenon DEF ConnType, InOrder, Held
    <2>9. QED
      BY <1>k, <2>1, <2>5, <2>7, <2>8
  <1>29. CASE \E n \in -1..(Len(con[p].data) + 1) : onData(p, n)
    <2>0. PICK n \in -1..(Len(c.data) + 1) : onData(p, n)
      BY <1>29
    <2> DEFINE consumed == IF n < 0 THEN 0 ELSE IF n > Len(c.data) THEN Len(c.data) ELSE n
               first == SubSeq(c.data, 1, consumed)
               rest == SubSeq(c.data, consumed + 1, Len(c.data))
               d == [c EXCEPT !.at = "wait", !.in = rest, !.taken = Cat(@, first)]
    <2>1. turns(p, d)
      BY <2>0 DEF onData, Cat
    <2>2. c.rx \in Bytes /\ c.data \in Bytes /\ c.taken \in Bytes /\ consumed \in 0..Len(c.data)
      BY <1>t DEF ConnType, Bytes
    <2>3. first \in Bytes /\ rest \in Bytes /\ Cat(first, rest) = c.data
      BY <2>2, Parts, SMTT(40)
    <2> HIDE DEF consumed, first, rest
    <2>4. Cat(c.taken, first) \in Bytes /\ Cat(Cat(c.taken, first), rest) = Cat(c.taken, c.data)
      <3>1. Cat(c.taken, first) \in Bytes
        BY <2>2, <2>3, Joins, Zenon
      <3>2. Cat(Cat(c.taken, first), rest) = Cat(c.taken, Cat(first, rest))
        BY <2>2, <2>3, Joins, Zenon
      <3>3. QED
        BY <2>3, <3>1, <3>2
    <2>5. d \in ConnType
      BY <1>t, <2>3, <2>4, Literals, Zenon DEF ConnType
    <2>6. c.at = "data"
      BY <2>0 DEF onData, In
    <2>7. Taken(d) /\ Socket(d) /\ Ended(d) /\ Told(d) /\ Moves(c, d)
      BY <1>0, <2>6, SMTT(20) DEF ConnInv, ConnType, Taken, Socket, Ended, Told, Moves, Over, Registered, InLoop, Before
    <2>8. InOrder(d)
      <3>1. Cat(Cat(c.taken, c.data), c.rx) = Numbers(c.sent)
        BY <1>0, <2>6 DEF ConnInv, InOrder, Held, Ended, InLoop
      <3>2. QED
        BY <1>t, <2>4, <3>1, Zenon DEF ConnType, InOrder, Held
    <2>9. QED
      BY <1>k, <2>1, <2>5, <2>7, <2>8
  <1>30. CASE serveConn(p)
    <2>0. c.at = "ended" /\ c.by # "engine" /\ c.by \in Owners /\ c.err \in Reasons /\ "nil" \in Reasons /\ "server" \in Reasons
      BY <1>0, <1>30 DEF serveConn, ConnInv, ConnType, Taken, Over, Reasons, Errors
    <2>1. CASE c.by = "no"
      <3> DEFINE d == [c EXCEPT !.by = "engine", !.at = "onClose", !.reason = c.err]
      <3>1. turns(p, d)
        BY <1>0, <1>30, <2>1 DEF serveConn, takenBy, ConnType
      <3>2. d \in ConnType
        BY <1>t, <2>0, Literals, Zenon DEF ConnType
      <3>3. Taken(d) /\ Socket(d) /\ Moves(c, d)
        BY <1>0, <2>0, <2>1 DEF ConnInv, ConnType, Taken, Socket, Moves, Over, Registered, Before
      <3>4. Ended(d) /\ Told(d)
        BY <1>0, <2>0, <2>1 DEF ConnInv, ConnType, Errors, Ended, Told, Over, Before, InLoop
      <3>5. InOrder(d)
        BY <1>0, <2>0, Zenon DEF ConnInv, ConnType, InOrder, Held
      <3>6. QED
        BY <1>k, <3>1, <3>2, <3>3, <3>4, <3>5
    <2>2. CASE c.by = "detach"
      <3> DEFINE d == [c EXCEPT !.at = "handOver"]
      <3>1. turns(p, d)
        BY <1>30, <2>2 DEF serveConn, takenBy
      <3>2. d \in ConnType
        BY <1>t, Literals, Zenon DEF ConnType
      <3>3. Taken(d) /\ Socket(d) /\ Ended(d) /\ Told(d) /\ Moves(c, d)
        BY <1>0, <2>0, <2>2, SMTT(20) DEF ConnInv, ConnType, Taken, Socket, Ended, Told, Moves, Over, Registered, InLoop, Before
      <3>4. InOrder(d)
        BY <1>0, <2>0, Zenon DEF ConnInv, ConnType, InOrder, Held
      <3>5. QED
        BY <1>k, <3>1, <3>2, <3>3, <3>4
    <2>3. CASE c.by \in {"user", "server"}
      <3> DEFINE why == IF c.by = "user" THEN "nil" ELSE "server"
                 d == [c EXCEPT !.at = "onClose", !.reason = why]
      <3>1. turns(p, d)
        BY <1>30, <2>3, Zenon DEF serveConn, takenBy
      <3>2. why \in Reasons
        BY <2>0
      <3>3. d \in ConnType
        <4> HIDE DEF why
        <4>1. QED
          BY <1>t, <3>2, Literals, Zenon DEF ConnType
      <3>4. Taken(d) /\ Socket(d) /\ Moves(c, d)
        BY <1>0, <2>0, <2>3 DEF ConnInv, ConnType, Taken, Socket, Moves, Over, Registered, Before
      <3>5. Ended(d) /\ Told(d)
        BY <1>0, <2>0, <2>3 DEF ConnInv, ConnType, Ended, Told, Over, Before, InLoop
      <3>6. InOrder(d)
        BY <1>0, <2>0, Zenon DEF ConnInv, ConnType, InOrder, Held
      <3>7. QED
        BY <1>k, <3>1, <3>3, <3>4, <3>5, <3>6
    <2>4. QED
      BY <2>0, <2>1, <2>2, <2>3 DEF Owners
  <1>31. QED
    BY <1>1, <1>2, <1>3, <1>4, <1>5, <1>6, <1>7, <1>8, <1>9, <1>10, <1>11, <1>12, <1>13, <1>14, <1>15, <1>16, <1>17, <1>18, <1>19, <1>20, <1>21, <1>22, <1>23, <1>24, <1>25, <1>26, <1>27, <1>28, <1>29, <1>30 DEF ConnStep

(***************************************************************************)
(* What the server's steps do to a connection                              *)
(***************************************************************************)

\* A connection goes from one place to the next.
LEMMA GoesTo ==
    ASSUME NEW c, ConnInv(c), NEW place,
           \/ c.at = "away" /\ place = "queued"
           \/ c.at = "queued" /\ place \in {"accepted", "refused"}
           \/ c.at = "accepted" /\ place = "opening"
           \/ c.at = "forget" /\ place = "done"
           \/ c.at = "handOver" /\ place = "handing"
           \/ c.at = "handedOver" /\ place = "done"
    PROVE  ConnInv([c EXCEPT !.at = place])
  <1> DEFINE d == [c EXCEPT !.at = place]
  <1>1. d \in ConnType
    <2>1. place \in Places /\ c \in ConnType
      BY Literals DEF ConnInv
    <2>2. QED
      BY <2>1, Zenon DEF ConnType
  <1>2. Taken(d) /\ Socket(d)
    BY SMTT(20) DEF ConnInv, ConnType, Taken, Socket, Over, Before
  <1>3. Ended(d) /\ Told(d)
    BY SMTT(20) DEF ConnInv, ConnType, Taken, Ended, Told, Over, Before, InLoop
  <1>4. InOrder(d)
    BY Zenon DEF ConnInv, ConnType, InOrder, Held
  <1>5. QED
    BY <1>1, <1>2, <1>3, <1>4 DEF ConnInv

\* The server does not take a connection it has accepted.
LEMMA Refused ==
    ASSUME NEW c, ConnInv(c), c.at = "accepted"
    PROVE  ConnInv([c EXCEPT !.at = "refused", !.open = FALSE])
  <1> DEFINE d == [c EXCEPT !.at = "refused", !.open = FALSE]
  <1>1. d \in ConnType
    BY Literals, Zenon DEF ConnInv, ConnType
  <1>2. Taken(d) /\ Socket(d)
    BY SMTT(20) DEF ConnInv, ConnType, Taken, Socket, Over, Before
  <1>3. Ended(d) /\ Told(d)
    BY SMTT(20) DEF ConnInv, ConnType, Taken, Ended, Told, Over, Before, InLoop
  <1>4. InOrder(d)
    BY Zenon DEF ConnInv, ConnType, InOrder, Held
  <1>5. QED
    BY <1>1, <1>2, <1>3, <1>4 DEF ConnInv

\* shutdown takes closedBy,
LEMMA TakenByServer ==
    ASSUME NEW c, ConnInv(c)
    PROVE  ConnInv(takenBy(c, "server"))
  <1> SUFFICES ASSUME c.by = "no" PROVE ConnInv([c EXCEPT !.by = "server"])
    BY DEF takenBy
  <1> DEFINE d == [c EXCEPT !.by = "server"]
  <1>1. d \in ConnType
    BY Literals, Zenon DEF ConnInv, ConnType
  <1>2. Taken(d) /\ Socket(d)
    BY SMTT(20) DEF ConnInv, ConnType, Taken, Socket, Over, Before
  <1>3. Ended(d) /\ Told(d)
    BY SMTT(20) DEF ConnInv, ConnType, Taken, Ended, Told, Over, Before, InLoop
  <1>4. InOrder(d)
    BY Zenon DEF ConnInv, ConnType, InOrder, Held
  <1>5. QED
    BY <1>1, <1>2, <1>3, <1>4 DEF ConnInv

\* and closes the net.Conn of a connection that somebody has closed.
LEMMA SocketClosed ==
    ASSUME NEW c, ConnInv(c), c.by # "no"
    PROVE  ConnInv([c EXCEPT !.open = @ /\ c.by = "detach"])
  <1> DEFINE open == c.open /\ c.by = "detach"
             d == [c EXCEPT !.open = open]
  <1>1. d \in ConnType
    <2>1. open \in Bools
      BY DEF Bools
    <2> HIDE DEF open
    <2>2. QED
      BY <2>1, Zenon DEF ConnInv, ConnType
  <1>2. Taken(d) /\ Socket(d)
    <2>1. c.by = "detach" => open = TRUE
      BY DEF ConnInv, ConnType, Socket, Bools
    <2>2. c.by # "detach" => open = FALSE
      BY DEF ConnInv, ConnType, Bools
    <2> HIDE DEF open
    <2>3. QED
      BY <2>1, <2>2, SMTT(20) DEF ConnInv, ConnType, Taken, Socket, Over, Before
  <1>3. Ended(d) /\ Told(d)
    BY SMTT(20) DEF ConnInv, ConnType, Taken, Ended, Told, Over, Before, InLoop
  <1>4. InOrder(d)
    BY Zenon DEF ConnInv, ConnType, InOrder, Held
  <1>5. QED
    BY <1>1, <1>2, <1>3, <1>4 DEF ConnInv

=============================================================================
