------------------------------- MODULE MCKcp -------------------------------
(* Small instances of Kcp: what each scenario is about, and its bounds. *)
EXTENDS Kcp

CONSTANTS p1, p2

TwoAddrs == {p1, p2}

Nothing == [b \in Budgets |-> 0]
Plain == [addrs |-> {p1}, noDelay |-> TRUE, patient |-> FALSE, window |-> 2, peerWindow |-> 2,
          limit |-> 2, start |-> -1, messages |-> <<>>, reply |-> 1, left |-> Nothing]

\* A peer that sends more than the window holds, a datagram lost either way.
Uploading == [Plain EXCEPT !.patient = TRUE, !.peerWindow = 3, !.messages = <<1, 1, 1>>,
                           !.left.loss = 1]

\* Replies to a peer that reads slowly, through a window of one.
Downloading == [Plain EXCEPT !.patient = TRUE, !.window = 1, !.peerWindow = 1, !.start = 0,
                             !.left.write = 2, !.left.loss = 1]

\* The same with congestion control, where sequence numbers wrap.
Congested == [Plain EXCEPT !.patient = TRUE, !.noDelay = FALSE, !.start = Modulus - 1,
                           !.messages = <<2, 1>>, !.left.loss = 1]

\* Datagrams duplicated and out of order, and timers that fire too early.
Shuffled == [Plain EXCEPT !.start = Modulus - 1, !.messages = <<2>>,
                          !.left.dup = 1, !.left.reorder = 1]

\* A peer that starts again, while the application closes.
Restarting == [Plain EXCEPT !.patient = TRUE, !.messages = <<1>>, !.left.restart = 1,
                            !.left.close = 1]

\* Datagrams of the conversation before, when the peer has started again.
Straying == [Plain EXCEPT !.patient = TRUE, !.messages = <<1, 1>>, !.left.restart = 1]

\* Two peers where there is room for one session, which is idle.
Evicting == [Plain EXCEPT !.patient = TRUE, !.addrs = {p1, p2}, !.messages = <<1>>, !.limit = 1,
                          !.left.idle = 1]

\* The server closes while the application closes.
Stopping == [Plain EXCEPT !.patient = TRUE, !.messages = <<1>>, !.left.shutdown = 1,
                          !.left.close = 1]

\* A peer that goes silent: whatever is sent again is lost.
Silent == [Plain EXCEPT !.patient = TRUE, !.start = 0, !.left.write = 1, !.left.loss = 3]

\* A reply of more fragments than the window holds.
Oversized == [Plain EXCEPT !.patient = TRUE, !.window = 1, !.peerWindow = 1, !.start = 0, !.reply = 2,
                           !.left.write = 1, !.messages = <<1>>]

All == {Oversized, Uploading, Downloading, Congested, Shuffled, Restarting, Straying, Evicting, Stopping, Silent}
=============================================================================
