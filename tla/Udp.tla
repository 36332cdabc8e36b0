-------------------------------- MODULE Udp --------------------------------
(***************************************************************************)
(* A UDPServer with one socket (udp_unix.go), on the state word of         *)
(* TaskWord: every access to the word is TaskWord's action.  Pollers find  *)
(* the edge-triggered socket readable, the goroutine in Serve shuts it     *)
(* down, other goroutines send datagrams or close the server, and the      *)
(* socket's task reads the datagrams and passes them to OnPacket, which    *)
(* may panic.                                                              *)
(***************************************************************************)
EXTENDS TaskWord, Integers

CONSTANTS
    evRead, evShutdown,  \* the events of a socket
    Pollers,             \* the sub-reactors' workers, among Procs
    serve,               \* the goroutine in Serve, among Procs
    Writers,             \* goroutines that call WriteToUDPAddrPort
    Closers,             \* goroutines that call Close
    PerRound,            \* packetMaxPerRound
    MaxPackets,          \* bound: the datagrams that arrive
    MaxPanics            \* bound: the callbacks that panic

ASSUME UdpAssumption ==
    /\ {evRead, evShutdown} \subseteq Events /\ evRead # evShutdown
    /\ Pollers \cup {serve} \subseteq Procs /\ serve \notin Pollers
    /\ PerRound \in Nat \ {0} /\ MaxPackets \in Nat /\ MaxPanics \in Nat

VARIABLES
    rx,       \* datagrams in the socket's receive buffer
    coming,   \* datagrams that have yet to arrive
    edge,     \* the poller has an event for the socket
    poller,   \* a poller has retrieved that event
    at,       \* where a round is in handle
    count,    \* the datagrams it has read
    open,     \* ~udpSocket.closed, and the fd is open: mu covers both
    counted,  \* udpSocket.counted
    waits,    \* openConnsWg
    serving,  \* where Serve is
    down,     \* reactor.closed, with which closing is closed
    closer,   \* where each Close is
    writer,   \* the goroutines that send, with mu held for reading
    panics    \* the callbacks that may yet panic

udpVars == <<rx, coming, edge, poller, at, count, open, counted, waits, serving, down, closer, writer, panics>>
net == <<rx, coming, edge, poller>>
life == <<open, counted, waits, serving, down, closer>>

AtStates == {"start", "recv", "panic", "over", "lock", "uncount", "kept"}
ServeStates == {"no", "begun", "counted", "yes", "waiting", "stopping", "done"}
CloserStates == {"free", "releasing", "waiting", "returned"}

UdpTypeOK ==
    /\ TypeOK
    /\ rx \in Nat /\ coming \in Nat /\ panics \in Nat
    /\ edge \in BOOLEAN /\ open \in BOOLEAN /\ counted \in BOOLEAN /\ down \in BOOLEAN
    /\ waits \in Int
    /\ poller \in [Pollers -> BOOLEAN]
    /\ at \in [Workers -> AtStates]
    /\ count \in [Workers -> Nat]
    /\ serving \in ServeStates
    /\ closer \in [Closers -> CloserStates]
    /\ writer \in [Writers -> BOOLEAN]

UdpInit ==
    /\ Init
    /\ rx = 0 /\ coming = MaxPackets /\ edge = FALSE
    /\ poller = [p \in Pollers |-> FALSE]
    /\ at = [w \in Workers |-> "start"] /\ count = [w \in Workers |-> 0]
    /\ open = TRUE /\ counted = FALSE /\ waits = 0
    /\ serving = "no" /\ down = FALSE
    /\ closer = [k \in Closers |-> "free"]
    /\ writer = [x \in Writers |-> FALSE]
    /\ panics = MaxPanics

(***************************************************************************)
(* The socket and its pollers                                              *)
(***************************************************************************)

\* A datagram arrives, which is an edge.
arrive ==
    /\ coming > 0 /\ open
    /\ coming' = coming - 1 /\ rx' = rx + 1 /\ edge' = TRUE
    /\ UNCHANGED <<vars, poller, at, count, life, writer, panics>>

\* Pollers run from startWorkers until stopWorkers.
Polling == serving \in {"yes", "waiting", "stopping"}

\* A poller retrieves the event; the one of a socket closed meanwhile is stale.
poll(p) ==
    /\ Polling /\ proc[p] = "free" /\ ~poller[p] /\ edge
    /\ edge' = FALSE
    /\ poller' = [poller EXCEPT ![p] = TRUE]
    /\ UNCHANGED <<vars, rx, coming, at, count, life, writer, panics>>

\* runBatch notifies the socket.
runBatch(p) ==
    /\ poller[p]
    /\ notify(p, {evRead})
    /\ poller' = [poller EXCEPT ![p] = FALSE]
    /\ UNCHANGED <<rx, coming, edge, at, count, life, writer, panics>>

udpSchedule(p) == schedule(p) /\ UNCHANGED udpVars

(***************************************************************************)
(* The task                                                                *)
(***************************************************************************)

udpExecute(w) == execute(w) /\ UNCHANGED udpVars

udpSwap(w) ==
    /\ runSwap(w)
    /\ at' = [at EXCEPT ![w] = "start"] /\ count' = [count EXCEPT ![w] = 0]
    /\ UNCHANGED <<net, life, writer, panics>>

\* mu.Lock returns: no writer holds mu for reading.
Locked == \A x \in Writers : ~writer[x]

\* closed is set and the fd closed; the kernel forgets what the socket had.
closeFd == open' = FALSE /\ edge' = FALSE /\ rx' = 0

\* counted.Swap(false), and Done for a socket that Serve had counted.
Uncount ==
    /\ counted' = FALSE
    /\ waits' = waits - (IF counted THEN 1 ELSE 0)

\* handle on evShutdown closes the socket, whatever else is pending. From the call
\* of mu.Lock on, no other goroutine gets mu for reading.
handleShutdown(w) ==
    /\ worker[w] = "handling" /\ at[w] = "start"
    /\ evShutdown \in round[w]
    /\ at' = [at EXCEPT ![w] = "lock"] /\ UNCHANGED count
    /\ UNCHANGED <<vars, net, life, writer, panics>>

\* Mutant of shutdownClose: close does not wait for the writers.
shutdownCloseUnlocked(w) ==
    /\ worker[w] = "handling" /\ at[w] = "lock"
    /\ closeFd
    /\ at' = [at EXCEPT ![w] = "uncount"] /\ UNCHANGED count
    /\ UNCHANGED <<vars, coming, poller, counted, waits, serving, down, closer, writer, panics>>

shutdownClose(w) ==
    /\ worker[w] = "handling" /\ at[w] = "lock" /\ Locked
    /\ closeFd
    /\ at' = [at EXCEPT ![w] = IF open THEN "uncount" ELSE "kept"] /\ UNCHANGED count
    /\ UNCHANGED <<vars, coming, poller, counted, waits, serving, down, closer, writer, panics>>

shutdownUncount(w) ==
    /\ worker[w] = "handling" /\ at[w] = "uncount"
    /\ Uncount
    /\ at' = [at EXCEPT ![w] = "kept"] /\ UNCHANGED count
    /\ UNCHANGED <<vars, net, open, serving, down, closer, writer, panics>>

\* Any other round reads, unless the socket is closed (closedForRead).
handleRead(w) ==
    /\ worker[w] = "handling" /\ at[w] = "start"
    /\ evShutdown \notin round[w]
    /\ at' = [at EXCEPT ![w] = IF open THEN "recv" ELSE "over"] /\ UNCHANGED count
    /\ UNCHANGED <<vars, net, life, writer, panics>>

\* A datagram is read and OnPacket returns or panics.
OnPacket(w) ==
    /\ worker[w] = "handling" /\ at[w] = "recv"
    /\ count[w] < PerRound /\ rx > 0
    /\ rx' = rx - 1
    /\ \/ /\ count' = [count EXCEPT ![w] = @ + 1] /\ UNCHANGED at
          /\ UNCHANGED panics
       \/ /\ panics > 0 /\ panics' = panics - 1
          /\ at' = [at EXCEPT ![w] = "panic"] /\ UNCHANGED count
    /\ UNCHANGED <<vars, coming, edge, poller, life, writer>>

\* EAGAIN ends the round. Any other error would end it as well, with datagrams left in the
\* socket; recvDatagram goes on after EINTR, and an unconnected socket is taken to report
\* no other.
drained(w) ==
    /\ worker[w] = "handling" /\ at[w] = "recv"
    /\ count[w] < PerRound /\ rx = 0
    /\ at' = [at EXCEPT ![w] = "over"] /\ count' = [count EXCEPT ![w] = 0]
    /\ UNCHANGED <<vars, net, life, writer, panics>>

\* Mutant of spent: the round ends without notifying.
spentSilently(w) ==
    /\ at[w] = "recv" /\ count[w] >= PerRound
    /\ worker[w] = "handling"
    /\ at' = [at EXCEPT ![w] = "over"] /\ count' = [count EXCEPT ![w] = 0]
    /\ UNCHANGED <<vars, net, life, writer, panics>>

\* The round budget is spent, and the edge with it: the socket notifies itself.
spent(w) ==
    /\ at[w] = "recv" /\ count[w] >= PerRound
    /\ handleNotify(w, {evRead})
    /\ at' = [at EXCEPT ![w] = "over"] /\ count' = [count EXCEPT ![w] = 0]
    /\ UNCHANGED <<net, life, writer, panics>>

\* run's deferred function, and what it does after the round.
udpPanic(w) == at[w] = "panic" /\ runPanic(w) /\ UNCHANGED udpVars
udpPanicSchedule(w) == panicSchedule(w) /\ UNCHANGED udpVars

\* A socket that evShutdown closed keeps its task for good.
udpDone(w) ==
    /\ at[w] \in {"over", "kept"}
    /\ handleDone(w) /\ (closed' <=> at[w] = "kept")
    /\ UNCHANGED udpVars

udpRelease(w) == release(w) /\ UNCHANGED udpVars
udpResubmit(w) == runSchedule(w) /\ UNCHANGED udpVars

(***************************************************************************)
(* WriteToUDPAddrPort, Serve and Close                                     *)
(***************************************************************************)

\* mu.RLock, which waits while a close waits for mu; a closed socket is left alone.
writeTo(x) ==
    /\ ~writer[x] /\ open
    /\ \A w \in Workers : at[w] # "lock"
    /\ \A k \in Closers : closer[k] # "releasing"
    /\ writer' = [writer EXCEPT ![x] = TRUE]
    /\ UNCHANGED <<vars, net, at, count, life, panics>>

\* sendDatagram uses the fd, and mu is released.
sent(x) ==
    /\ writer[x]
    /\ writer' = [writer EXCEPT ![x] = FALSE]
    /\ UNCHANGED <<vars, net, at, count, life, panics>>

\* beginServe: a server that was closed, or serves already, does not serve.
beginServe ==
    /\ serving = "no" /\ ~down
    /\ serving' = "begun"
    /\ UNCHANGED <<vars, net, at, count, open, counted, waits, down, closer, writer, panics>>

\* counted.Store(true)
serveCount ==
    /\ serving = "begun"
    /\ serving' = "counted" /\ counted' = TRUE
    /\ UNCHANGED <<vars, net, at, count, open, waits, down, closer, writer, panics>>

\* openConnsWg.Add and startWorkers.
startServe ==
    /\ serving = "counted"
    /\ serving' = "yes" /\ waits' = waits + 1
    /\ UNCHANGED <<vars, net, at, count, open, counted, down, closer, writer, panics>>

\* <-closing: the socket's task is told to close it.
serveShutdown ==
    /\ serving = "yes" /\ down
    /\ notify(serve, {evShutdown})
    /\ serving' = "waiting"
    /\ UNCHANGED <<net, at, count, open, counted, waits, down, closer, writer, panics>>

\* openConnsWg.Wait, after which the workers are told to stop.
serveWait ==
    /\ serving = "waiting" /\ proc[serve] = "free" /\ waits = 0
    /\ serving' = "stopping"
    /\ UNCHANGED <<vars, net, at, count, open, counted, waits, down, closer, writer, panics>>

\* stopWorkers returns once the pollers have; release finds the socket closed, and
\* finishServe closes done.
serveStop ==
    /\ serving = "stopping"
    /\ \A p \in Pollers : proc[p] = "free" /\ ~poller[p]
    /\ serving' = "done"
    /\ UNCHANGED <<vars, net, at, count, open, counted, waits, down, closer, writer, panics>>

\* closeWith: the first Close of a server that does not serve releases it, any other
\* waits for Serve to end or has nothing to wait for.
closeWith(k) ==
    /\ closer[k] = "free"
    /\ down' = TRUE
    /\ closer' = [closer EXCEPT ![k] = IF serving # "no" THEN "waiting"
                                       ELSE IF down THEN "returned" ELSE "releasing"]
    /\ UNCHANGED <<vars, net, at, count, open, counted, waits, serving, writer, panics>>

closeReleases(k) ==
    /\ closer[k] = "releasing" /\ Locked
    /\ closeFd /\ Uncount
    /\ closer' = [closer EXCEPT ![k] = "returned"]
    /\ UNCHANGED <<vars, coming, poller, at, count, serving, down, writer, panics>>

closeReturns(k) ==
    /\ closer[k] = "waiting" /\ serving = "done"
    /\ closer' = [closer EXCEPT ![k] = "returned"]
    /\ UNCHANGED <<vars, net, at, count, open, counted, waits, serving, down, writer, panics>>

RoundStep(w) == \/ udpSwap(w) \/ handleShutdown(w) \/ shutdownClose(w) \/ shutdownUncount(w)
                \/ handleRead(w) \/ OnPacket(w) \/ drained(w)
                \/ spent(w) \/ udpPanic(w) \/ udpPanicSchedule(w) \/ udpDone(w) \/ udpRelease(w)
                \/ udpResubmit(w)
PollerStep(p) == poll(p) \/ runBatch(p) \/ udpSchedule(p)
ServeStep == serveCount \/ startServe \/ serveShutdown \/ udpSchedule(serve) \/ serveWait \/ serveStop
CloseStep(k) == closeReleases(k) \/ closeReturns(k)

UdpNext ==
    \/ arrive \/ beginServe \/ ServeStep
    \/ \E p \in Pollers : PollerStep(p)
    \/ \E w \in Workers : udpExecute(w) \/ RoundStep(w)
    \/ \E x \in Writers : writeTo(x) \/ sent(x)
    \/ \E k \in Closers : closeWith(k) \/ CloseStep(k)

UdpSpec == UdpInit /\ [][UdpNext]_<<vars, udpVars>>

(***************************************************************************)
(* Properties                                                              *)
(***************************************************************************)

\* The fd is open whenever it is used: by a writer, which holds mu, and by a round
\* that reads, without a lock, because no round runs once the socket is closed.
FdIsOpen ==
    /\ \A x \in Writers : writer[x] => open
    /\ \A w \in Workers : worker[w] = "handling" /\ at[w] = "recv" => open

\* Serve waits for the socket exactly from when it counts it until the socket is closed
\* and its task has done everything but end.
SocketIsCounted ==
    /\ waits = (IF counted /\ serving # "counted" THEN 1 ELSE 0)
    /\ serving \in {"counted", "yes"} => counted
    /\ serving \in {"stopping", "done"} => ~counted /\ ~open

\* A server that has stopped runs no callback and no poller (the comments on Close).
DoneIsQuiet ==
    serving = "done" =>
        /\ ~open /\ queued = 0
        /\ \A p \in Procs : proc[p] = "free"
        /\ \A p \in Pollers : ~poller[p]
        /\ \A w \in Workers : \/ worker[w] = "free"
                              \/ worker[w] = "handling" /\ at[w] = "kept"

\* No datagram waits unseen: the poller or one of its workers has an event for it, the
\* word has evRead, or a round will come to it. Edges are lost unless a round that is
\* cut short, by its budget or by a panic, sees to the rest.
NoPacketStranded ==
    rx > 0 /\ open =>
        \/ edge \/ evRead \in events
        \/ \E p \in Pollers : poller[p]
        \/ \E w \in Workers : worker[w] = "handling" /\ at[w] \in {"start", "lock", "recv", "panic"}

\* The promises of a UDPServer, in every state.
UdpIsExact == FdIsOpen /\ SocketIsCounted /\ DoneIsQuiet /\ NoPacketStranded

\* Close returns, however many callbacks panic, and so does every datagram get read
\* that a serving socket has, unless the server is closed.
UdpGoesOn ==
    /\ \A k \in Closers : closer[k] = "waiting" ~> closer[k] = "returned"
    /\ (rx > 0 /\ serving = "yes") ~> (rx = 0 \/ down)

\* Every event of the word is taken by a task, and the server that uses it goes on
\* (conn.run, udpSocket.run, UDPServer.Close).
TasksGoOn == EventsAreTaken /\ UdpGoesOn

=============================================================================
