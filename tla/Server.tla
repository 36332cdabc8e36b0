------------------------------- MODULE Server -------------------------------
(***************************************************************************)
(* A TCP server from NewServerAddrs to the return of Serve and Close       *)
(* (server_unix.go, reactor_unix.go, loop.accept and loop.watch): workers  *)
(* accept on edge-triggered listeners, retry after running out of          *)
(* descriptors, and Serve drains the connections. The connections table is *)
(* one atomic word per connection here (FdTable shows why), and a          *)
(* connection is its life as the server sees it (Conn has the rest).       *)
(***************************************************************************)
EXTENDS Naturals, FiniteSets

CONSTANTS Conns,      \* the clients that may connect
          NumListeners, \* listenerFds of the one loop
          Workers,    \* reactor workers
          Timers,     \* goroutines that run retryAccept's function
          Closers,    \* goroutines that call Close
          server,     \* the goroutine that calls Serve
          MaxFds,     \* descriptors there are for accepted connections
          AcceptFails \* whether accept may fail for good

ASSUME ServerAssumption ==
    /\ MaxFds \in Nat /\ NumListeners \in Nat \ {0} /\ AcceptFails \in BOOLEAN
    /\ server \notin Workers \cup Timers \cup Closers
    /\ IsFiniteSet(Conns)

Listeners == 1..NumListeners
Acceptors == Workers \cup Timers
Threads == Acceptors \cup Closers \cup {server}

VARIABLES
    srv,     \* the fields of Server and reactor
    pc,      \* where each thread is
    at,      \* the listener an acceptor is accepting on, 0 for none
    readers, \* who holds acceptMu for reading
    queue,   \* each listener's clients not accepted yet
    edge,    \* the listener's edge is still to be reported
    state,   \* how far each connection is
    table,   \* the connections connsByFd holds
    told,    \* the connections notified of evShutdown
    left,    \* the slots each has yet to look at
    wg,      \* openConnsWg
    free     \* descriptors left

acceptVars == <<at, readers>>
connVars == <<state, table, told>>
vars == <<srv, pc, acceptVars, queue, edge, connVars, left, wg, free>>

\* serving, closed, draining, done: as in the code; listening: the listeners are
\* open; locking: Serve waits for acceptMu; retrying: acceptRetrying.
Fields == {"serving", "closed", "draining", "done", "listening", "locking", "retrying"}

Accepting == {"rlock", "check", "accept"}
Counted == {"opening", "stored", "open", "fdClosed"}

TypeOK ==
    /\ srv \in [Fields -> BOOLEAN]
    /\ pc \in [Threads -> Accepting \cup {"idle", "stopped", "waitDone", "release", "returned", "serving",
                                          "lock", "closeListeners", "each", "wait", "stop"}]
    /\ at \in [Acceptors -> 0..NumListeners]
    /\ readers \subseteq Acceptors
    /\ queue \in [Listeners -> SUBSET Conns] /\ edge \in [Listeners -> BOOLEAN]
    /\ state \in [Conns -> Counted \cup {"away", "queued", "closed", "refused"}]
    /\ table \subseteq Conns /\ told \subseteq Conns /\ left \subseteq Conns
    /\ wg \in Nat /\ free \in 0..MaxFds

Init ==
    /\ srv = [f \in Fields |-> f = "listening"]
    /\ pc = [t \in Threads |-> "idle"]
    /\ at = [t \in Acceptors |-> 0]
    /\ readers = {}
    /\ queue = [l \in Listeners |-> {}] /\ edge = [l \in Listeners |-> FALSE]
    /\ state = [c \in Conns |-> "away"]
    /\ table = {} /\ told = {} /\ left = {}
    /\ wg = 0 /\ free = MaxFds

set(field, value) == srv' = [srv EXCEPT ![field] = value]
goes(t, step) == pc' = [pc EXCEPT ![t] = step]
becomes(c, s) == state' = [state EXCEPT ![c] = s]

(***************************************************************************)
(* Clients                                                                 *)
(***************************************************************************)

\* A client connects: the connection waits in a listener's queue.
connects(c, l) ==
    /\ state[c] = "away" /\ srv.listening
    /\ becomes(c, "queued")
    /\ queue' = [queue EXCEPT ![l] = @ \cup {c}]
    /\ edge' = [edge EXCEPT ![l] = TRUE]
    /\ UNCHANGED <<srv, pc, acceptVars, table, told, left, wg, free>>

(***************************************************************************)
(* Accepting                                                               *)
(***************************************************************************)

\* runBatch: a worker retrieves the listeners' events and accepts on all of its
\* loop's listeners.
runBatch(t) ==
    /\ t \in Workers /\ pc[t] = "idle" /\ srv.serving
    /\ \E l \in Listeners : edge[l]
    /\ edge' = [l \in Listeners |-> FALSE]
    /\ at' = [at EXCEPT ![t] = 1]
    /\ goes(t, "rlock")
    /\ UNCHANGED <<srv, readers, queue, connVars, left, wg, free>>

\* retryAccept's function runs, from where another retry can be scheduled.
retryFires(t) ==
    /\ t \in Timers /\ pc[t] = "idle" /\ srv.retrying
    /\ set("retrying", FALSE)
    /\ IF srv.draining
       THEN UNCHANGED <<pc, at>>
       ELSE at' = [at EXCEPT ![t] = 1] /\ goes(t, "rlock")
    /\ UNCHANGED <<readers, queue, edge, connVars, left, wg, free>>

\* acceptConn begins; acceptMu admits no reader while Serve waits for it.
acceptConn(t) ==
    /\ pc[t] = "rlock" /\ ~srv.locking
    /\ readers' = readers \cup {t}
    /\ goes(t, "check")
    /\ UNCHANGED <<srv, at, queue, edge, connVars, left, wg, free>>

\* Mutant of returnsNil: the other listeners are left alone.
returnsNilForAll(t) ==
    /\ readers' = readers \ {t}
    /\ goes(t, "idle")
    /\ at' = [at EXCEPT ![t] = 0]

\* acceptConn returns nil, and acceptAll goes on to the next listener.
returnsNil(t) ==
    /\ readers' = readers \ {t}
    /\ at' = [at EXCEPT ![t] = IF @ = NumListeners THEN 0 ELSE @ + 1]
    /\ goes(t, IF at[t] = NumListeners THEN "idle" ELSE "rlock")

\* Mutant of checkDraining: the loop goes on regardless.
checkDrainingNever(t) ==
    /\ pc[t] = "check"
    /\ goes(t, "accept")
    /\ UNCHANGED <<srv, acceptVars, queue, edge, connVars, left, wg, free>>

\* The condition of acceptConn's loop.
checkDraining(t) ==
    /\ pc[t] = "check"
    /\ IF srv.draining
       THEN returnsNil(t)
       ELSE goes(t, "accept") /\ UNCHANGED <<at, readers>>
    /\ UNCHANGED <<srv, queue, edge, connVars, left, wg, free>>

\* accept succeeds: the connection is counted before acceptMu is released, and
\* notified of evOpen, which submits its first task.
accepts(t) ==
    /\ pc[t] = "accept" /\ free > 0
    /\ \E c \in queue[at[t]] :
          /\ queue' = [queue EXCEPT ![at[t]] = @ \ {c}]
          /\ becomes(c, "opening")
    /\ free' = free - 1
    /\ wg' = wg + 1
    /\ readers' = readers \ {t}
    /\ goes(t, "rlock")
    /\ UNCHANGED <<srv, at, edge, table, told, left>>

\* EAGAIN ends it.
acceptsNothing(t) ==
    /\ pc[t] = "accept" /\ queue[at[t]] = {}
    /\ returnsNil(t)
    /\ UNCHANGED <<srv, queue, edge, connVars, left, wg, free>>

\* ECONNABORTED and the network errors of one connection are passed over.
acceptAborted(t) ==
    /\ pc[t] = "accept"
    /\ \E c \in queue[at[t]] :
          /\ queue' = [queue EXCEPT ![at[t]] = @ \ {c}]
          /\ becomes(c, "refused")
    /\ goes(t, "check")
    /\ UNCHANGED <<srv, acceptVars, edge, table, told, left, wg, free>>

\* EMFILE, whether or not a client waits: retryAccept, unless a retry is pending,
\* and acceptConn returns nil.
acceptExhausted(t) ==
    /\ pc[t] = "accept" /\ free = 0
    /\ set("retrying", TRUE)
    /\ returnsNil(t)
    /\ UNCHANGED <<queue, edge, connVars, left, wg, free>>

\* A fatal error shuts the server down.
acceptFatal(t) ==
    /\ pc[t] = "accept" /\ AcceptFails
    /\ set("closed", TRUE)
    /\ returnsNil(t)
    /\ UNCHANGED <<queue, edge, connVars, left, wg, free>>

(***************************************************************************)
(* Connections                                                             *)
(***************************************************************************)

\* watch puts the connection in the table.
watchStore(c) ==
    /\ state[c] = "opening"
    /\ becomes(c, "stored")
    /\ table' = table \cup {c}
    /\ UNCHANGED <<srv, pc, acceptVars, queue, edge, told, left, wg, free>>

\* Mutant of watchFails: abandon leaves the connection counted.
watchFailsCounted(c) ==
    /\ state[c] \in {"opening", "stored"}
    /\ becomes(c, "closed")
    /\ table' = table \ {c}
    /\ free' = free + 1
    /\ UNCHANGED <<srv, pc, acceptVars, queue, edge, told, left, wg>>

\* watch fails, before or after the table holds the connection: abandon.
watchFails(c) ==
    /\ state[c] \in {"opening", "stored"}
    /\ becomes(c, "closed")
    /\ table' = table \ {c}
    /\ wg' = wg - 1
    /\ free' = free + 1
    /\ UNCHANGED <<srv, pc, acceptVars, queue, edge, told, left>>

\* watch looks at draining once the table holds the connection.
watchDraining(c) ==
    /\ state[c] = "stored"
    /\ becomes(c, "open")
    /\ told' = IF srv.draining THEN told \cup {c} ELSE told
    /\ UNCHANGED <<srv, pc, acceptVars, queue, edge, table, left, wg, free>>

\* conn.close, for evShutdown or any other reason: out of the table, then the fd.
close(c) ==
    /\ state[c] = "open"
    /\ becomes(c, "fdClosed")
    /\ table' = table \ {c}
    /\ free' = free + 1
    /\ UNCHANGED <<srv, pc, acceptVars, queue, edge, told, left, wg>>

\* OnClose returns.
onCloseReturns(c) ==
    /\ state[c] = "fdClosed"
    /\ becomes(c, "closed")
    /\ wg' = wg - 1
    /\ UNCHANGED <<srv, pc, acceptVars, queue, edge, table, told, left, free>>

(***************************************************************************)
(* Serve                                                                   *)
(***************************************************************************)

\* closeListeners: a client still in a listen queue is reset.
closeListeners ==
    /\ set("listening", FALSE)
    /\ queue' = [l \in Listeners |-> {}]
    /\ edge' = [l \in Listeners |-> FALSE]
    /\ state' = [c \in Conns |-> IF state[c] = "queued" THEN "refused" ELSE state[c]]

beginServe ==
    /\ pc[server] = "idle"
    /\ set("serving", ~srv.closed)
    /\ goes(server, IF srv.closed THEN "returned" ELSE "serving")
    /\ UNCHANGED <<acceptVars, queue, edge, connVars, left, wg, free>>

\* closing is closed: draining is set.
serveDraining ==
    /\ pc[server] = "serving" /\ srv.closed
    /\ set("draining", TRUE)
    /\ goes(server, "lock")
    /\ UNCHANGED <<acceptVars, queue, edge, connVars, left, wg, free>>

\* acceptMu.Lock begins, and ends once the accepts under way have.
serveLock ==
    /\ pc[server] = "lock" /\ ~srv.locking
    /\ set("locking", TRUE)
    /\ UNCHANGED <<pc, acceptVars, queue, edge, connVars, left, wg, free>>

serveLocked ==
    /\ pc[server] = "lock" /\ srv.locking /\ readers = {}
    /\ set("locking", FALSE)
    /\ goes(server, "closeListeners")
    /\ UNCHANGED <<acceptVars, queue, edge, connVars, left, wg, free>>

serveCloseListeners ==
    /\ pc[server] = "closeListeners"
    /\ closeListeners
    /\ goes(server, "each")
    /\ left' = Conns
    /\ UNCHANGED <<acceptVars, table, told, wg, free>>

\* each looks at the slots one after the other; which connection is in which is
\* left open.
each ==
    /\ pc[server] = "each"
    /\ \E c \in left :
          /\ left' = left \ {c}
          /\ told' = IF c \in table THEN told \cup {c} ELSE told
          /\ goes(server, IF left = {c} THEN "wait" ELSE "each")
    /\ UNCHANGED <<srv, acceptVars, queue, edge, state, table, wg, free>>

\* openConnsWg.Wait returns.
serveWaited ==
    /\ pc[server] = "wait" /\ wg = 0
    /\ goes(server, "stop")
    /\ UNCHANGED <<srv, acceptVars, queue, edge, connVars, left, wg, free>>

\* The workers stop, as Reactor shows, and release finds the listeners closed.
stopped == [t \in Threads |-> IF t = server THEN "returned" ELSE IF t \in Workers THEN "stopped" ELSE pc[t]]

\* Mutant of finishServe: done is not closed.
finishServeSilent ==
    /\ pc[server] = "stop" /\ \A t \in Workers : pc[t] = "idle"
    /\ pc' = stopped
    /\ UNCHANGED <<srv, acceptVars, queue, edge, connVars, left, wg, free>>

\* stopWorkers, release and finishServe.
finishServe ==
    /\ pc[server] = "stop" /\ \A t \in Workers : pc[t] = "idle"
    /\ set("done", TRUE)
    /\ pc' = stopped
    /\ UNCHANGED <<acceptVars, queue, edge, connVars, left, wg, free>>

(***************************************************************************)
(* Close                                                                   *)
(***************************************************************************)

\* shutdown, and what closeWith does with its answer.
Close(t) ==
    /\ pc[t] = "idle"
    /\ set("closed", TRUE)
    /\ goes(t, IF srv.serving THEN "waitDone" ELSE IF srv.closed THEN "returned" ELSE "release")
    /\ UNCHANGED <<acceptVars, queue, edge, connVars, left, wg, free>>

closeReleases(t) ==
    /\ pc[t] = "release"
    /\ closeListeners
    /\ goes(t, "returned")
    /\ UNCHANGED <<acceptVars, table, told, left, wg, free>>

closeReturns(t) ==
    /\ pc[t] = "waitDone" /\ srv.done
    /\ goes(t, "returned")
    /\ UNCHANGED <<srv, acceptVars, queue, edge, connVars, left, wg, free>>

AcceptStep(t) ==
    \/ runBatch(t) \/ retryFires(t) \/ acceptConn(t) \/ checkDraining(t) \/ accepts(t)
    \/ acceptsNothing(t) \/ acceptAborted(t) \/ acceptExhausted(t) \/ acceptFatal(t)

OpenStep(c) == watchStore(c) \/ watchFails(c) \/ watchDraining(c)
CloseStep(c) == close(c) \/ onCloseReturns(c)

ServeStep ==
    \/ serveDraining \/ serveLock \/ serveLocked \/ serveCloseListeners \/ each
    \/ serveWaited \/ finishServe

CloserStep(t) == closeReleases(t) \/ closeReturns(t)

Next ==
    \/ \E c \in Conns : (\E l \in Listeners : connects(c, l)) \/ OpenStep(c) \/ CloseStep(c)
    \/ \E t \in Acceptors : AcceptStep(t)
    \/ beginServe \/ ServeStep
    \/ \E t \in Closers : Close(t) \/ CloserStep(t)

Spec == Init /\ [][Next]_vars

\* Goroutines and tasks that can go on do, callbacks return, and a connection that
\* is told of the shutdown closes (Conn's ShutdownCloses).
FairSpec ==
    /\ Spec
    /\ \A c \in Conns : WF_vars(OpenStep(c)) /\ WF_vars(c \in told /\ CloseStep(c)) /\ WF_vars(onCloseReturns(c))
    /\ \A t \in Acceptors : WF_vars(AcceptStep(t))
    /\ WF_vars(ServeStep)
    /\ \A t \in Closers : WF_vars(CloserStep(t))

(***************************************************************************)
(* Properties                                                              *)
(***************************************************************************)

Drained == pc[server] \in {"wait", "stop"} \/ srv.done

\* openConnsWg counts the connections accepted whose OnClose has not returned.
CountIsExact == wg = Cardinality({c \in Conns : state[c] \in Counted})

\* closeListeners' "once no accept can run on them any more": nobody is about to
\* call accept on a listener that has been closed, whose fd may be somebody else's.
AcceptsOnOpenListener == \A t \in Acceptors : pc[t] = "accept" => srv.listening

\* Serve's "one accepted before is either in connsByFd already or closes itself":
\* once each has been through the table no open connection has not been told.
DrainReachesAll == Drained => \A c \in Conns : state[c] = "open" => c \in told

\* The listener is edge-triggered, so while a server that is not closing has clients
\* waiting, an edge is still to be reported, somebody is accepting on the
\* listener or has yet to, or a retry is pending.
NoClientStranded ==
    ~srv.closed => \A l \in Listeners : queue[l] # {} =>
        \/ edge[l] \/ srv.retrying
        \/ \E t \in Acceptors : pc[t] \in Accepting /\ at[t] <= l

\* Accepting on edge-triggered listeners: no client is left waiting, and each
\* connection is counted for as long as it lives.
AcceptingIsExact == CountIsExact /\ NoClientStranded

\* Close's "all callbacks have finished by the time it returns", and so does Serve's
\* return.
CallbacksAreOver ==
    srv.done \/ (\E t \in Closers : pc[t] = "returned")
        => \A c \in Conns : state[c] \notin Counted

\* Serve's shutdown in order: accepts end before the listeners go, every connection
\* hears of it, and nothing runs once Serve or Close has returned.
ShutdownIsComplete == AcceptsOnOpenListener /\ DrainReachesAll /\ CallbacksAreOver

\* A server that is closed while serving gets Serve to return, and every Close too.
CloseReturns ==
    /\ (srv.closed /\ srv.serving) ~> pc[server] = "returned"
    /\ \A t \in Closers : pc[t] \in {"waitDone", "release"} ~> pc[t] = "returned"

=============================================================================
