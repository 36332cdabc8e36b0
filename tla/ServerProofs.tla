---------------------------- MODULE ServerProofs ----------------------------
(***************************************************************************)
(* Accepting and shutdown of a TCP server, for any number of clients,      *)
(* listeners, workers, timers, goroutines that call Close and descriptors. *)
(* The argument follows Serve: who holds acceptMu may be in accept, so     *)
(* that nobody is once Serve has had the lock with draining set; from then *)
(* on the count only falls, and a connection that opens is told of the     *)
(* shutdown by each or tells itself.                                       *)
(***************************************************************************)
EXTENDS Server, FiniteSetTheorems, TLAPS

PcStates == Accepting \cup {"idle", "stopped", "waitDone", "release", "returned", "serving",
                            "lock", "closeListeners", "each", "wait", "stop"}
ConnStates == Counted \cup {"away", "queued", "closed", "refused"}

Types ==
    /\ srv \in [Fields -> BOOLEAN]
    /\ pc \in [Threads -> PcStates]
    /\ at \in [Acceptors -> 0..NumListeners]
    /\ readers \subseteq Acceptors
    /\ queue \in [Listeners -> SUBSET Conns] /\ edge \in [Listeners -> BOOLEAN]
    /\ state \in [Conns -> ConnStates]
    /\ table \subseteq Conns /\ told \subseteq Conns /\ left \subseteq Conns
    /\ wg \in Int /\ free \in Int

\* Nobody accepts any more once Serve has had acceptMu.
Past == pc[server] \in {"closeListeners", "each", "wait", "stop"} \/ srv.done

\* What srv says of where Serve is.
ServeIsAt ==
    /\ pc[server] = "idle" => ~srv.serving
    /\ srv.draining => srv.closed
    /\ pc[server] = "lock" \/ Past => srv.draining

\* acceptMu is held for reading from the check of draining to the end of accept, on
\* a listener of the loop.
AcceptorsHold ==
    \A t \in Acceptors :
        /\ pc[t] \in {"check", "accept"} => t \in readers
        /\ pc[t] \in Accepting => at[t] \in Listeners
        /\ pc[t] = "accept" => ~Past /\ srv.listening

\* A server that does not serve has accepted nothing, and nothing accepts.
NotServing ==
    ~srv.serving =>
        /\ ~srv.retrying
        /\ \A t \in Acceptors : pc[t] \notin Accepting
        /\ \A c \in Conns : state[c] \notin Counted

\* Listeners are closed by Serve, or by the Close that came first.
WhoCloses ==
    /\ ~srv.listening => srv.draining \/ (srv.closed /\ ~srv.serving)
    /\ \A t \in Closers : pc[t] = "release" => srv.closed /\ ~srv.serving
    /\ \A t \in Closers : pc[t] = "returned" => srv.done \/ (srv.closed /\ ~srv.serving)

Control == Types /\ ServeIsAt /\ AcceptorsHold /\ NotServing /\ WhoCloses

\* A client waits in one queue.
QueuesAreExact ==
    \A l \in Listeners : \A c \in queue[l] :
        state[c] = "queued" /\ \A m \in Listeners : c \in queue[m] => m = l

\* each tells the connections in the table; whoever comes later tells itself.
Draining ==
    /\ \A c \in Conns : c \in table <=> state[c] \in {"stored", "open"}
    /\ pc[server] = "each" => \A c \in Conns : state[c] = "open" => c \in told \cup left
    /\ pc[server] = "wait" => \A c \in Conns : state[c] = "open" => c \in told
    /\ pc[server] = "stop" \/ srv.done => \A c \in Conns : state[c] \notin Counted

IInv == Control /\ QueuesAreExact /\ Draining /\ CountIsExact /\ NoClientStranded

\* Nobody is connected yet.
LEMMA InitIInv == Init => IInv
  <1> SUFFICES ASSUME Init PROVE IInv
    OBVIOUS
  <1>1. Control
    <2>1. Types
      BY ServerAssumption DEF Init, Types, PcStates, ConnStates, Listeners
    <2>2. ServeIsAt /\ AcceptorsHold /\ NotServing /\ WhoCloses
      BY Zenon DEF Init, ServeIsAt, Past, AcceptorsHold, NotServing, WhoCloses, Accepting, Counted, Fields, Threads
    <2>3. QED
      BY <2>1, <2>2 DEF Control
  <1>2. QueuesAreExact /\ Draining /\ NoClientStranded
    BY Zenon DEF Init, QueuesAreExact, Draining, NoClientStranded, Fields, Threads
  <1>3. CountIsExact
    <2>1. {c \in Conns : state[c] \in Counted} = {}
      BY DEF Init, Counted
    <2>2. QED
      BY <2>1, FS_EmptySet, Zenon DEF Init, CountIsExact
  <1>4. QED
    BY <1>1, <1>2, <1>3 DEF IInv

\* openConnsWg, when one connection gets from one state to another.
LEMMA CountStep ==
    ASSUME Types, CountIsExact, NEW c \in Conns, NEW s \in ConnStates, becomes(c, s),
           wg' = wg + (IF s \in Counted THEN 1 ELSE 0) - (IF state[c] \in Counted THEN 1 ELSE 0)
    PROVE  CountIsExact'
  <1> DEFINE Live == {d \in Conns : state[d] \in Counted}
  <1>1. IsFiniteSet(Live) /\ wg = Cardinality(Live) /\ wg \in Int
    BY FS_Subset, ServerAssumption DEF CountIsExact, Types
  <1>2. \A d \in Conns : state'[d] = IF d = c THEN s ELSE state[d]
    BY DEF becomes, Types
  <1>3. CASE s \in Counted
    <2>1. {d \in Conns : state'[d] \in Counted} = Live \cup {c}
      BY <1>2, <1>3
    <2>2. Cardinality(Live \cup {c}) = IF state[c] \in Counted THEN wg ELSE wg + 1
      BY <1>1, FS_AddElement, Zenon
    <2>3. QED
      <3>1. wg' = IF state[c] \in Counted THEN wg ELSE wg + 1
        BY <1>1, <1>3
      <3>2. QED
        BY <2>1, <2>2, <3>1 DEF CountIsExact
  <1>4. CASE s \notin Counted
    <2>1. {d \in Conns : state'[d] \in Counted} = Live \ {c}
      BY <1>2, <1>4
    <2>2. Cardinality(Live \ {c}) = IF state[c] \in Counted THEN wg - 1 ELSE wg
      BY <1>1, FS_RemoveElement, Zenon
    <2>3. QED
      <3>1. wg' = IF state[c] \in Counted THEN wg - 1 ELSE wg
        BY <1>1, <1>4
      <3>2. QED
        BY <2>1, <2>2, <3>1, Zenon DEF CountIsExact
  <1>5. QED
    BY <1>3, <1>4

\* A step that leaves state and wg alone leaves the count alone.
LEMMA CountStays ==
    ASSUME CountIsExact, UNCHANGED <<state, wg>>
    PROVE  CountIsExact'
  BY DEF CountIsExact

\* A client connects, and waits in the queue of one listener.
LEMMA ConnectsIInv ==
    ASSUME IInv, NEW c \in Conns, NEW l \in Listeners, connects(c, l)
    PROVE  IInv'
  <1>0. Types /\ ServeIsAt /\ AcceptorsHold /\ NotServing /\ WhoCloses
    BY DEF IInv, Control
  <1>1. Types'
    BY <1>0 DEF connects, acceptVars, becomes, Types, ConnStates
  <1>2. (ServeIsAt /\ AcceptorsHold /\ WhoCloses)'
    BY <1>0 DEF connects, acceptVars, ServeIsAt, AcceptorsHold, WhoCloses, Past
  <1>3. \A d \in Conns : state'[d] = IF d = c THEN "queued" ELSE state[d]
    BY <1>0 DEF connects, becomes, Types
  <1>4. NotServing'
    BY <1>0, <1>3 DEF connects, NotServing, Counted
  <1>5. QueuesAreExact'
    BY <1>0, <1>3 DEF IInv, connects, QueuesAreExact, Types
  <1>6. Draining'
    BY <1>0, <1>3 DEF IInv, connects, Draining, Counted
  <1>7. CountIsExact'
    BY <1>0, CountStep DEF IInv, connects, Counted, ConnStates, Types
  <1>8. NoClientStranded'
    BY <1>0 DEF IInv, connects, acceptVars, NoClientStranded, Types
  <1>9. QED
    BY <1>1, <1>2, <1>4, <1>5, <1>6, <1>7, <1>8 DEF IInv, Control

\* watch, abandon, close and OnClose: a connection that is counted goes on, and is in
\* the table exactly while it is stored or open.
LEMMA ConnIInv ==
    ASSUME IInv, NEW c \in Conns, NEW s \in Counted \cup {"closed"}, becomes(c, s), state[c] \in Counted,
           table' = IF s \in {"stored", "open"} THEN table \cup {c} ELSE table \ {c},
           told \subseteq told', told' \subseteq Conns, s = "open" /\ srv.draining => c \in told',
           wg' = IF s = "closed" THEN wg - 1 ELSE wg,
           free' \in Int, UNCHANGED <<srv, pc, acceptVars, queue, edge, left>>
    PROVE  IInv'
  <1>0. Types /\ ServeIsAt /\ AcceptorsHold /\ NotServing /\ WhoCloses /\ s \in ConnStates
    BY DEF IInv, Control, ConnStates
  <1>1. Types'
    BY <1>0 DEF acceptVars, becomes, Types
  <1>2. (ServeIsAt /\ AcceptorsHold /\ WhoCloses)'
    BY <1>0 DEF acceptVars, ServeIsAt, AcceptorsHold, WhoCloses, Past
  <1>3. \A d \in Conns : state'[d] = IF d = c THEN s ELSE state[d]
    BY <1>0 DEF becomes, Types
  <1>4. NotServing'
    BY <1>0, <1>3 DEF NotServing
  <1>5. QueuesAreExact'
    BY <1>0, <1>3 DEF IInv, QueuesAreExact, Types, Counted
  <1>6. Draining'
    BY <1>0, <1>3 DEF IInv, Draining, ServeIsAt, Past, Counted
  <1>7. CountIsExact'
    <2>1. wg' = wg + (IF s \in Counted THEN 1 ELSE 0) - (IF state[c] \in Counted THEN 1 ELSE 0)
      BY <1>0 DEF Types, Counted
    <2>2. QED
      BY <1>0, <2>1, CountStep DEF IInv
  <1>8. NoClientStranded'
    BY DEF IInv, acceptVars, NoClientStranded
  <1>9. QED
    BY <1>1, <1>2, <1>4, <1>5, <1>6, <1>7, <1>8 DEF IInv, Control

\* Each of their steps is one like that.
LEMMA ConnStepIInv ==
    ASSUME IInv, NEW c \in Conns, OpenStep(c) \/ CloseStep(c)
    PROVE  IInv'
  <1>0. Types /\ Draining /\ (\A d \in Conns : d \in table <=> state[d] \in {"stored", "open"})
    BY DEF IInv, Control, Draining
  <1>1. CASE watchStore(c)
    BY <1>0, <1>1, ConnIInv DEF watchStore, Types, Counted
  <1>2. CASE watchFails(c)
    BY <1>0, <1>2, ConnIInv DEF watchFails, Types, Counted
  <1>3. CASE watchDraining(c)
    <2>1. table' = table \cup {c}
      BY <1>0, <1>3 DEF watchDraining
    <2>2. QED
      BY <1>0, <1>3, <2>1, ConnIInv DEF watchDraining, Types, Counted
  <1>4. CASE close(c)
    BY <1>0, <1>4, ConnIInv DEF close, Types, Counted
  <1>5. CASE onCloseReturns(c)
    <2>1. table' = table \ {c}
      BY <1>0, <1>5 DEF onCloseReturns
    <2>2. QED
      BY <1>0, <1>5, <2>1, ConnIInv DEF onCloseReturns, Types, Counted
  <1>6. QED
    BY <1>1, <1>2, <1>3, <1>4, <1>5 DEF OpenStep, CloseStep

\* The step of an acceptor that takes nobody out of a queue.
AcceptorMoves(t, step, i) ==
    /\ srv.serving
    /\ goes(t, step)
    /\ i \in 0..NumListeners /\ at' = [at EXCEPT ![t] = i]
    /\ readers' \subseteq Acceptors /\ readers \ {t} \subseteq readers'
    /\ step \in {"check", "accept"} => t \in readers'
    /\ step # "idle" => i \in Listeners
    /\ step = "accept" => ~Past /\ srv.listening
    /\ edge' \in [Listeners -> BOOLEAN]
    /\ UNCHANGED <<queue, connVars, left, wg, free>>

\* What it may do to srv.
FieldsMove ==
    /\ srv' \in [Fields -> BOOLEAN]
    /\ srv.closed => srv'.closed
    /\ srv'.serving = srv.serving /\ srv'.draining = srv.draining
    /\ srv'.done = srv.done /\ srv'.listening = srv.listening

\* Such a step keeps the invariant, as far as no client is stranded by it.
LEMMA AcceptorIInv ==
    ASSUME IInv, NEW t \in Acceptors, NEW step \in Accepting \cup {"idle"}, NEW i,
           AcceptorMoves(t, step, i), FieldsMove, NoClientStranded'
    PROVE  IInv'
  <1> USE DEF AcceptorMoves, FieldsMove
  <1>0. Types /\ ServeIsAt /\ AcceptorsHold /\ NotServing /\ WhoCloses
    BY DEF IInv, Control
  <1>1. t \in Threads /\ server \in Threads /\ t # server /\ Acceptors \subseteq Threads /\ Closers \subseteq Threads
    BY ServerAssumption DEF Threads, Acceptors
  <1>2. \A r \in Threads : pc'[r] = IF r = t THEN step ELSE pc[r]
    BY <1>0, <1>1 DEF goes, Types
  <1>3. \A r \in Acceptors : at'[r] = IF r = t THEN i ELSE at[r]
    BY <1>0 DEF Types
  <1>4. Types'
    BY <1>0, Zenon DEF goes, connVars, Types, PcStates
  <1>5. pc'[server] = pc[server] /\ (Past' <=> Past)
    BY <1>1, <1>2 DEF Past
  <1>6. ServeIsAt'
    BY <1>0, <1>5 DEF ServeIsAt
  <1>7. AcceptorsHold'
    BY <1>0, <1>1, <1>2, <1>3, <1>5 DEF AcceptorsHold, Accepting
  <1>8. NotServing'
    BY DEF NotServing
  <1>9. WhoCloses'
    BY <1>0, <1>1, <1>2 DEF WhoCloses, Accepting
  <1>10. QueuesAreExact' /\ Draining' /\ CountIsExact'
    BY <1>5, CountStays DEF IInv, connVars, QueuesAreExact, Draining
  <1>11. QED
    BY <1>4, <1>6, <1>7, <1>8, <1>9, <1>10 DEF IInv, Control

\* acceptAll goes on behind the listener, or is over.
LEMMA ReturnsNil ==
    ASSUME IInv, NEW t \in Acceptors, pc[t] \in Accepting, returnsNil(t)
    PROVE  /\ srv.serving
           /\ readers' \subseteq Acceptors /\ readers \ {t} \subseteq readers'
           /\ \E step \in {"rlock", "idle"}, i \in 0..NumListeners :
                 /\ goes(t, step)
                 /\ at' = [at EXCEPT ![t] = i]
                 /\ step = "rlock" => i = at[t] + 1 /\ i \in Listeners
                 /\ step = "idle" => at[t] = NumListeners
  <1>1. Types /\ srv.serving /\ at[t] \in Listeners
    BY DEF IInv, Control, NotServing, AcceptorsHold
  <1>2. CASE at[t] = NumListeners
    <2>1. goes(t, "idle") /\ at' = [at EXCEPT ![t] = 0] /\ 0 \in 0..NumListeners
      BY <1>1, <1>2, ServerAssumption DEF returnsNil, Types
    <2>2. QED
      BY <1>1, <1>2, <2>1, Zenon DEF returnsNil, Types
  <1>3. CASE at[t] # NumListeners
    <2>1. at[t] + 1 \in Listeners /\ at[t] + 1 \in 0..NumListeners
      BY <1>1, <1>3, ServerAssumption DEF Listeners
    <2>2. goes(t, "rlock") /\ at' = [at EXCEPT ![t] = at[t] + 1]
      BY <1>1, <1>3 DEF returnsNil, Types
    <2>3. QED
      BY <1>1, <2>1, <2>2, Zenon DEF returnsNil, Types
  <1>4. QED
    BY <1>2, <1>3

\* A connection is taken out of its queue: accepted and counted, or aborted.
LEMMA TakenIInv ==
    ASSUME IInv, NEW t \in Acceptors, pc[t] = "accept",
           NEW c \in queue[at[t]], queue' = [queue EXCEPT ![at[t]] = @ \ {c}],
           NEW s \in {"opening", "refused"}, becomes(c, s),
           wg' = IF s = "opening" THEN wg + 1 ELSE wg, free' \in Int,
           NEW step \in {"rlock", "check"}, goes(t, step),
           readers' = IF step = "check" THEN readers ELSE readers \ {t},
           UNCHANGED <<srv, at, edge, table, told, left>>
    PROVE  IInv'
  <1>0. Types /\ ServeIsAt /\ AcceptorsHold /\ NotServing /\ WhoCloses /\ QueuesAreExact /\ Draining /\ s \in ConnStates
    BY DEF IInv, Control, ConnStates, Counted
  <1>1. t \in Threads /\ server \in Threads /\ t # server /\ Acceptors \subseteq Threads /\ Closers \subseteq Threads
    BY ServerAssumption DEF Threads, Acceptors
  <1>2. \A r \in Threads : pc'[r] = IF r = t THEN step ELSE pc[r]
    BY <1>0, <1>1 DEF goes, Types
  <1>3. at[t] \in Listeners /\ c \in Conns /\ state[c] = "queued" /\ ~Past /\ srv.serving /\ t \in readers
    BY <1>0 DEF AcceptorsHold, NotServing, QueuesAreExact, Types, Accepting
  <1>4. \A d \in Conns : state'[d] = IF d = c THEN s ELSE state[d]
    BY <1>0, <1>3 DEF becomes, Types
  <1>5. \A l \in Listeners : queue'[l] = IF l = at[t] THEN queue[l] \ {c} ELSE queue[l]
    BY <1>0, Zenon DEF Types
  <1>6. Types'
    <2>1. queue' \in [Listeners -> SUBSET Conns]
      BY <1>0, <1>3 DEF Types
    <2>2. state' \in [Conns -> ConnStates]
      BY <1>0, <1>3 DEF Types, becomes
    <2>3. pc' \in [Threads -> PcStates]
      BY <1>0, Zenon DEF goes, Types, PcStates, Accepting
    <2>4. readers' \subseteq Acceptors /\ wg' \in Int
      BY <1>0 DEF Types
    <2>5. QED
      BY <1>0, <2>1, <2>2, <2>3, <2>4 DEF Types
  <1>7. pc'[server] = pc[server] /\ (Past' <=> Past)
    BY <1>1, <1>2 DEF Past
  <1>8. ServeIsAt' /\ NotServing'
    BY <1>0, <1>3, <1>7 DEF ServeIsAt, NotServing
  <1>9. AcceptorsHold'
    BY <1>0, <1>1, <1>2, <1>3, <1>7 DEF AcceptorsHold, Accepting
  <1>10. WhoCloses'
    BY <1>0, <1>1, <1>2 DEF WhoCloses
  <1>11. QueuesAreExact'
    BY <1>0, <1>3, <1>4, <1>5 DEF QueuesAreExact, Types
  <1>12. Draining'
    BY <1>0, <1>3, <1>4, <1>7 DEF Draining, Past
  <1>13. CountIsExact'
    <2>1. wg' = wg + (IF s \in Counted THEN 1 ELSE 0) - (IF state[c] \in Counted THEN 1 ELSE 0)
      BY <1>0, <1>3 DEF Types, Counted
    <2>2. QED
      BY <1>0, <1>3, <2>1, CountStep DEF IInv
  <1>14. NoClientStranded'
    BY <1>0, <1>1, <1>2, <1>5 DEF IInv, NoClientStranded, Accepting
  <1>15. QED
    BY <1>6, <1>8, <1>9, <1>10, <1>11, <1>12, <1>13, <1>14 DEF IInv, Control

\* acceptConn from the lock to its return, and how it is begun: a client that waits on a
\* listener has somebody before it, until its listener is found empty.
LEMMA AcceptStepIInv ==
    ASSUME IInv, NEW t \in Acceptors, AcceptStep(t)
    PROVE  IInv'
  <1>0. /\ Types /\ ServeIsAt /\ AcceptorsHold /\ NotServing /\ NoClientStranded
        /\ pc[t] \in Accepting => srv.serving /\ at[t] \in Listeners
    BY DEF IInv, Control, NotServing, AcceptorsHold
  <1>1. 1 \in Listeners /\ 1 \in 0..NumListeners /\ \A l \in Listeners : 1 <= l
    BY ServerAssumption DEF Listeners
  <1>2. t \in Threads /\ Acceptors \subseteq Threads
    BY DEF Threads, Acceptors
  <1>3. ASSUME NEW step, goes(t, step)
        PROVE  \A r \in Acceptors : pc'[r] = IF r = t THEN step ELSE pc[r]
    BY <1>0, <1>2, <1>3 DEF goes, Types
  <1>4. CASE runBatch(t)
    <2>1. at'[t] = 1 /\ pc'[t] = "rlock"
      BY <1>0, <1>2, <1>4 DEF runBatch, goes, Types
    <2>2. NoClientStranded'
      BY <1>1, <2>1 DEF NoClientStranded, Accepting
    <2>3. AcceptorMoves(t, "rlock", 1) /\ FieldsMove
      BY <1>0, <1>1, <1>4, Zenon DEF runBatch, AcceptorMoves, FieldsMove, Types
    <2>4. QED
      BY <2>2, <2>3, AcceptorIInv DEF Accepting
  <1>5. CASE retryFires(t)
    <2>1. srv.serving
      BY <1>0, <1>5 DEF retryFires, NotServing
    <2>2. FieldsMove /\ srv'.closed = srv.closed
      BY <1>0, <1>5 DEF retryFires, set, FieldsMove, Types, Fields
    <2>3. CASE srv.draining
      <3>1. AcceptorMoves(t, "idle", at[t])
        BY <1>0, <1>2, <1>5, <2>1, <2>3 DEF retryFires, goes, AcceptorMoves, Types
      <3>2. NoClientStranded'
        BY <1>0, <2>2, <2>3 DEF NoClientStranded, ServeIsAt
      <3>3. QED
        BY <2>2, <3>1, <3>2, AcceptorIInv
    <2>4. CASE ~srv.draining
      <3>1. AcceptorMoves(t, "rlock", 1)
        BY <1>0, <1>1, <1>5, <2>1, <2>4 DEF retryFires, AcceptorMoves, Types
      <3>2. at'[t] = 1 /\ pc'[t] = "rlock"
        BY <1>0, <1>2, <3>1 DEF AcceptorMoves, goes, Types
      <3>3. NoClientStranded'
        BY <1>1, <3>2 DEF NoClientStranded, Accepting
      <3>4. QED
        BY <2>2, <3>1, <3>3, AcceptorIInv DEF Accepting
    <2>5. QED
      BY <2>3, <2>4
  <1>6. CASE acceptConn(t)
    <2>1. AcceptorMoves(t, "check", at[t]) /\ FieldsMove
      BY <1>0, <1>6 DEF acceptConn, AcceptorMoves, FieldsMove, Types, Accepting
    <2>2. NoClientStranded'
      BY <1>0, <1>3, <1>6 DEF acceptConn, NoClientStranded, Accepting
    <2>3. QED
      BY <2>1, <2>2, AcceptorIInv DEF Accepting
  <1>7. CASE checkDraining(t)
    <2>1. FieldsMove /\ srv.serving /\ pc[t] \in Accepting
      BY <1>0, <1>7 DEF checkDraining, FieldsMove, Accepting, Types
    <2>2. CASE srv.draining
      <3>1. NoClientStranded'
        BY <1>0, <1>7, <2>2 DEF checkDraining, NoClientStranded, ServeIsAt
      <3>2. PICK step \in {"rlock", "idle"}, i \in 0..NumListeners : AcceptorMoves(t, step, i)
        BY <1>0, <1>7, <2>1, <2>2, ReturnsNil DEF checkDraining, AcceptorMoves, Types
      <3>3. QED
        BY <2>1, <3>1, <3>2, AcceptorIInv DEF Accepting
    <2>3. CASE ~srv.draining
      <3>1. ~Past /\ srv.listening
        BY <1>0, <2>1, <2>3 DEF IInv, Control, ServeIsAt, WhoCloses
      <3>2. AcceptorMoves(t, "accept", at[t])
        BY <1>0, <1>7, <2>1, <2>3, <3>1, SMTT(30) DEF checkDraining, AcceptorMoves, AcceptorsHold, Types
      <3>3. NoClientStranded'
        BY <1>0, <1>3, <1>7, <2>3, Zenon DEF checkDraining, NoClientStranded, Accepting
      <3>4. QED
        BY <2>1, <3>2, <3>3, AcceptorIInv DEF Accepting
    <2>4. QED
      BY <2>2, <2>3
  <1>8. CASE accepts(t)
    <2>1. PICK c \in queue[at[t]] : queue' = [queue EXCEPT ![at[t]] = @ \ {c}] /\ becomes(c, "opening")
      BY <1>8, Zenon DEF accepts
    <2>2. free' \in Int
      BY <1>0, <1>8 DEF accepts, Types
    <2>3. QED
      BY <1>8, <2>1, <2>2, TakenIInv, Zenon DEF accepts
  <1>9. CASE acceptAborted(t)
    BY <1>0, <1>9, TakenIInv, Zenon DEF acceptAborted, acceptVars, Types
  <1>10. CASE acceptsNothing(t)
    <2>1. FieldsMove /\ pc[t] \in Accepting /\ at[t] \in Nat /\ NumListeners \in Nat
      BY <1>0, <1>10, ServerAssumption DEF acceptsNothing, FieldsMove, Accepting, Types, Listeners
    <2>2. PICK step \in {"rlock", "idle"}, i \in 0..NumListeners :
              /\ AcceptorMoves(t, step, i)
              /\ step = "rlock" => i = at[t] + 1
              /\ step = "idle" => at[t] = NumListeners
      BY <1>0, <1>10, <2>1, ReturnsNil DEF acceptsNothing, AcceptorMoves, Types
    <2>3. /\ \A r \in Acceptors : pc'[r] = IF r = t THEN step ELSE pc[r]
          /\ \A r \in Acceptors : at'[r] = IF r = t THEN i ELSE at[r]
      BY <1>0, <1>3, <2>2 DEF AcceptorMoves, Types
    <2>4. NoClientStranded'
      <3> SUFFICES ASSUME ~srv.closed, NEW l \in Listeners, queue[l] # {}, ~edge[l], ~srv.retrying
                   PROVE  \E r \in Acceptors : pc'[r] \in Accepting /\ at'[r] <= l
        BY <1>10 DEF acceptsNothing, NoClientStranded
      <3>1. PICK r \in Acceptors : pc[r] \in Accepting /\ at[r] <= l
        BY <1>0 DEF NoClientStranded
      <3>2. CASE r # t
        BY <2>3, <3>1, <3>2
      <3>3. CASE r = t
        <4>1. at[t] # l /\ at[t] <= l /\ l \in Nat /\ l <= NumListeners
          BY <1>10, <2>1, <3>1, <3>3 DEF acceptsNothing, Listeners
        <4>2. step = "rlock" /\ i <= l
          BY <2>1, <2>2, <4>1
        <4>3. QED
          BY <2>3, <4>2, Zenon DEF Accepting
      <3>4. QED
        BY <3>2, <3>3, Zenon
    <2>5. QED
      BY <2>1, <2>2, <2>4, AcceptorIInv DEF Accepting
  <1>11. CASE acceptExhausted(t) \/ acceptFatal(t)
    <2>1. FieldsMove /\ (srv'.retrying \/ srv'.closed) /\ pc[t] \in Accepting
      BY <1>0, <1>11, ZenonT(60) DEF acceptExhausted, acceptFatal, set, FieldsMove, Accepting, Types, Fields
    <2>2. PICK step \in {"rlock", "idle"}, i \in 0..NumListeners : AcceptorMoves(t, step, i)
      <3>1. returnsNil(t) /\ UNCHANGED <<queue, edge, connVars, left, wg, free>>
        BY <1>11, Zenon DEF acceptExhausted, acceptFatal
      <3>2. QED
        BY <1>0, <2>1, <3>1, ReturnsNil DEF AcceptorMoves, Types
    <2>3. NoClientStranded'
      BY <2>1 DEF NoClientStranded
    <2>4. QED
      BY <2>1, <2>2, <2>3, AcceptorIInv DEF Accepting
  <1>12. QED
    BY <1>4, <1>5, <1>6, <1>7, <1>8, <1>9, <1>10, <1>11 DEF AcceptStep

\* Serve goes from one place to another, and nothing else moves but its fields.
LEMMA ServerIInv ==
    ASSUME IInv, NEW step \in PcStates, goes(server, step), srv' \in [Fields -> BOOLEAN],
           UNCHANGED <<acceptVars, queue, edge, connVars, left, wg, free>>,
           ServeIsAt',
           Past' => \A t \in Acceptors : pc[t] # "accept",
           srv'.listening = srv.listening /\ srv'.retrying = srv.retrying /\ srv'.done = srv.done,
           srv'.closed = srv.closed /\ (srv.draining => srv'.draining),
           srv.serving => srv'.serving, srv'.serving => srv.serving \/ ~srv.closed,
           step \notin {"each", "wait"},
           step = "stop" => \A c \in Conns : state[c] \notin Counted
    PROVE  IInv'
  <1>0. Types /\ ServeIsAt /\ AcceptorsHold /\ NotServing /\ WhoCloses /\ Draining /\ NoClientStranded
    BY DEF IInv, Control
  <1>1. server \in Threads /\ server \notin Acceptors /\ server \notin Closers
        /\ Acceptors \subseteq Threads /\ Closers \subseteq Threads
    BY ServerAssumption DEF Threads, Acceptors
  <1>2. \A r \in Threads : pc'[r] = IF r = server THEN step ELSE pc[r]
    BY <1>0, <1>1 DEF goes, Types
  <1>3. Types'
    BY <1>0, Zenon DEF goes, acceptVars, connVars, Types
  <1>4. AcceptorsHold'
    BY <1>0, <1>1, <1>2 DEF AcceptorsHold, acceptVars, Accepting
  <1>5. NotServing'
    BY <1>0, <1>1, <1>2 DEF NotServing, connVars
  <1>6. WhoCloses'
    BY <1>0, <1>1, <1>2 DEF WhoCloses
  <1>7. QueuesAreExact' /\ CountIsExact'
    BY CountStays DEF IInv, connVars, QueuesAreExact
  <1>8. Draining'
    BY <1>0, <1>1, <1>2, Zenon DEF Draining, connVars
  <1>9. NoClientStranded'
    BY <1>0, <1>1, <1>2 DEF NoClientStranded, acceptVars
  <1>10. QED
    BY <1>3, <1>4, <1>5, <1>6, <1>7, <1>8, <1>9 DEF IInv, Control

\* Serve up to the lock, and when its wait is over.
LEMMA ServeIInv ==
    ASSUME IInv, beginServe \/ serveDraining \/ serveLock \/ serveLocked \/ serveWaited
    PROVE  IInv'
  <1>0. Types /\ ServeIsAt /\ AcceptorsHold /\ NotServing /\ CountIsExact /\ server \in Threads
    BY DEF IInv, Control, Threads
  <1>1. ASSUME NEW step, goes(server, step) PROVE pc'[server] = step
    BY <1>0, <1>1, Zenon DEF goes, Types
  <1>2. CASE beginServe
    <2> DEFINE step == IF srv.closed THEN "returned" ELSE "serving"
    <2>1. goes(server, step) /\ step \in PcStates /\ pc'[server] = step /\ step # "idle" /\ ~srv.serving
      BY <1>0, <1>1, <1>2 DEF beginServe, PcStates, ServeIsAt
    <2>2. srv' \in [Fields -> BOOLEAN] /\ srv'.serving = ~srv.closed
          /\ \A f \in Fields : f # "serving" => srv'[f] = srv[f]
      BY <1>0, <1>2, Zenon DEF beginServe, set, Types, Fields
    <2>3. ServeIsAt' /\ (Past' => Past)
      BY <1>0, <2>1, <2>2, SMTT(30) DEF ServeIsAt, Past, Fields
    <2>4. QED
      BY <1>0, <1>2, <2>1, <2>2, <2>3, ServerIInv DEF beginServe, AcceptorsHold, Fields
  <1>3. CASE serveDraining
    <2>1. goes(server, "lock") /\ pc'[server] = "lock"
      BY <1>1, <1>3 DEF serveDraining
    <2>2. srv' \in [Fields -> BOOLEAN] /\ srv'.draining /\ srv.closed
          /\ \A f \in Fields : f # "draining" => srv'[f] = srv[f]
      BY <1>0, <1>3 DEF serveDraining, set, Types, Fields
    <2>3. ServeIsAt' /\ (Past' => Past)
      BY <1>0, <2>1, <2>2, Zenon DEF ServeIsAt, Past, Fields
    <2>4. QED
      BY <1>0, <1>3, <2>1, <2>2, <2>3, ServerIInv, Zenon DEF serveDraining, AcceptorsHold, Fields, PcStates
  <1>4. CASE serveLock
    <2>1. goes(server, "lock") /\ pc'[server] = "lock"
      BY <1>0, <1>4 DEF serveLock, goes, Types
    <2>2. srv' \in [Fields -> BOOLEAN] /\ \A f \in Fields : f # "locking" => srv'[f] = srv[f]
      BY <1>0, <1>4 DEF serveLock, set, Types, Fields
    <2>3. ServeIsAt' /\ (Past' => Past)
      BY <1>0, <1>4, <2>1, <2>2, Zenon DEF serveLock, ServeIsAt, Past, Fields
    <2>4. QED
      BY <1>0, <1>4, <2>1, <2>2, <2>3, ServerIInv DEF serveLock, AcceptorsHold, Fields, PcStates
  <1>5. CASE serveLocked
    <2>1. goes(server, "closeListeners") /\ pc'[server] = "closeListeners"
      BY <1>1, <1>5 DEF serveLocked
    <2>2. srv' \in [Fields -> BOOLEAN] /\ \A f \in Fields : f # "locking" => srv'[f] = srv[f]
      BY <1>0, <1>5, Zenon DEF serveLocked, set, Types, Fields
    <2>3. ServeIsAt'
      BY <1>0, <1>5, <2>1, <2>2 DEF serveLocked, ServeIsAt, Past, Fields
    <2>4. \A t \in Acceptors : pc[t] # "accept"
      BY <1>0, <1>5, Zenon DEF serveLocked, AcceptorsHold
    <2>5. QED
      BY <1>5, <2>1, <2>2, <2>3, <2>4, ServerIInv, Zenon DEF serveLocked, Fields, PcStates
  <1>6. CASE serveWaited
    <2>1. goes(server, "stop") /\ pc'[server] = "stop" /\ Past
      BY <1>1, <1>6 DEF serveWaited, Past
    <2>2. ServeIsAt'
      BY <1>0, <1>6, <2>1 DEF serveWaited, ServeIsAt
    <2>3. \A c \in Conns : state[c] \notin Counted
      <3>1. IsFiniteSet({c \in Conns : state[c] \in Counted})
        BY FS_Subset, ServerAssumption
      <3>2. QED
        BY <1>0, <1>6, <3>1, FS_EmptySet, Zenon DEF serveWaited, CountIsExact
    <2>4. QED
      BY <1>0, <1>6, <2>1, <2>2, <2>3, ServerIInv, Zenon DEF serveWaited, AcceptorsHold, PcStates, Types
  <1>7. QED
    BY <1>2, <1>3, <1>4, <1>5, <1>6

\* closeListeners, by Serve or by the Close that came first.
LEMMA CloseListenersIInv ==
    ASSUME IInv, closeListeners, UNCHANGED <<acceptVars, table, told, wg, free>>,
           NEW t \in Threads, NEW step \in PcStates, goes(t, step),
           \/ t = server /\ pc[server] = "closeListeners" /\ step = "each" /\ left' = Conns
           \/ t \in Closers /\ pc[t] = "release" /\ step = "returned" /\ left' = left
    PROVE  IInv'
  <1>0. Types /\ ServeIsAt /\ AcceptorsHold /\ NotServing /\ WhoCloses /\ QueuesAreExact /\ Draining
    BY DEF IInv, Control
  <1>1. server \in Threads /\ server \notin Acceptors /\ server \notin Closers
        /\ Acceptors \subseteq Threads /\ Closers \subseteq Threads
    BY ServerAssumption DEF Threads, Acceptors
  <1>2. \A r \in Threads : pc'[r] = IF r = t THEN step ELSE pc[r]
    BY <1>0 DEF goes, Types
  <1>3. srv' \in [Fields -> BOOLEAN] /\ ~srv'.listening /\ \A f \in Fields : f # "listening" => srv'[f] = srv[f]
    BY <1>0 DEF closeListeners, set, Types, Fields
  <1>4. \A c \in Conns : state'[c] = IF state[c] = "queued" THEN "refused" ELSE state[c]
    BY DEF closeListeners
  <1>5. Types'
    <2>1. state' \in [Conns -> ConnStates]
      BY <1>0 DEF closeListeners, Types, ConnStates
    <2>2. pc' \in [Threads -> PcStates]
      BY <1>0, Zenon DEF goes, Types
    <2>3. QED
      BY <1>0, <1>3, <2>1, <2>2 DEF closeListeners, acceptVars, Types
  <1>6. (Past' <=> Past) /\ (\A r \in Acceptors : pc[r] # "accept")
    BY <1>0, <1>1, <1>2, <1>3, Zenon DEF Past, AcceptorsHold, NotServing, WhoCloses, Accepting, Fields
  <1>7. ServeIsAt'
    BY <1>0, <1>1, <1>2, <1>3, <1>6, Zenon DEF ServeIsAt, Fields
  <1>8. AcceptorsHold'
    BY <1>0, <1>1, <1>2, <1>6 DEF AcceptorsHold, acceptVars, Accepting
  <1>9. NotServing'
    BY <1>0, <1>1, <1>2, <1>3, <1>4, Zenon DEF NotServing, Accepting, Counted, Fields
  <1>10. WhoCloses'
    BY <1>0, <1>1, <1>2, <1>3, Zenon DEF WhoCloses, ServeIsAt, Past, Fields
  <1>11. QueuesAreExact' /\ NoClientStranded'
    BY Zenon DEF closeListeners, QueuesAreExact, NoClientStranded
  <1>12. Draining'
    BY <1>0, <1>1, <1>2, <1>3, <1>4, ZenonT(60) DEF Draining, Counted, Fields
  <1>13. CountIsExact'
    <2>1. {c \in Conns : state'[c] \in Counted} = {c \in Conns : state[c] \in Counted}
      BY <1>4 DEF Counted
    <2>2. QED
      BY <2>1 DEF IInv, CountIsExact
  <1>14. QED
    BY <1>5, <1>7, <1>8, <1>9, <1>10, <1>11, <1>12, <1>13 DEF IInv, Control

\* each looks at one more slot.
LEMMA EachIInv ==
    ASSUME IInv, each
    PROVE  IInv'
  <1>0. Types /\ ServeIsAt /\ AcceptorsHold /\ NotServing /\ WhoCloses /\ Draining
    BY DEF IInv, Control
  <1>1. PICK c \in left : /\ left' = left \ {c}
                          /\ told' = IF c \in table THEN told \cup {c} ELSE told
                          /\ goes(server, IF left = {c} THEN "wait" ELSE "each")
    BY Zenon DEF each
  <1>2. server \in Threads /\ server \notin Acceptors /\ server \notin Closers
        /\ Acceptors \subseteq Threads /\ Closers \subseteq Threads
    BY ServerAssumption, Zenon DEF Threads, Acceptors
  <1>3. \A r \in Threads : pc'[r] = IF r = server THEN (IF left = {c} THEN "wait" ELSE "each") ELSE pc[r]
    BY <1>0, <1>1, <1>2, Zenon DEF goes, Types
  <1>4. Types'
    <2>1. pc' \in [Threads -> PcStates]
      BY <1>0, <1>1, ZenonT(30) DEF goes, Types, PcStates
    <2>2. QED
      BY <1>0, <1>1, <2>1 DEF each, acceptVars, Types
  <1>5. ServeIsAt' /\ (Past' <=> Past)
    BY <1>0, <1>2, <1>3, Zenon DEF each, ServeIsAt, Past
  <1>6. AcceptorsHold' /\ NotServing' /\ WhoCloses'
    BY <1>0, <1>2, <1>3, <1>5 DEF each, acceptVars, AcceptorsHold, NotServing, WhoCloses
  <1>7. Draining'
    BY <1>0, <1>1, <1>2, <1>3, SMTT(30) DEF each, Draining
  <1>8. QueuesAreExact' /\ CountIsExact' /\ NoClientStranded'
    BY <1>2, <1>3, CountStays, Zenon DEF IInv, each, acceptVars, QueuesAreExact, NoClientStranded
  <1>9. QED
    BY <1>4, <1>5, <1>6, <1>7, <1>8 DEF IInv, Control

\* The workers stop and Serve returns.
LEMMA FinishIInv ==
    ASSUME IInv, finishServe
    PROVE  IInv'
  <1>0. Types /\ ServeIsAt /\ AcceptorsHold /\ NotServing /\ WhoCloses /\ Draining /\ Past
    BY DEF IInv, Control, Past, finishServe
  <1>1. server \in Threads /\ server \notin Acceptors /\ server \notin Closers
        /\ Acceptors \subseteq Threads /\ Closers \subseteq Threads
    BY ServerAssumption DEF Threads, Acceptors
  <1>2. srv' \in [Fields -> BOOLEAN] /\ srv'.done /\ \A f \in Fields : f # "done" => srv'[f] = srv[f]
    BY <1>0 DEF finishServe, set, Types, Fields
  <1>3. \A r \in Threads : pc'[r] = IF r = server THEN "returned" ELSE IF r \in Workers THEN "stopped" ELSE pc[r]
    BY DEF finishServe, stopped
  <1>4. Types'
    <2>1. pc' \in [Threads -> PcStates]
      BY <1>0, Zenon DEF finishServe, stopped, Types, PcStates
    <2>2. QED
      BY <1>0, <1>2, <2>1 DEF finishServe, acceptVars, connVars, Types
  <1>5. ServeIsAt'
    BY <1>0, <1>1, <1>2, <1>3, Zenon DEF ServeIsAt, Fields
  <1>6. AcceptorsHold'
    BY <1>0, <1>1, <1>3, Zenon DEF finishServe, acceptVars, AcceptorsHold, Accepting
  <1>7. NotServing' /\ WhoCloses'
    BY <1>0, <1>1, <1>2, <1>3, ZenonT(60) DEF finishServe, connVars, NotServing, WhoCloses, Accepting, Fields
  <1>8. Draining'
    BY <1>0, <1>1, <1>2, <1>3, Zenon DEF finishServe, connVars, Draining
  <1>9. QueuesAreExact' /\ CountIsExact'
    BY CountStays DEF IInv, finishServe, connVars, QueuesAreExact
  <1>10. NoClientStranded'
    BY <1>0, <1>2 DEF ServeIsAt, NoClientStranded, Fields
  <1>11. QED
    BY <1>4, <1>5, <1>6, <1>7, <1>8, <1>9, <1>10 DEF IInv, Control

\* Close asks for the shutdown, and returns once it is over.
LEMMA CloserIInv ==
    ASSUME IInv, NEW t \in Closers, Close(t) \/ closeReturns(t)
    PROVE  IInv'
  <1>0. Types /\ ServeIsAt /\ AcceptorsHold /\ NotServing /\ WhoCloses /\ Draining
    BY DEF IInv, Control
  <1>1. t \in Threads /\ t # server /\ server \in Threads /\ Acceptors \subseteq Threads /\ Closers \subseteq Threads
    BY ServerAssumption DEF Threads
  <1>2. PICK step \in {"waitDone", "release", "returned"} :
              /\ goes(t, step)
              /\ step = "release" => srv'.closed /\ ~srv.serving
              /\ step = "returned" => srv.done \/ (srv'.closed /\ ~srv.serving)
    <2>1. CASE Close(t)
      BY <1>0, <2>1 DEF Close, set, Types, Fields
    <2>2. CASE closeReturns(t)
      BY <2>2 DEF closeReturns
    <2>3. QED
      BY <2>1, <2>2
  <1>3. \A r \in Threads : pc'[r] = IF r = t THEN step ELSE pc[r]
    BY <1>0, <1>1, <1>2 DEF goes, Types
  <1>4. srv' \in [Fields -> BOOLEAN] /\ (srv.closed => srv'.closed) /\ \A f \in Fields : f # "closed" => srv'[f] = srv[f]
    BY <1>0, Zenon DEF Close, closeReturns, set, Types, Fields
  <1>5. /\ pc[t] \notin Accepting /\ UNCHANGED <<acceptVars, queue, edge, connVars, left, wg, free>>
        /\ srv'.closed \/ srv' = srv
    BY <1>0 DEF Close, closeReturns, set, Types, Fields, Accepting
  <1>6. Types'
    BY <1>0, <1>2, <1>4, <1>5, Zenon DEF goes, acceptVars, connVars, Types, PcStates
  <1>7. pc'[server] = pc[server] /\ (Past' <=> Past)
    BY <1>1, <1>3, <1>4 DEF Past, Fields
  <1>8. ServeIsAt'
    BY <1>0, <1>4, <1>7, Zenon DEF ServeIsAt, Fields
  <1>9. AcceptorsHold'
    BY <1>0, <1>1, <1>2, <1>3, <1>4, <1>5, <1>7, SMTT(30) DEF AcceptorsHold, acceptVars, Accepting, Fields
  <1>10. NotServing'
    BY <1>0, <1>1, <1>2, <1>3, <1>4, <1>5, SMTT(30) DEF NotServing, connVars, Accepting, Fields
  <1>11. WhoCloses'
    BY <1>0, <1>1, <1>2, <1>3, <1>4, Zenon DEF WhoCloses, Fields
  <1>12. QueuesAreExact' /\ CountIsExact' /\ Draining'
    <2>1. QueuesAreExact' /\ CountIsExact'
      BY <1>5, CountStays, Zenon DEF IInv, connVars, QueuesAreExact
    <2>2. Draining'
      BY <1>0, <1>4, <1>5, <1>7, Zenon DEF connVars, Draining, Fields
    <2>3. QED
      BY <2>1, <2>2
  <1>13. NoClientStranded'
    BY <1>1, <1>3, <1>5, Zenon DEF IInv, NoClientStranded, acceptVars, Accepting
  <1>14. QED
    BY <1>6, <1>8, <1>9, <1>10, <1>11, <1>12, <1>13 DEF IInv, Control

\* The inductive invariant holds throughout.
THEOREM ServerInvariance == Spec => []IInv
  <1>1. IInv /\ [Next]_vars => IInv'
    <2> SUFFICES ASSUME IInv, [Next]_vars PROVE IInv'
      OBVIOUS
    <2>1. CASE serveCloseListeners
      BY <2>1, CloseListenersIInv DEF serveCloseListeners, PcStates, Threads
    <2>2. ASSUME NEW t \in Closers, closeReleases(t) PROVE IInv'
      BY <2>2, CloseListenersIInv, SMTT(30) DEF closeReleases, PcStates, Threads
    <2>3. CASE UNCHANGED vars
      BY <2>3, Zenon DEF vars, acceptVars, connVars, IInv, Control, Types, ServeIsAt, Past, AcceptorsHold, NotServing,
                  WhoCloses, QueuesAreExact, Draining, CountIsExact, NoClientStranded
    <2>4. QED
      BY <2>1, <2>2, <2>3, ConnectsIInv, ConnStepIInv, AcceptStepIInv, ServeIInv, EachIInv, FinishIInv, CloserIInv
         DEF Next, ServeStep, CloserStep
  <1>2. QED
    BY <1>1, InitIInv, PTL DEF Spec

\* acceptConn, retryAccept and watch: openConnsWg counts exactly the connections that
\* live, and no client waits on an edge-triggered listener that nobody will look at.
THEOREM AcceptingSafety == Spec => []AcceptingIsExact
  <1>1. IInv => AcceptingIsExact
    BY DEF IInv, AcceptingIsExact
  <1>2. QED
    BY <1>1, ServerInvariance, PTL

\* Serve and Close: no accept on a listener that is closed, every connection hears of the
\* shutdown, and all callbacks are over when Serve or Close returns.
THEOREM ShutdownSafety == Spec => []ShutdownIsComplete
  <1>1. IInv => ShutdownIsComplete
    <2> SUFFICES ASSUME IInv PROVE ShutdownIsComplete
      OBVIOUS
    <2>1. AcceptsOnOpenListener
      BY DEF IInv, Control, AcceptorsHold, AcceptsOnOpenListener
    <2>2. DrainReachesAll
      BY Zenon DEF IInv, Draining, DrainReachesAll, Drained, Counted
    <2>3. CallbacksAreOver
      BY DEF IInv, Control, WhoCloses, NotServing, Draining, CallbacksAreOver
    <2>4. QED
      BY <2>1, <2>2, <2>3 DEF ShutdownIsComplete
  <1>2. QED
    BY <1>1, ServerInvariance, PTL
=============================================================================
