------------------------------ MODULE Reactor ------------------------------
(***************************************************************************)
(* The sub-reactors' workers (reactor_unix.go) on their pollers            *)
(* (poll/epoll_linux.go): each worker polls its own sub-reactor, helps     *)
(* active ones, and blocks in the kernel when there is nothing to do;      *)
(* stopWorkers sets stopping and wakes every poller through its eventfd.   *)
(* Wake coalesces its signals, and a worker helping another sub-reactor    *)
(* may take the signal meant for that one's own worker.                    *)
(* A worker is named by its sub-reactor; the goroutine in Serve is stopper.*)
(***************************************************************************)
EXTENDS Naturals, FiniteSets

CONSTANTS Subs,      \* the sub-reactors, each with a poller and a worker
          stopper,   \* the goroutine that calls stopWorkers
          MaxEvents  \* bound: how often a poller becomes ready

ASSUME ReactorAssumption == MaxEvents \in Nat /\ stopper \notin Subs

Threads == Subs \cup {stopper}

VARIABLES
    stopping,  \* reactor.stopping
    waking,    \* Poller.waking
    signal,    \* the eventfd's counter is not 0
    ready,     \* the kernel has readiness to report on the poller
    left,      \* how often each may still become ready
    active,    \* subReactor.active
    pc,        \* where each thread is
    at,        \* the sub-reactor each worker polls
    todo,      \* the sub-reactors a worker has yet to help, or a thread to wake
    batch      \* what a worker's batch holds

vars == <<stopping, waking, signal, ready, left, active, pc, at, todo, batch>>

WorkerSteps == {"loop", "poll", "readWake", "clearWake", "dispatch", "help", "recheck", "blocked"}
WakeSteps == {"wake", "writeWake"}

TypeOK == /\ stopping \in BOOLEAN
          /\ waking \in [Subs -> BOOLEAN] /\ signal \in [Subs -> BOOLEAN] /\ active \in [Subs -> BOOLEAN]
          /\ ready \in [Subs -> BOOLEAN] /\ left \in [Subs -> 0..MaxEvents]
          /\ pc \in [Threads -> WorkerSteps \cup WakeSteps \cup {"serving", "waiting", "done"}]
          /\ at \in [Threads -> Threads]
          /\ todo \in [Threads -> SUBSET Subs]
          /\ batch \in [Subs -> [some : BOOLEAN, woken : BOOLEAN, block : BOOLEAN]]

NoBatch == [some |-> FALSE, woken |-> FALSE, block |-> FALSE]

Init == /\ stopping = FALSE
        /\ waking = [s \in Subs |-> FALSE] /\ signal = [s \in Subs |-> FALSE]
        /\ active = [s \in Subs |-> FALSE]
        /\ ready = [s \in Subs |-> FALSE] /\ left = [s \in Subs |-> MaxEvents]
        /\ pc = [t \in Threads |-> IF t = stopper THEN "serving" ELSE "loop"]
        /\ at = [t \in Threads |-> t]
        /\ todo = [t \in Threads |-> {}]
        /\ batch = [s \in Subs |-> NoBatch]

(***************************************************************************)
(* reactorWorker.run                                                       *)
(***************************************************************************)

\* Mutant of passedOn: a worker that stops wakes nobody.
passedOnNot == {}

\* The sub-reactors a worker that stops wakes: it may have taken a signal meant for
\* another's worker.
passedOn == Subs

\* The loop's condition; past it the worker wakes every sub-reactor.
loop(w) ==
    /\ pc[w] = "loop"
    /\ pc' = [pc EXCEPT ![w] = IF stopping THEN "wake" ELSE "poll"]
    /\ todo' = [todo EXCEPT ![w] = IF stopping THEN passedOn ELSE Subs \ {w}]
    /\ UNCHANGED <<stopping, waking, signal, ready, left, active, at, batch>>

\* Mutant of retrieve: only the eventfd is looked at.
retrieveSignalOnly(w, block) ==
    /\ batch' = [batch EXCEPT ![w] = [some |-> FALSE, woken |-> signal[at[w]], block |-> block]]
    /\ pc' = [pc EXCEPT ![w] = IF signal[at[w]] THEN "readWake" ELSE "dispatch"]
    /\ UNCHANGED <<stopping, waking, signal, ready, left, active, at, todo>>

\* epoll_wait on sub-reactor at[w] returns the ready events, and the eventfd while
\* its counter is not 0. One call returns all of them: BatchSize, and a call that a signal
\* interrupts and that returns nothing, are left out.
retrieve(w, block) ==
    /\ batch' = [batch EXCEPT ![w] = [some |-> ready[at[w]], woken |-> signal[at[w]], block |-> block]]
    /\ ready' = [ready EXCEPT ![at[w]] = FALSE]
    /\ pc' = [pc EXCEPT ![w] = IF signal[at[w]] THEN "readWake" ELSE "dispatch"]
    /\ UNCHANGED <<stopping, waking, signal, left, active, at, todo>>

Poll(w) == pc[w] = "poll" /\ retrieve(w, FALSE)

Block(w) == /\ pc[w] = "blocked"
            /\ ready[w] \/ signal[w]
            /\ retrieve(w, TRUE)

\* Mutant of collectRead: waking stays set when the signal is read.
collectReadOnly(w) ==
    /\ pc[w] = "readWake"
    /\ signal' = [signal EXCEPT ![at[w]] = FALSE]
    /\ pc' = [pc EXCEPT ![w] = "dispatch"]
    /\ UNCHANGED <<stopping, waking, ready, left, active, at, todo, batch>>

\* collect: the eventfd is read before waking is cleared.
collectRead(w) ==
    /\ pc[w] = "readWake"
    /\ signal' = [signal EXCEPT ![at[w]] = FALSE]
    /\ pc' = [pc EXCEPT ![w] = "clearWake"]
    /\ UNCHANGED <<stopping, waking, ready, left, active, at, todo, batch>>

collectClear(w) ==
    /\ pc[w] = "clearWake"
    /\ waking' = [waking EXCEPT ![at[w]] = FALSE]
    /\ pc' = [pc EXCEPT ![w] = "dispatch"]
    /\ UNCHANGED <<stopping, signal, ready, left, active, at, todo, batch>>

\* The rest of serve, and of run after Block: the batch is handed over and the
\* loop starts again, or after a Poll that found nothing the worker helps others.
dispatch(w) ==
    /\ pc[w] = "dispatch"
    /\ LET b == batch[w] IN
       /\ active' = [active EXCEPT ![at[w]] = b.some \/ (@ /\ b.block)]
       /\ IF b.some \/ b.woken \/ b.block
          THEN pc' = [pc EXCEPT ![w] = "loop"] /\ todo' = [todo EXCEPT ![w] = {}]
          ELSE pc' = [pc EXCEPT ![w] = "help"] /\ UNCHANGED todo
    /\ at' = [at EXCEPT ![w] = w]
    /\ batch' = [batch EXCEPT ![w] = NoBatch]
    /\ UNCHANGED <<stopping, waking, signal, ready, left>>

\* help looks at another sub-reactor and polls it if it is active; the order it
\* takes them in is left open.
help(w) ==
    /\ pc[w] = "help"
    /\ \/ /\ todo[w] = {}
          /\ pc' = [pc EXCEPT ![w] = "recheck"]
          /\ UNCHANGED <<at, todo>>
       \/ \E s \in todo[w] :
             /\ todo' = [todo EXCEPT ![w] = @ \ {s}]
             /\ at' = [at EXCEPT ![w] = IF active[s] THEN s ELSE @]
             /\ pc' = [pc EXCEPT ![w] = IF active[s] THEN "poll" ELSE "help"]
    /\ UNCHANGED <<stopping, waking, signal, ready, left, active, batch>>

\* stopping is looked at once more before blocking.
recheck(w) ==
    /\ pc[w] = "recheck"
    /\ pc' = [pc EXCEPT ![w] = IF stopping THEN "wake" ELSE "blocked"]
    /\ todo' = [todo EXCEPT ![w] = IF stopping THEN passedOn ELSE {}]
    /\ UNCHANGED <<stopping, waking, signal, ready, left, active, at, batch>>

(***************************************************************************)
(* stopWorkers and wakeAll                                                 *)
(***************************************************************************)

stopWorkers ==
    /\ pc[stopper] = "serving"
    /\ stopping' = TRUE
    /\ pc' = [pc EXCEPT ![stopper] = "wake"]
    /\ todo' = [todo EXCEPT ![stopper] = Subs]
    /\ UNCHANGED <<waking, signal, ready, left, active, at, batch>>

\* wakeAll comes to the next sub-reactor: Wake writes to its eventfd unless a
\* signal that has not been consumed is there already.
Wake(t) ==
    /\ pc[t] = "wake"
    /\ \E s \in todo[t] :
          /\ todo' = [todo EXCEPT ![t] = @ \ {s}]
          /\ at' = [at EXCEPT ![t] = IF waking[s] THEN t ELSE s]
          /\ waking' = [waking EXCEPT ![s] = TRUE]
          /\ pc' = [pc EXCEPT ![t] = IF waking[s] THEN "wake" ELSE "writeWake"]
    /\ UNCHANGED <<stopping, signal, ready, left, active, batch>>

\* The write to the eventfd succeeds, or finds its counter full.
writeWake(t) ==
    /\ pc[t] = "writeWake"
    /\ signal' = [signal EXCEPT ![at[t]] = TRUE]
    /\ pc' = [pc EXCEPT ![t] = "wake"]
    /\ at' = [at EXCEPT ![t] = t]
    /\ UNCHANGED <<stopping, waking, ready, left, active, todo, batch>>

\* A worker's workersWg.Done, and stopWorkers waiting for all of them.
wakeAllDone(t) ==
    /\ pc[t] = "wake" /\ todo[t] = {}
    /\ pc' = [pc EXCEPT ![t] = IF t = stopper THEN "waiting" ELSE "done"]
    /\ UNCHANGED <<stopping, waking, signal, ready, left, active, at, todo, batch>>

stopped ==
    /\ pc[stopper] = "waiting"
    /\ \A s \in Subs : pc[s] = "done"
    /\ pc' = [pc EXCEPT ![stopper] = "done"]
    /\ UNCHANGED <<stopping, waking, signal, ready, left, active, at, todo, batch>>

\* The kernel has an edge to report on sub-reactor s.
becomesReady(s) ==
    /\ left[s] > 0
    /\ left' = [left EXCEPT ![s] = @ - 1]
    /\ ready' = [ready EXCEPT ![s] = TRUE]
    /\ UNCHANGED <<stopping, waking, signal, active, pc, at, todo, batch>>

WorkerStep(w) == \/ loop(w) \/ Poll(w) \/ Block(w) \/ collectRead(w) \/ collectClear(w)
                 \/ dispatch(w) \/ help(w) \/ recheck(w)

WakeStep(t) == Wake(t) \/ writeWake(t) \/ wakeAllDone(t)

Next == \/ \E w \in Subs : WorkerStep(w) \/ becomesReady(w)
        \/ \E t \in Threads : WakeStep(t)
        \/ stopWorkers \/ stopped

Spec == Init /\ [][Next]_vars

\* Goroutines that can go on do, and epoll_wait returns what is ready.
FairSpec == /\ Spec
            /\ \A w \in Subs : WF_vars(WorkerStep(w))
            /\ \A t \in Threads : WF_vars(WakeStep(t))
            /\ WF_vars(stopped)

(***************************************************************************)
(* Properties                                                              *)
(***************************************************************************)

\* Wake's "there is already a wakeup signal that has not been consumed": while
\* waking is set the eventfd is readable, or a thread is between the accesses of
\* Wake or of collect and will make it so or clear waking.
WakingHasSignal ==
    \A s \in Subs : waking[s] =>
        \/ signal[s]
        \/ \E t \in Threads : pc[t] = "writeWake" /\ at[t] = s
        \/ \E w \in Subs : pc[w] = "clearWake" /\ at[w] = s

\* Serve gets past stopWorkers, whoever took whose signal.
WorkersStop == stopping ~> pc[stopper] = "done"

\* Readiness is handed over while the server does not stop, by whichever worker.
ReadinessIsServed == \A s \in Subs : ready[s] ~> (~ready[s] \/ stopping)

\* The workers get on with what was signalled, whichever of them took the signal.
ReactorGoesOn == WorkersStop /\ ReadinessIsServed

=============================================================================
