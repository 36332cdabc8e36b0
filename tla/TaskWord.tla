------------------------------ MODULE TaskWord ------------------------------
(***************************************************************************)
(* The state word of a connection (task_unix.go) or of a UDP socket        *)
(* (udp_unix.go): one atomic word holds the pending events and             *)
(* scheduledBit, and every step below is one atomic access to it or one    *)
(* call of the executor.  Any number of goroutines notify events or try to *)
(* detach the connection while the executor's workers run its task.  What  *)
(* a round does with its events is left to modules Conn and Udp; here a    *)
(* round may notify more events, may close the connection, and may panic,  *)
(* after which a UDP socket puts the round's events back.                  *)
(***************************************************************************)
EXTENDS Naturals

CONSTANTS Events,   \* the event bits
          Procs,    \* goroutines calling notify and Detach
          Workers   \* goroutines of the executor

VARIABLES
    events,     \* the event bits of conn.state
    scheduled,  \* scheduledBit of conn.state
    queued,     \* how many times the task is in the executor's queue
    proc,       \* where each goroutine is
    worker,     \* where each worker is
    round,      \* the events each worker's round took
    closed      \* conn.closed

vars == <<events, scheduled, queued, proc, worker, round, closed>>

ProcStates == {"free", "submitting", "owner", "releasing"}
WorkerStates == {"free", "starting", "handling", "panicked", "releasing", "submitting"}

TypeOK == /\ events \in SUBSET Events
          /\ scheduled \in BOOLEAN
          /\ queued \in Nat
          /\ proc \in [Procs -> ProcStates]
          /\ worker \in [Workers -> WorkerStates]
          /\ round \in [Workers -> SUBSET Events]
          /\ closed \in BOOLEAN

Init == /\ events = {}
        /\ scheduled = FALSE
        /\ queued = 0
        /\ proc = [p \in Procs |-> "free"]
        /\ worker = [w \in Workers |-> "free"]
        /\ round = [w \in Workers |-> {}]
        /\ closed = FALSE

(***************************************************************************)
(* Goroutines                                                              *)
(***************************************************************************)

\* The word after state.Or(ev | scheduledBit); only the caller that finds the
\* bit clear goes on to submit the task.
Or(evs) == /\ events' = events \cup evs
           /\ scheduled' = TRUE

notify(p, evs) ==
    /\ proc[p] = "free"
    /\ Or(evs)
    /\ proc' = IF scheduled THEN proc ELSE [proc EXCEPT ![p] = "submitting"]
    /\ UNCHANGED <<queued, worker, round, closed>>

schedule(p) ==
    /\ proc[p] = "submitting"
    /\ queued' = queued + 1
    /\ proc' = [proc EXCEPT ![p] = "free"]
    /\ UNCHANGED <<events, scheduled, worker, round, closed>>

\* Mutant of takeOver: it looks at the events alone.
takeOverScheduled(p) ==
    /\ proc[p] = "free" /\ events = {}
    /\ scheduled' = TRUE
    /\ proc' = [proc EXCEPT ![p] = "owner"]
    /\ UNCHANGED <<events, queued, worker, round, closed>>

\* state.CompareAndSwap(0, scheduledBit); when it fails Detach looks at closed
\* and closing, and tries again.
takeOver(p) ==
    /\ proc[p] = "free"
    /\ events = {} /\ ~scheduled
    /\ scheduled' = TRUE
    /\ proc' = [proc EXCEPT ![p] = "owner"]
    /\ UNCHANGED <<events, queued, worker, round, closed>>

\* Detach owns the task: a close was requested meanwhile and it gives the task
\* back, or it marks the connection closed and keeps the task for good.
Detach(p) ==
    /\ proc[p] = "owner"
    /\ \/ /\ proc' = [proc EXCEPT ![p] = "releasing"]
          /\ UNCHANGED closed
       \/ /\ proc' = [proc EXCEPT ![p] = "free"]
          /\ closed' = TRUE
    /\ UNCHANGED <<events, scheduled, queued, worker, round>>

\* Mutant of Released: the bit is cleared without comparing.
ReleasedBlindly == scheduled

\* release's CompareAndSwap(scheduledBit, 0) succeeds, or the holder goes on to
\* submit the task again.
Released == events = {} /\ scheduled

detachRelease(p) ==
    /\ proc[p] = "releasing"
    /\ scheduled' = (scheduled /\ ~Released)
    /\ proc' = [proc EXCEPT ![p] = IF Released THEN "free" ELSE "submitting"]
    /\ UNCHANGED <<events, queued, worker, round, closed>>

(***************************************************************************)
(* The executor's workers                                                  *)
(***************************************************************************)

\* The executor hands the queued task to a worker.
execute(w) ==
    /\ worker[w] = "free"
    /\ queued > 0
    /\ queued' = queued - 1
    /\ worker' = [worker EXCEPT ![w] = "starting"]
    /\ UNCHANGED <<events, scheduled, proc, round, closed>>

\* Mutant of runSwap: Swap(0), which lets the next notify submit a second task.
runSwapZero(w) ==
    /\ worker[w] = "starting"
    /\ round' = [round EXCEPT ![w] = events]
    /\ events' = {} /\ scheduled' = FALSE
    /\ worker' = [worker EXCEPT ![w] = "handling"]
    /\ UNCHANGED <<queued, proc, closed>>

\* ev := state.Swap(scheduledBit)
runSwap(w) ==
    /\ worker[w] = "starting"
    /\ round' = [round EXCEPT ![w] = events]
    /\ events' = {}
    /\ scheduled' = TRUE
    /\ worker' = [worker EXCEPT ![w] = "handling"]
    /\ UNCHANGED <<queued, proc, closed>>

\* The round notifies its own connection (read, flush and the close requests
\* do); were the bit clear, it would submit a second task.
handleNotify(w, evs) ==
    /\ worker[w] = "handling"
    /\ Or(evs)
    /\ queued' = IF scheduled THEN queued ELSE queued + 1
    /\ UNCHANGED <<proc, worker, round, closed>>

\* The round is over: it closed the connection (whose task is never released)
\* or the task is released.
handleDone(w) ==
    /\ worker[w] = "handling"
    /\ round' = [round EXCEPT ![w] = {}]
    /\ \/ /\ closed' = TRUE
          /\ worker' = [worker EXCEPT ![w] = "free"]
       \/ /\ worker' = [worker EXCEPT ![w] = "releasing"]
          /\ UNCHANGED closed
    /\ UNCHANGED <<events, scheduled, queued, proc>>

release(w) ==
    /\ worker[w] = "releasing"
    /\ scheduled' = (scheduled /\ ~Released)
    /\ worker' = [worker EXCEPT ![w] = IF Released THEN "free" ELSE "submitting"]
    /\ UNCHANGED <<events, queued, proc, round, closed>>

runSchedule(w) ==
    /\ worker[w] = "submitting"
    /\ queued' = queued + 1
    /\ worker' = [worker EXCEPT ![w] = "free"]
    /\ UNCHANGED <<events, scheduled, proc, round, closed>>

\* A callback of a UDP socket's round panics: state.Or(ev), with the bit still set.
runPanic(w) ==
    /\ worker[w] = "handling"
    /\ events' = events \cup round[w]
    /\ round' = [round EXCEPT ![w] = {}]
    /\ worker' = [worker EXCEPT ![w] = "panicked"]
    /\ UNCHANGED <<scheduled, queued, proc, closed>>

\* It then queues exactly one more task.
panicSchedule(w) ==
    /\ worker[w] = "panicked"
    /\ queued' = queued + 1
    /\ worker' = [worker EXCEPT ![w] = "free"]
    /\ UNCHANGED <<events, scheduled, proc, round, closed>>

ProcStep(p) == \/ \E evs \in (SUBSET Events) \ {{}} : notify(p, evs)
               \/ schedule(p) \/ takeOver(p) \/ Detach(p) \/ detachRelease(p)

WorkerStep(w) == \/ execute(w) \/ runSwap(w)
                 \/ \E evs \in (SUBSET Events) \ {{}} : handleNotify(w, evs)
                 \/ handleDone(w) \/ release(w) \/ runSchedule(w)
                 \/ runPanic(w) \/ panicSchedule(w)

Next == (\E p \in Procs : ProcStep(p)) \/ (\E w \in Workers : WorkerStep(w))

Spec == Init /\ [][Next]_vars

\* The calls a goroutine finishes and the rounds a worker finishes once begun:
\* callbacks return (task_unix.go requires them to).
ProcGoesOn(p) == schedule(p) \/ Detach(p) \/ detachRelease(p)
WorkerGoesOn(w) == \/ runSwap(w) \/ handleDone(w) \/ release(w) \/ runSchedule(w)
                   \/ panicSchedule(w)

(***************************************************************************)
(* Properties                                                              *)
(***************************************************************************)

\* Somebody who will run the task or give it up: the invariant below says
\* there is at most one, the place the "at most one task" of notify rests on.
ProcHolds(p) == proc[p] # "free"
WorkerHolds(w) == worker[w] # "free"

\* A connection has at most one task at a time (comment on conn.notify): the
\* task is queued at most once, and whoever submits, runs, releases or has
\* taken over the task is alone.
AtMostOneTask ==
    /\ queued \in {0, 1}
    /\ \A p, q \in Procs : ProcHolds(p) /\ ProcHolds(q) => p = q
    /\ \A v, w \in Workers : WorkerHolds(v) /\ WorkerHolds(w) => v = w
    /\ \A p \in Procs, w \in Workers : ~(ProcHolds(p) /\ WorkerHolds(w))
    /\ queued = 1 => (\A p \in Procs : ~ProcHolds(p)) /\ (\A w \in Workers : ~WorkerHolds(w))

\* No events are lost (comment on conn.notify): while an event is pending, on a
\* connection that is not closed, the task is queued or somebody holds it.
NoEventStranded ==
    (events # {} /\ ~closed) =>
        queued = 1 \/ (\E p \in Procs : ProcHolds(p)) \/ (\E w \in Workers : WorkerHolds(w))

\* A closed or detached connection runs no further round: its task is in nobody's
\* hands for ever, so nothing touches its fd, which may already be reused.
ClosedHasNoTask ==
    closed => /\ queued = 0
              /\ \A p \in Procs : ~ProcHolds(p)
              /\ \A w \in Workers : ~WorkerHolds(w)

\* What the comment on conn.notify promises, and run's use of it: one task at
\* most, one whenever there is an event to handle, none once the connection is gone.
TaskIsExact == AtMostOneTask /\ NoEventStranded /\ ClosedHasNoTask

\* The state word implements the promise of SerialTask: pending events are the
\* word's, and a round runs from its Swap to its release.
Running == \/ \E w \in Workers : worker[w] \in {"handling", "panicked", "releasing"}
           \/ \E p \in Procs : proc[p] \in {"owner", "releasing"}

abstractPhase == IF closed THEN "gone"
                 ELSE IF Running THEN "running"
                 ELSE IF scheduled THEN "queued" ELSE "idle"

Abstract == INSTANCE SerialTask WITH pending <- events, phase <- abstractPhase

ImplementsSerialTask == Abstract!Spec

\* Every event notified is taken by a round sooner or later, unless the
\* connection is closed or detached.
EventsAreTaken == Abstract!EventuallyTaken

=============================================================================
