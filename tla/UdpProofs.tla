----------------------------- MODULE UdpProofs -----------------------------
(***************************************************************************)
(* The state word, and the UDP server that uses it.                        *)
(*                                                                         *)
(* For any sets of events, goroutines and workers, the state word          *)
(* (TaskWord) gives a connection at most one task, strands no event,       *)
(* leaves a closed connection without a task, and implements SerialTask.   *)
(* AtMostOneTask is not inductive alone: notify submits only when it finds *)
(* scheduledBit clear, so a second task is excluded only if the bit is set *)
(* whenever somebody holds the task.  That is TokenIffScheduled.           *)
(*                                                                         *)
(* For any number of pollers, workers, writers and closers and any round   *)
(* budget, a UDP server's steps on the state word are TaskWord's and       *)
(* UdpIsExact holds (Udp).  FdIsOpen is not inductive: a round reads       *)
(* without mu, so it needs that only the round of evShutdown closes a      *)
(* socket that is served, that this round is alone, and that the task is   *)
(* held by nobody afterwards.  These are TaskWord's IInv and the conjuncts *)
(* of UInv.                                                                *)
(***************************************************************************)
EXTENDS Udp, TLAPS

(***************************************************************************)
(* The state word                                                          *)
(***************************************************************************)

\* The task is queued or somebody holds it.
Held == \/ queued # 0
        \/ \E p \in Procs : ProcHolds(p)
        \/ \E w \in Workers : WorkerHolds(w)

\* scheduledBit is set exactly while the task is queued or held, or the
\* connection is closed, and events are pending only while it is set.
TokenIffScheduled ==
    /\ scheduled <=> (Held \/ closed)
    /\ events # {} => scheduled

\* A task that is submitted, queued or panicked has events to handle, and a round
\* has some: no round runs for nothing.
TaskHasEvents ==
    /\ \/ queued # 0
       \/ \E p \in Procs : proc[p] = "submitting"
       \/ \E w \in Workers : worker[w] \in {"starting", "panicked", "submitting"}
       => events # {}
    /\ \A w \in Workers : worker[w] = "handling" => round[w] # {}

IInv == TypeOK /\ AtMostOneTask /\ ClosedHasNoTask /\ TokenIffScheduled /\ TaskHasEvents

\* The inductive invariant holds initially: the word is zero and nobody holds
\* the task.
LEMMA InitIInv == Init => IInv
  <1> SUFFICES ASSUME Init PROVE IInv
    OBVIOUS
  <1>1. TypeOK
    BY DEF Init, TypeOK, ProcStates, WorkerStates
  <1>2. ~Held
    BY DEF Init, Held, ProcHolds, WorkerHolds
  <1>3. QED
    BY <1>1, <1>2 DEF Init, IInv, AtMostOneTask, ClosedHasNoTask, TokenIffScheduled, TaskHasEvents,
                      Held, ProcHolds, WorkerHolds

\* Every atomic access of a goroutine (notify, schedule, takeOver, Detach and its
\* release) preserves the inductive invariant.
LEMMA ProcIInv == ASSUME IInv, NEW p \in Procs, ProcStep(p) PROVE IInv'
  <1> USE DEF IInv, TypeOK, AtMostOneTask, ClosedHasNoTask, TokenIffScheduled, TaskHasEvents,
              Held, ProcHolds, WorkerHolds, ProcStates, WorkerStates
  <1>1. CASE \E evs \in (SUBSET Events) \ {{}} : notify(p, evs)
    <2> PICK evs \in (SUBSET Events) \ {{}} : notify(p, evs)
      BY <1>1
    <2>0. events' # {}
      <3>1. events' = events \cup evs
        BY DEF notify, Or
      <3>2. evs # {}
        BY Zenon
      <3>3. QED
        BY <3>1, <3>2, Zenon
    <2>1. TypeOK' /\ events' # {}
      <3>1. events' \in SUBSET Events
        BY DEF notify, Or
      <3>2. QED
        BY <2>0, <3>1 DEF notify, Or
    <2>2. CASE scheduled
      BY <2>1, <2>2 DEF notify, Or
    <2>3. CASE ~scheduled
      BY <2>1, <2>3 DEF notify, Or
    <2>4. QED
      BY <2>2, <2>3
  <1>2. CASE schedule(p)
    BY <1>2 DEF schedule
  <1>3. CASE takeOver(p)
    BY <1>3 DEF takeOver
  <1>4. CASE Detach(p)
    <2>1. scheduled /\ ~closed
      BY <1>4 DEF Detach
    <2>2. TypeOK' /\ UNCHANGED <<events, scheduled, queued>>
      BY <1>4 DEF Detach
    <2>3. CASE closed' = TRUE /\ proc' = [proc EXCEPT ![p] = "free"]
      <3>1. ~Held'
        BY <1>4, <2>3 DEF Detach
      <3>2. QED
        BY <2>1, <2>2, <2>3, <3>1
    <2>4. CASE UNCHANGED closed /\ proc' = [proc EXCEPT ![p] = "releasing"]
      BY <1>4, <2>1, <2>2, <2>4 DEF Detach
    <2>5. QED
      BY <1>4, <2>3, <2>4 DEF Detach
  <1>5. CASE detachRelease(p)
    BY <1>5 DEF detachRelease, Released
  <1>6. QED
    BY <1>1, <1>2, <1>3, <1>4, <1>5 DEF ProcStep

\* So does every step of a worker (taking the task, the Swap, notifying itself,
\* finishing the round, release and submitting again).
LEMMA WorkerIInv == ASSUME IInv, NEW w \in Workers, WorkerStep(w) PROVE IInv'
  <1> USE DEF IInv, TypeOK, AtMostOneTask, ClosedHasNoTask, TokenIffScheduled, TaskHasEvents,
              Held, ProcHolds, WorkerHolds, ProcStates, WorkerStates
  <1>1. CASE execute(w)
    BY <1>1 DEF execute
  <1>2. CASE runSwap(w)
    BY <1>2 DEF runSwap
  <1>3. CASE \E evs \in (SUBSET Events) \ {{}} : handleNotify(w, evs)
    <2> PICK evs \in SUBSET Events : handleNotify(w, evs)
      BY <1>3
    <2>1. scheduled
      BY DEF handleNotify
    <2>2. TypeOK'
      BY <2>1 DEF handleNotify, Or
    <2>3. QED
      BY <2>1, <2>2 DEF handleNotify, Or
  <1>4. CASE handleDone(w)
    <2>1. scheduled /\ ~closed
      BY <1>4 DEF handleDone
    <2>2. TypeOK' /\ UNCHANGED <<events, scheduled, queued>>
      BY <1>4 DEF handleDone
    <2>3. CASE closed' = TRUE /\ worker' = [worker EXCEPT ![w] = "free"]
      <3>1. ~Held'
        BY <1>4, <2>3 DEF handleDone
      <3>2. QED
        BY <2>1, <2>2, <2>3, <3>1
    <2>4. CASE UNCHANGED closed /\ worker' = [worker EXCEPT ![w] = "releasing"]
      BY <1>4, <2>1, <2>2, <2>4 DEF handleDone
    <2>5. QED
      BY <1>4, <2>3, <2>4 DEF handleDone
  <1>5. CASE release(w)
    BY <1>5 DEF release, Released
  <1>6. CASE runSchedule(w)
    BY <1>6 DEF runSchedule
  <1>7. CASE runPanic(w)
    BY <1>7 DEF runPanic
  <1>8. CASE panicSchedule(w)
    BY <1>8 DEF panicSchedule
  <1>9. QED
    BY <1>1, <1>2, <1>3, <1>4, <1>5, <1>6, <1>7, <1>8 DEF WorkerStep

\* No step of the word, nor one that leaves it alone, breaks the inductive invariant.
LEMMA NextIInv == ASSUME IInv, [Next]_vars PROVE IInv'
  <1>1. CASE Next
    BY <1>1, ProcIInv, WorkerIInv DEF Next
  <1>2. CASE UNCHANGED vars
    BY <1>2 DEF vars, IInv, TypeOK, AtMostOneTask, ClosedHasNoTask,
                TokenIffScheduled, TaskHasEvents, Held, ProcHolds, WorkerHolds
  <1>3. QED
    BY <1>1, <1>2

\* The inductive invariant of the state word holds in every reachable state.
THEOREM Invariance == Spec => []IInv
  BY InitIInv, NextIInv, PTL DEF Spec

\* The word holds events and scheduledBit only, and every goroutine stays at a
\* step of notify, run or tryTakeOver.
THEOREM TypeCorrect == Spec => []TypeOK
  BY Invariance, PTL DEF IInv

\* conn.notify's "at most one task at a time" and "no events are lost", and no
\* task for a connection that is gone, for any number of goroutines and workers.
THEOREM TaskSafety == Spec => []TaskIsExact
  <1>1. IInv => NoEventStranded
    BY DEF IInv, AtMostOneTask, TokenIffScheduled, Held, NoEventStranded
  <1>2. IInv => TaskIsExact
    BY <1>1 DEF IInv, TaskIsExact
  <1>3. QED
    BY Invariance, <1>2, PTL

\* A goroutine's step is a Notify, TakeOver, End or Retire of SerialTask, or
\* changes nothing SerialTask sees (submitting the task).
LEMMA ProcRefines ==
  ASSUME IInv, IInv', NEW p \in Procs, ProcStep(p)
  PROVE  [Abstract!Next]_(Abstract!vars)
  <1> USE DEF IInv, TypeOK, AtMostOneTask, ClosedHasNoTask, TokenIffScheduled, TaskHasEvents,
              Held, ProcHolds, WorkerHolds, ProcStates, WorkerStates,
              abstractPhase, Running
  <1>1. ASSUME NEW evs \in (SUBSET Events) \ {{}}, notify(p, evs)
        PROVE  Abstract!Next
    <2>1. Running' <=> Running
      BY <1>1 DEF notify, Or
    <2>2. Abstract!Notify(evs)
      BY <1>1, <2>1 DEF notify, Or, Abstract!Notify
    <2>3. QED
      BY <2>2 DEF Abstract!Next
  <1>2. CASE schedule(p)
    BY <1>2 DEF schedule, Abstract!vars
  <1>3. CASE takeOver(p)
    BY <1>3 DEF takeOver, Abstract!TakeOver, Abstract!Next
  <1>4. CASE Detach(p)
    <2>1. ~closed /\ Running
      BY <1>4 DEF Detach
    <2>2. CASE closed' = TRUE
      BY <1>4, <2>1, <2>2 DEF Detach, Abstract!Retire, Abstract!Next
    <2>3. CASE UNCHANGED closed
      BY <1>4, <2>1, <2>3 DEF Detach, Abstract!vars
    <2>4. QED
      BY <1>4, <2>2, <2>3 DEF Detach
  <1>5. CASE detachRelease(p)
    <2>1. ~closed /\ Running /\ ~Running'
      BY <1>5 DEF detachRelease, Released
    <2>2. Abstract!End
      BY <1>5, <2>1 DEF detachRelease, Released, Abstract!End
    <2>3. QED
      BY <2>2 DEF Abstract!Next
  <1>6. QED
    BY <1>1, <1>2, <1>3, <1>4, <1>5 DEF ProcStep

\* A worker's step is a Begin, Notify, End or Retire of SerialTask, or changes
\* nothing SerialTask sees (moving the task from the queue to the worker).
LEMMA WorkerRefines ==
  ASSUME IInv, IInv', NEW w \in Workers, WorkerStep(w)
  PROVE  [Abstract!Next]_(Abstract!vars)
  <1> USE DEF IInv, TypeOK, AtMostOneTask, ClosedHasNoTask, TokenIffScheduled, TaskHasEvents,
              Held, ProcHolds, WorkerHolds, ProcStates, WorkerStates,
              abstractPhase, Running
  <1>1. CASE execute(w)
    BY <1>1 DEF execute, Abstract!vars
  <1>2. CASE runSwap(w)
    <2>1. ~closed /\ ~Running /\ Running' /\ scheduled
      BY <1>2 DEF runSwap
    <2>2. QED
      BY <1>2, <2>1 DEF runSwap, Abstract!Begin, Abstract!Next
  <1>3. ASSUME NEW evs \in (SUBSET Events) \ {{}}, handleNotify(w, evs)
        PROVE  Abstract!Next
    <2>1. ~closed /\ Running /\ Running' /\ UNCHANGED closed
      BY <1>3 DEF handleNotify, Or
    <2>2. Abstract!Notify(evs)
      BY <1>3, <2>1 DEF handleNotify, Or, Abstract!Notify
    <2>3. QED
      BY <2>2 DEF Abstract!Next
  <1>4. CASE handleDone(w)
    <2>1. ~closed /\ Running
      BY <1>4 DEF handleDone
    <2>2. CASE closed' = TRUE
      BY <1>4, <2>1, <2>2 DEF handleDone, Abstract!Retire, Abstract!Next
    <2>3. CASE UNCHANGED closed
      BY <1>4, <2>1, <2>3 DEF handleDone, Abstract!vars
    <2>4. QED
      BY <1>4, <2>2, <2>3 DEF handleDone
  <1>5. CASE release(w)
    <2>1. ~closed /\ Running /\ ~Running'
      BY <1>5 DEF release, Released
    <2>2. Abstract!End
      BY <1>5, <2>1 DEF release, Released, Abstract!End
    <2>3. QED
      BY <2>2 DEF Abstract!Next
  <1>6. CASE runSchedule(w)
    BY <1>6 DEF runSchedule, Abstract!vars
  <1>7. CASE runPanic(w)
    <2>0. worker[w] = "handling" /\ worker'[w] = "panicked"
      BY <1>7 DEF runPanic
    <2>1. ~closed /\ Running /\ Running' /\ UNCHANGED closed
      BY <1>7, <2>0 DEF runPanic
    <2>2. round[w] \in SUBSET Events
      BY DEF TypeOK
    <2>3. round[w] # {}
      BY <2>0
    <2>3a. round[w] \notin {{}}
      BY <2>3, Zenon
    <2>4. PICK evs \in (SUBSET Events) \ {{}} : evs = round[w]
      BY <2>2, <2>3a, Zenon
    <2>5. Abstract!Notify(evs)
      BY <1>7, <2>1, <2>4 DEF runPanic, Abstract!Notify
    <2>6. QED
      BY <2>5 DEF Abstract!Next
  <1>8. CASE panicSchedule(w)
    <2>0. worker[w] = "panicked" /\ worker'[w] = "free"
      BY <1>8 DEF panicSchedule
    <2>1. ~closed /\ Running /\ events # {} /\ scheduled
      BY <2>0
    <2>1a. ~Running'
      BY <1>8, <2>0 DEF panicSchedule
    <2>2. Abstract!End
      BY <1>8, <2>1, <2>1a DEF panicSchedule, Abstract!End
    <2>3. QED
      BY <2>2 DEF Abstract!Next
  <1>9. QED
    BY <1>1, <1>2, <1>3, <1>4, <1>5, <1>6, <1>7, <1>8 DEF WorkerStep

\* The state word implements SerialTask: rounds never overlap and take every
\* event pending when they start, whatever the goroutines and workers do.
THEOREM Refinement == Spec => ImplementsSerialTask
  <1>1. Init => Abstract!Init
    BY DEF Init, Abstract!Init, abstractPhase, Running
  <1>2. IInv /\ IInv' /\ [Next]_vars => [Abstract!Next]_(Abstract!vars)
    <2> SUFFICES ASSUME IInv, IInv', [Next]_vars
                 PROVE  [Abstract!Next]_(Abstract!vars)
      OBVIOUS
    <2>1. CASE Next
      BY <2>1, ProcRefines, WorkerRefines DEF Next
    <2>2. CASE UNCHANGED vars
      BY <2>2 DEF vars, Abstract!vars, abstractPhase, Running
    <2>3. QED
      BY <2>1, <2>2
  <1>3. QED
    BY Invariance, <1>1, <1>2, PTL DEF Spec, Abstract!Spec, ImplementsSerialTask

(***************************************************************************)
(* The UDP server                                                          *)
(***************************************************************************)

Handling(w) == worker[w] = "handling"

\* Where a round is tells which events it has and whether the socket is open.
RoundsAreExact ==
    \A w \in Workers : Handling(w) =>
        /\ at[w] \in {"lock", "uncount", "kept"} => evShutdown \in round[w]
        /\ at[w] \in {"recv", "panic", "over"} => evShutdown \notin round[w]
        /\ open <=> at[w] \notin {"uncount", "kept"}

\* Only read and shutdown events are notified, and the latter only once Serve drains.
ToldByServe ==
    /\ events \subseteq {evRead, evShutdown}
    /\ \A w \in Workers : round[w] \subseteq {evRead, evShutdown}
    /\ \/ evShutdown \in events
       \/ \E w \in Workers : evShutdown \in round[w]
       => serving \in {"waiting", "stopping", "done"}

\* A socket was closed by the Close of a server that never serves, or by its task.
ClosedBy ==
    /\ ~open => \/ serving = "no" /\ down /\ \A k \in Closers : closer[k] # "releasing"
                \/ closed
                \/ \E w \in Workers : Handling(w) /\ at[w] \in {"uncount", "kept"}
    /\ closed => ~open
    /\ serving \in {"begun", "counted", "yes"} => open
    /\ serving \in {"stopping", "done"} => ~open

CountedWhile ==
    /\ counted <=> \/ serving \in {"counted", "yes"}
                   \/ /\ serving = "waiting"
                      /\ open \/ \E w \in Workers : Handling(w) /\ at[w] = "uncount"
    /\ waits = (IF counted /\ serving # "counted" THEN 1 ELSE 0)
    /\ \A w \in Workers : Handling(w) /\ at[w] = "uncount" => counted

\* Who runs while Serve is where: nobody before it starts its workers, no poller after
\* it has stopped them, and the one Close that releases instead of Serve.
Goroutines ==
    /\ serving \in {"no", "begun", "counted"} => ~scheduled /\ \A p \in Pollers : ~poller[p]
    /\ serving = "done" => \A p \in Pollers : proc[p] = "free" /\ ~poller[p]
    /\ proc[serve] # "free" => serving = "waiting"
    /\ \A p \in Procs : p \in Pollers \cup {serve} \/ proc[p] = "free"
    /\ \A k \in Closers : closer[k] = "releasing" => serving = "no" /\ down /\ open
    /\ \A j, k \in Closers : closer[j] = "releasing" /\ closer[k] = "releasing" => j = k

WritersLock == \A x \in Writers : writer[x] => open

UInv == /\ IInv /\ UdpTypeOK
        /\ RoundsAreExact /\ ToldByServe /\ ClosedBy /\ CountedWhile /\ Goroutines /\ WritersLock
        /\ NoPacketStranded

\* Every access of a UDP server to its socket's state word is one of TaskWord's.
LEMMA UdpIsWord == ASSUME UdpNext PROVE [Next]_vars
  <1> USE UdpAssumption
  <1>1. {evRead} \in (SUBSET Events) \ {{}} /\ {evShutdown} \in (SUBSET Events) \ {{}}
    OBVIOUS
  <1>2. ASSUME NEW p \in Procs, udpSchedule(p) PROVE Next
    BY <1>2 DEF udpSchedule, Next, ProcStep
  <1>3. CASE ServeStep
    <2>1. CASE serveShutdown
      BY <1>1, <2>1 DEF serveShutdown, Next, ProcStep
    <2>2. CASE udpSchedule(serve)
      BY <1>2, <2>2
    <2>3. QED
      BY <1>3, <2>1, <2>2 DEF ServeStep, serveCount, startServe, serveWait, serveStop
  <1>4. ASSUME NEW p \in Pollers, PollerStep(p) PROVE [Next]_vars
    <2>1. CASE runBatch(p)
      BY <1>1, <2>1 DEF runBatch, Next, ProcStep
    <2>2. QED
      BY <1>2, <1>4, <2>1 DEF PollerStep, poll
  <1>5. ASSUME NEW w \in Workers, udpExecute(w) \/ RoundStep(w) PROVE [Next]_vars
    <2>1. CASE spent(w)
      BY <1>1, <2>1 DEF spent, Next, WorkerStep
    <2>2. CASE handleShutdown(w) \/ shutdownClose(w) \/ shutdownUncount(w) \/ handleRead(w)
               \/ OnPacket(w) \/ drained(w)
      BY <2>2 DEF handleShutdown, shutdownClose, shutdownUncount, handleRead, OnPacket, drained
    <2>3. QED
      BY <1>5, <2>1, <2>2 DEF RoundStep, udpExecute, udpSwap, udpPanic, udpPanicSchedule, udpDone,
                              udpRelease, udpResubmit, Next, WorkerStep
  <1>6. QED
    BY <1>3, <1>4, <1>5 DEF UdpNext, arrive, beginServe, writeTo, sent, closeWith, CloseStep,
                            closeReleases, closeReturns

\* A server starts with its socket open, nobody serving and an idle state word.
LEMMA UdpInitInv == UdpInit => UInv
  <1> SUFFICES ASSUME UdpInit PROVE UInv
    OBVIOUS
  <1>1. IInv
    BY InitIInv DEF UdpInit
  <1>2. UdpTypeOK
    <2>2. /\ at \in [Workers -> AtStates]
          /\ count \in [Workers -> Nat]
      BY DEF UdpInit, AtStates
    <2>3. TypeOK
      BY <1>1 DEF IInv
    <2>4. rx \in Nat /\ coming \in Nat /\ panics \in Nat /\ waits \in Int
      BY UdpAssumption DEF UdpInit
    <2>5. poller \in [Pollers -> BOOLEAN] /\ writer \in [Writers -> BOOLEAN]
      BY Zenon DEF UdpInit
    <2>6. closer \in [Closers -> CloserStates] /\ serving \in ServeStates
      BY Zenon DEF UdpInit, CloserStates, ServeStates
    <2>7. QED
      BY <2>2, <2>3, <2>4, <2>5, <2>6, Zenon DEF UdpInit, UdpTypeOK
  <1>3. QED
    BY <1>1, <1>2, UdpAssumption DEF UdpInit, Init, UInv, RoundsAreExact, ToldByServe, ClosedBy, CountedWhile,
       Goroutines, WritersLock, NoPacketStranded, Handling

\* Serve and the arrival of datagrams preserve the invariant.
LEMMA ServeInv == ASSUME UInv, arrive \/ beginServe \/ ServeStep PROVE UInv'
  <1>0. IInv'
    BY UdpIsWord, NextIInv DEF UInv, UdpNext
  <1>t. /\ worker \in [Workers -> WorkerStates] /\ proc \in [Procs -> ProcStates]
        /\ round \in [Workers -> SUBSET Events] /\ at \in [Workers -> AtStates]
        /\ poller \in [Pollers -> BOOLEAN] /\ writer \in [Writers -> BOOLEAN]
        /\ closer \in [Closers -> CloserStates]
    BY DEF UInv, IInv, TypeOK, UdpTypeOK
  <1>u. /\ AtMostOneTask /\ ClosedHasNoTask /\ TokenIffScheduled /\ TaskHasEvents
        /\ RoundsAreExact /\ ToldByServe /\ ClosedBy /\ CountedWhile /\ Goroutines /\ WritersLock
        /\ NoPacketStranded /\ UdpTypeOK
    BY DEF UInv, IInv
  <1>z. TypeOK'
    BY <1>0 DEF IInv
  <1> USE UdpAssumption, <1>t, <1>u DEF Handling, vars, net, life
  <1>1. CASE arrive
    <2>1. UdpTypeOK'
      BY <1>z, <1>1 DEF arrive, UdpTypeOK, AtStates, ServeStates, CloserStates
    <2>2. ToldByServe' /\ Goroutines' /\ WritersLock'
      BY <1>1 DEF arrive, ToldByServe, Goroutines, WritersLock
    <2>3. RoundsAreExact'
      BY <1>1 DEF arrive, RoundsAreExact
    <2>4. ClosedBy'
      BY <1>1 DEF arrive, ClosedBy
    <2>5. CountedWhile'
      BY <1>1 DEF arrive, CountedWhile
    <2>6. NoPacketStranded'
      BY <1>1 DEF arrive, NoPacketStranded
    <2>7. QED
      BY <1>0, <2>1, <2>2, <2>3, <2>4, <2>5, <2>6 DEF UInv
  <1>2. CASE beginServe
    <2>1. UdpTypeOK'
      BY <1>z, <1>2 DEF beginServe, UdpTypeOK, AtStates, ServeStates, CloserStates
    <2>2. ToldByServe' /\ Goroutines' /\ WritersLock'
      BY <1>2 DEF beginServe, ToldByServe, Goroutines, WritersLock, ClosedBy
    <2>3. RoundsAreExact'
      BY <1>2 DEF beginServe, RoundsAreExact
    <2>4. ClosedBy'
      BY <1>2 DEF beginServe, ClosedBy, Goroutines, AtMostOneTask, ClosedHasNoTask, TokenIffScheduled, Held, ProcHolds, WorkerHolds
    <2>5. CountedWhile'
      BY <1>2 DEF beginServe, CountedWhile, ClosedBy, Goroutines
    <2>6. NoPacketStranded'
      BY <1>2 DEF beginServe, NoPacketStranded
    <2>7. QED
      BY <1>0, <2>1, <2>2, <2>3, <2>4, <2>5, <2>6 DEF UInv
  <1>3. CASE serveCount
    <2>1. UdpTypeOK'
      BY <1>z, <1>3 DEF serveCount, UdpTypeOK, AtStates, ServeStates, CloserStates
    <2>2. ToldByServe' /\ Goroutines' /\ WritersLock'
      BY <1>3 DEF serveCount, ToldByServe, Goroutines, WritersLock
    <2>3. RoundsAreExact'
      BY <1>3 DEF serveCount, RoundsAreExact
    <2>4. ClosedBy'
      BY <1>3 DEF serveCount, ClosedBy
    <2>5. CountedWhile'
      BY <1>3 DEF serveCount, CountedWhile, ClosedBy
    <2>6. NoPacketStranded'
      BY <1>3 DEF serveCount, NoPacketStranded
    <2>7. QED
      BY <1>0, <2>1, <2>2, <2>3, <2>4, <2>5, <2>6 DEF UInv
  <1>4. CASE startServe
    <2>1. UdpTypeOK'
      BY <1>z, <1>4 DEF startServe, UdpTypeOK, AtStates, ServeStates, CloserStates
    <2>2. ToldByServe' /\ Goroutines' /\ WritersLock'
      BY <1>4 DEF startServe, ToldByServe, Goroutines, WritersLock
    <2>3. RoundsAreExact'
      BY <1>4 DEF startServe, RoundsAreExact
    <2>4. ClosedBy'
      BY <1>4 DEF startServe, ClosedBy
    <2>5. CountedWhile'
      BY <1>4 DEF startServe, CountedWhile
    <2>6. NoPacketStranded'
      BY <1>4 DEF startServe, NoPacketStranded
    <2>7. QED
      BY <1>0, <2>1, <2>2, <2>3, <2>4, <2>5, <2>6 DEF UInv
  <1>5. CASE serveShutdown
    <2>1. UdpTypeOK'
      BY <1>z, <1>5 DEF serveShutdown, notify, Or, UdpTypeOK, AtStates, ServeStates, CloserStates
    <2>2. ToldByServe' /\ Goroutines' /\ WritersLock'
      BY <1>5 DEF serveShutdown, notify, Or, ToldByServe, Goroutines, WritersLock, ClosedBy
    <2>3. RoundsAreExact'
      BY <1>5 DEF serveShutdown, notify, Or, RoundsAreExact
    <2>4. ClosedBy'
      BY <1>5 DEF serveShutdown, notify, Or, ClosedBy
    <2>5. CountedWhile'
      BY <1>5 DEF serveShutdown, notify, Or, CountedWhile, ClosedBy
    <2>6. NoPacketStranded'
      BY <1>5 DEF serveShutdown, notify, Or, NoPacketStranded
    <2>7. QED
      BY <1>0, <2>1, <2>2, <2>3, <2>4, <2>5, <2>6 DEF UInv
  <1>6. CASE udpSchedule(serve)
    <2>1. UdpTypeOK'
      BY <1>z, <1>6 DEF udpSchedule, schedule, udpVars, UdpTypeOK, AtStates, ServeStates, CloserStates
    <2>2. ToldByServe' /\ Goroutines' /\ WritersLock'
      BY <1>6 DEF udpSchedule, schedule, udpVars, ToldByServe, Goroutines, WritersLock
    <2>3. RoundsAreExact'
      BY <1>6 DEF udpSchedule, schedule, udpVars, RoundsAreExact
    <2>4. ClosedBy'
      BY <1>6 DEF udpSchedule, schedule, udpVars, ClosedBy
    <2>5. CountedWhile'
      BY <1>6 DEF udpSchedule, schedule, udpVars, CountedWhile
    <2>6. NoPacketStranded'
      BY <1>6 DEF udpSchedule, schedule, udpVars, NoPacketStranded
    <2>7. QED
      BY <1>0, <2>1, <2>2, <2>3, <2>4, <2>5, <2>6 DEF UInv
  <1>7. CASE serveWait
    <2>1. UdpTypeOK'
      BY <1>z, <1>7 DEF serveWait, UdpTypeOK, AtStates, ServeStates, CloserStates
    <2>2. ToldByServe' /\ Goroutines' /\ WritersLock'
      BY <1>7 DEF serveWait, ToldByServe, Goroutines, WritersLock
    <2>3. RoundsAreExact'
      BY <1>7 DEF serveWait, RoundsAreExact
    <2>4. ClosedBy'
      BY <1>7 DEF serveWait, ClosedBy, CountedWhile
    <2>5. CountedWhile'
      BY <1>7 DEF serveWait, CountedWhile
    <2>6. NoPacketStranded'
      BY <1>7 DEF serveWait, NoPacketStranded
    <2>7. QED
      BY <1>0, <2>1, <2>2, <2>3, <2>4, <2>5, <2>6 DEF UInv
  <1>8. CASE serveStop
    <2>1. UdpTypeOK'
      BY <1>z, <1>8 DEF serveStop, UdpTypeOK, AtStates, ServeStates, CloserStates
    <2>2. ToldByServe' /\ Goroutines' /\ WritersLock'
      BY <1>8 DEF serveStop, ToldByServe, Goroutines, WritersLock
    <2>3. RoundsAreExact'
      BY <1>8 DEF serveStop, RoundsAreExact
    <2>4. ClosedBy'
      BY <1>8 DEF serveStop, ClosedBy, CountedWhile
    <2>5. CountedWhile'
      BY <1>8 DEF serveStop, CountedWhile
    <2>6. NoPacketStranded'
      BY <1>8 DEF serveStop, NoPacketStranded
    <2>7. QED
      BY <1>0, <2>1, <2>2, <2>3, <2>4, <2>5, <2>6 DEF UInv
  <1>9. QED
    BY <1>1, <1>2, <1>3, <1>4, <1>5, <1>6, <1>7, <1>8 DEF ServeStep

\* So do the pollers.
LEMMA PollerInv == ASSUME UInv, NEW p \in Pollers, PollerStep(p) PROVE UInv'
  <1>0. IInv'
    BY UdpIsWord, NextIInv DEF UInv, UdpNext
  <1>t. /\ worker \in [Workers -> WorkerStates] /\ proc \in [Procs -> ProcStates]
        /\ round \in [Workers -> SUBSET Events] /\ at \in [Workers -> AtStates]
        /\ poller \in [Pollers -> BOOLEAN] /\ writer \in [Writers -> BOOLEAN]
        /\ closer \in [Closers -> CloserStates]
    BY DEF UInv, IInv, TypeOK, UdpTypeOK
  <1>u. /\ AtMostOneTask /\ ClosedHasNoTask /\ TokenIffScheduled /\ TaskHasEvents
        /\ RoundsAreExact /\ ToldByServe /\ ClosedBy /\ CountedWhile /\ Goroutines /\ WritersLock
        /\ NoPacketStranded /\ UdpTypeOK
    BY DEF UInv, IInv
  <1>z. TypeOK'
    BY <1>0 DEF IInv
  <1> USE UdpAssumption, <1>t, <1>u DEF Handling, vars, net, life
  <1>1. CASE poll(p)
    <2>1. UdpTypeOK'
      BY <1>z, <1>1, Zenon DEF poll, Polling, UdpTypeOK, AtStates, ServeStates, CloserStates
    <2>2. ToldByServe' /\ Goroutines' /\ WritersLock'
      BY <1>1 DEF poll, Polling, ToldByServe, Goroutines, WritersLock
    <2>3. RoundsAreExact'
      BY <1>1 DEF poll, Polling, RoundsAreExact
    <2>4. ClosedBy'
      BY <1>1 DEF poll, Polling, ClosedBy
    <2>5. CountedWhile'
      BY <1>1 DEF poll, Polling, CountedWhile
    <2>6. NoPacketStranded'
      BY <1>1 DEF poll, Polling, NoPacketStranded
    <2>7. QED
      BY <1>0, <2>1, <2>2, <2>3, <2>4, <2>5, <2>6 DEF UInv
  <1>2. CASE runBatch(p)
    <2>1. UdpTypeOK'
      BY <1>z, <1>2 DEF runBatch, notify, Or, Polling, UdpTypeOK, AtStates, ServeStates, CloserStates
    <2>2. ToldByServe' /\ Goroutines' /\ WritersLock'
      BY <1>2 DEF runBatch, notify, Or, ToldByServe, Goroutines, WritersLock, Polling
    <2>3. RoundsAreExact'
      BY <1>2 DEF runBatch, notify, Or, RoundsAreExact
    <2>4. ClosedBy'
      BY <1>2 DEF runBatch, notify, Or, ClosedBy
    <2>5. CountedWhile'
      BY <1>2 DEF runBatch, notify, Or, CountedWhile
    <2>6. NoPacketStranded'
      BY <1>2 DEF runBatch, notify, Or, NoPacketStranded
    <2>7. QED
      BY <1>0, <2>1, <2>2, <2>3, <2>4, <2>5, <2>6 DEF UInv
  <1>3. CASE udpSchedule(p)
    <2>1. UdpTypeOK'
      BY <1>z, <1>3 DEF udpSchedule, schedule, udpVars, UdpTypeOK, AtStates, ServeStates, CloserStates
    <2>2. ToldByServe' /\ Goroutines' /\ WritersLock'
      BY <1>3 DEF udpSchedule, schedule, udpVars, ToldByServe, Goroutines, WritersLock
    <2>3. RoundsAreExact'
      BY <1>3 DEF udpSchedule, schedule, udpVars, RoundsAreExact
    <2>4. ClosedBy'
      BY <1>3 DEF udpSchedule, schedule, udpVars, ClosedBy
    <2>5. CountedWhile'
      BY <1>3 DEF udpSchedule, schedule, udpVars, CountedWhile
    <2>6. NoPacketStranded'
      BY <1>3 DEF udpSchedule, schedule, udpVars, NoPacketStranded
    <2>7. QED
      BY <1>0, <2>1, <2>2, <2>3, <2>4, <2>5, <2>6 DEF UInv
  <1>4. QED
    BY <1>1, <1>2, <1>3 DEF PollerStep

\* So does every step of a round.
LEMMA RoundInv == ASSUME UInv, NEW w \in Workers, udpExecute(w) \/ RoundStep(w) PROVE UInv'
  <1>0. IInv'
    BY UdpIsWord, NextIInv DEF UInv, UdpNext
  <1>t. /\ worker \in [Workers -> WorkerStates] /\ proc \in [Procs -> ProcStates]
        /\ round \in [Workers -> SUBSET Events] /\ at \in [Workers -> AtStates]
        /\ poller \in [Pollers -> BOOLEAN] /\ writer \in [Writers -> BOOLEAN]
        /\ closer \in [Closers -> CloserStates]
    BY DEF UInv, IInv, TypeOK, UdpTypeOK
  <1>u. /\ AtMostOneTask /\ ClosedHasNoTask /\ TokenIffScheduled /\ TaskHasEvents
        /\ RoundsAreExact /\ ToldByServe /\ ClosedBy /\ CountedWhile /\ Goroutines /\ WritersLock
        /\ NoPacketStranded /\ UdpTypeOK
    BY DEF UInv, IInv
  <1>z. TypeOK'
    BY <1>0 DEF IInv
  <1> USE UdpAssumption, <1>t, <1>u DEF Handling, vars, net, life
  <1>a. \A v \in Workers : worker[v] # "free" /\ worker[w] # "free" => v = w
    BY DEF AtMostOneTask, WorkerHolds
  <1>b. worker[w] # "free" => scheduled /\ ~closed /\ queued = 0 /\ \A p \in Procs : proc[p] = "free"
    BY DEF AtMostOneTask, ClosedHasNoTask, TokenIffScheduled, Held, ProcHolds, WorkerHolds
  <1>1. CASE udpExecute(w)
    <2>1. UdpTypeOK'
      BY <1>z, <1>1, Zenon DEF udpExecute, execute, udpVars, UdpTypeOK, AtStates, ServeStates, CloserStates
    <2>2. ToldByServe' /\ Goroutines' /\ WritersLock'
      BY <1>1, <1>a, <1>b, Zenon DEF udpExecute, execute, udpVars, ToldByServe, Goroutines, WritersLock
    <2>3. RoundsAreExact'
      BY <1>1, <1>a, <1>b, Zenon DEF udpExecute, execute, udpVars, RoundsAreExact
    <2>4. ClosedBy'
      BY <1>1, <1>a, <1>b, Zenon DEF udpExecute, execute, udpVars, ClosedBy, RoundsAreExact
    <2>5. CountedWhile'
      BY <1>1, <1>a, <1>b, Zenon DEF udpExecute, execute, udpVars, CountedWhile, ClosedBy, RoundsAreExact, ToldByServe
    <2>6. NoPacketStranded'
      BY <1>1, <1>a, <1>b DEF udpExecute, execute, udpVars, NoPacketStranded, RoundsAreExact, ToldByServe, TaskHasEvents
    <2>7. QED
      BY <1>0, <2>1, <2>2, <2>3, <2>4, <2>5, <2>6, Zenon DEF UInv
  <1>2. CASE udpSwap(w)
    <2>1. UdpTypeOK'
      BY <1>z, <1>2, Zenon DEF udpSwap, runSwap, UdpTypeOK, AtStates, ServeStates, CloserStates
    <2>2. ToldByServe' /\ Goroutines' /\ WritersLock'
      BY <1>2, <1>a, <1>b, Zenon DEF udpSwap, runSwap, ToldByServe, Goroutines, WritersLock
    <2>3. RoundsAreExact'
      BY <1>2, <1>a, <1>b, Zenon DEF udpSwap, runSwap, RoundsAreExact, ClosedBy, Goroutines
    <2>4. ClosedBy'
      BY <1>2, <1>a, <1>b, Zenon DEF udpSwap, runSwap, ClosedBy, RoundsAreExact
    <2>5. CountedWhile'
      BY <1>2, <1>a, <1>b, Zenon DEF udpSwap, runSwap, CountedWhile, ClosedBy, RoundsAreExact, ToldByServe
    <2>6. NoPacketStranded'
      BY <1>2, <1>a, <1>b DEF udpSwap, runSwap, NoPacketStranded, RoundsAreExact, ToldByServe, TaskHasEvents
    <2>7. QED
      BY <1>0, <2>1, <2>2, <2>3, <2>4, <2>5, <2>6 DEF UInv
  <1>3. CASE handleShutdown(w)
    <2>1. UdpTypeOK'
      BY <1>z, <1>3, Zenon DEF handleShutdown, UdpTypeOK, AtStates, ServeStates, CloserStates
    <2>2. ToldByServe' /\ Goroutines' /\ WritersLock'
      BY <1>3, <1>a, <1>b DEF handleShutdown, ToldByServe, Goroutines, WritersLock
    <2>3. RoundsAreExact'
      BY <1>3, <1>a, <1>b, Zenon DEF handleShutdown, RoundsAreExact
    <2>4. ClosedBy'
      BY <1>3, <1>a, <1>b, Zenon DEF handleShutdown, ClosedBy, RoundsAreExact
    <2>5. CountedWhile'
      BY <1>3, <1>a, <1>b, Zenon DEF handleShutdown, CountedWhile, ClosedBy, RoundsAreExact, ToldByServe
    <2>6. NoPacketStranded'
      BY <1>3, <1>a, <1>b DEF handleShutdown, NoPacketStranded, RoundsAreExact, ToldByServe, TaskHasEvents
    <2>7. QED
      BY <1>0, <2>1, <2>2, <2>3, <2>4, <2>5, <2>6 DEF UInv
  <1>4. CASE shutdownClose(w)
    <2>1. UdpTypeOK'
      BY <1>z, <1>4, Zenon DEF shutdownClose, Locked, closeFd, UdpTypeOK, AtStates, ServeStates, CloserStates
    <2>2. ToldByServe' /\ Goroutines' /\ WritersLock'
      BY <1>4, <1>a, <1>b, Zenon DEF shutdownClose, Locked, closeFd, RoundsAreExact, ToldByServe,
                                    Goroutines, WritersLock
    <2>3. RoundsAreExact'
      BY <1>4, <1>a, <1>b, Zenon DEF shutdownClose, Locked, closeFd, RoundsAreExact
    <2>4. ClosedBy'
      BY <1>4, <1>a, <1>b, Zenon DEF shutdownClose, Locked, closeFd, ClosedBy, RoundsAreExact, ToldByServe
    <2>5. CountedWhile'
      BY <1>4, <1>a, <1>b, Zenon DEF shutdownClose, Locked, closeFd, CountedWhile, ClosedBy, RoundsAreExact, ToldByServe
    <2>6. NoPacketStranded'
      BY <1>4, <1>a, <1>b DEF shutdownClose, Locked, closeFd, NoPacketStranded, RoundsAreExact, ToldByServe, TaskHasEvents
    <2>7. QED
      BY <1>0, <2>1, <2>2, <2>3, <2>4, <2>5, <2>6 DEF UInv
  <1>5. CASE shutdownUncount(w)
    <2>0. waits' \in Int
      BY <1>5 DEF shutdownUncount, Uncount
    <2>1. UdpTypeOK'
      BY <1>z, <2>0, <1>5, Zenon DEF shutdownUncount, Uncount, UdpTypeOK, AtStates, ServeStates, CloserStates
    <2>2. ToldByServe' /\ Goroutines' /\ WritersLock'
      BY <2>0, <1>5, <1>a, <1>b, Zenon DEF shutdownUncount, Uncount, ToldByServe, Goroutines, WritersLock
    <2>3. RoundsAreExact'
      BY <1>5, <1>a, <1>b, Zenon DEF shutdownUncount, Uncount, RoundsAreExact
    <2>4. ClosedBy'
      BY <1>5, <1>a, <1>b, Zenon DEF shutdownUncount, Uncount, ClosedBy, RoundsAreExact
    <2>5. CountedWhile'
      <3>1. Handling(w) /\ at[w] = "uncount" /\ counted /\ ~open
        BY <1>5, Zenon DEF shutdownUncount, CountedWhile, RoundsAreExact
      <3>2. serving \notin {"counted", "yes"}
        BY <3>1, Zenon DEF ClosedBy
      <3>3. waits = 1
        BY <3>1, <3>2, Zenon DEF CountedWhile
      <3>4. ~counted' /\ waits' = 0
        BY <1>5, <3>1, <3>3, SMT DEF shutdownUncount, Uncount
      <3>5. \A v \in Workers : ~(Handling(v)' /\ at'[v] = "uncount")
        BY <1>5, <1>a, <3>1, Zenon DEF shutdownUncount
      <3>6. ~open' /\ serving' = serving
        BY <1>5, <3>1, Zenon DEF shutdownUncount
      <3>7. QED
        BY <3>2, <3>4, <3>5, <3>6, Zenon DEF CountedWhile
    <2>6. NoPacketStranded'
      BY <1>5, <1>a, <1>b, Zenon DEF shutdownUncount, Uncount, NoPacketStranded, RoundsAreExact, ToldByServe, TaskHasEvents
    <2>7. QED
      BY <1>0, <2>1, <2>2, <2>3, <2>4, <2>5, <2>6 DEF UInv
  <1>6. CASE handleRead(w)
    <2>1. UdpTypeOK'
      BY <1>z, <1>6, Zenon DEF handleRead, UdpTypeOK, AtStates, ServeStates, CloserStates
    <2>2. ToldByServe' /\ Goroutines' /\ WritersLock'
      BY <1>6, <1>a, <1>b, Zenon DEF handleRead, ToldByServe, Goroutines, WritersLock
    <2>3. RoundsAreExact'
      BY <1>6, <1>a, <1>b, Zenon DEF handleRead, RoundsAreExact
    <2>4. ClosedBy'
      BY <1>6, <1>a, <1>b, Zenon DEF handleRead, ClosedBy, RoundsAreExact
    <2>5. CountedWhile'
      BY <1>6, <1>a, <1>b, Zenon DEF handleRead, CountedWhile, ClosedBy, RoundsAreExact, ToldByServe
    <2>6. NoPacketStranded'
      BY <1>6, <1>a, <1>b, Zenon DEF handleRead, NoPacketStranded, RoundsAreExact, ToldByServe, TaskHasEvents
    <2>7. QED
      BY <1>0, <2>1, <2>2, <2>3, <2>4, <2>5, <2>6 DEF UInv
  <1>7. CASE OnPacket(w)
    <2>1. UdpTypeOK'
      BY <1>z, <1>7 DEF OnPacket, UdpTypeOK, AtStates, ServeStates, CloserStates
    <2>2. ToldByServe' /\ Goroutines' /\ WritersLock'
      BY <1>7, <1>a, <1>b, Zenon DEF OnPacket, ToldByServe, Goroutines, WritersLock
    <2>3. RoundsAreExact'
      BY <1>7, <1>a, <1>b, Zenon DEF OnPacket, RoundsAreExact
    <2>4. ClosedBy'
      BY <1>7, <1>a, <1>b, Zenon DEF OnPacket, ClosedBy, RoundsAreExact
    <2>5. CountedWhile'
      BY <1>7, <1>a, <1>b, Zenon DEF OnPacket, CountedWhile, ClosedBy, RoundsAreExact, ToldByServe
    <2>6. NoPacketStranded'
      BY <1>7, <1>a, <1>b, Zenon DEF OnPacket, NoPacketStranded, RoundsAreExact, ToldByServe, TaskHasEvents
    <2>7. QED
      BY <1>0, <2>1, <2>2, <2>3, <2>4, <2>5, <2>6 DEF UInv
  <1>8. CASE drained(w)
    <2>1. UdpTypeOK'
      BY <1>z, <1>8, Zenon DEF drained, UdpTypeOK, AtStates, ServeStates, CloserStates
    <2>2. ToldByServe' /\ Goroutines' /\ WritersLock'
      BY <1>8, <1>a, <1>b, Zenon DEF drained, ToldByServe, Goroutines, WritersLock
    <2>3. RoundsAreExact'
      BY <1>8, <1>a, <1>b, Zenon DEF drained, RoundsAreExact
    <2>4. ClosedBy'
      BY <1>8, <1>a, <1>b, Zenon DEF drained, ClosedBy, RoundsAreExact
    <2>5. CountedWhile'
      BY <1>8, <1>a, <1>b, Zenon DEF drained, CountedWhile, ClosedBy, RoundsAreExact, ToldByServe
    <2>6. NoPacketStranded'
      BY <1>8, <1>a, <1>b DEF drained, NoPacketStranded, RoundsAreExact, ToldByServe, TaskHasEvents
    <2>7. QED
      BY <1>0, <2>1, <2>2, <2>3, <2>4, <2>5, <2>6 DEF UInv
  <1>9. CASE spent(w)
    <2>1. UdpTypeOK'
      BY <1>z, <1>9, SMTT(30) DEF spent, handleNotify, Or, UdpTypeOK, AtStates, ServeStates, CloserStates
    <2>2. ToldByServe' /\ Goroutines' /\ WritersLock'
      BY <1>9, <1>a, <1>b, Zenon DEF spent, handleNotify, Or, ToldByServe, Goroutines, WritersLock
    <2>3. RoundsAreExact'
      BY <1>9, <1>a, <1>b, Zenon DEF spent, handleNotify, Or, RoundsAreExact
    <2>4. ClosedBy'
      BY <1>9, <1>a, <1>b, Zenon DEF spent, handleNotify, Or, ClosedBy, RoundsAreExact
    <2>5. CountedWhile'
      BY <1>9, <1>a, <1>b, Zenon DEF spent, handleNotify, Or, CountedWhile, ClosedBy, RoundsAreExact, ToldByServe
    <2>6. NoPacketStranded'
      BY <1>9, <1>a, <1>b, Zenon DEF spent, handleNotify, Or, NoPacketStranded, RoundsAreExact, ToldByServe, TaskHasEvents
    <2>7. QED
      BY <1>0, <2>1, <2>2, <2>3, <2>4, <2>5, <2>6 DEF UInv
  <1>10. CASE udpPanic(w)
    <2>1. UdpTypeOK'
      BY <1>z, <1>10, Zenon DEF udpPanic, runPanic, udpVars, UdpTypeOK, AtStates, ServeStates, CloserStates
    <2>2. ToldByServe' /\ Goroutines' /\ WritersLock'
      BY <1>10, <1>a, <1>b, Zenon DEF udpPanic, runPanic, udpVars, ToldByServe, Goroutines, WritersLock
    <2>3. RoundsAreExact'
      BY <1>10, <1>a, <1>b, Zenon DEF udpPanic, runPanic, udpVars, RoundsAreExact
    <2>4. ClosedBy'
      BY <1>10, <1>a, <1>b, Zenon DEF udpPanic, runPanic, udpVars, ClosedBy, RoundsAreExact
    <2>5. CountedWhile'
      BY <1>10, <1>a, <1>b, Zenon DEF udpPanic, runPanic, udpVars, CountedWhile, ClosedBy, RoundsAreExact, ToldByServe
    <2>6. NoPacketStranded'
      BY <1>10, <1>a, <1>b DEF udpPanic, runPanic, udpVars, NoPacketStranded, RoundsAreExact, ToldByServe, TaskHasEvents
    <2>7. QED
      BY <1>0, <2>1, <2>2, <2>3, <2>4, <2>5, <2>6 DEF UInv
  <1>11. CASE udpPanicSchedule(w)
    <2>1. UdpTypeOK'
      BY <1>z, <1>11, Zenon DEF udpPanicSchedule, panicSchedule, udpVars, UdpTypeOK, AtStates, ServeStates, CloserStates
    <2>2. ToldByServe' /\ Goroutines' /\ WritersLock'
      BY <1>11, <1>a, <1>b, Zenon DEF udpPanicSchedule, panicSchedule, udpVars, ToldByServe, Goroutines, WritersLock
    <2>3. RoundsAreExact'
      BY <1>11, <1>a, <1>b, Zenon DEF udpPanicSchedule, panicSchedule, udpVars, RoundsAreExact
    <2>4. ClosedBy'
      BY <1>11, <1>a, <1>b, Zenon DEF udpPanicSchedule, panicSchedule, udpVars, ClosedBy, RoundsAreExact
    <2>5. CountedWhile'
      BY <1>11, <1>a, <1>b, Zenon DEF udpPanicSchedule, panicSchedule, udpVars, CountedWhile, ClosedBy, RoundsAreExact, ToldByServe
    <2>6. NoPacketStranded'
      BY <1>11, <1>a, <1>b, Zenon DEF udpPanicSchedule, panicSchedule, udpVars, NoPacketStranded, RoundsAreExact, ToldByServe, TaskHasEvents
    <2>7. QED
      BY <1>0, <2>1, <2>2, <2>3, <2>4, <2>5, <2>6 DEF UInv
  <1>12. CASE udpDone(w)
    <2>1. UdpTypeOK'
      BY <1>z, <1>12, Zenon DEF udpDone, handleDone, udpVars, UdpTypeOK, AtStates, ServeStates, CloserStates
    <2>2. ToldByServe' /\ Goroutines' /\ WritersLock'
      BY <1>12, <1>a, <1>b, Zenon DEF udpDone, handleDone, udpVars, ToldByServe, Goroutines, WritersLock
    <2>3. RoundsAreExact'
      BY <1>12, <1>a, <1>b, Zenon DEF udpDone, handleDone, udpVars, RoundsAreExact
    <2>4. ClosedBy'
      BY <1>12, <1>a, <1>b, Zenon DEF udpDone, handleDone, udpVars, ClosedBy, RoundsAreExact
    <2>5. CountedWhile'
      BY <1>12, <1>a, <1>b, Zenon DEF udpDone, handleDone, udpVars, CountedWhile, ClosedBy, RoundsAreExact, ToldByServe
    <2>6. NoPacketStranded'
      BY <1>12, <1>a, <1>b, Zenon DEF udpDone, handleDone, udpVars, NoPacketStranded, RoundsAreExact, ToldByServe, TaskHasEvents
    <2>7. QED
      BY <1>0, <2>1, <2>2, <2>3, <2>4, <2>5, <2>6 DEF UInv
  <1>13. CASE udpRelease(w)
    <2>1. UdpTypeOK'
      BY <1>z, <1>13, SMTT(30) DEF udpRelease, release, Released, udpVars, UdpTypeOK, AtStates, ServeStates, CloserStates
    <2>2. ToldByServe' /\ Goroutines' /\ WritersLock'
      BY <1>13, <1>a, <1>b, Zenon DEF udpRelease, release, Released, udpVars, ToldByServe, Goroutines, WritersLock
    <2>3. RoundsAreExact'
      BY <1>13, <1>a, <1>b, Zenon DEF udpRelease, release, Released, udpVars, RoundsAreExact
    <2>4. ClosedBy'
      BY <1>13, <1>a, <1>b, SMTT(30) DEF udpRelease, release, Released, udpVars, ClosedBy, RoundsAreExact
    <2>5. CountedWhile'
      BY <1>13, <1>a, <1>b, SMTT(30) DEF udpRelease, release, Released, udpVars, CountedWhile, ClosedBy, RoundsAreExact, ToldByServe
    <2>6. NoPacketStranded'
      BY <1>13, <1>a, <1>b, Zenon DEF udpRelease, release, Released, udpVars, NoPacketStranded, RoundsAreExact, ToldByServe, TaskHasEvents
    <2>7. QED
      BY <1>0, <2>1, <2>2, <2>3, <2>4, <2>5, <2>6 DEF UInv
  <1>14. CASE udpResubmit(w)
    <2>1. UdpTypeOK'
      BY <1>z, <1>14, SMTT(30) DEF udpResubmit, runSchedule, udpVars, UdpTypeOK, AtStates, ServeStates, CloserStates
    <2>2. ToldByServe' /\ Goroutines' /\ WritersLock'
      BY <1>14, <1>a, <1>b, Zenon DEF udpResubmit, runSchedule, udpVars, ToldByServe, Goroutines, WritersLock
    <2>3. RoundsAreExact'
      BY <1>14, <1>a, <1>b, Zenon DEF udpResubmit, runSchedule, udpVars, RoundsAreExact
    <2>4. ClosedBy'
      BY <1>14, <1>a, <1>b, Zenon DEF udpResubmit, runSchedule, udpVars, ClosedBy, RoundsAreExact
    <2>5. CountedWhile'
      BY <1>14, <1>a, <1>b, Zenon DEF udpResubmit, runSchedule, udpVars, CountedWhile, ClosedBy, RoundsAreExact, ToldByServe
    <2>6. NoPacketStranded'
      BY <1>14, <1>a, <1>b DEF udpResubmit, runSchedule, udpVars, NoPacketStranded, RoundsAreExact, ToldByServe, TaskHasEvents
    <2>7. QED
      BY <1>0, <2>1, <2>2, <2>3, <2>4, <2>5, <2>6 DEF UInv
  <1>15. QED
    BY <1>1, <1>2, <1>3, <1>4, <1>5, <1>6, <1>7, <1>8, <1>9, <1>10, <1>11, <1>12, <1>13, <1>14 DEF RoundStep

\* So do the goroutines that send.
LEMMA WriterInv == ASSUME UInv, NEW x \in Writers, writeTo(x) \/ sent(x) PROVE UInv'
  <1>0. IInv'
    BY UdpIsWord, NextIInv DEF UInv, UdpNext
  <1>t. /\ worker \in [Workers -> WorkerStates] /\ proc \in [Procs -> ProcStates]
        /\ round \in [Workers -> SUBSET Events] /\ at \in [Workers -> AtStates]
        /\ poller \in [Pollers -> BOOLEAN] /\ writer \in [Writers -> BOOLEAN]
        /\ closer \in [Closers -> CloserStates]
    BY DEF UInv, IInv, TypeOK, UdpTypeOK
  <1>u. /\ AtMostOneTask /\ ClosedHasNoTask /\ TokenIffScheduled /\ TaskHasEvents
        /\ RoundsAreExact /\ ToldByServe /\ ClosedBy /\ CountedWhile /\ Goroutines /\ WritersLock
        /\ NoPacketStranded /\ UdpTypeOK
    BY DEF UInv, IInv
  <1>z. TypeOK'
    BY <1>0 DEF IInv
  <1> USE UdpAssumption, <1>t, <1>u DEF Handling, vars, net, life
  <1>1. CASE writeTo(x)
    <2>1. UdpTypeOK'
      BY <1>z, <1>1, Zenon DEF writeTo, UdpTypeOK, AtStates, ServeStates, CloserStates
    <2>2. ToldByServe' /\ Goroutines' /\ WritersLock'
      BY <1>1, Zenon DEF writeTo, ToldByServe, Goroutines, WritersLock
    <2>3. RoundsAreExact'
      BY <1>1, Zenon DEF writeTo, RoundsAreExact
    <2>4. ClosedBy'
      BY <1>1, Zenon DEF writeTo, ClosedBy
    <2>5. CountedWhile'
      BY <1>1, Zenon DEF writeTo, CountedWhile
    <2>6. NoPacketStranded'
      BY <1>1, Zenon DEF writeTo, NoPacketStranded
    <2>7. QED
      BY <1>0, <2>1, <2>2, <2>3, <2>4, <2>5, <2>6, Zenon DEF UInv
  <1>2. CASE sent(x)
    <2>1. UdpTypeOK'
      BY <1>z, <1>2, Zenon DEF sent, UdpTypeOK, AtStates, ServeStates, CloserStates
    <2>2. ToldByServe' /\ Goroutines' /\ WritersLock'
      BY <1>2, Zenon DEF sent, ToldByServe, Goroutines, WritersLock
    <2>3. RoundsAreExact'
      BY <1>2, Zenon DEF sent, RoundsAreExact
    <2>4. ClosedBy'
      BY <1>2, Zenon DEF sent, ClosedBy
    <2>5. CountedWhile'
      BY <1>2, Zenon DEF sent, CountedWhile
    <2>6. NoPacketStranded'
      BY <1>2 DEF sent, NoPacketStranded
    <2>7. QED
      BY <1>0, <2>1, <2>2, <2>3, <2>4, <2>5, <2>6 DEF UInv
  <1>3. QED
    BY <1>1, <1>2

\* So does Close.
LEMMA CloserInv == ASSUME UInv, NEW k \in Closers, closeWith(k) \/ CloseStep(k) PROVE UInv'
  <1>0. IInv'
    BY UdpIsWord, NextIInv DEF UInv, UdpNext
  <1>t. /\ worker \in [Workers -> WorkerStates] /\ proc \in [Procs -> ProcStates]
        /\ round \in [Workers -> SUBSET Events] /\ at \in [Workers -> AtStates]
        /\ poller \in [Pollers -> BOOLEAN] /\ writer \in [Writers -> BOOLEAN]
        /\ closer \in [Closers -> CloserStates]
    BY DEF UInv, IInv, TypeOK, UdpTypeOK
  <1>u. /\ AtMostOneTask /\ ClosedHasNoTask /\ TokenIffScheduled /\ TaskHasEvents
        /\ RoundsAreExact /\ ToldByServe /\ ClosedBy /\ CountedWhile /\ Goroutines /\ WritersLock
        /\ NoPacketStranded /\ UdpTypeOK
    BY DEF UInv, IInv
  <1>z. TypeOK'
    BY <1>0 DEF IInv
  <1> USE UdpAssumption, <1>t, <1>u DEF Handling, vars, net, life
  <1>1. CASE closeWith(k)
    <2>0. closer[k] = "free" /\ closer' \in [Closers -> CloserStates]
      BY <1>1, Zenon DEF closeWith, CloserStates
    <2>a. serving = "no" /\ ~down => open
      BY Zenon DEF ClosedBy, Goroutines, AtMostOneTask, ClosedHasNoTask, TokenIffScheduled, Held, ProcHolds, WorkerHolds
    <2>b. Goroutines'
      BY <1>1, <2>a, Zenon DEF closeWith, Goroutines
    <2>1. UdpTypeOK'
      BY <1>z, <1>1, <2>0, <2>b DEF closeWith, UdpTypeOK, AtStates, ServeStates, CloserStates
    <2>2. ToldByServe' /\ Goroutines' /\ WritersLock'
      BY <1>1, <2>0, <2>b, Zenon DEF closeWith, ToldByServe, WritersLock
    <2>3. RoundsAreExact'
      BY <1>1, Zenon DEF closeWith, RoundsAreExact
    <2>4. ClosedBy'
      BY <1>1, Zenon DEF closeWith, ClosedBy, Goroutines
    <2>5. CountedWhile'
      BY <1>1, Zenon DEF closeWith, CountedWhile
    <2>6. NoPacketStranded'
      BY <1>1 DEF closeWith, NoPacketStranded
    <2>7. QED
      BY <1>0, <2>1, <2>2, <2>3, <2>4, <2>5, <2>6, Zenon DEF UInv
  <1>2. CASE closeReleases(k)
    <2>0. waits' \in Int
      BY <1>2 DEF closeReleases, Uncount
    <2>a. Goroutines' /\ WritersLock'
      BY <1>2 DEF closeReleases, Locked, closeFd, Uncount, Goroutines, WritersLock
    <2>1. UdpTypeOK'
      BY <1>z, <1>2, <2>0, <2>a, Zenon DEF closeReleases, closeFd, Uncount, UdpTypeOK, AtStates, ServeStates, CloserStates
    <2>2. ToldByServe' /\ Goroutines' /\ WritersLock'
      BY <1>2, <2>0, <2>a, Zenon DEF closeReleases, closeFd, Uncount, ToldByServe
    <2>3. RoundsAreExact'
      BY <1>2, Zenon DEF closeReleases, Locked, closeFd, Uncount, RoundsAreExact, Goroutines, AtMostOneTask, ClosedHasNoTask, TokenIffScheduled, Held, ProcHolds, WorkerHolds
    <2>4. ClosedBy'
      BY <1>2, Zenon DEF closeReleases, Locked, closeFd, Uncount, ClosedBy, Goroutines
    <2>5. CountedWhile'
      BY <1>2 DEF closeReleases, Locked, closeFd, Uncount, CountedWhile, Goroutines, AtMostOneTask, ClosedHasNoTask, TokenIffScheduled, Held, ProcHolds, WorkerHolds
    <2>6. NoPacketStranded'
      BY <1>2, Zenon DEF closeReleases, Locked, closeFd, Uncount, NoPacketStranded
    <2>7. QED
      BY <1>0, <2>1, <2>2, <2>3, <2>4, <2>5, <2>6 DEF UInv
  <1>3. CASE closeReturns(k)
    <2>1. UdpTypeOK'
      BY <1>z, <1>3, Zenon DEF closeReturns, UdpTypeOK, AtStates, ServeStates, CloserStates
    <2>2. ToldByServe' /\ Goroutines' /\ WritersLock'
      BY <1>3 DEF closeReturns, ToldByServe, Goroutines, WritersLock
    <2>3. RoundsAreExact'
      BY <1>3, Zenon DEF closeReturns, RoundsAreExact
    <2>4. ClosedBy'
      BY <1>3 DEF closeReturns, ClosedBy
    <2>5. CountedWhile'
      BY <1>3, Zenon DEF closeReturns, CountedWhile
    <2>6. NoPacketStranded'
      BY <1>3 DEF closeReturns, NoPacketStranded
    <2>7. QED
      BY <1>0, <2>1, <2>2, <2>3, <2>4, <2>5, <2>6 DEF UInv
  <1>4. QED
    BY <1>1, <1>2, <1>3 DEF CloseStep

\* No step of a UDP server breaks the invariant.
LEMMA UdpNextInv == ASSUME UInv, [UdpNext]_<<vars, udpVars>> PROVE UInv'
  <1>1. CASE UdpNext
    BY <1>1, ServeInv, PollerInv, RoundInv, WriterInv, CloserInv, Zenon DEF UdpNext
  <1>2. CASE UNCHANGED <<vars, udpVars>>
    <2> USE <1>2 DEF UInv, vars, udpVars
    <2>1. IInv'
      BY NextIInv, Zenon
    <2>2. UdpTypeOK'
      BY <2>1, Zenon DEF IInv, UdpTypeOK
    <2>3. RoundsAreExact' /\ ToldByServe'
      BY Zenon DEF RoundsAreExact, ToldByServe, Handling
    <2>4. ClosedBy' /\ CountedWhile'
      BY Zenon DEF ClosedBy, CountedWhile, Handling
    <2>5. Goroutines' /\ WritersLock' /\ NoPacketStranded'
      BY Zenon DEF Goroutines, WritersLock, NoPacketStranded
    <2>6. QED
      BY <2>1, <2>2, <2>3, <2>4, <2>5
  <1>3. QED
    BY <1>1, <1>2

\* The invariant of a UDP server holds in every reachable state.
THEOREM UdpInvariance == UdpSpec => []UInv
  BY UdpInitInv, UdpNextInv, PTL DEF UdpSpec

\* A UDP server's socket has at most one task, loses no event, and has no task once it
\* is closed: whatever the pollers, Serve and panicking callbacks do to its state word.
THEOREM UdpTaskIsExact == UdpSpec => []TaskIsExact
  <1>1. UInv => TaskIsExact
    BY DEF UInv, IInv, TaskIsExact, NoEventStranded, AtMostOneTask, TokenIffScheduled, Held
  <1>2. QED
    BY UdpInvariance, <1>1, PTL

\* A UDP server uses its fd only while it is open, Serve waits for exactly the socket it
\* counted, nothing runs after Serve has returned and no datagram waits unseen, for any
\* number of pollers, workers, writers and closers.
THEOREM UdpSafety == UdpSpec => []UdpIsExact
  <1>1. ASSUME UInv PROVE UdpIsExact
    <2> USE <1>1 DEF UInv, IInv, RoundsAreExact, ClosedBy, CountedWhile, Goroutines, Handling
    <2>1. FdIsOpen
      BY Zenon DEF FdIsOpen, WritersLock
    <2>2. SocketIsCounted
      BY SMTT(30) DEF SocketIsCounted
    <2>3. DoneIsQuiet
      <3> SUFFICES ASSUME serving = "done" PROVE DoneIsQuiet
        BY Zenon DEF DoneIsQuiet
      <3>1. ~open /\ ~counted
        BY Zenon
      <3>2. \/ closed
            \/ \E w \in Workers : worker[w] = "handling" /\ at[w] = "kept"
        BY <3>1
      <3>3. QED
        BY <3>1, <3>2, Zenon DEF DoneIsQuiet, TypeOK, AtMostOneTask, ClosedHasNoTask, ProcHolds, WorkerHolds
    <2>4. QED
      BY <2>1, <2>2, <2>3, SMTT(30) DEF UdpIsExact
  <1>2. QED
    BY UdpInvariance, <1>1, PTL

=============================================================================
