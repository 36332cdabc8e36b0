------------------------------ MODULE TaskPool ------------------------------
(***************************************************************************)
(* The executor (taskpool/taskpool.go): shards with a bounded queue each,  *)
(* workers that suspend when they find it empty, the notify that brings    *)
(* one back, the worker a saturated shard borrows, the monitor that lets   *)
(* more of them serve a stalled queue, and Close. Every atomic access that *)
(* others can tell apart is a step. The ring's push claims a cell and then *)
(* writes it; its pop is one step, the position the next task comes from   *)
(* being all that hasTask remembers of it.                                 *)
(***************************************************************************)
EXTENDS Integers, Sequences, FiniteSets

CONSTANTS Tasks,
          MaxShards,    \* the most shards and, in a shard, the most workers of any load
          MaxWorkers,
          SoftWorkers,  \* softWorkers
          Capacity,     \* the size of a shard's ring
          Loads         \* the pools and what is submitted to them

Shards == 1..MaxShards

\* A pool of so many shards with so many workers each, the tasks each goroutine
\* submits and the shards their keys select, whether tasks call Goexit, and
\* whether the pool is closed.
ASSUME TaskPoolAssumption ==
    /\ MaxShards \in Nat \ {0} /\ MaxWorkers \in Nat \ {0}
    /\ SoftWorkers \in Nat \ {0} /\ Capacity \in Nat \ {0, 1}
    /\ \A l \in Loads : /\ l.shards \in Shards /\ l.workers \in 1..MaxWorkers
                        /\ l.submit \in Seq(Seq(Tasks)) /\ l.shard \in [Tasks -> 1..l.shards]
                        /\ l.exits \in BOOLEAN /\ l.close \in BOOLEAN

Workers == {<<"work", s, i>> : s \in Shards, i \in 0..MaxWorkers - 1}
Home(w) == w[2]
Submitters == {<<"submit", i>> : i \in 1..2}
Helpers == {<<"help", k>> : k \in Tasks}
Monitor == <<"monitor", 0>>
Closer == <<"close", 0>>
Threads == Workers \cup Submitters \cup Helpers \cup {Monitor, Closer}

VARIABLES
    load,    \* the load of this behavior
    pool,    \* closed, starving and monitoring
    sh,      \* each shard's queue and counters
    idle,    \* the workers whose bit is set in idleWorkers
    wakeup,  \* what is in each worker's channel: the shard to serve, 0 for nil
    th,      \* each goroutine
    ran      \* the tasks that have run

vars == <<load, pool, sh, idle, wakeup, th, ran>>

empty == -1

Submits(t, l) == IF t[1] = "submit" /\ t[2] \in DOMAIN l.submit THEN l.submit[t[2]] ELSE <<>>

Init ==
    /\ load \in Loads
    /\ pool = [closed |-> FALSE, starving |-> FALSE, monitoring |-> FALSE]
    /\ sh = [s \in Shards |-> [queue |-> <<>>, head |-> 0, waking |-> 0, serving |-> 0,
                               limit |-> SoftWorkers, live |-> 0]]
    /\ idle = {}
    /\ wakeup = [w \in Workers |-> empty]
    /\ th = [t \in Threads |-> [pc |-> IF Submits(t, load) # <<>> \/ (t = Closer /\ load.close) THEN "begin" ELSE "off",
                                on |-> 0, task |-> IF Submits(t, load) # <<>> THEN Submits(t, load) ELSE {}, todo |-> <<>>, n |-> "task", saw |-> 0]]
    /\ ran = {}

\* A cell is claimed before it is written.
Cell(k) == [task |-> k, written |-> FALSE]
available(s) == sh[s].queue # <<>> /\ Head(sh[s].queue).written

\* hasTask loads head and then looks at the cell there. Its two answers, when head
\* was saw at the call: a task taken in between makes it look at that task's cell.
hasTask(s) == available(s)
hasNoTask(s, saw) == ~available(s) \/ sh[s].head # saw

AllShards == [s \in 1..load.shards |-> s]

(***************************************************************************)
(* shard.notify, of the first shard of todo                                *)
(***************************************************************************)

Cur(t) == Head(th[t].todo)
at(t, n) == th[t].todo # <<>> /\ th[t].n = n
step(t, n) == th' = [th EXCEPT ![t].n = n]
saw(shards) == IF shards = <<>> THEN 0 ELSE sh[Head(shards)].head
notifying(threads, t, shards) == [threads EXCEPT ![t].todo = shards, ![t].n = "task", ![t].saw = saw(shards)]
returned(t) == notifying(th, t, Tail(th[t].todo))
add(s, field, n) == sh' = [sh EXCEPT ![s][field] = @ + n]

notifyTask(t) ==
    /\ at(t, "task")
    /\ \/ hasTask(Cur(t)) /\ th' = [th EXCEPT ![t].n = "look", ![t].saw = 0]
       \/ hasNoTask(Cur(t), th[t].saw) /\ th' = returned(t)
    /\ UNCHANGED <<pool, sh, idle, wakeup, ran>>

\* A shard with servingLimit workers is left to them and to watchStall.
watchStall(threads) ==
    IF pool.monitoring THEN th' = threads /\ UNCHANGED pool
    ELSE /\ pool' = [pool EXCEPT !.monitoring = TRUE]
         /\ th' = [threads EXCEPT ![Monitor].pc = "sample", ![Monitor].on = 0, ![Monitor].task = {}]

\* The loads that end it: starving, wakingWorkers, and last servingWorkers, after
\* which alone the stall is watched.
notifyLook(t) ==
    LET s == Cur(t) IN
    /\ at(t, "look")
    /\ \/ ((pool.starving /\ ~pool.closed) \/ sh[s].waking # 0) /\ th' = returned(t) /\ UNCHANGED pool
       \/ /\ ~(pool.starving /\ ~pool.closed) /\ sh[s].waking = 0
          /\ IF sh[s].serving >= sh[s].limit /\ ~pool.closed
             THEN watchStall(returned(t))
             ELSE step(t, "cas") /\ UNCHANGED pool
    /\ UNCHANGED <<sh, idle, wakeup, ran>>

notifyCas(t) ==
    /\ at(t, "cas")
    /\ IF sh[Cur(t)].waking = 0
       THEN sh' = [sh EXCEPT ![Cur(t)].waking = 1, ![Cur(t)].serving = @ + 1] /\ step(t, "wakeIdle")
       ELSE UNCHANGED sh /\ th' = returned(t)
    /\ UNCHANGED <<pool, idle, wakeup, ran>>

\* wakeIdle of shard s for target: the suspended worker with the lowest id.
Suspended(s) == {w \in idle : Home(w) = s}
wakes(s, target) ==
    LET w == CHOOSE w \in Suspended(s) : \A v \in Suspended(s) : w[3] <= v[3] IN
    /\ idle' = idle \ {w}
    /\ wakeup' = [wakeup EXCEPT ![w] = target]

\* start of a worker of s for target.
starts(s, target, threads) ==
    /\ add(s, "live", 1)
    /\ th' = [threads EXCEPT ![<<"work", s, sh[s].live>>].pc = "reach", ![<<"work", s, sh[s].live>>].on = target]

notifyWakeIdle(t) ==
    /\ at(t, "wakeIdle")
    /\ IF Suspended(Cur(t)) # {}
       THEN wakes(Cur(t), Cur(t)) /\ th' = returned(t)
       ELSE step(t, IF sh[Cur(t)].live < load.workers THEN "start" ELSE "borrow") /\ UNCHANGED <<idle, wakeup>>
    /\ UNCHANGED <<pool, sh, ran>>

notifyStart(t) ==
    /\ at(t, "start")
    /\ IF sh[Cur(t)].live < load.workers
       THEN starts(Cur(t), Cur(t), returned(t))
       ELSE step(t, "borrow") /\ UNCHANGED sh
    /\ UNCHANGED <<pool, idle, wakeup, ran>>

\* borrow: a suspended worker of another shard, or else a new one of it.
Others(t) == (1..load.shards) \ {Cur(t)}

borrowIdle(t) ==
    /\ at(t, "borrow")
    /\ \/ \E s \in Others(t) : Suspended(s) # {} /\ wakes(s, Cur(t)) /\ th' = returned(t)
       \/ /\ \A s \in Others(t) : Suspended(s) = {}
          /\ step(t, IF \E s \in Others(t) : sh[s].live < load.workers THEN "borrowStart" ELSE "undo")
          /\ UNCHANGED <<idle, wakeup>>
    /\ UNCHANGED <<pool, sh, ran>>

borrowStart(t) ==
    /\ at(t, "borrowStart")
    /\ \/ \E s \in Others(t) : sh[s].live < load.workers /\ starts(s, Cur(t), returned(t))
       \/ /\ \A s \in Others(t) : sh[s].live >= load.workers
          /\ step(t, "undo")
          /\ UNCHANGED sh
    /\ UNCHANGED <<pool, idle, wakeup, ran>>

notifyUndo(t) ==
    /\ at(t, "undo")
    /\ sh' = [sh EXCEPT ![Cur(t)].serving = @ - 1, ![Cur(t)].waking = @ - 1]
    /\ step(t, "none")
    /\ UNCHANGED <<pool, idle, wakeup, ran>>

popped(s) == [sh EXCEPT ![s].queue = Tail(@), ![s].head = @ + 1]

\* Mutant: a closed pool is left to the workers that have gone.
notifyNoneHelps(t) ==
    /\ at(t, "none")
    /\ IF pool.closed THEN th' = returned(t) /\ UNCHANGED pool
       ELSE pool' = [pool EXCEPT !.starving = TRUE] /\ step(t, "idle")
    /\ UNCHANGED <<sh, idle, wakeup, ran>>

\* No worker anywhere: a closed pool has a goroutine help, any other starves.
notifyNone(t) ==
    /\ at(t, "none")
    /\ IF pool.closed
       THEN /\ UNCHANGED pool
            /\ IF available(Cur(t))
               THEN LET k == Head(sh[Cur(t)].queue).task IN
                    /\ sh' = popped(Cur(t))
                    /\ th' = [returned(t) EXCEPT ![<<"help", k>>].pc = "run", ![<<"help", k>>].on = Cur(t),
                                                 ![<<"help", k>>].task = {k}]
               ELSE UNCHANGED sh /\ th' = returned(t)
       ELSE /\ pool' = [pool EXCEPT !.starving = TRUE]
            /\ step(t, "idle")
            /\ UNCHANGED sh
    /\ UNCHANGED <<idle, wakeup, ran>>

\* hasIdleWorker, and the flag taken back: every shard is notified.
notifyIdle(t) ==
    /\ at(t, "idle")
    /\ IF idle # {} THEN step(t, "take") ELSE th' = returned(t)
    /\ UNCHANGED <<pool, sh, idle, wakeup, ran>>

notifyTake(t) ==
    /\ at(t, "take")
    /\ IF pool.starving
       THEN /\ pool' = [pool EXCEPT !.starving = FALSE]
            /\ th' = notifying(th, t, AllShards \o Tail(th[t].todo))
       ELSE UNCHANGED pool /\ th' = returned(t)
    /\ UNCHANGED <<sh, idle, wakeup, ran>>

Notify(t) == \/ notifyTask(t) \/ notifyLook(t) \/ notifyCas(t) \/ notifyWakeIdle(t) \/ notifyStart(t)
             \/ borrowIdle(t) \/ borrowStart(t) \/ notifyUndo(t) \/ notifyNone(t) \/ notifyIdle(t) \/ notifyTake(t)

\* The goroutine is at pc, with no notify left to finish.
here(t, pc) == th[t].pc = pc /\ th[t].todo = <<>>
goes(t, pc) == th' = [th EXCEPT ![t].pc = pc]
notifies(t, shards, pc) == th' = notifying([th EXCEPT ![t].pc = pc], t, shards)

(***************************************************************************)
(* submit and help                                                         *)
(***************************************************************************)

\* A goroutine that submits has its tasks in front of it.
submitted(t) == [th EXCEPT ![t].pc = IF Len(th[t].task) = 1 THEN "off" ELSE "begin",
                           ![t].task = IF Len(@) = 1 THEN {} ELSE Tail(@)]

\* A task for which there is no room, or no pool any more, has its own goroutine.
submit(t) ==
    /\ here(t, "begin") /\ t \in Submitters
    /\ LET k == Head(th[t].task)
           s == load.shard[k] IN
       \/ /\ pool.closed \/ Len(sh[s].queue) = Capacity
          /\ th' = [submitted(t) EXCEPT ![<<"help", k>>].pc = "run", ![<<"help", k>>].on = s, ![<<"help", k>>].task = {k}]
          /\ UNCHANGED sh
       \/ /\ Len(sh[s].queue) < Capacity
          /\ sh' = [sh EXCEPT ![s].queue = Append(@, Cell(k))]
          /\ goes(t, "write")
    /\ UNCHANGED <<pool, idle, wakeup, ran>>

\* The cell is written, and notify follows.
submitWrite(t) ==
    /\ here(t, "write")
    /\ LET k == Head(th[t].task)
           s == load.shard[k] IN
       /\ sh' = [sh EXCEPT ![s].queue = [i \in DOMAIN @ |-> IF @[i].task = k THEN [@[i] EXCEPT !.written = TRUE] ELSE @[i]]]
       /\ th' = notifying(submitted(t), t, <<s>>)
    /\ UNCHANGED <<pool, idle, wakeup, ran>>

help(t) ==
    /\ here(t, "pop") /\ t \in Helpers
    /\ IF available(th[t].on)
       THEN /\ th' = [th EXCEPT ![t].pc = "run", ![t].task = {Head(sh[th[t].on].queue).task}]
            /\ sh' = popped(th[t].on)
       ELSE goes(t, "off") /\ UNCHANGED sh
    /\ UNCHANGED <<pool, idle, wakeup, ran>>

\* The task ends, by returning or by a panic that run recovers.
taskEnds(t) ==
    /\ here(t, "run")
    /\ ran' = ran \cup th[t].task
    /\ th' = [th EXCEPT ![t].pc = "pop", ![t].task = {}]
    /\ UNCHANGED <<pool, sh, idle, wakeup>>

(***************************************************************************)
(* shard.work                                                              *)
(***************************************************************************)

\* Mutant: the worker stays counted as on its way.
reachUncounted(w) == here(w, "reach") /\ goes(w, "pop") /\ UNCHANGED <<pool, sh, idle, wakeup, ran>>

\* The queue has been reached.
reach(w) ==
    /\ here(w, "reach")
    /\ add(th[w].on, "waking", -1)
    /\ goes(w, "pop")
    /\ UNCHANGED <<pool, idle, wakeup, ran>>

\* While tasks are queued another worker is made sure of before this one is run.
\* (notify looks at hasTask again, so the look before it leaves nothing out.)
pop(w) ==
    /\ here(w, "pop") /\ w \in Workers
    /\ IF available(th[w].on)
       THEN /\ sh' = popped(th[w].on)
            /\ th' = [notifying(th, w, <<th[w].on>>) EXCEPT ![w].pc = "run", ![w].task = {Head(sh[th[w].on].queue).task},
                                                              ![w].saw = @ + 1]
       ELSE goes(w, "drained") /\ UNCHANGED sh
    /\ UNCHANGED <<pool, idle, wakeup, ran>>

\* Mutant: the replacement is not counted as on its way.
taskExitsUncounted(w) ==
    /\ here(w, "run") /\ w \in Workers /\ load.exits
    /\ ran' = ran \cup th[w].task
    /\ th' = [th EXCEPT ![w].pc = "reach", ![w].task = {}]
    /\ UNCHANGED <<pool, sh, idle, wakeup>>

\* runtime.Goexit in a task: the replacement is on its way to the same queue.
taskExits(w) ==
    /\ here(w, "run") /\ w \in Workers /\ load.exits
    /\ ran' = ran \cup th[w].task
    /\ th' = [th EXCEPT ![w].pc = "reach", ![w].task = {}]
    /\ add(th[w].on, "waking", 1)
    /\ UNCHANGED <<pool, idle, wakeup>>

\* The limit the monitor may have raised is reset, and the worker registered.
drained(w) ==
    /\ here(w, "drained")
    /\ sh' = [sh EXCEPT ![th[w].on].limit = SoftWorkers]
    /\ idle' = idle \cup {w}
    /\ goes(w, "leave")
    /\ UNCHANGED <<pool, wakeup, ran>>

leave(w) ==
    /\ here(w, "leave")
    /\ add(th[w].on, "serving", -1)
    /\ goes(w, "starved")
    /\ UNCHANGED <<pool, idle, wakeup, ran>>

\* Mutant: it looks at nothing.
recheckNothing(w) == <<>>

\* What a worker that has suspended looks at once more.
recheck(w) == IF th[w].on = Home(w) THEN <<Home(w)>> ELSE <<th[w].on, Home(w)>>

starved(w) ==
    /\ here(w, "starved")
    /\ pool' = [pool EXCEPT !.starving = FALSE]
    /\ notifies(w, IF pool.starving THEN AllShards ELSE recheck(w), "suspend")
    /\ UNCHANGED <<sh, idle, wakeup, ran>>

\* In a closed pool the worker leaves, unless somebody has taken its bit.
suspend(w) ==
    /\ here(w, "suspend")
    /\ IF pool.closed /\ w \in idle
       THEN idle' = idle \ {w} /\ goes(w, "gone")
       ELSE UNCHANGED idle /\ goes(w, "asleep")
    /\ UNCHANGED <<pool, sh, wakeup, ran>>

\* The worker named by a wakeup has reached the queue; one sent no shard leaves.
awake(w) ==
    /\ here(w, "asleep") /\ wakeup[w] # empty
    /\ th' = [th EXCEPT ![w].pc = IF wakeup[w] = 0 THEN "gone" ELSE "pop", ![w].on = wakeup[w]]
    /\ wakeup' = [wakeup EXCEPT ![w] = empty]
    /\ sh' = IF wakeup[w] = 0 THEN sh ELSE [sh EXCEPT ![wakeup[w]].waking = @ - 1]
    /\ UNCHANGED <<pool, idle, ran>>

(***************************************************************************)
(* Pool.monitor and Pool.Close                                             *)
(***************************************************************************)

\* The monitor keeps the heads of its last round as its task.
heads == [s \in Shards |-> sh[s].head]

sample ==
    /\ here(Monitor, "sample")
    /\ th' = [th EXCEPT ![Monitor].pc = "tick", ![Monitor].task = heads]
    /\ UNCHANGED <<pool, sh, idle, wakeup, ran>>

least(a, b) == IF a < b THEN a ELSE b
hasBacklog(s) == available(s) /\ sh[s].serving >= sh[s].limit
stalls(s) == hasBacklog(s) /\ sh[s].head - th[Monitor].task[s] < sh[s].serving

\* A round of boost: with headroom each shard that stalls may have up to twice its
\* workers, and is notified. Without a backlog, or once closed, the watch ends.
tick ==
    /\ here(Monitor, "tick")
    /\ \/ /\ ~pool.closed /\ \E s \in Shards : hasBacklog(s)
          /\ \E headroom \in BOOLEAN :
                LET raised == {s \in Shards : headroom /\ stalls(s)} IN
                /\ sh' = [s \in Shards |-> IF s \in raised
                                           THEN [sh[s] EXCEPT !.limit = sh[s].serving + least(sh[s].serving, Len(sh[s].queue))]
                                           ELSE sh[s]]
                /\ th' = notifying([th EXCEPT ![Monitor].task = heads], Monitor,
                                   SelectSeq(AllShards, LAMBDA s : s \in raised))
          /\ UNCHANGED pool
       \/ /\ pool.closed \/ \A s \in Shards : ~hasBacklog(s)
          /\ pool' = [pool EXCEPT !.monitoring = FALSE]
          /\ goes(Monitor, "again")
          /\ UNCHANGED sh
    /\ UNCHANGED <<idle, wakeup, ran>>

\* A notify that found monitoring set left its backlog to this monitor: it looks
\* once more. (When another monitor has been started, it takes this one's place.)
again ==
    /\ here(Monitor, "again")
    /\ IF ~pool.closed /\ \E s \in Shards : hasBacklog(s)
       THEN /\ pool' = [pool EXCEPT !.monitoring = TRUE]
            /\ goes(Monitor, "tick")
       ELSE /\ th' = [th EXCEPT ![Monitor].pc = "off", ![Monitor].task = {}]
            /\ UNCHANGED pool
    /\ UNCHANGED <<sh, idle, wakeup, ran>>

Close ==
    /\ here(Closer, "begin")
    /\ pool' = [pool EXCEPT !.closed = TRUE]
    /\ th' = [th EXCEPT ![Closer].pc = "wake", ![Closer].on = 1]
    /\ UNCHANGED <<sh, idle, wakeup, ran>>

\* A worker sent no shard exits.
closeWakes ==
    /\ here(Closer, "wake")
    /\ LET s == th[Closer].on IN
       IF Suspended(s) # {} THEN wakes(s, 0) /\ UNCHANGED th
       ELSE /\ th' = [th EXCEPT ![Closer].pc = IF s = load.shards THEN "off" ELSE "wake",
                                ![Closer].on = IF s = load.shards THEN 0 ELSE s + 1]
            /\ UNCHANGED <<idle, wakeup>>
    /\ UNCHANGED <<pool, sh, ran>>

WorkerStep(w) == \/ reach(w) \/ pop(w) \/ taskExits(w) \/ drained(w) \/ leave(w)
                 \/ starved(w) \/ suspend(w) \/ awake(w)

Next == /\ \/ \E t \in Threads : Notify(t) \/ taskEnds(t)
           \/ \E t \in Submitters : submit(t) \/ submitWrite(t)
           \/ \E t \in Helpers : help(t)
           \/ \E w \in Workers : WorkerStep(w)
           \/ sample \/ tick \/ again \/ Close \/ closeWakes
        /\ UNCHANGED load

Spec == Init /\ [][Next]_vars

\* The scheduler runs some goroutine that can run, and the monitor when its ticker
\* fires; so every task ends. Nothing else needs to be fair.
Step(t) == /\ \/ Notify(t) \/ taskEnds(t)
              \/ t \in Submitters /\ (submit(t) \/ submitWrite(t))
              \/ t \in Helpers /\ help(t)
              \/ t \in Workers /\ (reach(t) \/ pop(t) \/ drained(t) \/ leave(t) \/ starved(t) \/ suspend(t) \/ awake(t))
              \/ t = Monitor /\ (sample \/ tick \/ again)
              \/ t = Closer /\ (Close \/ closeWakes)
           /\ UNCHANGED load

FairSpec == Spec /\ WF_vars(\E t \in Threads \ {Monitor} : Step(t)) /\ WF_vars(Step(Monitor))

(***************************************************************************)
(* What the pool promises                                                  *)
(***************************************************************************)

\* The workers on their way to s, and the notify that looks for one, each hold one
\* of wakingWorkers; those that serve s hold one of servingWorkers as well.
Coming(s) == {t \in Threads : \/ th[t].pc = "reach" /\ th[t].on = s
                              \/ t \in Workers /\ wakeup[t] = s}
Looking(s) == {t \in Threads : /\ th[t].todo # <<>> /\ Cur(t) = s
                               /\ th[t].n \in {"wakeIdle", "start", "borrow", "borrowStart", "undo"}}
Serving(s) == {w \in Workers : th[w].pc \in {"pop", "run", "drained", "leave"} /\ th[w].on = s}

\* The counters are handed over with the wakeup, never lost and never taken twice:
\* notify, borrow, work, and the replacement of a worker whose task called Goexit.
CountersAreHandedOver ==
    \A s \in Shards : /\ sh[s].waking = Cardinality(Coming(s)) + Cardinality(Looking(s))
                      /\ sh[s].serving = sh[s].waking + Cardinality(Serving(s))

\* Only the one that clears a worker's bit sends to it: the buffer of 1 never blocks
\* (wakeIdle, and the worker that takes back its own bit once the pool is closed).
WakeupNeverBlocks == \A w \in idle : wakeup[w] = empty

\* A wakeup carries its claims on the counters to one worker, which is free for it.
WakeupsAreExact == CountersAreHandedOver /\ WakeupNeverBlocks

\* Nobody is on the way to a queue: every goroutine is off, runs a task or sleeps.
Quiet ==
    \A t \in Threads :
        /\ th[t].todo = <<>>
        /\ th[t].pc \in {"off", "begin", "run", "gone", "asleep"}
        /\ th[t].pc = "asleep" => wakeup[t] = empty

Running(t) == th[t].pc = "run"

\* Wakeups are never lost: in an open pool a task that waits while nobody is on the
\* way to it waits because every worker the pool may have runs a task, or because a
\* goroutine that took it upon itself to drain the queue does (notify, work, monitor).
NoTaskStranded ==
    Quiet /\ ~pool.closed => \A s \in Shards : available(s) =>
        \/ \A w \in Workers : Home(w) <= load.shards /\ w[3] < load.workers => Running(w)
        \/ \E t \in Helpers : Running(t) /\ th[t].on = s

\* Wakeups reach the tasks: each is carried to one worker, and none is missed.
WakeupsReachTasks == WakeupsAreExact /\ NoTaskStranded

\* Close: "the tasks submitted before all run", since a worker that runs a task
\* leaves only when it finds the queue empty.
ClosedPoolDrains ==
    Quiet /\ pool.closed => \A s \in Shards : available(s) => \E t \in Threads : Running(t) /\ th[t].on = s

\* The one way to miss it that the code leaves: a notify sets starving in the open
\* pool after the last worker looked at it, and that worker leaves the closed one.
ClosedPoolDrainsUnlessStarving == ~pool.starving => ClosedPoolDrains

Submitted == UNION {{load.submit[i][j] : j \in DOMAIN load.submit[i]} : i \in DOMAIN load.submit}

\* Every task submitted to a pool that stays open is run in the end (submit to help).
EveryTaskRuns == ~load.close ~> Submitted \subseteq ran

=============================================================================
