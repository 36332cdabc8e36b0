---------------------------- MODULE ReactorProofs ----------------------------
(***************************************************************************)
(* Wake's coalescing never drops a signal that nobody else delivers, for   *)
(* any number of sub-reactors: WakingHasSignal is inductive with the type  *)
(* invariant, and with workers polling nothing but sub-reactors.           *)
(***************************************************************************)
EXTENDS Reactor, TLAPS

PollsSubs == \A w \in Subs : at[w] \in Subs

IInv == TypeOK /\ PollsSubs /\ WakingHasSignal

\* The reactor starts with no waking set.
LEMMA InitIInv == Init => IInv
  <1> SUFFICES ASSUME Init PROVE IInv
    OBVIOUS
  <1> USE ReactorAssumption DEF Threads
  <1>1. TypeOK
    <2>0. left \in [Subs -> 0..MaxEvents]
      BY DEF Init
    <2>1. /\ stopping \in BOOLEAN
          /\ waking \in [Subs -> BOOLEAN] /\ signal \in [Subs -> BOOLEAN]
          /\ active \in [Subs -> BOOLEAN] /\ ready \in [Subs -> BOOLEAN]
      BY Zenon DEF Init
    <2>2. pc \in [Threads -> WorkerSteps \cup WakeSteps \cup {"serving", "waiting", "done"}]
      BY DEF Init, WorkerSteps, WakeSteps
    <2>3. at \in [Threads -> Threads] /\ todo \in [Threads -> SUBSET Subs]
      BY DEF Init
    <2>4. batch \in [Subs -> [some : BOOLEAN, woken : BOOLEAN, block : BOOLEAN]]
      BY DEF Init, NoBatch
    <2>5. QED
      BY <2>0, <2>1, <2>2, <2>3, <2>4 DEF TypeOK
  <1>2. PollsSubs /\ WakingHasSignal
    BY DEF Init, PollsSubs, WakingHasSignal
  <1>3. QED
    BY <1>1, <1>2 DEF IInv

\* Who answers for waking in WakingHasSignal stays who it is when no thread leaves
\* or enters the middle of Wake or collect.
LEMMA Unmoved ==
    ASSUME IInv, NEW w \in Threads,
           waking' = waking, signal' = signal,
           pc[w] \notin {"writeWake", "clearWake"},
           \A t \in Threads : t # w => pc'[t] = pc[t] /\ at'[t] = at[t]
    PROVE  WakingHasSignal'
  <1> SUFFICES ASSUME NEW s \in Subs, waking'[s]
               PROVE  \/ signal'[s]
                      \/ \E t \in Threads : pc'[t] = "writeWake" /\ at'[t] = s
                      \/ \E v \in Subs : pc'[v] = "clearWake" /\ at'[v] = s
    BY DEF WakingHasSignal
  <1>1. \/ signal[s]
        \/ \E t \in Threads : pc[t] = "writeWake" /\ at[t] = s
        \/ \E v \in Subs : pc[v] = "clearWake" /\ at[v] = s
    BY DEF IInv, WakingHasSignal
  <1>2. QED
    BY <1>1 DEF Threads

\* The steps of a worker, and the kernel.
LEMMA WorkerIInv ==
    ASSUME IInv, NEW w \in Subs, WorkerStep(w) \/ becomesReady(w)
    PROVE  IInv'
  <1> USE ReactorAssumption DEF Threads
  <1>0. w \in Threads /\ TypeOK /\ PollsSubs /\ WakingHasSignal
    BY DEF IInv
  <1>1. CASE loop(w)
    <2>1. TypeOK' /\ PollsSubs'
      BY <1>0, <1>1 DEF loop, TypeOK, PollsSubs, passedOn, WorkerSteps, WakeSteps
    <2>2. WakingHasSignal'
      BY <1>0, <1>1, Unmoved, SMTT(40) DEF loop, TypeOK
    <2>3. QED
      BY <2>1, <2>2 DEF IInv
  <1>2. CASE Poll(w) \/ Block(w)
    <2>1. /\ pc[w] \in {"poll", "blocked"} /\ \E b \in BOOLEAN : retrieve(w, b)
      BY <1>2, Zenon DEF Poll, Block
    <2>2. TypeOK' /\ PollsSubs'
      BY <1>0, <2>1 DEF retrieve, TypeOK, PollsSubs, WorkerSteps, WakeSteps
    <2>3. WakingHasSignal'
      BY <1>0, <2>1, Unmoved, Zenon DEF retrieve, TypeOK
    <2>4. QED
      BY <2>2, <2>3 DEF IInv
  <1>3. CASE collectRead(w)
    <2>1. TypeOK' /\ PollsSubs'
      BY <1>0, <1>3 DEF collectRead, TypeOK, PollsSubs, WorkerSteps, WakeSteps
    <2>2. WakingHasSignal'
      BY <1>0, <1>3 DEF collectRead, TypeOK, WakingHasSignal
    <2>3. QED
      BY <2>1, <2>2 DEF IInv
  <1>4. CASE collectClear(w)
    <2>1. TypeOK' /\ PollsSubs'
      BY <1>0, <1>4 DEF collectClear, TypeOK, PollsSubs, WorkerSteps, WakeSteps
    <2>2. WakingHasSignal'
      BY <1>0, <1>4, SMTT(40) DEF collectClear, TypeOK, PollsSubs, WakingHasSignal
    <2>3. QED
      BY <2>1, <2>2 DEF IInv
  <1>5. CASE dispatch(w)
    <2>0. active' \in [Subs -> BOOLEAN]
      BY <1>0, <1>5 DEF dispatch, TypeOK, PollsSubs
    <2>a. batch' \in [Subs -> [some : BOOLEAN, woken : BOOLEAN, block : BOOLEAN]]
      BY <1>0, <1>5 DEF dispatch, TypeOK, NoBatch
    <2>b. pc' \in [Threads -> WorkerSteps \cup WakeSteps \cup {"serving", "waiting", "done"}]
      <3>1. pc' = [pc EXCEPT ![w] = "loop"] \/ pc' = [pc EXCEPT ![w] = "help"]
        BY <1>5 DEF dispatch
      <3>2. QED
        BY <1>0, <3>1 DEF TypeOK, WorkerSteps
    <2>c. at' \in [Threads -> Threads] /\ todo' \in [Threads -> SUBSET Subs] /\ PollsSubs'
      BY <1>0, <1>5 DEF dispatch, TypeOK, PollsSubs
    <2>1. TypeOK' /\ PollsSubs'
      BY <1>0, <1>5, <2>0, <2>a, <2>b, <2>c DEF dispatch, TypeOK
    <2>2. WakingHasSignal'
      BY <1>0, <1>5, Unmoved, SMTT(40) DEF dispatch, TypeOK
    <2>3. QED
      BY <2>1, <2>2 DEF IInv
  <1>6. CASE help(w)
    <2>0. pc' \in [Threads -> WorkerSteps \cup WakeSteps \cup {"serving", "waiting", "done"}]
      <3>1. \E v \in {"recheck", "poll", "help"} : pc' = [pc EXCEPT ![w] = v]
        BY <1>6 DEF help
      <3>2. QED
        BY <1>0, <3>1 DEF TypeOK, WorkerSteps
    <2>a. /\ at' \in [Threads -> Threads] /\ PollsSubs'
          /\ todo' \in [Threads -> SUBSET Subs]
      BY <1>0, <1>6, SMTT(30) DEF help, TypeOK, PollsSubs
    <2>1. TypeOK' /\ PollsSubs'
      BY <1>0, <1>6, <2>0, <2>a DEF help, TypeOK
    <2>2. WakingHasSignal'
      BY <1>0, <1>6, Unmoved, SMTT(40) DEF help, TypeOK
    <2>3. QED
      BY <2>1, <2>2 DEF IInv
  <1>7. CASE recheck(w)
    <2>1. TypeOK' /\ PollsSubs'
      BY <1>0, <1>7 DEF recheck, TypeOK, PollsSubs, passedOn, WorkerSteps, WakeSteps
    <2>2. WakingHasSignal'
      BY <1>0, <1>7, Unmoved, SMTT(40) DEF recheck, TypeOK
    <2>3. QED
      BY <2>1, <2>2 DEF IInv
  <1>8. CASE becomesReady(w)
    <2>1. TypeOK' /\ PollsSubs'
      BY <1>0, <1>8 DEF becomesReady, TypeOK, PollsSubs
    <2>2. WakingHasSignal'
      BY <1>0, <1>8 DEF becomesReady, WakingHasSignal
    <2>3. QED
      BY <2>1, <2>2 DEF IInv
  <1>9. QED
    BY <1>1, <1>2, <1>3, <1>4, <1>5, <1>6, <1>7, <1>8 DEF WorkerStep

\* The steps of Wake and WakeAll.
LEMMA WakeIInv ==
    ASSUME IInv, NEW t \in Threads, WakeStep(t)
    PROVE  IInv'
  <1> USE ReactorAssumption DEF Threads
  <1>0. TypeOK /\ PollsSubs /\ WakingHasSignal
    BY DEF IInv
  <1>1. ASSUME NEW s \in todo[t], Wake(t), pc[t] = "wake",
               todo' = [todo EXCEPT ![t] = @ \ {s}],
               at' = [at EXCEPT ![t] = IF waking[s] THEN t ELSE s],
               waking' = [waking EXCEPT ![s] = TRUE],
               pc' = [pc EXCEPT ![t] = IF waking[s] THEN "wake" ELSE "writeWake"],
               UNCHANGED <<stopping, signal, ready, left, active, batch>>
        PROVE  IInv'
    <2>0. s \in Subs
      BY <1>0, <1>1 DEF TypeOK
    <2>1. TypeOK' /\ PollsSubs'
      BY <1>0, <1>1, <2>0 DEF TypeOK, PollsSubs, WorkerSteps, WakeSteps
    <2>2. WakingHasSignal'
      <3>1. CASE waking[s]
        <4>1. pc' = [pc EXCEPT ![t] = "wake"] /\ waking' = waking /\ pc[t] = "wake"
          BY <1>0, <1>1, <2>0, <3>1 DEF TypeOK
        <4>2. \A u \in Threads : pc[u] \in {"writeWake", "clearWake"} => pc'[u] = pc[u] /\ at'[u] = at[u]
          BY <1>0, <1>1, <4>1 DEF TypeOK
        <4>3. QED
          BY <1>0, <1>1, <4>1, <4>2 DEF WakingHasSignal
      <3>2. CASE ~waking[s]
        <4>1. pc'[t] = "writeWake" /\ at'[t] = s
          BY <1>0, <1>1, <3>2 DEF TypeOK
        <4>2. \A r \in Subs : r # s => waking'[r] = waking[r]
          BY <1>0, <1>1, <2>0 DEF TypeOK
        <4>3. \A u \in Threads : u # t => pc'[u] = pc[u] /\ at'[u] = at[u]
          BY <1>0, <1>1 DEF TypeOK
        <4>4. QED
          BY <1>0, <1>1, <4>1, <4>2, <4>3 DEF WakingHasSignal
      <3>3. QED
        BY <3>1, <3>2
    <2>3. QED
      BY <2>1, <2>2 DEF IInv
  <1>2. CASE writeWake(t)
    <2>1. TypeOK' /\ PollsSubs'
      BY <1>0, <1>2, Zenon DEF writeWake, TypeOK, PollsSubs, WorkerSteps, WakeSteps
    <2>2. WakingHasSignal'
      BY <1>0, <1>2, SMTT(40) DEF writeWake, TypeOK, WakingHasSignal
    <2>3. QED
      BY <2>1, <2>2 DEF IInv
  <1>3. CASE wakeAllDone(t)
    <2>1. TypeOK' /\ PollsSubs'
      BY <1>0, <1>3 DEF wakeAllDone, TypeOK, PollsSubs, WorkerSteps, WakeSteps
    <2>2. WakingHasSignal'
      BY <1>0, <1>3, Unmoved DEF wakeAllDone, TypeOK
    <2>3. QED
      BY <2>1, <2>2 DEF IInv
  <1>4. QED
    BY <1>1, <1>2, <1>3 DEF WakeStep, Wake

\* The inductive invariant holds throughout.
THEOREM Invariance == Spec => []IInv
  <1> USE ReactorAssumption DEF Threads
  <1>1. IInv /\ [Next]_vars => IInv'
    <2> SUFFICES ASSUME IInv, [Next]_vars PROVE IInv'
      OBVIOUS
    <2>0. TypeOK /\ PollsSubs /\ WakingHasSignal
      BY DEF IInv
    <2>1. CASE stopWorkers
      <3>1. TypeOK' /\ PollsSubs'
        BY <2>0, <2>1 DEF stopWorkers, TypeOK, PollsSubs, WorkerSteps, WakeSteps
      <3>2. WakingHasSignal'
        BY <2>0, <2>1, Unmoved DEF stopWorkers, TypeOK
      <3>3. QED
        BY <3>1, <3>2 DEF IInv
    <2>2. CASE stopped
      <3>1. TypeOK' /\ PollsSubs'
        BY <2>0, <2>2 DEF stopped, TypeOK, PollsSubs, WorkerSteps, WakeSteps
      <3>2. WakingHasSignal'
        BY <2>0, <2>2, Unmoved DEF stopped, TypeOK
      <3>3. QED
        BY <3>1, <3>2 DEF IInv
    <2>3. CASE UNCHANGED vars
      BY <2>0, <2>3 DEF vars, IInv, TypeOK, PollsSubs, WakingHasSignal
    <2>4. QED
      BY <2>1, <2>2, <2>3, WorkerIInv, WakeIInv DEF Next
  <1>2. QED
    BY InitIInv, <1>1, PTL DEF Spec

\* The comment in Poller.Wake: a Wake that writes nothing leaves its signal to one
\* that has not been consumed, whatever the workers and other wakers are doing.
THEOREM NoWakeupLost == Spec => []WakingHasSignal
  BY Invariance, PTL DEF IInv

=============================================================================
