----------------------------- MODULE SerialTask -----------------------------
(***************************************************************************)
(* What the engine promises about the task of one connection or socket     *)
(* (the comment on conn.notify in task_unix.go): events may be notified at *)
(* any time by anybody, rounds never overlap, and an event notified is     *)
(* taken by a round that starts after the notification, unless the         *)
(* connection is gone by then.                                             *)
(***************************************************************************)
CONSTANT Events     \* the event bits a task can be notified of

VARIABLES pending,  \* events notified and not yet taken by a round
          phase     \* where the task is

vars == <<pending, phase>>

Phases == {"idle", "queued", "running", "gone"}

TypeOK == /\ pending \subseteq Events
          /\ phase \in Phases

Init == pending = {} /\ phase = "idle"

\* Anybody notifies events; an idle task becomes due to run.
Notify(evs) == /\ pending' = pending \cup evs
               /\ phase' = IF phase = "idle" THEN "queued" ELSE phase

\* A round begins: it takes every event pending at that moment.
Begin == /\ phase = "queued"
         /\ phase' = "running"
         /\ pending' = {}

\* The round ends; events notified meanwhile make the task due again.
End == /\ phase = "running"
       /\ phase' = IF pending = {} THEN "idle" ELSE "queued"
       /\ UNCHANGED pending

\* The round closed the connection (or Detach took it away): no further round.
Retire == /\ phase = "running"
          /\ phase' = "gone"
          /\ UNCHANGED pending

\* Detach takes the task over while it is idle, in place of a round.
TakeOver == /\ phase = "idle"
            /\ phase' = "running"
            /\ UNCHANGED pending

Next == \/ \E evs \in (SUBSET Events) \ {{}} : Notify(evs)
        \/ Begin \/ End \/ Retire \/ TakeOver

Spec == Init /\ [][Next]_vars

\* Every event notified is eventually taken by a round, or the connection is
\* gone: what weak fairness of the executor (Begin) and of the rounds (End)
\* gives, and what the state word has to implement.
EventuallyTaken == \A e \in Events : e \in pending ~> (e \notin pending \/ phase = "gone")

=============================================================================
