---------------------------- MODULE MCTaskPool ----------------------------
EXTENDS TaskPool

Load(n, workers, tasks, shards, exits, close) ==
    [shards |-> n, workers |-> workers, submit |-> tasks, shard |-> shards, exits |-> exits, close |-> close]

\* Two goroutines submit to one shard, and the other lends it its worker.
Racing == Load(2, 1, << <<1>>, <<2>> >>, <<1, 1, 1>>, FALSE, FALSE)
\* The queue overflows in a pool that has one worker.
Filling == Load(1, 1, << <<1, 2, 3>> >>, <<1, 1, 1>>, FALSE, FALSE)
\* Tasks that call Goexit.
Exiting == Load(1, 1, << <<1, 2>> >>, <<1, 1, 1>>, TRUE, FALSE)
\* The pool is closed while a task is submitted to each shard, or two to one.
Closing == Load(1, 1, << <<1, 2>> >>, <<1, 1, 1>>, FALSE, TRUE)
ClosingTwo == Load(2, 1, << <<1>>, <<2>> >>, <<1, 2, 1>>, FALSE, TRUE)

MCLoads == {Racing, Filling, Exiting, Closing, ClosingTwo}
ClosingLoads == {Closing}
=============================================================================
