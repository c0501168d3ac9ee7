------------------------------ MODULE TaskPool ------------------------------
(***************************************************************************)
(* What a pool of threads that share one TaskQueue promises.  A thread     *)
(* takes the oldest task and calls it later, so a task may be overtaken    *)
(* between the two, but only while a thread holds it: of the accepted      *)
(* tasks that have not started, the next to start is one of the oldest     *)
(* `reach', where reach is the number of threads.  A pool with one thread  *)
(* is a TaskQueue.  ThreadPool implements this specification.              *)
(***************************************************************************)
EXTENDS TaskQueue, Naturals

VARIABLE reach      \* the threads of the pool, which the specification leaves free

\* s without its i-th element
Without(s, i) == [j \in 1..(Len(s) - 1) |-> IF j < i THEN s[j] ELSE s[j + 1]]

\* a thread starts the task that it took
StartOneOf(i) ==
    /\ i \in DOMAIN queue
    /\ ran' = Append(ran, queue[i])
    /\ queue' = Without(queue, i)

PoolNext ==
    \/ \E t \in Tasks : Submit(t) \/ (reach = 0 /\ RunInPlace(t))
    \/ \E i \in 1..reach : StartOneOf(i)

PoolSpec == Init /\ [][PoolNext]_<<queue, ran>>
=============================================================================
