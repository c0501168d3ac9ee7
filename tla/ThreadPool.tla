---------------------------- MODULE ThreadPool ----------------------------
(***************************************************************************)
(* base/ThreadPool: clients hand tasks to a queue that may be bounded,     *)
(* workers take them, the owner starts and stops the pool.  A thread that  *)
(* waits on a condition variable releases the mutex, is woken by a notify  *)
(* or for no reason, and then competes for the mutex again; each step      *)
(* below is one stretch of code under the mutex or between two of them.    *)
(***************************************************************************)
EXTENDS Naturals, Sequences, FiniteSets

CONSTANTS
    Workers,        \* threads that start() may create
    Clients,        \* threads that call run()
    Tasks,          \* tasks, each handed over at most once
    MaxQueueSize,   \* maxQueueSize_; 0: unbounded
    NoTask

ASSUME PoolAssumption ==
    /\ MaxQueueSize \in Nat /\ NoTask \notin Tasks
    /\ IsFiniteSet(Workers) /\ IsFiniteSet(Clients)

VARIABLES
    running,        \* running_
    threads,        \* threads_; when it is empty run() runs the task itself
    queue,          \* queue_
    worker,         \* per worker: where it is
    client,         \* per client: where it is
    carries,        \* per client: the task of its call of run()
    owner,          \* the owner of the pool
    submitted,      \* tasks given to run() so far
    refused,        \* tasks run() returned without accepting
    hand,           \* per worker: the task that take() returned and it has not called yet
    taken,          \* history: the tasks in the workers' hands, in the order of taking
    ran             \* tasks in the order in which they were started

starts == <<hand, taken, ran>>
vars == <<running, threads, queue, worker, client, carries, owner, submitted, refused, starts>>

\* worker: not started; at while(running_); about to lock in take(); in
\* notEmpty_.wait(); back from take() with a task; in the task; returned from
\* runInThread.
\* client: not in run(); about to lock in run(); in notFull_.wait().
\* owner: before start(); started; joining in stop(); stopped.
TypeOK ==
    /\ running \in BOOLEAN /\ threads \subseteq Workers
    /\ queue \in Seq(Tasks) /\ taken \in Seq(Tasks) /\ ran \in Seq(Tasks)
    /\ worker \in [Workers -> {"none", "test", "take", "waiting", "taken", "task", "exited"}]
    /\ hand \in [Workers -> Tasks \cup {NoTask}]
    /\ client \in [Clients -> {"idle", "run", "waiting"}]
    /\ carries \in [Clients -> Tasks \cup {NoTask}]
    /\ owner \in {"new", "started", "join", "stopped"}
    /\ submitted \subseteq Tasks /\ refused \subseteq submitted
    /\ \A c \in Clients : client[c] = "idle" <=> carries[c] = NoTask
    /\ MaxQueueSize > 0 => Len(queue) <= MaxQueueSize

Init ==
    /\ running = FALSE /\ threads = {} /\ queue = << >> /\ taken = << >> /\ ran = << >>
    /\ hand = [w \in Workers |-> NoTask]
    /\ worker = [w \in Workers |-> "none"]
    /\ client = [c \in Clients |-> "idle"]
    /\ carries = [c \in Clients |-> NoTask]
    /\ owner = "new"
    /\ submitted = {} /\ refused = {}

\* Condition::notify wakes one thread that waits, if there is one
NotifyWorker ==
    IF \A w \in Workers : worker[w] # "waiting" THEN {worker}
    ELSE {[worker EXCEPT ![w] = "take"] : w \in {x \in Workers : worker[x] = "waiting"}}

NotifyClient ==
    IF \A c \in Clients : client[c] # "waiting" THEN {client}
    ELSE {[client EXCEPT ![c] = "run"] : c \in {x \in Clients : client[x] = "waiting"}}

-----------------------------------------------------------------------------
(* The owner *)

\* start(numThreads)
Start ==
    /\ owner = "new"
    /\ running' = TRUE
    /\ threads' \in SUBSET Workers
    /\ worker' = [w \in Workers |-> IF w \in threads' THEN "test" ELSE "none"]
    /\ owner' = "started"
    /\ UNCHANGED <<queue, client, carries, submitted, refused, starts>>

\* Wrong variant: only the workers are woken.
StopWorkersOnly ==
    /\ owner = "started"
    /\ running' = FALSE
    /\ worker' = [w \in Workers |-> IF worker[w] = "waiting" THEN "take" ELSE worker[w]]
    /\ owner' = "join"
    /\ UNCHANGED <<threads, queue, client, carries, submitted, refused, starts>>

\* Wrong variant: only the clients are woken.
StopClientsOnly ==
    /\ owner = "started"
    /\ running' = FALSE
    /\ client' = [c \in Clients |-> IF client[c] = "waiting" THEN "run" ELSE client[c]]
    /\ owner' = "join"
    /\ UNCHANGED <<threads, queue, worker, carries, submitted, refused, starts>>

\* stop(), or the destructor which calls it: notifyAll on both conditions
Stop ==
    /\ owner = "started"
    /\ running' = FALSE
    /\ worker' = [w \in Workers |-> IF worker[w] = "waiting" THEN "take" ELSE worker[w]]
    /\ client' = [c \in Clients |-> IF client[c] = "waiting" THEN "run" ELSE client[c]]
    /\ owner' = "join"
    /\ UNCHANGED <<threads, queue, carries, submitted, refused, starts>>

\* stop() has joined every thread
Join ==
    /\ owner = "join" /\ \A w \in threads : worker[w] = "exited"
    /\ owner' = "stopped"
    /\ UNCHANGED <<running, threads, queue, worker, client, carries, submitted, refused, starts>>

-----------------------------------------------------------------------------
(* Clients *)

\* isFull()
IsFull == MaxQueueSize > 0 /\ Len(queue) >= MaxQueueSize

\* run() is called on a pool with threads, stopped or not
CallRun(c, t) ==
    /\ client[c] = "idle" /\ t \in Tasks \ submitted
    /\ threads # {}
    /\ client' = [client EXCEPT ![c] = "run"]
    /\ carries' = [carries EXCEPT ![c] = t]
    /\ submitted' = submitted \cup {t}
    /\ UNCHANGED <<running, threads, queue, worker, owner, refused, starts>>

\* run() on a pool without threads: task()
RunHere(c, t) ==
    /\ client[c] = "idle" /\ t \in Tasks \ submitted
    /\ threads = {}
    /\ submitted' = submitted \cup {t}
    /\ ran' = Append(ran, t)
    /\ UNCHANGED <<running, threads, queue, worker, client, carries, owner, refused, hand,
                   taken>>

\* while (isFull() && running_) notFull_.wait()
RunWaits(c) ==
    /\ client[c] = "run" /\ IsFull /\ running
    /\ client' = [client EXCEPT ![c] = "waiting"]
    /\ UNCHANGED <<running, threads, queue, worker, carries, owner, submitted, refused, starts>>

\* if (!running_) return
RunRefused(c) ==
    /\ client[c] = "run" /\ ~running
    /\ client' = [client EXCEPT ![c] = "idle"]
    /\ carries' = [carries EXCEPT ![c] = NoTask]
    /\ refused' = refused \cup {carries[c]}
    /\ UNCHANGED <<running, threads, queue, worker, owner, submitted, starts>>

\* Wrong variant: a worker is notified only when the queue was empty.
WorkersToldIfEmpty == IF queue = << >> THEN NotifyWorker ELSE {worker}

\* the notify that ends run()
WorkersTold == NotifyWorker

\* the push_back
RunAccepted(c) ==
    /\ client[c] = "run" /\ ~IsFull /\ running
    /\ queue' = Append(queue, carries[c])
    /\ worker' \in WorkersTold
    /\ client' = [client EXCEPT ![c] = "idle"]
    /\ carries' = [carries EXCEPT ![c] = NoTask]
    /\ UNCHANGED <<running, threads, owner, submitted, refused, starts>>

-----------------------------------------------------------------------------
(* Workers *)

\* while (running_), read without the mutex
TestRunning(w) ==
    /\ worker[w] = "test"
    /\ worker' = [worker EXCEPT ![w] = IF running THEN "take" ELSE "exited"]
    /\ UNCHANGED <<running, threads, queue, client, carries, owner, submitted, refused, starts>>

\* while (queue_.empty() && running_) notEmpty_.wait()
TakeWaits(w) ==
    /\ worker[w] = "take" /\ queue = << >> /\ running
    /\ worker' = [worker EXCEPT ![w] = "waiting"]
    /\ UNCHANGED <<running, threads, queue, client, carries, owner, submitted, refused, starts>>

\* an empty Task
TakeNothing(w) ==
    /\ worker[w] = "take" /\ queue = << >> /\ ~running
    /\ worker' = [worker EXCEPT ![w] = "test"]
    /\ UNCHANGED <<running, threads, queue, client, carries, owner, submitted, refused, starts>>

\* the notify that ends take()
ClientsTold == IF MaxQueueSize > 0 THEN NotifyClient ELSE {client}

\* The rest of take(): the task is in the worker's hand, a client is told
Taken(w) ==
    /\ worker' = [worker EXCEPT ![w] = "taken"]
    /\ hand' = [hand EXCEPT ![w] = Head(queue)] /\ taken' = Append(taken, Head(queue))
    /\ client' \in ClientsTold
    /\ UNCHANGED <<running, threads, carries, owner, submitted, refused, ran>>

\* Wrong variant: the task stays in the queue.
TakeTaskCopies(w) == worker[w] = "take" /\ queue # << >> /\ UNCHANGED queue /\ Taken(w)

\* front and pop_front, under the mutex.  A worker that was in take() when the
\* pool was stopped still takes one.
TakeTask(w) == worker[w] = "take" /\ queue # << >> /\ queue' = Tail(queue) /\ Taken(w)

\* What the pool promises; a task in a worker's hand is still to be started.
TP == INSTANCE TaskPool WITH queue <- taken \o queue, reach <- Cardinality(threads)

\* task(), without the mutex: another worker may have taken a later task and
\* called it before
StartTask(w) ==
    /\ worker[w] = "taken"
    /\ worker' = [worker EXCEPT ![w] = "task"]
    /\ hand' = [hand EXCEPT ![w] = NoTask] /\ ran' = Append(ran, hand[w])
    /\ \E i \in DOMAIN taken : taken[i] = hand[w] /\ taken' = TP!Without(taken, i)
    /\ UNCHANGED <<running, threads, queue, client, carries, owner, submitted, refused>>

\* the task returns
TaskReturns(w) ==
    /\ worker[w] = "task"
    /\ worker' = [worker EXCEPT ![w] = "test"]
    /\ UNCHANGED <<running, threads, queue, client, carries, owner, submitted, refused, starts>>

\* pthread_cond_wait returns for no reason
SpuriousWakeup ==
    \/ /\ \E w \in Workers : worker[w] = "waiting" /\ worker' = [worker EXCEPT ![w] = "take"]
       /\ UNCHANGED <<running, threads, queue, client, carries, owner, submitted, refused, starts>>
    \/ /\ \E c \in Clients : client[c] = "waiting" /\ client' = [client EXCEPT ![c] = "run"]
       /\ UNCHANGED <<running, threads, queue, worker, carries, owner, submitted, refused, starts>>

-----------------------------------------------------------------------------
WorkerStep(w) ==
    TestRunning(w) \/ TakeWaits(w) \/ TakeNothing(w) \/ TakeTask(w)
        \/ StartTask(w) \/ TaskReturns(w)

ClientStep(c) == RunWaits(c) \/ RunRefused(c) \/ RunAccepted(c)

\* The pool is stopped and nobody has a task left to hand over.
Terminated ==
    /\ owner = "stopped" /\ submitted = Tasks /\ \A c \in Clients : client[c] = "idle"
    /\ UNCHANGED vars

Next ==
    \/ Start \/ Stop \/ Join
    \/ \E w \in Workers : WorkerStep(w)
    \/ \E c \in Clients : ClientStep(c) \/ \E t \in Tasks : CallRun(c, t) \/ RunHere(c, t)
    \/ SpuriousWakeup
    \/ Terminated

Spec == Init /\ [][Next]_vars

\* Threads run, tasks return, and a thread that keeps finding the mutex free gets
\* it.  No condition variable has to wake anybody without a notify.
FairSpec ==
    /\ Spec
    /\ WF_vars(Join)
    /\ \A w \in Workers : WF_vars(WorkerStep(w))
    /\ \A c \in Clients : WF_vars(ClientStep(c))

-----------------------------------------------------------------------------
(* Properties *)

\* ThreadPool.cc:78-118: a worker never sleeps while the queue holds a task that
\* no other worker is on its way to: each push wakes one worker, and a worker that
\* loses the race for a task lost it to one that was on its way as well.
WorkersOnTheirWay ==
    (\E w \in Workers : worker[w] = "waiting") =>
        Cardinality({w \in Workers : worker[w] = "take"}) >= Len(queue)

\* ThreadPool.cc:85-118: a client never sleeps while the queue has room that no
\* other client is about to use: each task taken wakes one client.
RoomIsUsed ==
    (\E c \in Clients : client[c] = "waiting") =>
        Cardinality({c \in Clients : client[c] = "run"}) + Len(queue) >= MaxQueueSize

\* ThreadPool.cc:78-118: no notify is lost on either condition: a task never waits
\* for a worker that sleeps, nor room for a client that does; and the queue keeps
\* to its bound (TypeOK).
NotifiesSuffice == TypeOK /\ WorkersOnTheirWay /\ RoomIsUsed

\* ThreadPool.cc:85-118, 134-139: an accepted task is started at most once, and
\* only after every task accepted before it but those that other workers hold in
\* their hands: fewer than there are threads, so a pool with one thread starts its
\* tasks in the order of acceptance.
ImplementsTaskPool == TP!PoolSpec

\* ThreadPool.h:49-50: run() returns after stop(), also when it was blocked on a
\* full queue before.
RunReturns ==
    \A c \in Clients : (client[c] # "idle" /\ owner = "join") ~> (client[c] = "idle")

\* ThreadPool.cc:58-70: stop() returns.
StopReturns == (owner = "join") ~> (owner = "stopped")
=============================================================================
