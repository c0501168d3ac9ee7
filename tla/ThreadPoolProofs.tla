------------------------- MODULE ThreadPoolProofs -------------------------
(***************************************************************************)
(* Proofs about ThreadPool for any number of workers, clients and tasks    *)
(* and any queue bound: no notify is lost on either condition variable,    *)
(* and the pool implements TaskPool.                                       *)
(***************************************************************************)
EXTENDS ThreadPool, FiniteSetTheorems, SequenceTheorems, TLAPS

USE PoolAssumption

-----------------------------------------------------------------------------
(* Counting the threads that are at one place *)

\* The threads x with f[x] = v, as WorkersOnTheirWay and RoomIsUsed count them.
At(S, f, v) == {x \in S : f[x] = v}

\* The count is a number.
LEMMA CountType ==
    ASSUME NEW S, IsFiniteSet(S), NEW f, NEW v
    PROVE  IsFiniteSet(At(S, f, v)) /\ Cardinality(At(S, f, v)) \in Nat
<1>1. At(S, f, v) \subseteq S
  BY DEF At
<1> QED BY <1>1, FS_Subset, FS_CardinalityType

\* A thread that arrives at v is one more there.
LEMMA CountArrives ==
    ASSUME NEW S, IsFiniteSet(S), NEW T, NEW f \in [S -> T], NEW v,
           NEW x \in S, f[x] # v
    PROVE  Cardinality(At(S, [f EXCEPT ![x] = v], v)) = Cardinality(At(S, f, v)) + 1
<1>1. At(S, [f EXCEPT ![x] = v], v) = At(S, f, v) \cup {x}
  BY DEF At
<1>2. x \notin At(S, f, v)
  BY DEF At
<1> QED BY <1>1, <1>2, CountType, FS_AddElement

\* A thread that leaves v is one less there.
LEMMA CountLeaves ==
    ASSUME NEW S, IsFiniteSet(S), NEW f, NEW g, NEW v,
           NEW x \in At(S, f, v), At(S, g, v) = At(S, f, v) \ {x}
    PROVE  Cardinality(At(S, g, v)) = Cardinality(At(S, f, v)) - 1
BY CountType, FS_RemoveElement

-----------------------------------------------------------------------------
(* The elements of a queue *)

\* Append adds one task to those the abstract queue knows.
LEMMA KnownAppend ==
    ASSUME NEW s \in Seq(Tasks), NEW t \in Tasks
    PROVE  TP!Known(Append(s, t)) = TP!Known(s) \cup {t}
<1>1. /\ DOMAIN Append(s, t) = 1..(Len(s) + 1) /\ DOMAIN s = 1..Len(s)
      /\ Len(s) \in Nat
      /\ \A i \in 1..Len(s) : Append(s, t)[i] = s[i]
      /\ Append(s, t)[Len(s) + 1] = t
  OBVIOUS
<1>2. 1..(Len(s) + 1) = 1..Len(s) \cup {Len(s) + 1}
  BY <1>1
<1> QED BY <1>1, <1>2 DEF TP!Known

\* pop_front divides the queue into the task taken and the rest.
LEMMA KnownHeadTail ==
    ASSUME NEW s \in Seq(Tasks), s # << >>
    PROVE  TP!Known(s) = TP!Known(Tail(s)) \cup {Head(s)}
<1>1. /\ Len(s) \in Nat /\ Len(s) >= 1
      /\ DOMAIN s = 1..Len(s) /\ DOMAIN Tail(s) = 1..(Len(s) - 1)
      /\ Head(s) = s[1]
  OBVIOUS
<1>2. \A i \in 1..(Len(s) - 1) : Tail(s)[i] = s[i + 1] /\ i + 1 \in 1..Len(s)
  BY <1>1
<1>3. \A i \in 1..Len(s) :
        i # 1 => i - 1 \in 1..(Len(s) - 1) /\ Tail(s)[i - 1] = s[i]
  BY <1>1
<1>4. 1 \in 1..Len(s)
  BY <1>1
<1>5. ASSUME NEW x \in TP!Known(s)
      PROVE  x \in TP!Known(Tail(s)) \cup {Head(s)}
  <2>1. PICK i \in 1..Len(s) : x = s[i]
    BY <1>1, <1>5 DEF TP!Known
  <2> QED BY <1>1, <1>3, <2>1 DEF TP!Known
<1>6. ASSUME NEW x \in TP!Known(Tail(s)) \cup {Head(s)}
      PROVE  x \in TP!Known(s)
  BY <1>1, <1>2, <1>4, <1>6 DEF TP!Known
<1> QED BY <1>5, <1>6

\* The tasks of two sequences, one behind the other.
LEMMA KnownConcat ==
    ASSUME NEW s \in Seq(Tasks), NEW q \in Seq(Tasks)
    PROVE  TP!Known(s \o q) = TP!Known(s) \cup TP!Known(q)
<1>1. /\ Len(s) \in Nat /\ Len(q) \in Nat
      /\ DOMAIN s = 1..Len(s) /\ DOMAIN q = 1..Len(q)
      /\ DOMAIN (s \o q) = 1..(Len(s) + Len(q))
      /\ \A i \in 1..Len(s) : (s \o q)[i] = s[i]
      /\ \A i \in 1..Len(q) : (s \o q)[Len(s) + i] = q[i]
  OBVIOUS
<1>2. \A i \in 1..(Len(s) + Len(q)) : i \in 1..Len(s) \/ i - Len(s) \in 1..Len(q)
  BY <1>1
<1>3. /\ \A i \in 1..Len(s) : i \in 1..(Len(s) + Len(q))
      /\ \A i \in 1..Len(q) : Len(s) + i \in 1..(Len(s) + Len(q))
  BY <1>1
<1>4. \A i \in 1..(Len(s) + Len(q)) : i = Len(s) + (i - Len(s))
  BY <1>1
<1>5. ASSUME NEW x \in TP!Known(s \o q)
      PROVE  x \in TP!Known(s) \cup TP!Known(q)
  <2>1. PICK i \in 1..(Len(s) + Len(q)) : x = (s \o q)[i]
    BY <1>1, <1>5 DEF TP!Known
  <2> QED BY <1>1, <1>2, <1>4, <2>1 DEF TP!Known
<1>6. ASSUME NEW x \in TP!Known(s) \cup TP!Known(q)
      PROVE  x \in TP!Known(s \o q)
  BY <1>1, <1>3, <1>6 DEF TP!Known
<1> QED BY <1>5, <1>6

\* Intervals that start at 1 have their length in common.
LEMMA SameInterval ==
    ASSUME NEW a \in Nat, NEW b \in Nat, 1..a = 1..b
    PROVE  a = b
<1>1. /\ \A n \in Int : n \in 1..a <=> 1 <= n /\ n <= a
      /\ \A n \in Int : n \in 1..b <=> 1 <= n /\ n <= b
  OBVIOUS
<1>2. CASE a < b
  BY <1>1, <1>2
<1>3. CASE b < a
  BY <1>1, <1>3
<1> QED BY <1>2, <1>3

\* Without leaves a sequence of tasks that is one shorter and knows no others.
LEMMA WithoutType ==
    ASSUME NEW s \in Seq(Tasks), NEW i \in DOMAIN s
    PROVE  /\ TP!Without(s, i) \in Seq(Tasks) /\ Len(TP!Without(s, i)) = Len(s) - 1
           /\ Len(s) >= 1 /\ i \in 1..Len(s) /\ s[i] \in Tasks
           /\ TP!Known(TP!Without(s, i)) \subseteq TP!Known(s)
<1>1. /\ Len(s) \in Nat /\ DOMAIN s = 1..Len(s) /\ i \in 1..Len(s) /\ Len(s) - 1 \in Nat
      /\ \A j \in 1..Len(s) : s[j] \in Tasks
  OBVIOUS
<1>2. \A j \in 1..(Len(s) - 1) : j \in 1..Len(s) /\ j + 1 \in 1..Len(s)
  BY <1>1
<1>3. TP!Without(s, i) \in [1..(Len(s) - 1) -> Tasks]
  BY <1>1, <1>2 DEF TP!Without
<1>4. TP!Without(s, i) \in Seq(Tasks) /\ Len(TP!Without(s, i)) = Len(s) - 1
  <2>1. TP!Without(s, i) \in Seq(Tasks)
    BY <1>1, <1>3, SeqDef
  <2>2. DOMAIN TP!Without(s, i) = 1..(Len(s) - 1)
    BY DEF TP!Without
  <2>3. Len(TP!Without(s, i)) \in Nat /\ 1..Len(TP!Without(s, i)) = 1..(Len(s) - 1)
    BY <2>1, <2>2, LenProperties
  <2>4. Len(TP!Without(s, i)) = Len(s) - 1
    BY <1>1, <2>3, SameInterval
  <2> QED BY <2>1, <2>4
<1>5. \A j \in DOMAIN TP!Without(s, i) : \E k \in DOMAIN s : TP!Without(s, i)[j] = s[k]
  BY <1>1, <1>2 DEF TP!Without
<1>6. TP!Known(TP!Without(s, i)) \subseteq TP!Known(s)
  BY <1>5 DEF TP!Known
<1> QED BY <1>1, <1>4, <1>6

\* A task taken from the first of two sequences leaves the second alone.
LEMMA WithoutConcat ==
    ASSUME NEW s \in Seq(Tasks), NEW q \in Seq(Tasks), NEW i \in DOMAIN s
    PROVE  /\ TP!Without(s \o q, i) = TP!Without(s, i) \o q
           /\ i \in DOMAIN (s \o q) /\ (s \o q)[i] = s[i]
<1> DEFINE r == TP!Without(s, i)
<1>1. /\ r \in Seq(Tasks) /\ Len(r) = Len(s) - 1 /\ i \in 1..Len(s)
      /\ Len(s) \in Nat /\ Len(q) \in Nat /\ Len(s) >= 1
      /\ s \o q \in Seq(Tasks) /\ Len(s \o q) = Len(s) + Len(q)
  BY WithoutType
<1>2. /\ \A j \in 1..Len(s) : (s \o q)[j] = s[j]
      /\ \A j \in 1..(Len(s) + Len(q)) : j > Len(s) => (s \o q)[j] = q[j - Len(s)]
  BY <1>1
<1>3. \A j \in 1..(Len(s) - 1) : r[j] = IF j < i THEN s[j] ELSE s[j + 1]
  BY DEF TP!Without
<1> HIDE DEF r
<1>5. /\ DOMAIN (r \o q) = 1..(Len(s) + Len(q) - 1)
      /\ \A j \in 1..(Len(s) - 1) : (r \o q)[j] = r[j]
      /\ \A j \in 1..(Len(s) + Len(q) - 1) :
            j > Len(s) - 1 => (r \o q)[j] = q[j - (Len(s) - 1)]
  BY <1>1
<1>6. \A j \in 1..(Len(s) + Len(q) - 1) :
        TP!Without(s \o q, i)[j] = IF j < i THEN (s \o q)[j] ELSE (s \o q)[j + 1]
  BY <1>1 DEF TP!Without
<1>7. ASSUME NEW j \in 1..(Len(s) + Len(q) - 1)
      PROVE  TP!Without(s \o q, i)[j] = (r \o q)[j]
  <2>1. CASE j <= Len(s) - 1
    <3>1. j \in 1..(Len(s) - 1) /\ j \in 1..Len(s) /\ j + 1 \in 1..Len(s)
      BY <1>1, <2>1
    <3> QED BY <1>2, <1>3, <1>5, <1>6, <3>1
  <2>2. CASE j > Len(s) - 1
    <3>1. /\ ~(j < i) /\ j + 1 > Len(s) /\ j + 1 \in 1..(Len(s) + Len(q))
          /\ (j + 1) - Len(s) = j - (Len(s) - 1)
      BY <1>1, <2>2
    <3>2. (s \o q)[j + 1] = q[(j + 1) - Len(s)]
      BY <1>2, <3>1
    <3> QED BY <1>5, <1>6, <2>2, <3>1, <3>2
  <2> QED BY <1>1, <2>1, <2>2
<1>8. /\ r \o q \in Seq(Tasks) /\ Len(r \o q) = Len(s) + Len(q) - 1
      /\ TP!Without(s \o q, i) \in Seq(Tasks)
      /\ Len(TP!Without(s \o q, i)) = Len(s) + Len(q) - 1
  <2>1. i \in DOMAIN (s \o q)
    BY <1>1
  <2>2. r \o q \in Seq(Tasks) /\ Len(r \o q) = Len(s) + Len(q) - 1
    BY <1>1
  <2>3. /\ TP!Without(s \o q, i) \in Seq(Tasks)
        /\ Len(TP!Without(s \o q, i)) = Len(s \o q) - 1
    BY <1>1, <2>1, WithoutType
  <2> QED BY <1>1, <2>2, <2>3
<1>8a. TP!Without(s \o q, i) = r \o q
  BY <1>7, <1>8, SeqEqual
<1>9. i \in DOMAIN (s \o q) /\ (s \o q)[i] = s[i]
  BY <1>1, <1>2
<1> QED BY <1>8a, <1>9 DEF r

-----------------------------------------------------------------------------
(* The invariant of the notifies *)

\* Nobody waits for room in a pool that does not run: only stop() clears
\* running_, and it wakes every client.
NobodyBlocked == ~running => \A c \in Clients : client[c] # "waiting"

\* The task of a call of run() in progress has been submitted.
CarriedSubmitted == \A c \in Clients : client[c] # "idle" => carries[c] \in submitted

\* What Condition::notify does to the workers and to their count.
LEMMA WorkerNotified ==
    ASSUME TypeOK, NEW g \in WorkersTold
    PROVE  /\ g \in [Workers -> {"none", "test", "take", "waiting", "taken", "task", "exited"}]
           /\ (\E w \in Workers : g[w] = "waiting") =>
                /\ \E w \in Workers : worker[w] = "waiting"
                /\ Cardinality(At(Workers, g, "take"))
                     = Cardinality(At(Workers, worker, "take")) + 1
<1>1. worker \in [Workers -> {"none", "test", "take", "waiting", "taken", "task", "exited"}]
  BY DEF TypeOK
<1>2. CASE \A w \in Workers : worker[w] # "waiting"
  <2>1. g = worker
    BY <1>2 DEF WorkersTold, NotifyWorker
  <2> QED BY <1>1, <1>2, <2>1
<1>3. CASE ~ \A w \in Workers : worker[w] # "waiting"
  <2>1. PICK w \in Workers : worker[w] = "waiting" /\ g = [worker EXCEPT ![w] = "take"]
    BY <1>3 DEF WorkersTold, NotifyWorker
  <2>2. worker[w] # "take"
    BY <2>1
  <2>3. Cardinality(At(Workers, g, "take")) = Cardinality(At(Workers, worker, "take")) + 1
    BY <1>1, <2>1, <2>2, CountArrives
  <2> QED BY <1>1, <2>1, <2>3
<1> QED BY <1>2, <1>3

\* What the notify that ends take() does to the clients and to their count.
LEMMA ClientNotified ==
    ASSUME TypeOK, NEW g \in ClientsTold
    PROVE  /\ g \in [Clients -> {"idle", "run", "waiting"}]
           /\ \A c \in Clients : /\ g[c] = "idle" <=> client[c] = "idle"
                                 /\ g[c] = "waiting" => client[c] = "waiting"
           /\ MaxQueueSize > 0 /\ (\E c \in Clients : g[c] = "waiting") =>
                Cardinality(At(Clients, g, "run"))
                     = Cardinality(At(Clients, client, "run")) + 1
<1>1. client \in [Clients -> {"idle", "run", "waiting"}]
  BY DEF TypeOK
<1>2. CASE MaxQueueSize = 0 \/ \A c \in Clients : client[c] # "waiting"
  <2>1. g = client
    BY <1>2 DEF ClientsTold, NotifyClient
  <2> QED BY <1>1, <1>2, <2>1
<1>3. CASE ~ (MaxQueueSize = 0 \/ \A c \in Clients : client[c] # "waiting")
  <2>1. MaxQueueSize > 0
    BY <1>3
  <2>2. PICK c \in Clients : client[c] = "waiting" /\ g = [client EXCEPT ![c] = "run"]
    BY <1>3, <2>1 DEF ClientsTold, NotifyClient
  <2>3. client[c] # "run"
    BY <2>2
  <2>4. Cardinality(At(Clients, g, "run")) = Cardinality(At(Clients, client, "run")) + 1
    BY <1>1, <2>2, <2>3, CountArrives
  <2> QED BY <1>1, <2>2, <2>4
<1> QED BY <1>2, <1>3

\* One step keeps the types, the bound of the queue and what supports them.
LEMMA TypeStep ==
    TypeOK /\ NobodyBlocked /\ CarriedSubmitted /\ [Next]_vars
        => TypeOK' /\ NobodyBlocked' /\ CarriedSubmitted'
<1> DEFINE Goal == TypeOK' /\ NobodyBlocked' /\ CarriedSubmitted'
<1> SUFFICES ASSUME TypeOK, NobodyBlocked, CarriedSubmitted, [Next]_vars
             PROVE  Goal
  OBVIOUS
<1> USE DEF NobodyBlocked, CarriedSubmitted, starts
<1>1. CASE Start
  BY <1>1 DEF Start, TypeOK
<1>2. CASE Stop
  BY <1>2 DEF Stop, TypeOK
<1>3. CASE Join \/ Terminated \/ UNCHANGED vars
  BY <1>3 DEF Join, Terminated, vars, starts, TypeOK
<1>4. ASSUME NEW c \in Clients, NEW t \in Tasks, CallRun(c, t) \/ RunHere(c, t)
      PROVE  Goal
  <2>1. CASE CallRun(c, t)
    BY <2>1 DEF CallRun, TypeOK
  <2>2. CASE RunHere(c, t)
    <3>1. ran' \in Seq(Tasks)
      BY <2>2 DEF RunHere, TypeOK
    <3> QED BY <2>2, <3>1 DEF RunHere, TypeOK
  <2> QED BY <1>4, <2>1, <2>2
<1>5. ASSUME NEW c \in Clients, RunWaits(c) \/ RunRefused(c)
      PROVE  Goal
  BY <1>5 DEF RunWaits, RunRefused, TypeOK
<1>6. ASSUME NEW c \in Clients, RunAccepted(c)
      PROVE  Goal
  <2>1. worker' \in [Workers -> {"none", "test", "take", "waiting", "taken", "task", "exited"}]
    BY <1>6, WorkerNotified DEF RunAccepted
  <2>2. carries[c] \in Tasks
    BY <1>6 DEF RunAccepted, TypeOK
  <2>3. queue' \in Seq(Tasks) /\ Len(queue') = Len(queue) + 1 /\ Len(queue) \in Nat
    BY <1>6, <2>2 DEF RunAccepted, TypeOK
  <2>4. MaxQueueSize > 0 => Len(queue') <= MaxQueueSize
    BY <1>6, <2>3 DEF RunAccepted, IsFull
  <2> QED BY <1>6, <2>1, <2>3, <2>4 DEF RunAccepted, TypeOK
<1>7. ASSUME NEW w \in Workers, TakeTask(w)
      PROVE  Goal
  <2>1. /\ client' \in [Clients -> {"idle", "run", "waiting"}]
        /\ \A c \in Clients : /\ client'[c] = "idle" <=> client[c] = "idle"
                              /\ client'[c] = "waiting" => client[c] = "waiting"
    BY <1>7, ClientNotified DEF TakeTask, Taken
  <2>2. /\ Head(queue) \in Tasks /\ queue' \in Seq(Tasks) /\ taken' \in Seq(Tasks)
        /\ Len(queue) \in Nat /\ Len(queue') = Len(queue) - 1
    BY <1>7 DEF TakeTask, Taken, TypeOK
  <2>3. MaxQueueSize > 0 => Len(queue') <= MaxQueueSize
    BY <2>2 DEF TypeOK
  <2> QED BY <1>7, <2>1, <2>2, <2>3 DEF TakeTask, Taken, TypeOK
<1>7a. ASSUME NEW w \in Workers, StartTask(w)
       PROVE  Goal
  <2>1. PICK i \in DOMAIN taken : taken[i] = hand[w] /\ taken' = TP!Without(taken, i)
    BY <1>7a DEF StartTask
  <2>2. taken' \in Seq(Tasks) /\ hand[w] \in Tasks
    BY <2>1, WithoutType DEF TypeOK
  <2>3. ran' \in Seq(Tasks)
    BY <1>7a, <2>2 DEF StartTask, TypeOK
  <2> QED BY <1>7a, <2>2, <2>3 DEF StartTask, TypeOK
<1>8. ASSUME NEW w \in Workers,
             TestRunning(w) \/ TakeWaits(w) \/ TakeNothing(w) \/ TaskReturns(w)
      PROVE  Goal
  BY <1>8 DEF TestRunning, TakeWaits, TakeNothing, TaskReturns, TypeOK
<1>9. CASE SpuriousWakeup
  BY <1>9 DEF SpuriousWakeup, TypeOK
<1> HIDE DEF Goal
<1> QED
  BY <1>1, <1>2, <1>3, <1>4, <1>5, <1>6, <1>7, <1>7a, <1>8, <1>9
     DEF Next, WorkerStep, ClientStep

\* The two counts of NotifiesSuffice in terms of At.
LEMMA Counts ==
    /\ WorkersOnTheirWay <=>
         ((\E w \in Workers : worker[w] = "waiting") =>
            Cardinality(At(Workers, worker, "take")) >= Len(queue))
    /\ RoomIsUsed <=>
         ((\E c \in Clients : client[c] = "waiting") =>
            Cardinality(At(Clients, client, "run")) + Len(queue) >= MaxQueueSize)
BY DEF WorkersOnTheirWay, RoomIsUsed, At

\* The same counts after a step.
LEMMA CountsNext ==
    /\ WorkersOnTheirWay' <=>
         ((\E w \in Workers : worker'[w] = "waiting") =>
            Cardinality(At(Workers, worker', "take")) >= Len(queue'))
    /\ RoomIsUsed' <=>
         ((\E c \in Clients : client'[c] = "waiting") =>
            Cardinality(At(Clients, client', "run")) + Len(queue') >= MaxQueueSize)
BY DEF WorkersOnTheirWay, RoomIsUsed, At

\* ThreadPool.cc:78-118: one step keeps enough workers on their way.
LEMMA WorkersStep == TypeOK /\ WorkersOnTheirWay /\ [Next]_vars => WorkersOnTheirWay'
<1> SUFFICES ASSUME TypeOK, WorkersOnTheirWay, [Next]_vars
             PROVE  WorkersOnTheirWay'
  OBVIOUS
<1> DEFINE Taking == Cardinality(At(Workers, worker, "take"))
           Taking2 == Cardinality(At(Workers, worker', "take"))
           Sleeps == \E w \in Workers : worker[w] = "waiting"
           Sleeps2 == \E w \in Workers : worker'[w] = "waiting"
<1>a. worker \in [Workers -> {"none", "test", "take", "waiting", "taken", "task", "exited"}]
      /\ queue \in Seq(Tasks) /\ Len(queue) \in Nat
  BY DEF TypeOK
<1>b. Taking \in Nat /\ Taking2 \in Nat
  BY CountType
<1>c. Sleeps => Taking >= Len(queue)
  BY Counts
<1>d. SUFFICES Sleeps2 => Taking2 >= Len(queue')
  BY CountsNext
<1>0. CASE UNCHANGED <<worker, queue>>
  BY <1>0, <1>c
<1>1. CASE Start \/ Stop
  <2>1. ~Sleeps2
    BY <1>1, <1>a DEF Start, Stop
  <2> QED BY <2>1
<1>2. ASSUME NEW c \in Clients, RunAccepted(c)
      PROVE  Sleeps2 => Taking2 >= Len(queue')
  <2>1. Sleeps2 => Sleeps /\ Taking2 = Taking + 1
    BY <1>2, WorkerNotified DEF RunAccepted
  <2>2. Len(queue') = Len(queue) + 1
    BY <1>2, <1>a DEF RunAccepted, TypeOK
  <2> HIDE DEF Taking, Taking2, Sleeps, Sleeps2
  <2> QED BY <1>a, <1>b, <1>c, <2>1, <2>2
<1>3. ASSUME NEW w \in Workers, TestRunning(w)
      PROVE  Sleeps2 => Taking2 >= Len(queue')
  <2>1. PICK u \in {"take", "exited"} : worker' = [worker EXCEPT ![w] = u]
    BY <1>3 DEF TestRunning
  <2>2. Sleeps2 => Sleeps
    BY <1>a, <2>1
  <2>3. Taking2 = Taking \/ Taking2 = Taking + 1
    <3>1. worker[w] = "test"
      BY <1>3 DEF TestRunning
    <3>2. CASE u = "take"
      BY <1>a, <2>1, <3>1, <3>2, CountArrives
    <3>3. CASE u = "exited"
      <4>1. At(Workers, worker', "take") = At(Workers, worker, "take")
        BY <1>a, <2>1, <3>1, <3>3 DEF At
      <4> QED BY <4>1
    <3> QED BY <3>2, <3>3
  <2>4. queue' = queue
    BY <1>3 DEF TestRunning
  <2> HIDE DEF Taking, Taking2, Sleeps, Sleeps2
  <2> QED BY <1>a, <1>b, <1>c, <2>2, <2>3, <2>4
<1>4. ASSUME NEW w \in Workers, TakeWaits(w) \/ TakeNothing(w)
      PROVE  Sleeps2 => Taking2 >= Len(queue')
  <2>1. Len(queue') = 0
    BY <1>4 DEF TakeWaits, TakeNothing
  <2> QED BY <1>b, <2>1
<1>5. ASSUME NEW w \in Workers, TakeTask(w)
      PROVE  Sleeps2 => Taking2 >= Len(queue')
  <2>1. worker[w] = "take" /\ worker' = [worker EXCEPT ![w] = "taken"]
    BY <1>5 DEF TakeTask, Taken
  <2>2. Taking2 = Taking - 1
    <3>1. /\ w \in At(Workers, worker, "take")
          /\ At(Workers, worker', "take") = At(Workers, worker, "take") \ {w}
      BY <1>a, <2>1 DEF At
    <3> QED BY <3>1, CountLeaves
  <2>3. Sleeps2 => Sleeps
    BY <1>a, <2>1
  <2>4. Len(queue') = Len(queue) - 1
    BY <1>5, <1>a DEF TakeTask
  <2> HIDE DEF Taking, Taking2, Sleeps, Sleeps2
  <2> QED BY <1>a, <1>b, <1>c, <2>2, <2>3, <2>4
<1>6. ASSUME NEW w \in Workers, StartTask(w) \/ TaskReturns(w)
      PROVE  Sleeps2 => Taking2 >= Len(queue')
  <2>1. PICK u \in {"task", "test"} :
          /\ worker[w] \in {"taken", "task"} /\ worker' = [worker EXCEPT ![w] = u]
          /\ queue' = queue
    BY <1>6 DEF StartTask, TaskReturns
  <2>2. Taking2 = Taking
    <3>1. At(Workers, worker', "take") = At(Workers, worker, "take")
      BY <1>a, <2>1 DEF At
    <3> QED BY <3>1
  <2>3. Sleeps2 => Sleeps
    BY <1>a, <2>1
  <2> HIDE DEF Taking, Taking2, Sleeps, Sleeps2
  <2> QED BY <1>c, <2>1, <2>2, <2>3
<1>7. ASSUME NEW w \in Workers, worker[w] = "waiting",
             worker' = [worker EXCEPT ![w] = "take"], queue' = queue
      PROVE  Sleeps2 => Taking2 >= Len(queue')
  <2>1. Taking2 = Taking + 1
    <3>1. worker[w] # "take"
      BY <1>7
    <3> QED BY <1>a, <1>7, <3>1, CountArrives
  <2>2. Sleeps
    BY <1>7
  <2> HIDE DEF Taking, Taking2, Sleeps, Sleeps2
  <2> QED BY <1>a, <1>b, <1>c, <1>7, <2>1, <2>2
<1>8. CASE SpuriousWakeup
  BY <1>0, <1>7, <1>8 DEF SpuriousWakeup
<1>9. CASE Join \/ Terminated \/ UNCHANGED vars
  BY <1>0, <1>9 DEF Join, Terminated, vars
<1>10. ASSUME NEW c \in Clients, RunWaits(c) \/ RunRefused(c)
       PROVE  Sleeps2 => Taking2 >= Len(queue')
  BY <1>0, <1>10 DEF RunWaits, RunRefused
<1>11. ASSUME NEW c \in Clients, NEW t \in Tasks, CallRun(c, t) \/ RunHere(c, t)
       PROVE  Sleeps2 => Taking2 >= Len(queue')
  BY <1>0, <1>11 DEF CallRun, RunHere
<1> HIDE DEF Taking, Taking2, Sleeps, Sleeps2
<1> QED
  BY <1>1, <1>2, <1>3, <1>4, <1>5, <1>6, <1>8, <1>9, <1>10, <1>11
     DEF Next, WorkerStep, ClientStep

\* ThreadPool.cc:85-118: one step keeps enough clients awake for the room left.
LEMMA RoomStep ==
    TypeOK /\ NobodyBlocked /\ RoomIsUsed /\ [Next]_vars => RoomIsUsed'
<1> SUFFICES ASSUME TypeOK, NobodyBlocked, RoomIsUsed, [Next]_vars
             PROVE  RoomIsUsed'
  OBVIOUS
<1> DEFINE Awake == Cardinality(At(Clients, client, "run"))
           Awake2 == Cardinality(At(Clients, client', "run"))
           Sleeps == \E c \in Clients : client[c] = "waiting"
           Sleeps2 == \E c \in Clients : client'[c] = "waiting"
           Goal == Sleeps2 => Awake2 + Len(queue') >= MaxQueueSize
<1>a. client \in [Clients -> {"idle", "run", "waiting"}]
      /\ queue \in Seq(Tasks) /\ Len(queue) \in Nat
  BY DEF TypeOK
<1>b. Awake \in Nat /\ Awake2 \in Nat
  BY CountType
<1>c. Sleeps => Awake + Len(queue) >= MaxQueueSize
  BY Counts
<1>d. SUFFICES Goal
  BY CountsNext
<1>0. CASE UNCHANGED <<client, queue>>
  BY <1>0, <1>c
<1>1. CASE Start \/ Join \/ Terminated \/ UNCHANGED vars
  BY <1>0, <1>1 DEF Start, Join, Terminated, vars
<1>2. CASE Stop
  <2>1. ~Sleeps2
    BY <1>2, <1>a DEF Stop
  <2> QED BY <2>1
<1>3. ASSUME NEW c \in Clients, NEW t \in Tasks, CallRun(c, t)
      PROVE  Goal
  <2>1. /\ client[c] = "idle" /\ client' = [client EXCEPT ![c] = "run"]
        /\ queue' = queue
    BY <1>3 DEF CallRun
  <2>2. Awake2 = Awake + 1
    <3>1. client[c] # "run"
      BY <2>1
    <3> QED BY <1>a, <2>1, <3>1, CountArrives
  <2>3. Sleeps2 => Sleeps
    BY <1>a, <2>1
  <2> HIDE DEF Awake, Awake2, Sleeps, Sleeps2
  <2> QED BY <1>a, <1>b, <1>c, <2>1, <2>2, <2>3
<1>4. ASSUME NEW c \in Clients, NEW t \in Tasks, RunHere(c, t)
      PROVE  Goal
  BY <1>0, <1>4 DEF RunHere
<1>5. ASSUME NEW c \in Clients, RunWaits(c)
      PROVE  Goal
  <2>1. Len(queue') >= MaxQueueSize /\ Len(queue') \in Nat
    BY <1>5, <1>a DEF RunWaits, IsFull
  <2> HIDE DEF Awake2, Sleeps2
  <2> QED BY <1>b, <2>1
<1>6. ASSUME NEW c \in Clients, RunRefused(c)
      PROVE  Goal
  <2>1. ~Sleeps2
    BY <1>6, <1>a DEF RunRefused, NobodyBlocked
  <2> QED BY <2>1
<1>7. ASSUME NEW c \in Clients, RunAccepted(c)
      PROVE  Goal
  <2>1. client[c] = "run" /\ client' = [client EXCEPT ![c] = "idle"]
    BY <1>7 DEF RunAccepted
  <2>2. Awake2 = Awake - 1
    <3>1. /\ c \in At(Clients, client, "run")
          /\ At(Clients, client', "run") = At(Clients, client, "run") \ {c}
      BY <1>a, <2>1 DEF At
    <3> QED BY <3>1, CountLeaves
  <2>3. Sleeps2 => Sleeps
    BY <1>a, <2>1
  <2>4. Len(queue') = Len(queue) + 1
    BY <1>7, <1>a DEF RunAccepted, TypeOK
  <2> HIDE DEF Awake, Awake2, Sleeps, Sleeps2
  <2> QED BY <1>a, <1>b, <1>c, <2>2, <2>3, <2>4
<1>8. ASSUME NEW w \in Workers, TakeTask(w)
      PROVE  Goal
  <2>1. /\ Sleeps2 => Sleeps
        /\ MaxQueueSize > 0 /\ Sleeps2 => Awake2 = Awake + 1
    BY <1>8, ClientNotified DEF TakeTask, Taken
  <2>2. Len(queue') = Len(queue) - 1 /\ Len(queue') \in Nat
    BY <1>8, <1>a DEF TakeTask
  <2> HIDE DEF Awake, Awake2, Sleeps, Sleeps2
  <2> QED BY <1>a, <1>b, <1>c, <2>1, <2>2
<1>9. ASSUME NEW w \in Workers,
             TestRunning(w) \/ TakeWaits(w) \/ TakeNothing(w) \/ StartTask(w)
                 \/ TaskReturns(w)
      PROVE  Goal
  BY <1>0, <1>9 DEF TestRunning, TakeWaits, TakeNothing, StartTask, TaskReturns
<1>10. ASSUME NEW c \in Clients, client[c] = "waiting",
              client' = [client EXCEPT ![c] = "run"], queue' = queue
       PROVE  Goal
  <2>1. Awake2 = Awake + 1
    <3>1. client[c] # "run"
      BY <1>10
    <3> QED BY <1>a, <1>10, <3>1, CountArrives
  <2>2. Sleeps
    BY <1>10
  <2> HIDE DEF Awake, Awake2, Sleeps, Sleeps2
  <2> QED BY <1>a, <1>b, <1>c, <1>10, <2>1, <2>2
<1>11. CASE SpuriousWakeup
  BY <1>0, <1>10, <1>11 DEF SpuriousWakeup
<1> HIDE DEF Goal
<1> QED
  BY <1>1, <1>2, <1>3, <1>4, <1>5, <1>6, <1>7, <1>8, <1>9, <1>11
     DEF Next, WorkerStep, ClientStep

\* Everything the two conditions rest on.
PoolInv ==
    TypeOK /\ NobodyBlocked /\ CarriedSubmitted /\ WorkersOnTheirWay /\ RoomIsUsed

\* The new pool has it: nobody waits yet.
LEMMA InitPoolInv == Init => PoolInv
<1> SUFFICES ASSUME Init
             PROVE  PoolInv
  OBVIOUS
<1>1. TypeOK
  <2>1. << >> \in Seq(Tasks) /\ Len(<< >>) = 0
    OBVIOUS
  <2>2. /\ queue \in Seq(Tasks) /\ taken \in Seq(Tasks) /\ ran \in Seq(Tasks)
        /\ MaxQueueSize > 0 => Len(queue) <= MaxQueueSize
    BY <2>1 DEF Init
  <2>3. /\ worker \in [Workers -> {"none", "test", "take", "waiting", "taken", "task", "exited"}]
        /\ client \in [Clients -> {"idle", "run", "waiting"}]
        /\ carries \in [Clients -> Tasks \cup {NoTask}]
        /\ hand \in [Workers -> Tasks \cup {NoTask}]
        /\ \A c \in Clients : client[c] = "idle" <=> carries[c] = NoTask
    BY DEF Init
  <2> QED BY <2>2, <2>3 DEF Init, TypeOK
<1>2. NobodyBlocked /\ CarriedSubmitted
  BY DEF Init, NobodyBlocked, CarriedSubmitted
<1>3. /\ ~ \E w \in Workers : worker[w] = "waiting"
      /\ ~ \E c \in Clients : client[c] = "waiting"
  BY DEF Init
<1> QED BY <1>1, <1>2, <1>3 DEF PoolInv, WorkersOnTheirWay, RoomIsUsed

\* Every reachable state has it.
LEMMA PoolCorrect == Spec => []PoolInv
<1>1. PoolInv /\ [Next]_vars => PoolInv'
  BY TypeStep, WorkersStep, RoomStep DEF PoolInv
<1> QED BY <1>1, InitPoolInv, PTL DEF Spec

\* ThreadPool.cc:78-118: for any number of workers and clients and any bound of the
\* queue, no notify is lost: a task never waits for a worker that sleeps while too
\* few are on their way, nor room for a client that does, and the bound is kept.
THEOREM NoNotifyLost == Spec => []NotifiesSuffice
<1>1. PoolInv => NotifiesSuffice
  BY DEF PoolInv, NotifiesSuffice
<1> QED BY <1>1, PoolCorrect, PTL

-----------------------------------------------------------------------------
(* The pool implements TaskPool *)

\* Accepted tasks that have not started, in the order of acceptance: those in
\* the workers' hands, then those in the queue.
Waiting == taken \o queue

\* A task is in one place: only submitted tasks wait or have started, a task that a
\* client still carries has done neither, and no two clients carry the same.
OnePlace ==
    /\ TP!Known(Waiting) \cup TP!Known(ran) \subseteq submitted
    /\ \A c \in Clients : carries[c] \notin TP!Known(Waiting) \cup TP!Known(ran)
    /\ \A c, d \in Clients :
          c # d /\ carries[c] = carries[d] => carries[c] = NoTask

\* Each task in a hand is in that of one worker, and only the threads of the pool
\* have hands: this bounds by how many tasks a task can be overtaken.
OneHandEach ==
    /\ Len(taken) = Cardinality(At(Workers, worker, "taken"))
    /\ \A w \in Workers : worker[w] # "none" => w \in threads /\ owner # "new"

\* There are never more tasks in hands than threads.
LEMMA HandsBounded ==
    ASSUME TypeOK, OneHandEach
    PROVE  Len(taken) \in Nat /\ Cardinality(threads) \in Nat /\ Len(taken) <= Cardinality(threads)
<1>1. At(Workers, worker, "taken") \subseteq threads
  BY DEF At, OneHandEach
<1>2. IsFiniteSet(threads)
  BY FS_Subset DEF TypeOK
<1>3. Cardinality(At(Workers, worker, "taken")) <= Cardinality(threads)
  BY <1>1, <1>2, FS_Subset
<1>4. Cardinality(threads) \in Nat /\ Len(taken) \in Nat
  BY <1>2, FS_CardinalityType DEF TypeOK
<1> QED BY <1>3, <1>4 DEF OneHandEach

\* A step that moves no worker into or out of the place where it holds a task.
LEMMA HandsFrame ==
    ASSUME OneHandEach, taken' = taken, UNCHANGED threads,
           owner # "new" => owner' # "new",
           At(Workers, worker', "taken") = At(Workers, worker, "taken"),
           \A w \in Workers : worker'[w] # "none" => worker[w] # "none"
    PROVE  OneHandEach'
<1>1. Cardinality(At(Workers, worker, "taken"))' = Cardinality(At(Workers, worker, "taken"))
  BY DEF At
<1> QED BY <1>1 DEF OneHandEach

\* One step keeps one task in one hand.
LEMMA HandsStep == TypeOK /\ OneHandEach /\ [Next]_vars => OneHandEach'
<1> SUFFICES ASSUME TypeOK, OneHandEach, [Next]_vars
             PROVE  OneHandEach'
  OBVIOUS
<1>a. /\ worker \in [Workers -> {"none", "test", "take", "waiting", "taken", "task", "exited"}]
      /\ taken \in Seq(Tasks) /\ queue \in Seq(Tasks) /\ Len(taken) \in Nat
  BY DEF TypeOK
<1>b. Cardinality(At(Workers, worker, "taken"))' = Cardinality(At(Workers, worker', "taken"))
  BY DEF At
<1>0. ASSUME UNCHANGED <<worker, taken, threads>>, owner # "new" => owner' # "new"
      PROVE  OneHandEach'
  BY <1>0, HandsFrame
<1>1. CASE Start
  <2>1. /\ \A w \in Workers : worker[w] = "none"
        /\ \A w \in Workers : worker'[w] # "taken"
        /\ \A w \in Workers : worker'[w] # "none" => w \in threads'
        /\ owner' # "new" /\ taken' = taken
    BY <1>1 DEF Start, OneHandEach, starts
  <2>2. At(Workers, worker, "taken") = {} /\ At(Workers, worker', "taken") = {}
    BY <2>1 DEF At
  <2> QED BY <1>b, <2>1, <2>2 DEF OneHandEach
<1>2. CASE Stop
  <2>1. /\ At(Workers, worker', "taken") = At(Workers, worker, "taken")
        /\ \A w \in Workers : worker'[w] # "none" => worker[w] # "none"
        /\ taken' = taken /\ threads' = threads /\ owner' # "new"
    BY <1>2, <1>a DEF Stop, At, starts
  <2> QED BY <2>1, HandsFrame
<1>3. CASE Join \/ Terminated \/ UNCHANGED vars
  BY <1>0, <1>3 DEF Join, Terminated, vars, starts
<1>4. ASSUME NEW c \in Clients, NEW t \in Tasks, CallRun(c, t) \/ RunHere(c, t)
      PROVE  OneHandEach'
  BY <1>0, <1>4 DEF CallRun, RunHere, starts
<1>5. ASSUME NEW c \in Clients, RunWaits(c) \/ RunRefused(c)
      PROVE  OneHandEach'
  BY <1>0, <1>5 DEF RunWaits, RunRefused, starts
<1>6. ASSUME NEW c \in Clients, RunAccepted(c)
      PROVE  OneHandEach'
  <2>1. CASE worker' = worker
    BY <1>0, <1>6, <2>1 DEF RunAccepted, starts
  <2>2. CASE worker' # worker
    <3>1. PICK w \in Workers : /\ worker[w] = "waiting"
                               /\ worker' = [worker EXCEPT ![w] = "take"]
      BY <1>6, <2>2 DEF RunAccepted, WorkersTold, NotifyWorker
    <3>2. /\ At(Workers, worker', "taken") = At(Workers, worker, "taken")
          /\ \A x \in Workers : worker'[x] # "none" => worker[x] # "none"
      BY <1>a, <3>1 DEF At
    <3> QED BY <1>6, <3>2, HandsFrame DEF RunAccepted, starts
  <2> QED BY <2>1, <2>2
<1>7. ASSUME NEW w \in Workers, TakeTask(w)
      PROVE  OneHandEach'
  <2>1. /\ worker[w] = "take" /\ worker' = [worker EXCEPT ![w] = "taken"]
        /\ taken' = Append(taken, Head(queue)) /\ Head(queue) \in Tasks
        /\ UNCHANGED <<threads, owner>>
    BY <1>7, <1>a DEF TakeTask, Taken
  <2>2. worker[w] # "taken"
    BY <2>1
  <2>3. Cardinality(At(Workers, worker', "taken"))
          = Cardinality(At(Workers, worker, "taken")) + 1
    BY <1>a, <2>1, <2>2, CountArrives
  <2>4. Len(taken') = Len(taken) + 1
    BY <1>a, <2>1
  <2>5. \A x \in Workers : worker'[x] # "none" => worker[x] # "none"
    BY <1>a, <2>1
  <2> QED BY <1>b, <2>1, <2>3, <2>4, <2>5 DEF OneHandEach
<1>8. ASSUME NEW w \in Workers, StartTask(w)
      PROVE  OneHandEach'
  <2>1. /\ worker[w] = "taken" /\ worker' = [worker EXCEPT ![w] = "task"]
        /\ UNCHANGED <<threads, owner>>
    BY <1>8 DEF StartTask
  <2>2. PICK i \in DOMAIN taken : taken' = TP!Without(taken, i)
    BY <1>8 DEF StartTask
  <2>3. Len(taken') = Len(taken) - 1
    BY <1>a, <2>2, WithoutType
  <2>4. /\ w \in At(Workers, worker, "taken")
        /\ At(Workers, worker', "taken") = At(Workers, worker, "taken") \ {w}
    BY <1>a, <2>1 DEF At
  <2>5. Cardinality(At(Workers, worker', "taken"))
          = Cardinality(At(Workers, worker, "taken")) - 1
    BY <2>4, CountLeaves
  <2>6. \A x \in Workers : worker'[x] # "none" => worker[x] # "none"
    BY <1>a, <2>1
  <2> QED BY <1>b, <2>1, <2>3, <2>5, <2>6 DEF OneHandEach
<1>9. ASSUME NEW w \in Workers, NEW u \in {"test", "take", "waiting", "exited"},
             worker[w] \in {"test", "take", "waiting", "task"},
             worker' = [worker EXCEPT ![w] = u], UNCHANGED <<taken, threads, owner>>
      PROVE  OneHandEach'
  <2>1. /\ At(Workers, worker', "taken") = At(Workers, worker, "taken")
        /\ \A x \in Workers : worker'[x] # "none" => worker[x] # "none"
    BY <1>a, <1>9 DEF At
  <2> QED BY <1>9, <2>1, HandsFrame
<1>10. ASSUME NEW w \in Workers,
              TestRunning(w) \/ TakeWaits(w) \/ TakeNothing(w) \/ TaskReturns(w)
       PROVE  OneHandEach'
  <2>1. CASE TestRunning(w)
    <3>1. PICK u \in {"take", "exited"} : worker' = [worker EXCEPT ![w] = u]
      BY <2>1 DEF TestRunning
    <3> QED BY <1>9, <2>1, <3>1 DEF TestRunning, starts
  <2>2. CASE TakeWaits(w) \/ TakeNothing(w) \/ TaskReturns(w)
    BY <1>9, <2>2 DEF TakeWaits, TakeNothing, TaskReturns, starts
  <2> QED BY <1>10, <2>1, <2>2
<1>11. CASE SpuriousWakeup
  <2>1. CASE worker' = worker
    BY <1>0, <1>11, <2>1 DEF SpuriousWakeup, starts
  <2>2. CASE worker' # worker
    <3>1. PICK w \in Workers : /\ worker[w] = "waiting"
                               /\ worker' = [worker EXCEPT ![w] = "take"]
      BY <1>11, <2>2 DEF SpuriousWakeup
    <3> QED BY <1>9, <1>11, <3>1 DEF SpuriousWakeup, starts
  <2> QED BY <2>1, <2>2
<1> QED
  BY <1>1, <1>2, <1>3, <1>4, <1>5, <1>6, <1>7, <1>8, <1>10, <1>11
     DEF Next, WorkerStep, ClientStep

\* Steps that move no task.
LEMMA PlaceFrame ==
    ASSUME OnePlace, UNCHANGED <<queue, taken, ran, carries, submitted>>
    PROVE  OnePlace' /\ UNCHANGED <<Waiting, ran>>
BY DEF OnePlace, Waiting, TP!Known

\* Every step of the pool is a step of TaskPool or leaves it unchanged: the
\* push_back of run() submits, the pop_front of take() only moves the oldest task
\* from the queue to a hand, the call starts one of the tasks in hands, and run()
\* on a pool without threads runs the task in place.
LEMMA PlaceStep ==
    TypeOK /\ CarriedSubmitted /\ OneHandEach /\ OnePlace /\ [Next]_vars
        => OnePlace' /\ [TP!PoolNext]_<<Waiting, ran>>
<1> DEFINE Goal == OnePlace' /\ [TP!PoolNext]_<<Waiting, ran>>
<1> SUFFICES ASSUME TypeOK, CarriedSubmitted, OneHandEach, OnePlace, [Next]_vars
             PROVE  Goal
  OBVIOUS
<1>0. CASE UNCHANGED <<queue, taken, ran, carries, submitted>>
  BY <1>0, PlaceFrame
<1>a. /\ queue \in Seq(Tasks) /\ taken \in Seq(Tasks) /\ ran \in Seq(Tasks)
      /\ carries \in [Clients -> Tasks \cup {NoTask}] /\ submitted \subseteq Tasks
      /\ \A c \in Clients : client[c] = "idle" <=> carries[c] = NoTask
  BY DEF TypeOK
<1>b. \A c \in Clients : carries[c] = NoTask \/ carries[c] \in submitted
  BY <1>a DEF CarriedSubmitted
<1>c. Waiting \in Seq(Tasks) /\ Waiting' = taken' \o queue'
  BY <1>a DEF Waiting
<1>d. TP!Known(Waiting)' = TP!Known(Waiting') /\ TP!Known(ran)' = TP!Known(ran')
  BY DEF TP!Known
<1>1. CASE Start \/ Stop \/ Join \/ SpuriousWakeup \/ Terminated \/ UNCHANGED vars
  BY <1>0, <1>1 DEF Start, Stop, Join, SpuriousWakeup, Terminated, vars, starts
<1>2. ASSUME NEW w \in Workers,
             TestRunning(w) \/ TakeWaits(w) \/ TakeNothing(w) \/ TaskReturns(w)
      PROVE  Goal
  BY <1>0, <1>2 DEF TestRunning, TakeWaits, TakeNothing, TaskReturns, starts
<1>3. ASSUME NEW c \in Clients, NEW t \in Tasks, CallRun(c, t)
      PROVE  Goal
  <2>1. /\ carries' = [carries EXCEPT ![c] = t] /\ submitted' = submitted \cup {t}
        /\ t \notin submitted /\ UNCHANGED <<queue, taken, ran>>
    BY <1>3 DEF CallRun, starts
  <2>2. Waiting' = Waiting
    BY <1>c, <2>1 DEF Waiting
  <2>3. OnePlace'
    BY <1>a, <1>b, <1>d, <2>1, <2>2 DEF OnePlace
  <2> QED BY <2>1, <2>2, <2>3
<1>4. ASSUME NEW c \in Clients, NEW t \in Tasks, RunHere(c, t)
      PROVE  Goal
  <2>1. /\ ran' = Append(ran, t) /\ submitted' = submitted \cup {t}
        /\ t \notin submitted /\ UNCHANGED <<queue, taken, carries>> /\ threads = {}
    BY <1>4 DEF RunHere
  <2>2. Waiting' = Waiting /\ TP!Known(ran') = TP!Known(ran) \cup {t}
    BY <1>a, <1>c, <2>1, KnownAppend DEF Waiting
  <2>3. OnePlace'
    BY <1>a, <1>b, <1>d, <2>1, <2>2 DEF OnePlace
  <2>4. Cardinality(threads) = 0
    BY <2>1, FS_EmptySet
  <2>5. TP!RunInPlace(t)
    BY <2>1, <2>2 DEF TP!RunInPlace, OnePlace, Waiting
  <2> QED BY <2>3, <2>4, <2>5 DEF TP!PoolNext
<1>5. ASSUME NEW c \in Clients, RunWaits(c)
      PROVE  Goal
  BY <1>0, <1>5 DEF RunWaits, starts
<1>6. ASSUME NEW c \in Clients, RunRefused(c)
      PROVE  Goal
  <2>1. /\ carries' = [carries EXCEPT ![c] = NoTask]
        /\ UNCHANGED <<queue, taken, ran, submitted>>
    BY <1>6 DEF RunRefused, starts
  <2>2. Waiting' = Waiting
    BY <1>c, <2>1 DEF Waiting
  <2>3. OnePlace'
    BY <1>a, <1>d, <2>1, <2>2 DEF OnePlace
  <2> QED BY <2>1, <2>2, <2>3
<1>7. ASSUME NEW c \in Clients, RunAccepted(c)
      PROVE  Goal
  <2>1. /\ queue' = Append(queue, carries[c]) /\ carries[c] \in Tasks
        /\ carries' = [carries EXCEPT ![c] = NoTask]
        /\ UNCHANGED <<taken, ran, submitted>>
    BY <1>7, <1>a DEF RunAccepted, starts
  <2>2. Waiting' = Append(Waiting, carries[c])
    BY <1>a, <1>c, <2>1 DEF Waiting
  <2>3. TP!Known(Waiting') = TP!Known(Waiting) \cup {carries[c]}
    BY <1>c, <2>1, <2>2, KnownAppend
  <2>4. OnePlace'
    BY <1>a, <1>b, <1>d, <2>1, <2>3 DEF OnePlace
  <2>5. TP!Submit(carries[c])
    BY <2>1, <2>2 DEF TP!Submit, OnePlace, Waiting
  <2> QED BY <2>1, <2>4, <2>5 DEF TP!PoolNext
<1>8. ASSUME NEW w \in Workers, TakeTask(w)
      PROVE  Goal
  <2>1. /\ queue # << >> /\ queue' = Tail(queue) /\ taken' = Append(taken, Head(queue))
        /\ UNCHANGED <<ran, carries, submitted>> /\ Head(queue) \in Tasks
    BY <1>8, <1>a DEF TakeTask, Taken
  <2>2. Waiting' = Waiting
    BY <1>a, <1>c, <2>1 DEF Waiting
  <2>3. OnePlace'
    BY <1>d, <2>1, <2>2 DEF OnePlace
  <2> QED BY <2>1, <2>2, <2>3
<1>9. ASSUME NEW w \in Workers, StartTask(w)
      PROVE  Goal
  <2>1. PICK i \in DOMAIN taken : taken[i] = hand[w] /\ taken' = TP!Without(taken, i)
    BY <1>9 DEF StartTask
  <2>2. ran' = Append(ran, taken[i]) /\ UNCHANGED <<queue, carries, submitted>>
    BY <1>9, <2>1 DEF StartTask
  <2>3. /\ Waiting' = TP!Without(Waiting, i)
        /\ i \in DOMAIN Waiting /\ Waiting[i] = taken[i]
    BY <1>a, <1>c, <2>1, <2>2, WithoutConcat DEF Waiting
  <2>4. i \in 1..Len(taken) /\ taken[i] \in Tasks
    BY <1>a, <2>1, WithoutType
  <2>5. i \in 1..Cardinality(threads)
    BY <2>4, HandsBounded
  <2>6. /\ TP!Known(Waiting') \subseteq TP!Known(Waiting)
        /\ TP!Known(ran') = TP!Known(ran) \cup {taken[i]}
    BY <1>a, <1>c, <2>2, <2>3, <2>4, WithoutType, KnownAppend
  <2>7. taken[i] \in TP!Known(Waiting)
    BY <2>3 DEF TP!Known
  <2>8. OnePlace'
    BY <1>d, <2>2, <2>6, <2>7 DEF OnePlace
  <2>9. TP!StartOneOf(i)
    BY <2>2, <2>3 DEF TP!StartOneOf, Waiting
  <2> QED BY <2>5, <2>8, <2>9 DEF TP!PoolNext
<1> HIDE DEF Goal
<1> QED
  BY <1>1, <1>2, <1>3, <1>4, <1>5, <1>6, <1>7, <1>8, <1>9 DEF Next, WorkerStep, ClientStep

\* ThreadPool.cc:85-118, 134-139: whatever the workers, clients and the owner do, an
\* accepted task is started at most once, and overtakes only tasks that other
\* threads of the pool hold in their hands.
THEOREM PoolImplementsTaskPool == Spec => ImplementsTaskPool
<1>1. Init => TP!Init /\ OnePlace /\ OneHandEach
  <2> SUFFICES ASSUME Init
               PROVE  TP!Init /\ OnePlace /\ OneHandEach
    OBVIOUS
  <2>1. Waiting = << >> /\ ran = << >> /\ taken = << >>
    BY DEF Init, Waiting
  <2>2. At(Workers, worker, "taken") = {}
    BY DEF Init, At
  <2>3. OneHandEach
    BY <2>1, <2>2, FS_EmptySet DEF Init, OneHandEach
  <2>4. TP!Known(<< >>) = {}
    BY DEF TP!Known
  <2>5. OnePlace
    BY <2>1, <2>4 DEF Init, OnePlace
  <2> QED BY <2>1, <2>3, <2>5 DEF TP!Init, Waiting
<1>2. PoolInv /\ OneHandEach /\ OnePlace /\ [Next]_vars
        => OneHandEach' /\ OnePlace' /\ [TP!PoolNext]_<<taken \o queue, ran>>
  BY PlaceStep, HandsStep DEF PoolInv, Waiting
<1> QED BY <1>1, <1>2, PoolCorrect, PTL DEF Spec, ImplementsTaskPool, TP!PoolSpec
=============================================================================
