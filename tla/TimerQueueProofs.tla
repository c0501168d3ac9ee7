-------------------------- MODULE TimerQueueProofs --------------------------
(***************************************************************************)
(* Proofs about TimerQueue for any addresses, threads, delays, intervals   *)
(* and bounds: the two sets and the heap agree, the timerfd is armed, and  *)
(* a cancelled timer stays cancelled.                                      *)
(***************************************************************************)
EXTENDS TimerQueue, FiniteSetTheorems, SequenceTheorems, WellFoundedInduction, TLAPS

USE TimerAssumption

-----------------------------------------------------------------------------
(* The invariant *)

Functors == ({"add"} \X Addrs) \cup ({"cancel"} \X TimerIds)
Timer == [seq : 0..MaxTimers, expiration : Times, interval : Nat]

\* The timers a queue of functors is still to insert ...
Waiting(q) == {a \in Addrs : \E k \in 1..Len(q) : q[k] = <<"add", a>>}

\* ... each of them once.
Once(q) == \A j, k \in 1..Len(q) : q[j][1] = "add" /\ q[j] = q[k] => j = k

\* The types TypeOK states element by element, and that of readAt.
HeapType ==
    /\ TypeOK
    /\ mem \in [Addrs -> Timer] /\ readAt \in Nat
    /\ pending \in Seq(Functors)
    /\ IsFiniteSet(timers) /\ IsFiniteSet(expired)

\* A timer on the heap is in one place: in timers_, among the expired ones, or
\* in a functor that has not run; deleted memory is in none.
HeapInv ==
    /\ \A e \in timers \cup expired : mem[e[2]].seq # 0 /\ mem[e[2]].expiration = e[1]
    /\ \A e \in timers, f \in expired : e[2] # f[2]
    /\ \A a \in Waiting(pending) : mem[a].seq # 0 /\ \A e \in timers \cup expired : e[2] # a
    /\ Once(pending)
    /\ activeTimers = {ActiveTimer(e[2]) : e \in timers}

\* Sequence numbers are not reused, and a cancelled timer is deleted or is one
\* of the expired ones that reset will not restart.
SeqInv ==
    /\ \A a \in Addrs : mem[a].seq <= created
    /\ \A a, b \in Addrs : mem[a].seq = mem[b].seq /\ mem[a].seq # 0 => a = b
    /\ cancelled \subseteq 1..created
    /\ \A a \in Addrs : mem[a].seq \in cancelled =>
          ActiveTimer(a) \in cancelingTimers /\ \E e \in expired : e[2] = a

QueueInv == HeapType /\ HeapInv /\ SeqInv /\ TimerfdArmed

-----------------------------------------------------------------------------
(* The timerfd *)

\* A set of natural numbers has a least element.
LEMMA Least ==
    ASSUME NEW T, T \subseteq Nat, T # {}
    PROVE  \E x \in T : \A y \in T : x <= y
<1> DEFINE R == OpToRel(<, Nat)
<1>1. IsWellFoundedOn(R, Nat)
  BY NatLessThanWellFounded, Zenon
<1>2. \A x, y \in Nat : <<y, x>> \in R <=> y < x
  BY DEF OpToRel
<1> HIDE DEF R
<1>3. PICK x \in T : \A y \in T : ~ (<<y, x>> \in R)
  BY <1>1, WFMin
<1>4. ASSUME NEW y \in T
      PROVE  x <= y
  <2>1. x \in Nat /\ y \in Nat /\ ~(y < x)
    BY <1>2, <1>3
  <2> QED BY <2>1
<1> QED BY <1>4

\* The earliest expiration of a set of timers that is not empty.
LEMMA EarliestType ==
    ASSUME NEW ts, ts \subseteq Times \X Addrs, ts # {}
    PROVE  Earliest(ts) \in Nat
<1> DEFINE T == {e[1] : e \in ts}
<1>1. T \subseteq Nat /\ T # {}
  BY DEF Times
<1>2. PICK x \in T : \A y \in T : x <= y
  BY <1>1, Least
<1>3. PICK e \in ts : e[1] = x
  BY <1>2
<1>4. \A f \in ts : e[1] <= f[1]
  BY <1>2, <1>3
<1>5. (CHOOSE g \in ts : \A f \in ts : g[1] <= f[1]) \in ts
  BY <1>4
<1> QED BY <1>5 DEF Earliest, Times

\* howMuchTimeFromNow never disarms the timerfd.
LEMMA ResetType ==
    ASSUME NEW when \in Nat, now \in Nat
    PROVE  ResetTimerfd(when) \in Nat \ {0}
BY DEF ResetTimerfd

-----------------------------------------------------------------------------
(* The functors *)

\* addTimer hands a new timer to the loop.
LEMMA WaitingAdd ==
    ASSUME NEW q \in Seq(Functors), NEW a \in Addrs, Once(q), a \notin Waiting(q)
    PROVE  /\ Append(q, <<"add", a>>) \in Seq(Functors) /\ Once(Append(q, <<"add", a>>))
           /\ Waiting(Append(q, <<"add", a>>)) = Waiting(q) \cup {a}
<1> DEFINE e == <<"add", a>>
           r == Append(q, e)
<1>1. e \in Functors
  BY DEF Functors
<1>2. /\ r \in Seq(Functors) /\ Len(q) \in Nat /\ Len(r) = Len(q) + 1
      /\ r[Len(q) + 1] = e /\ \A k \in 1..Len(q) : r[k] = q[k]
  <2> HIDE DEF e
  <2> QED BY <1>1, AppendProperties
<1>3. \A k \in 1..Len(q) : q[k] # e
  BY DEF Waiting
<1>4. \A b : e = <<"add", b>> <=> a = b
  OBVIOUS
<1> HIDE DEF r, e
<1>5. \A k \in 1..Len(r) : k = Len(q) + 1 \/ k \in 1..Len(q)
  BY <1>2
<1>6. 1..Len(q) \subseteq 1..Len(r) /\ Len(q) + 1 \in 1..Len(r)
  BY <1>2
<1>7. Once(r)
  BY <1>2, <1>3, <1>5 DEF Once
<1>8. Waiting(r) = Waiting(q) \cup {a}
  BY <1>2, <1>4, <1>5, <1>6 DEF Waiting
<1> QED BY <1>2, <1>7, <1>8 DEF r, e

\* cancel hands an id to the loop.
LEMMA WaitingCancel ==
    ASSUME NEW q \in Seq(Functors), NEW id \in TimerIds, Once(q)
    PROVE  /\ Append(q, <<"cancel", id>>) \in Seq(Functors) /\ Once(Append(q, <<"cancel", id>>))
           /\ Waiting(Append(q, <<"cancel", id>>)) = Waiting(q)
<1> DEFINE e == <<"cancel", id>>
           r == Append(q, e)
<1>1. e \in Functors /\ e[1] # "add"
  BY DEF Functors
<1>2. /\ r \in Seq(Functors) /\ Len(q) \in Nat /\ Len(r) = Len(q) + 1
      /\ r[Len(q) + 1] = e /\ \A k \in 1..Len(q) : r[k] = q[k]
  <2> HIDE DEF e
  <2> QED BY <1>1, AppendProperties
<1>3. \A b : e # <<"add", b>>
  OBVIOUS
<1> HIDE DEF r, e
<1>4. \A k \in 1..Len(r) : k = Len(q) + 1 \/ k \in 1..Len(q)
  BY <1>2
<1>5. 1..Len(q) \subseteq 1..Len(r)
  BY <1>2
<1>6. Once(r)
  BY <1>1, <1>2, <1>4 DEF Once
<1>7. Waiting(r) = Waiting(q)
  BY <1>2, <1>3, <1>4, <1>5 DEF Waiting
<1> QED BY <1>2, <1>6, <1>7 DEF r, e

\* The loop takes the oldest functor.
LEMMA WaitingPop ==
    ASSUME NEW q \in Seq(Functors), q # << >>, Once(q)
    PROVE  /\ Head(q) \in Functors /\ Tail(q) \in Seq(Functors) /\ Once(Tail(q))
           /\ Waiting(Tail(q)) \subseteq Waiting(q)
           /\ Head(q)[1] = "add" => /\ Head(q)[2] \in Waiting(q)
                                    /\ Head(q)[2] \notin Waiting(Tail(q))
<1> DEFINE r == Tail(q)
<1>1. /\ Len(q) \in Nat /\ Len(q) > 0 /\ Head(q) = q[1] /\ Head(q) \in Functors
      /\ r \in Seq(Functors) /\ Len(r) = Len(q) - 1
      /\ \A k \in 1..(Len(q) - 1) : r[k] = q[k + 1]
  BY HeadTailProperties, EmptySeq
<1> HIDE DEF r
<1>2. 1 \in 1..Len(q) /\ \A k \in 1..Len(r) : k + 1 \in 1..Len(q) /\ k + 1 # 1 /\ r[k] = q[k + 1]
  BY <1>1
<1>3. Once(r)
  <2> SUFFICES ASSUME NEW j \in 1..Len(r), NEW k \in 1..Len(r), r[j][1] = "add", r[j] = r[k]
               PROVE  j = k
    BY DEF Once
  <2>1. j + 1 = k + 1
    BY <1>2 DEF Once
  <2> QED BY <2>1
<1>4. Waiting(r) \subseteq Waiting(q)
  BY <1>2 DEF Waiting
<1>5. ASSUME Head(q)[1] = "add"
      PROVE  Head(q)[2] \in Waiting(q) /\ Head(q)[2] \notin Waiting(r)
  <2>1. Head(q)[2] \in Addrs /\ q[1] = <<"add", Head(q)[2]>>
    BY <1>1, <1>5 DEF Functors
  <2>2. \A k \in 1..Len(r) : r[k] # q[1]
    BY <1>1, <1>2, <1>5 DEF Once
  <2> QED BY <1>2, <2>1, <2>2 DEF Waiting
<1> QED BY <1>1, <1>3, <1>4, <1>5 DEF r

-----------------------------------------------------------------------------
(* The sets and the heap *)

\* What the parts of the invariant that are about the heap depend on.
heapVars == <<mem, timers, expired, activeTimers, cancelled, cancelingTimers, created>>

\* A step that leaves the heap alone and drops or adds functors of cancel.
LEMMA HeapFrame ==
    ASSUME HeapInv, SeqInv, UNCHANGED heapVars, Waiting(pending') \subseteq Waiting(pending),
           Once(pending')
    PROVE  HeapInv' /\ SeqInv'
<1> USE DEF heapVars
<1>1. HeapInv'
  BY DEF HeapInv, ActiveTimer
<1>2. SeqInv'
  BY DEF SeqInv, ActiveTimer
<1> QED BY <1>1, <1>2

\* activeTimers_ is as large as timers_: its entries are those of timers_, whose
\* addresses differ.
LEMMA SameSize ==
    ASSUME HeapType, HeapInv
    PROVE  Cardinality(activeTimers) = Cardinality(timers)
<1> DEFINE f == [e \in timers |-> ActiveTimer(e[2])]
<1>1. \A e, g \in timers : f[e] = f[g] => e = g
  <2> SUFFICES ASSUME NEW e \in timers, NEW g \in timers, f[e] = f[g]
               PROVE  e = g
    OBVIOUS
  <2>1. e[2] = g[2]
    BY DEF ActiveTimer
  <2>2. e[1] = g[1]
    BY <2>1 DEF HeapInv
  <2> QED BY <2>1, <2>2 DEF HeapType, TypeOK
<1>2. f \in [timers -> activeTimers] /\ \A t \in activeTimers : \E e \in timers : f[e] = t
  BY DEF HeapInv
<1>3. f \in Bijection(timers, activeTimers)
  <2> HIDE DEF f
  <2> QED BY <1>1, <1>2 DEF Bijection, Injection, Surjection, IsInjective
<1>4. ExistsBijection(timers, activeTimers)
  BY <1>3 DEF ExistsBijection
<1> QED BY <1>4, FS_Bijection DEF HeapType

\* What the assertions of TimerQueue say follows.
LEMMA InvSound == QueueInv => QueueSound /\ CancelSticks
<1> SUFFICES ASSUME QueueInv
             PROVE  QueueSound /\ CancelSticks
  OBVIOUS
<1> USE DEF QueueInv
<1>1. SetsAgree
  BY SameSize DEF HeapInv, SetsAgree
<1>2. CancelSticks
  <2> SUFFICES ASSUME NEW t \in activeTimers, t[2] \in cancelled
               PROVE  FALSE
    BY DEF CancelSticks
  <2>1. PICK e \in timers : t = ActiveTimer(e[2])
    BY DEF HeapInv
  <2>2. e[2] \in Addrs /\ mem[e[2]].seq \in cancelled
    BY <2>1 DEF ActiveTimer, HeapType, TypeOK
  <2>3. PICK f \in expired : f[2] = e[2]
    BY <2>2 DEF SeqInv
  <2> QED BY <2>3 DEF HeapInv
<1> QED BY <1>1, <1>2 DEF QueueSound, HeapType

-----------------------------------------------------------------------------
(* Steps that leave the heap alone *)

\* poll, the callbacks, a thread that reads the sequence, and time.
LEMMA QuietStep ==
    ASSUME QueueInv,
           \/ Poll \/ CallbackReturns \/ Tick
           \/ \E e \in toRun : RunTimer(e)
           \/ \E x \in Threads : ReadSequence(x)
           \/ \E t \in 0..MaxTime : SetClock(t)
    PROVE  QueueInv'
<1> USE DEF QueueInv, clock, sets, handler
<1>1. UNCHANGED heapVars /\ UNCHANGED <<pending, callingExpiredTimers, readAt>>
  BY DEF Poll, CallbackReturns, Tick, RunTimer, ReadSequence, SetClock, heapVars
<1>2. HeapInv' /\ SeqInv'
  BY <1>1, HeapFrame DEF HeapInv
<1>3. CASE Poll \/ CallbackReturns
  <2>1. active' \in BOOLEAN /\ inCallback' \in BOOLEAN /\ (inCallback' => inCallback)
    <3>1. /\ active' = TRUE \/ active' = active
          /\ inCallback' = FALSE \/ inCallback' = inCallback
      BY <1>3 DEF Poll, CallbackReturns
    <3>2. active \in BOOLEAN /\ inCallback \in BOOLEAN
      BY DEF HeapType, TypeOK
    <3>3. active' \in BOOLEAN
      BY <3>1, <3>2, Zenon
    <3>4. inCallback' \in BOOLEAN
      BY <3>1, <3>2, Zenon
    <3>5. inCallback' => inCallback
      BY <3>1
    <3> QED BY <3>3, <3>4, <3>5
  <2>2. TypeOK'
    BY <1>1, <1>3, <2>1 DEF Poll, CallbackReturns, heapVars, HeapType, TypeOK
  <2>3. HeapType'
    BY <1>1, <2>2 DEF heapVars, HeapType
  <2>4. TimerfdArmed'
    BY <1>1, <1>3 DEF Poll, CallbackReturns, heapVars, TimerfdArmed
  <2> QED BY <1>2, <2>3, <2>4
<1>4. CASE Tick \/ \E t \in 0..MaxTime : SetClock(t)
  <2>1. now' \in 0..MaxTime /\ jumps' \in 0..MaxJumps
    BY <1>4 DEF Tick, SetClock, HeapType, TypeOK
  <2>2. fd' \in {Disarmed} \cup Times /\ (fd' = Disarmed => fd = Disarmed)
    BY <1>4 DEF Tick, SetClock, HeapType, TypeOK, Disarmed, Times
  <2>3. UNCHANGED <<active, toRun, inCallback, tpc, ids, cancels, ran>>
    BY <1>4 DEF Tick, SetClock
  <2>4. TypeOK'
    BY <1>1, <2>1, <2>2, <2>3 DEF heapVars, HeapType, TypeOK
  <2>5. HeapType' /\ TimerfdArmed'
    BY <1>1, <2>2, <2>3, <2>4 DEF heapVars, HeapType, TimerfdArmed
  <2> QED BY <1>2, <2>5
<1>5. CASE \E e \in toRun : RunTimer(e)
  <2>1. PICK e \in toRun : RunTimer(e)
    BY <1>5
  <2>2. inCallback' \in BOOLEAN /\ callingExpiredTimers'
    <3>1. inCallback' = TRUE /\ callingExpiredTimers
      BY <2>1 DEF RunTimer
    <3>2. callingExpiredTimers' = callingExpiredTimers
      BY <1>1
    <3> QED BY <3>1, <3>2, Zenon
  <2>3. UNCHANGED <<now, jumps, fd, active, tpc, ids, cancels>> /\ toRun' \subseteq toRun
    BY <2>1 DEF RunTimer
  <2>4. ran' \subseteq Seqs
    <3>1. e[2] \in Addrs
      BY DEF HeapType, TypeOK
    <3>2. mem[e[2]].seq \in 0..MaxTimers
      BY <3>1 DEF HeapType, TypeOK
    <3>3. ran' = ran \cup ({mem[e[2]].seq} \ {0})
      BY <2>1 DEF RunTimer
    <3>4. ran \subseteq 1..MaxTimers
      BY DEF HeapType, TypeOK, Seqs
    <3> DEFINE n == mem[e[2]].seq
    <3>5. {n} \ {0} \subseteq 1..MaxTimers
      <4>1. n \in 0..MaxTimers
        BY <3>2
      <4> HIDE DEF n
      <4> QED BY <4>1
    <3> QED BY <3>3, <3>4, <3>5 DEF Seqs
  <2>5. TypeOK'
    BY <1>1, <2>2, <2>3, <2>4 DEF heapVars, HeapType, TypeOK
  <2>6. HeapType' /\ TimerfdArmed'
    BY <1>1, <2>3, <2>5 DEF heapVars, HeapType, TimerfdArmed
  <2> QED BY <1>2, <2>6
<1>6. CASE \E x \in Threads : ReadSequence(x)
  <2>1. PICK x \in Threads : ReadSequence(x)
    BY <1>6
  <2>2. tpc[x][1] \in Addrs /\ tpc' \in [Threads -> {NoTimer} \cup (Addrs \X Seqs)]
    BY <2>1 DEF ReadSequence, HeapType, TypeOK, Seqs
  <2>3. ids' \subseteq TimerIds
    <3>1. PICK s \in IF mem[tpc[x][1]] = Free THEN 0..MaxTimers ELSE {mem[tpc[x][1]].seq} :
             ids' = ids \cup {<<tpc[x][1], s>>}
      BY <2>1 DEF ReadSequence
    <3>2. s \in 0..MaxTimers
      BY <2>2, <3>1 DEF HeapType, TypeOK
    <3> QED BY <2>2, <3>1, <3>2 DEF HeapType, TypeOK, TimerIds
  <2>4. UNCHANGED <<now, jumps, fd, active, toRun, inCallback, cancels, ran>>
    BY <2>1 DEF ReadSequence
  <2>5. TypeOK'
    BY <1>1, <2>2, <2>3, <2>4 DEF heapVars, HeapType, TypeOK
  <2>6. HeapType' /\ TimerfdArmed'
    BY <1>1, <2>4, <2>5 DEF heapVars, HeapType, TimerfdArmed
  <2> QED BY <1>2, <2>6
<1> QED BY <1>3, <1>4, <1>5, <1>6

\* cancel from another thread.
LEMMA CancelStep ==
    ASSUME QueueInv, NEW x \in Threads, NEW id \in ids, Cancel(x, id)
    PROVE  QueueInv'
<1> USE DEF QueueInv, clock, sets, handler
<1>1. id \in TimerIds
  BY DEF HeapType, TypeOK
<1>2. /\ pending' \in Seq(Functors) /\ Once(pending') /\ Waiting(pending') = Waiting(pending)
  BY <1>1, WaitingCancel DEF Cancel, HeapType, HeapInv
<1>3. /\ UNCHANGED heapVars
      /\ UNCHANGED <<now, jumps, fd, active, callingExpiredTimers, toRun, readAt, inCallback,
                     tpc, ids, ran>>
  BY DEF Cancel, heapVars
<1>4. cancels' \in 0..MaxCancels
  BY DEF Cancel, HeapType, TypeOK
<1>5. \A i \in DOMAIN pending' : pending'[i] \in Functors
  BY <1>2
<1>6. TypeOK'
  BY <1>3, <1>4, <1>5 DEF heapVars, HeapType, TypeOK, Functors
<1>7. HeapType' /\ TimerfdArmed'
  BY <1>2, <1>3, <1>6 DEF heapVars, HeapType, TimerfdArmed
<1> QED BY <1>2, <1>3, <1>7, HeapFrame

-----------------------------------------------------------------------------
(* Cancelling *)

\* An id that is active is a timer of timers_: it leaves both sets and the heap.
LEMMA CancelActive ==
    ASSUME QueueInv, NEW id \in activeTimers, CancelInLoop(id),
           Waiting(pending') \subseteq Waiting(pending), Once(pending'),
           UNCHANGED <<expired, created>>
    PROVE  /\ HeapInv' /\ SeqInv' /\ timers' \subseteq timers
           /\ activeTimers' \subseteq activeTimers /\ UNCHANGED cancelingTimers
           /\ mem' \in [Addrs -> Timer] /\ cancelled' \subseteq Seqs
<1> DEFINE a == id[1]
<1> USE DEF QueueInv
<1>1. PICK e \in timers : id = ActiveTimer(e[2])
  BY DEF HeapInv
<1>2. /\ a = e[2] /\ id[2] = mem[a].seq /\ a \in Addrs /\ id = <<a, mem[a].seq>>
      /\ mem[a].seq # 0 /\ e = <<mem[a].expiration, a>>
  BY <1>1 DEF ActiveTimer, HeapInv, HeapType, TypeOK
<1>3. /\ timers' = timers \ {e} /\ activeTimers' = activeTimers \ {id}
      /\ mem' = [mem EXCEPT ![a] = Free] /\ cancelled' = cancelled \cup {mem[a].seq}
      /\ cancelingTimers' = cancelingTimers
  BY <1>2 DEF CancelInLoop
<1> HIDE DEF a
<1>4. /\ mem' \in [Addrs -> Timer] /\ mem'[a] = Free /\ Free.seq = 0
      /\ \A b \in Addrs : b # a => mem'[b] = mem[b]
  BY <1>2, <1>3 DEF HeapType, Free, Timer, Times
<1>5. \A f \in timers \cup expired : f # e => f[2] \in Addrs /\ f[2] # a
  <2> SUFFICES ASSUME NEW f \in timers \cup expired, f[2] = a
               PROVE  f[2] \in Addrs /\ f = e
    BY DEF HeapType, TypeOK
  <2>1. f \in timers
    BY <1>2 DEF HeapInv
  <2>2. f[1] = mem[a].expiration
    BY <2>1 DEF HeapInv
  <2> QED BY <1>2, <2>1, <2>2 DEF HeapType, TypeOK
<1>6. a \notin Waiting(pending)
  BY <1>2 DEF HeapInv
<1>7. e \notin expired
  BY DEF HeapInv
<1>8. HeapInv'
  <2>1. \A f \in timers' \cup expired' : mem'[f[2]].seq # 0 /\ mem'[f[2]].expiration = f[1]
    BY <1>3, <1>4, <1>5, <1>7 DEF HeapInv
  <2>2. \A f \in timers', g \in expired' : f[2] # g[2]
    BY <1>3 DEF HeapInv
  <2>3. \A b \in Waiting(pending') : mem'[b].seq # 0 /\ \A f \in timers' \cup expired' : f[2] # b
    BY <1>3, <1>4, <1>6 DEF HeapInv, Waiting
  <2>4. activeTimers' = {ActiveTimer(f[2])' : f \in timers'}
    <3>1. \A f \in timers' : f \in timers /\ ActiveTimer(f[2])' = ActiveTimer(f[2])
                             /\ ActiveTimer(f[2]) # id
      BY <1>2, <1>3, <1>4, <1>5 DEF ActiveTimer
    <3>2. \A t \in activeTimers' : \E f \in timers' : t = ActiveTimer(f[2])'
      <4> SUFFICES ASSUME NEW t \in activeTimers'
                   PROVE  \E f \in timers' : t = ActiveTimer(f[2])'
        OBVIOUS
      <4>1. PICK f \in timers : t = ActiveTimer(f[2])
        BY <1>3 DEF HeapInv
      <4>2. f \in timers'
        BY <1>1, <1>3, <4>1
      <4> QED BY <3>1, <4>1, <4>2
    <3>3. \A f \in timers' : ActiveTimer(f[2])' \in activeTimers'
      BY <1>3, <3>1 DEF HeapInv
    <3> QED BY <3>2, <3>3
  <2> QED BY <2>1, <2>2, <2>3, <2>4 DEF HeapInv
<1>9. SeqInv'
  <2>1. mem[a].seq \in 1..created /\ created \in Nat
    BY <1>2 DEF SeqInv, HeapType, TypeOK
  <2>2. \A b \in Addrs : mem'[b].seq <= created'
    BY <1>4, <2>1 DEF SeqInv
  <2>3. \A b, c \in Addrs : mem'[b].seq = mem'[c].seq /\ mem'[b].seq # 0 => b = c
    BY <1>4 DEF SeqInv
  <2>4. cancelled' \subseteq 1..created'
    BY <1>3, <2>1 DEF SeqInv
  <2>5. ASSUME NEW b \in Addrs, mem'[b].seq \in cancelled'
        PROVE  ActiveTimer(b)' \in cancelingTimers' /\ \E f \in expired' : f[2] = b
    <3>1. b # a
      BY <1>4, <2>4, <2>5
    <3>2. mem[b].seq \in cancelled
      BY <1>2, <1>3, <1>4, <2>5, <3>1 DEF SeqInv
    <3> QED BY <1>3, <1>4, <3>1, <3>2 DEF SeqInv, ActiveTimer
  <2> QED BY <2>2, <2>3, <2>4, <2>5 DEF SeqInv
<1>10. cancelled' \subseteq Seqs
  BY <1>2, <1>3 DEF HeapType, TypeOK, Seqs
<1> QED BY <1>3, <1>4, <1>8, <1>9, <1>10

\* Any other id only marks an expired timer.
LEMMA CancelOther ==
    ASSUME QueueInv, NEW id \in TimerIds, id \notin activeTimers, CancelInLoop(id),
           Waiting(pending') \subseteq Waiting(pending), Once(pending'),
           UNCHANGED <<expired, created>>
    PROVE  /\ HeapInv' /\ SeqInv' /\ UNCHANGED <<timers, activeTimers, mem>>
           /\ cancelingTimers' \subseteq TimerIds /\ cancelled' \subseteq Seqs
<1> USE DEF QueueInv
<1>1. /\ cancelingTimers' = IF callingExpiredTimers
                            THEN cancelingTimers \cup {id} ELSE cancelingTimers
      /\ cancelled' = IF \E e \in expired : ActiveTimer(e[2]) = id
                      THEN cancelled \cup {id[2]} ELSE cancelled
      /\ UNCHANGED <<timers, activeTimers, mem>>
  BY DEF CancelInLoop
<1>2. HeapInv'
  BY <1>1 DEF HeapInv, ActiveTimer
<1>3. cancelingTimers' \subseteq TimerIds
  BY <1>1 DEF HeapType, TypeOK
<1>4. CASE \E e \in expired : ActiveTimer(e[2]) = id
  <2>1. PICK e \in expired : ActiveTimer(e[2]) = id
    BY <1>4
  <2>2. /\ e[2] \in Addrs /\ id = <<e[2], mem[e[2]].seq>> /\ mem[e[2]].seq # 0
        /\ id[2] = mem[e[2]].seq
    BY <2>1 DEF ActiveTimer, HeapType, TypeOK, HeapInv
  <2>3. id[2] \in 1..created /\ id[2] \in Seqs
    BY <2>2 DEF SeqInv, HeapType, TypeOK, Seqs
  <2>4. cancelingTimers' = cancelingTimers \cup {id} /\ cancelled' = cancelled \cup {id[2]}
    BY <1>1, <1>4, <2>1 DEF HeapType, TypeOK
  <2>5. ASSUME NEW b \in Addrs, mem'[b].seq \in cancelled'
        PROVE  ActiveTimer(b)' \in cancelingTimers' /\ \E f \in expired' : f[2] = b
    <3>1. CASE b = e[2]
      BY <1>1, <2>2, <2>4, <3>1 DEF ActiveTimer
    <3>2. CASE b # e[2]
      <4>1. mem[b].seq \in cancelled
        BY <1>1, <2>2, <2>4, <2>5, <3>2 DEF SeqInv
      <4> QED BY <1>1, <2>4, <4>1 DEF SeqInv, ActiveTimer
    <3> QED BY <3>1, <3>2
  <2>6. SeqInv'
    BY <1>1, <2>3, <2>4, <2>5 DEF SeqInv
  <2>7. cancelled' \subseteq Seqs
    BY <2>3, <2>4 DEF HeapType, TypeOK
  <2> QED BY <1>1, <1>2, <1>3, <2>6, <2>7
<1>5. CASE ~ \E e \in expired : ActiveTimer(e[2]) = id
  <2>1. cancelled' = cancelled /\ cancelingTimers \subseteq cancelingTimers'
    BY <1>1, <1>5
  <2>2. SeqInv'
    BY <1>1, <2>1 DEF SeqInv, ActiveTimer
  <2>3. cancelled' \subseteq Seqs
    BY <2>1 DEF HeapType, TypeOK
  <2> QED BY <1>1, <1>2, <1>3, <2>2, <2>3
<1> QED BY <1>4, <1>5

\* cancelInLoop, called by the loop thread or by a functor.
LEMMA CancelInLoopStep ==
    ASSUME QueueInv, NEW id \in TimerIds, CancelInLoop(id),
           pending' \in Seq(Functors), Waiting(pending') \subseteq Waiting(pending),
           Once(pending'), cancels' \in 0..MaxCancels,
           UNCHANGED <<now, jumps, fd, active, callingExpiredTimers, expired, toRun, readAt,
                       inCallback, tpc, ids, created, ran>>
    PROVE  QueueInv'
<1> USE DEF QueueInv
<1>1. /\ HeapInv' /\ SeqInv' /\ timers' \subseteq timers /\ activeTimers' \subseteq activeTimers
      /\ cancelingTimers' \subseteq TimerIds /\ mem' \in [Addrs -> Timer]
      /\ cancelled' \subseteq Seqs
  <2>1. CASE id \in activeTimers
    <3>1. cancelingTimers \subseteq TimerIds
      BY DEF HeapType, TypeOK
    <3> QED BY <2>1, <3>1, CancelActive
  <2>2. CASE id \notin activeTimers
    <3>1. mem \in [Addrs -> Timer]
      BY DEF HeapType
    <3> QED BY <2>2, <3>1, CancelOther
  <2> QED BY <2>1, <2>2
<1>2. \A i \in DOMAIN pending' : pending'[i] \in Functors
  OBVIOUS
<1>3. IsFiniteSet(timers')
  BY <1>1, FS_Subset DEF HeapType
<1>4. \A a \in Addrs : mem'[a].seq \in 0..MaxTimers /\ mem'[a].interval \in Nat
                          /\ mem'[a].expiration \in Times
  BY <1>1 DEF Timer
<1>5. TypeOK'
  BY <1>1, <1>2, <1>4 DEF HeapType, TypeOK, Functors
<1>6. HeapType' /\ TimerfdArmed'
  BY <1>1, <1>3, <1>5 DEF HeapType, TimerfdArmed
<1> QED BY <1>1, <1>6

\* cancel in the loop thread.
LEMMA CancelHereStep ==
    ASSUME QueueInv, NEW id \in ids, CancelHere(id)
    PROVE  QueueInv'
<1>1. /\ CancelInLoop(id)
      /\ UNCHANGED <<now, jumps, fd, active, callingExpiredTimers, expired, toRun, readAt,
                     inCallback, pending, tpc, ids, created, ran>>
  BY DEF CancelHere, clock
<1>2. id \in TimerIds /\ cancels' \in 0..MaxCancels
  BY DEF CancelHere, QueueInv, HeapType, TypeOK
<1>3. pending' \in Seq(Functors) /\ Waiting(pending') \subseteq Waiting(pending) /\ Once(pending')
  BY <1>1 DEF QueueInv, HeapType, HeapInv
<1> QED BY <1>1, <1>2, <1>3, CancelInLoopStep

-----------------------------------------------------------------------------
(* Adding *)

\* addTimerInLoop inserts a timer that is nowhere yet; the rest of the heap is
\* left alone.
LEMMA InsertTimer ==
    ASSUME QueueInv, NEW a \in Addrs, AddTimerInLoop(a, mem'),
           mem' \in [Addrs -> Timer], mem'[a].seq # 0,
           \A b \in Addrs : b # a => mem'[b] = mem[b],
           \A e \in timers \cup expired : e[2] # a,
           pending' \in Seq(Functors), Waiting(pending') \subseteq Waiting(pending),
           a \notin Waiting(pending'), Once(pending'),
           UNCHANGED <<now, active, callingExpiredTimers, expired>>
    PROVE  /\ HeapInv' /\ TimerfdArmed' /\ timers' \subseteq Times \X Addrs
           /\ IsFiniteSet(timers') /\ fd' \in {Disarmed} \cup Times
           /\ activeTimers' \subseteq Addrs \X Seqs
<1> DEFINE when == mem'[a].expiration
<1> USE DEF QueueInv
<1>1. /\ timers' = timers \cup {<<when, a>>}
      /\ activeTimers' = activeTimers \cup {<<a, mem'[a].seq>>}
      /\ fd' = IF EarliestChanged(timers, when) THEN ResetTimerfd(when) ELSE fd
  BY DEF AddTimerInLoop
<1>2. when \in Nat /\ mem'[a].seq \in Seqs /\ now \in Nat
  BY DEF Timer, Times, Seqs, HeapType, TypeOK
<1> HIDE DEF when
<1>3. \A e \in timers \cup expired : e[2] \in Addrs /\ mem'[e[2]] = mem[e[2]]
  BY DEF HeapType, TypeOK
<1>4. HeapInv'
  <2>1. \A e \in timers' \cup expired' : mem'[e[2]].seq # 0 /\ mem'[e[2]].expiration = e[1]
    BY <1>1, <1>3 DEF HeapInv, when
  <2>2. \A e \in timers', f \in expired' : e[2] # f[2]
    BY <1>1 DEF HeapInv
  <2>3. \A b \in Waiting(pending') : mem'[b].seq # 0 /\ \A e \in timers' \cup expired' : e[2] # b
    <3>1. \A b \in Waiting(pending') : b \in Waiting(pending) /\ b \in Addrs /\ b # a
      BY DEF Waiting
    <3> QED BY <1>1, <3>1 DEF HeapInv
  <2>4. activeTimers' = {ActiveTimer(e[2])' : e \in timers'}
    <3>1. \A e \in timers : ActiveTimer(e[2])' = ActiveTimer(e[2])
      BY <1>3 DEF ActiveTimer
    <3>2. \A e : e[2] = a => ActiveTimer(e[2])' = <<a, mem'[a].seq>>
      BY DEF ActiveTimer
    <3>3. \A e \in timers' : e \in timers \/ e[2] = a
      BY <1>1
    <3>4. PICK e \in timers' : e[2] = a
      <4>1. <<when, a>> \in timers' /\ <<when, a>>[2] = a
        BY <1>1
      <4> QED BY <4>1
    <3>5. \A t \in activeTimers' : \E g \in timers' : t = ActiveTimer(g[2])'
      BY <1>1, <3>1, <3>2, <3>4 DEF HeapInv
    <3>6. \A g \in timers' : ActiveTimer(g[2])' \in activeTimers'
      BY <1>1, <3>1, <3>2, <3>3 DEF HeapInv
    <3> QED BY <3>5, <3>6
  <2> QED BY <2>1, <2>2, <2>3, <2>4 DEF HeapInv
<1>5. ResetTimerfd(when) \in Nat \ {0}
  BY <1>2, ResetType
<1>6. fd' \in {Disarmed} \cup Times
  BY <1>1, <1>5 DEF HeapType, TypeOK, Times
<1>7. TimerfdArmed'
  <2>1. CASE EarliestChanged(timers, when)
    BY <1>1, <1>5, <2>1 DEF TimerfdArmed, Disarmed
  <2>2. CASE ~EarliestChanged(timers, when)
    BY <1>1, <2>2 DEF TimerfdArmed, EarliestChanged
  <2> QED BY <2>1, <2>2
<1>8. timers' \subseteq Times \X Addrs /\ activeTimers' \subseteq Addrs \X Seqs
  BY <1>1, <1>2 DEF HeapType, TypeOK, Times
<1>9. IsFiniteSet(timers')
  BY <1>1, FS_AddElement DEF HeapType
<1> QED BY <1>4, <1>6, <1>7, <1>8, <1>9

\* new Timer: the address is in no set and in no functor, the number is new.
LEMMA NewTimerFresh ==
    ASSUME QueueInv, NEW a \in Addrs, NEW delay \in Delays, NEW interval \in Intervals,
           MayCreate(a), mem' = NewTimer(a, delay, interval), created' = created + 1,
           UNCHANGED <<cancelled, cancelingTimers, expired>>
    PROVE  /\ SeqInv' /\ mem' \in [Addrs -> Timer] /\ mem'[a].seq = created + 1
           /\ \A b \in Addrs : b # a => mem'[b] = mem[b]
           /\ \A e \in timers \cup expired : e[2] # a
           /\ a \notin Waiting(pending)
           /\ created + 1 \in Seqs /\ created' \in 0..MaxTimers
<1> USE DEF QueueInv
<1> DEFINE t == [seq |-> created + 1, expiration |-> now + delay, interval |-> interval]
<1>1. mem[a].seq = 0
  BY DEF MayCreate, Free
<1>2. created \in Nat /\ created + 1 \in Seqs /\ created' \in 0..MaxTimers /\ t \in Timer
  BY DEF MayCreate, HeapType, TypeOK, Seqs, Timer, Times
<1>3. t.seq = created + 1 /\ mem' = [mem EXCEPT ![a] = t]
  BY DEF NewTimer
<1> HIDE DEF t
<1>4. /\ mem' \in [Addrs -> Timer] /\ mem'[a] = t
      /\ \A b \in Addrs : b # a => mem'[b] = mem[b]
  BY <1>2, <1>3 DEF HeapType
<1>5. (\A e \in timers \cup expired : e[2] # a) /\ a \notin Waiting(pending)
  BY <1>1 DEF HeapInv
<1>6. \A b \in Addrs : mem[b].seq \in Nat /\ mem[b].seq <= created
  BY DEF HeapType, TypeOK, SeqInv
<1>7. created + 1 \notin cancelled
  BY <1>2 DEF SeqInv
<1>8. SeqInv'
  <2>1. \A b \in Addrs : mem'[b].seq <= created'
    BY <1>2, <1>3, <1>4, <1>6
  <2>2. \A b, c \in Addrs : mem'[b].seq = mem'[c].seq /\ mem'[b].seq # 0 => b = c
    <3> SUFFICES ASSUME NEW b \in Addrs, NEW c \in Addrs, mem'[b].seq = mem'[c].seq,
                        mem'[b].seq # 0
                 PROVE  b = c
      OBVIOUS
    <3>1. CASE b # a /\ c # a
      BY <1>4, <3>1 DEF SeqInv
    <3>2. CASE b = a \/ c = a
      BY <1>2, <1>3, <1>4, <1>6, <3>2
    <3> QED BY <3>1, <3>2
  <2>3. cancelled' \subseteq 1..created'
    BY <1>2 DEF SeqInv
  <2>4. \A b \in Addrs : mem'[b].seq \in cancelled' =>
           ActiveTimer(b)' \in cancelingTimers' /\ \E e \in expired' : e[2] = b
    BY <1>3, <1>4, <1>7 DEF SeqInv, ActiveTimer
  <2> QED BY <2>1, <2>2, <2>3, <2>4 DEF SeqInv
<1> QED BY <1>2, <1>3, <1>4, <1>5, <1>8

\* addTimer in the loop thread.
LEMMA AddTimerHereStep ==
    ASSUME QueueInv, NEW a \in Addrs, NEW delay \in Delays, NEW interval \in Intervals,
           AddTimerHere(a, delay, interval)
    PROVE  QueueInv'
<1> USE DEF QueueInv
<1>1. /\ MayCreate(a) /\ mem' = NewTimer(a, delay, interval) /\ AddTimerInLoop(a, mem')
      /\ created' = created + 1 /\ ids' = ids \cup {<<a, created + 1>>}
      /\ UNCHANGED <<now, jumps, active, cancelingTimers, callingExpiredTimers, expired, toRun,
                     readAt, inCallback, pending, tpc, cancels, ran, cancelled>>
  BY DEF AddTimerHere, clock, handler
<1>2. /\ SeqInv' /\ mem' \in [Addrs -> Timer] /\ mem'[a].seq = created + 1
      /\ \A b \in Addrs : b # a => mem'[b] = mem[b]
      /\ \A e \in timers \cup expired : e[2] # a
      /\ a \notin Waiting(pending)
      /\ created + 1 \in Seqs /\ created' \in 0..MaxTimers
  BY <1>1, NewTimerFresh
<1>3. /\ mem'[a].seq # 0 /\ pending' \in Seq(Functors) /\ a \notin Waiting(pending')
      /\ Waiting(pending') \subseteq Waiting(pending) /\ Once(pending')
  BY <1>1, <1>2 DEF HeapType, HeapInv, Seqs
<1>4. /\ HeapInv' /\ TimerfdArmed' /\ timers' \subseteq Times \X Addrs
      /\ IsFiniteSet(timers') /\ fd' \in {Disarmed} \cup Times
      /\ activeTimers' \subseteq Addrs \X Seqs
  BY <1>1, <1>2, <1>3, InsertTimer
<1>5. ids' \subseteq TimerIds
  BY <1>1, <1>2 DEF TimerIds, Seqs, HeapType, TypeOK
<1>6. \A b \in Addrs : mem'[b].seq \in 0..MaxTimers /\ mem'[b].interval \in Nat
                          /\ mem'[b].expiration \in Times
  BY <1>2 DEF Timer
<1>7. TypeOK'
  BY <1>1, <1>2, <1>4, <1>5, <1>6 DEF HeapType, TypeOK
<1>8. HeapType'
  BY <1>1, <1>2, <1>3, <1>4, <1>7 DEF HeapType
<1> QED BY <1>2, <1>4, <1>8

\* addTimer in another thread.
LEMMA AddTimerStep ==
    ASSUME QueueInv, NEW x \in Threads, NEW a \in Addrs, NEW delay \in Delays,
           NEW interval \in Intervals, AddTimer(x, a, delay, interval)
    PROVE  QueueInv'
<1> USE DEF QueueInv
<1>1. /\ MayCreate(a) /\ mem' = NewTimer(a, delay, interval)
      /\ created' = created + 1 /\ pending' = Append(pending, <<"add", a>>)
      /\ tpc' = [tpc EXCEPT ![x] = <<a, created + 1>>]
      /\ UNCHANGED <<now, jumps, fd, active, timers, activeTimers, cancelingTimers,
                     callingExpiredTimers, expired, toRun, readAt, inCallback, ids, cancels,
                     ran, cancelled>>
  BY DEF AddTimer, clock, sets, handler
<1>2. /\ SeqInv' /\ mem' \in [Addrs -> Timer] /\ mem'[a].seq = created + 1
      /\ \A b \in Addrs : b # a => mem'[b] = mem[b]
      /\ \A e \in timers \cup expired : e[2] # a
      /\ a \notin Waiting(pending)
      /\ created + 1 \in Seqs /\ created' \in 0..MaxTimers
  BY <1>1, NewTimerFresh
<1>3. /\ pending' \in Seq(Functors) /\ Once(pending')
      /\ Waiting(pending') = Waiting(pending) \cup {a}
  BY <1>1, <1>2, WaitingAdd DEF HeapType, HeapInv
<1>4. \A e \in timers \cup expired : e[2] \in Addrs /\ mem'[e[2]] = mem[e[2]]
  BY <1>2 DEF HeapType, TypeOK
<1>5. HeapInv'
  <2>1. \A e \in timers' \cup expired' : mem'[e[2]].seq # 0 /\ mem'[e[2]].expiration = e[1]
    BY <1>1, <1>4 DEF HeapInv
  <2>2. \A e \in timers', f \in expired' : e[2] # f[2]
    BY <1>1 DEF HeapInv
  <2>3. \A b \in Waiting(pending') : mem'[b].seq # 0 /\ \A e \in timers' \cup expired' : e[2] # b
    <3>1. created + 1 # 0
      BY <1>2 DEF Seqs
    <3>2. \A b \in Waiting(pending) : b \in Addrs /\ b # a
      BY <1>2 DEF Waiting
    <3> QED BY <1>1, <1>2, <1>3, <3>1, <3>2 DEF HeapInv
  <2>4. activeTimers' = {ActiveTimer(e[2])' : e \in timers'}
    <3>1. \A e \in timers : ActiveTimer(e[2])' = ActiveTimer(e[2])
      BY <1>4 DEF ActiveTimer
    <3> QED BY <1>1, <3>1 DEF HeapInv
  <2> QED BY <1>3, <2>1, <2>2, <2>3, <2>4 DEF HeapInv
<1>6. \A b \in Addrs : mem'[b].seq \in 0..MaxTimers /\ mem'[b].interval \in Nat
                          /\ mem'[b].expiration \in Times
  BY <1>2 DEF Timer
<1>7. \A i \in DOMAIN pending' : pending'[i] \in Functors
  BY <1>3
<1>8. tpc' \in [Threads -> {NoTimer} \cup (Addrs \X Seqs)]
  BY <1>1, <1>2 DEF HeapType, TypeOK
<1>9. TypeOK'
  BY <1>1, <1>2, <1>6, <1>7, <1>8 DEF HeapType, TypeOK, Functors
<1>10. HeapType' /\ TimerfdArmed'
  BY <1>1, <1>2, <1>3, <1>9 DEF HeapType, TimerfdArmed
<1> QED BY <1>2, <1>5, <1>10

\* A functor of this queue runs.
LEMMA RunFunctorStep ==
    ASSUME QueueInv, RunFunctor
    PROVE  QueueInv'
<1> DEFINE f == Head(pending)
<1> USE DEF QueueInv
<1>1. /\ pending # << >> /\ pending' = Tail(pending)
      /\ UNCHANGED <<now, jumps, active, callingExpiredTimers, expired, toRun, readAt,
                     inCallback, tpc, ids, created, cancels, ran>>
  BY DEF RunFunctor, clock
<1>2. /\ f \in Functors /\ pending' \in Seq(Functors) /\ Once(pending')
      /\ Waiting(pending') \subseteq Waiting(pending)
      /\ f[1] = "add" => f[2] \in Waiting(pending) /\ f[2] \notin Waiting(pending')
  BY <1>1, WaitingPop DEF HeapType, HeapInv
<1>3. CASE f[1] = "add" /\ AddTimerInLoop(f[2], mem) /\ UNCHANGED <<mem, cancelingTimers, cancelled>>
  <2>1. f[2] \in Addrs /\ mem[f[2]].seq # 0 /\ \A e \in timers \cup expired : e[2] # f[2]
    BY <1>2, <1>3 DEF HeapInv, Waiting
  <2>2. /\ mem' \in [Addrs -> Timer] /\ AddTimerInLoop(f[2], mem') /\ mem'[f[2]].seq # 0
        /\ \A b \in Addrs : b # f[2] => mem'[b] = mem[b]
    BY <1>3, <2>1 DEF HeapType
  <2>3. /\ HeapInv' /\ TimerfdArmed' /\ timers' \subseteq Times \X Addrs
        /\ IsFiniteSet(timers') /\ fd' \in {Disarmed} \cup Times
        /\ activeTimers' \subseteq Addrs \X Seqs
    <3> HIDE DEF f
    <3> QED BY <1>1, <1>2, <1>3, <2>1, <2>2, InsertTimer
  <2>4. SeqInv'
    BY <1>1, <1>3 DEF SeqInv, ActiveTimer
  <2>5. \A i \in DOMAIN pending' : pending'[i] \in Functors
    BY <1>2
  <2>6. TypeOK'
    BY <1>1, <1>3, <2>3, <2>5 DEF HeapType, TypeOK, Functors
  <2>7. HeapType'
    BY <1>1, <1>2, <2>2, <2>3, <2>6 DEF HeapType
  <2> QED BY <2>3, <2>4, <2>7
<1>4. CASE f[1] = "cancel" /\ CancelInLoop(f[2]) /\ UNCHANGED fd
  <2>1. f[2] \in TimerIds
    BY <1>2, <1>4 DEF Functors
  <2>2. cancels' \in 0..MaxCancels
    BY <1>1 DEF HeapType, TypeOK
  <2> HIDE DEF f
  <2> QED BY <1>1, <1>2, <1>4, <2>1, <2>2, CancelInLoopStep
<1> QED BY <1>3, <1>4 DEF RunFunctor

-----------------------------------------------------------------------------
(* Running the expired timers *)

\* handleRead up to the callbacks: the expired timers leave both sets.
LEMMA HandleReadStep ==
    ASSUME QueueInv, HandleRead
    PROVE  QueueInv'
<1> USE DEF QueueInv
<1>1. /\ ~callingExpiredTimers /\ active' = FALSE /\ fd' = (IF fd = 0 THEN Disarmed ELSE fd)
      /\ readAt' = now /\ expired' = {e \in timers : e[1] <= now} /\ toRun' = expired'
      /\ timers' = timers \ expired'
      /\ activeTimers' = activeTimers \ {ActiveTimer(e[2]) : e \in expired'}
      /\ callingExpiredTimers' = TRUE /\ cancelingTimers' = {}
      /\ UNCHANGED <<now, jumps, mem, inCallback, pending, tpc, ids, created, cancels, ran,
                     cancelled>>
  BY DEF HandleRead, clock
<1>2. expired = {}
  BY <1>1 DEF HeapType, TypeOK
<1>3. timers' \subseteq timers /\ expired' \subseteq timers /\ timers' \cup expired' = timers
  BY <1>1
<1>4. IsFiniteSet(timers') /\ IsFiniteSet(expired')
  BY <1>3, FS_Subset DEF HeapType
<1>5. \A e, f \in timers : e[2] = f[2] => e = f
  <2> SUFFICES ASSUME NEW e \in timers, NEW f \in timers, e[2] = f[2]
               PROVE  e = f
    OBVIOUS
  <2>1. e[1] = f[1]
    BY DEF HeapInv
  <2> QED BY <2>1 DEF HeapType, TypeOK
<1>6. HeapInv'
  <2>1. \A e \in timers' \cup expired' : mem'[e[2]].seq # 0 /\ mem'[e[2]].expiration = e[1]
    BY <1>1, <1>3 DEF HeapInv
  <2>2. \A e \in timers', f \in expired' : e[2] # f[2]
    BY <1>1, <1>3, <1>5
  <2>3. \A a \in Waiting(pending') : mem'[a].seq # 0 /\ \A e \in timers' \cup expired' : e[2] # a
    BY <1>1, <1>3 DEF HeapInv
  <2>4. \A e : ActiveTimer(e[2])' = ActiveTimer(e[2])
    BY <1>1 DEF ActiveTimer
  <2>5. \A e, f \in timers : ActiveTimer(e[2]) = ActiveTimer(f[2]) => e = f
    BY <1>5 DEF ActiveTimer
  <2>6. activeTimers' = {ActiveTimer(e[2])' : e \in timers'}
    <3>1. \A t \in activeTimers' : \E e \in timers' : t = ActiveTimer(e[2])'
      <4> SUFFICES ASSUME NEW t \in activeTimers'
                   PROVE  \E e \in timers' : t = ActiveTimer(e[2])'
        OBVIOUS
      <4>1. PICK e \in timers : t = ActiveTimer(e[2])
        BY <1>1 DEF HeapInv
      <4>2. e \notin expired'
        BY <1>1, <4>1
      <4> QED BY <1>1, <2>4, <4>1, <4>2
    <3>2. \A e \in timers' : ActiveTimer(e[2])' \in activeTimers'
      <4> SUFFICES ASSUME NEW e \in timers'
                   PROVE  ActiveTimer(e[2]) \in activeTimers'
        BY <2>4
      <4>1. ActiveTimer(e[2]) \in activeTimers
        BY <1>3 DEF HeapInv
      <4>2. \A f \in expired' : ActiveTimer(f[2]) # ActiveTimer(e[2])
        BY <1>1, <1>3, <2>5
      <4> QED BY <1>1, <4>1, <4>2
    <3> QED BY <3>1, <3>2
  <2> QED BY <1>1, <2>1, <2>2, <2>3, <2>6 DEF HeapInv
<1>7. SeqInv'
  BY <1>1, <1>2 DEF SeqInv
<1>8. active' \in BOOLEAN /\ callingExpiredTimers' \in BOOLEAN /\ callingExpiredTimers'
  BY <1>1, Zenon
<1>9. fd' \in {Disarmed} \cup Times /\ readAt' \in Nat
  BY <1>1 DEF HeapType, TypeOK
<1>10. TypeOK'
  BY <1>1, <1>3, <1>8, <1>9 DEF HeapType, TypeOK
<1>11. HeapType' /\ TimerfdArmed'
  BY <1>1, <1>4, <1>8, <1>9, <1>10 DEF HeapType, TimerfdArmed
<1> QED BY <1>6, <1>7, <1>11

\* reset: the expired timers go back into both sets or are deleted.
LEMMA ResetStep ==
    ASSUME QueueInv, Reset
    PROVE  QueueInv'
<1> DEFINE done == {e[2] : e \in expired}
           again == {a \in done : Repeats(a)}
           when(a) == readAt + mem[a].interval
           back == {<<when(a), a>> : a \in again}
<1> USE DEF QueueInv
<1>1. /\ toRun = {} /\ ~inCallback
      /\ mem' = [a \in Addrs |->
                   IF a \in again THEN [mem[a] EXCEPT !.expiration = when(a)]
                   ELSE IF a \in done THEN Free ELSE mem[a]]
      /\ timers' = timers \cup back
      /\ activeTimers' = activeTimers \cup {ActiveTimer(a) : a \in again}
      /\ fd' = NextExpire(timers')
      /\ callingExpiredTimers' = FALSE /\ expired' = {} /\ readAt' = 0
      /\ UNCHANGED <<now, jumps, active, cancelingTimers, toRun, inCallback, pending, tpc,
                     ids, created, cancels, ran, cancelled>>
  BY DEF Reset, clock
<1>2. done \subseteq Addrs /\ again \subseteq done
  BY DEF HeapType, TypeOK
<1>3. \A a \in again : when(a) \in Nat /\ a \in Addrs
  BY <1>2 DEF HeapType, TypeOK
<1>4. \A a \in again : /\ mem'[a].seq = mem[a].seq /\ mem'[a].expiration = when(a)
                       /\ mem'[a].interval = mem[a].interval /\ mem'[a] \in Timer
                       /\ mem[a].seq # 0 /\ ActiveTimer(a) \notin cancelingTimers
  <2> SUFFICES ASSUME NEW a \in again
               PROVE  /\ mem'[a].seq = mem[a].seq /\ mem'[a].expiration = when(a)
                      /\ mem'[a].interval = mem[a].interval /\ mem'[a] \in Timer
                      /\ mem[a].seq # 0 /\ ActiveTimer(a) \notin cancelingTimers
    OBVIOUS
  <2>1. a \in Addrs /\ mem[a] \in Timer /\ when(a) \in Times
    BY <1>3 DEF HeapType, Times
  <2>2. mem'[a] = [mem[a] EXCEPT !.expiration = when(a)]
    BY <1>1, <2>1
  <2>3. mem[a].seq # 0 /\ ActiveTimer(a) \notin cancelingTimers
    BY DEF HeapInv, Repeats
  <2> QED BY <2>1, <2>2, <2>3 DEF Timer
<1>5. \A a \in Addrs : a \in done /\ a \notin again => mem'[a] = Free
  BY <1>1
<1>6. \A a \in Addrs : a \notin done => mem'[a] = mem[a]
  BY <1>1, <1>2
<1>7. Free.seq = 0 /\ Free \in Timer
  BY DEF Free, Timer, Times
<1>8. mem' \in [Addrs -> Timer]
  <2>1. \A a \in Addrs : mem'[a] \in Timer
    BY <1>4, <1>5, <1>6, <1>7 DEF HeapType
  <2> QED BY <1>1, <2>1
<1>9. \A e \in timers : e[2] \in Addrs /\ e[2] \notin done
  BY DEF HeapInv, HeapType, TypeOK
<1>10. \A a \in Waiting(pending) : a \in Addrs /\ a \notin done
  BY DEF HeapInv, Waiting
<1>11. /\ \A e \in back : e[2] \in again /\ e[1] = when(e[2])
       /\ \A a \in again : \E e \in back : e[2] = a
  <2>1. \A e \in back : e[2] \in again /\ e[1] = when(e[2])
    <3> HIDE DEF again, when
    <3> QED OBVIOUS
  <2>2. ASSUME NEW a \in again
        PROVE  \E e \in back : e[2] = a
    <3>1. <<when(a), a>> \in back /\ <<when(a), a>>[2] = a
      <4> HIDE DEF again, when
      <4> QED OBVIOUS
    <3> QED BY <3>1
  <2> QED BY <2>1, <2>2
<1>12. back \subseteq Times \X Addrs
  BY <1>3 DEF Times
<1>13. IsFiniteSet(back)
  <2> DEFINE S == {e \in expired : e[2] \in again}
             g == [e \in S |-> <<when(e[2]), e[2]>>]
  <2>1. IsFiniteSet(S)
    BY FS_Subset DEF HeapType
  <2>2. g \in [S -> back] /\ \A b \in back : \E e \in S : g[e] = b
    OBVIOUS
  <2>3. g \in Surjection(S, back)
    <3> HIDE DEF g, S, back
    <3> QED BY <2>2 DEF Surjection
  <2> HIDE DEF g, S, back
  <2> QED BY <2>1, <2>3, FS_Surjection
<1> HIDE DEF done, again, when, back
<1>14. HeapInv'
  <2>1. \A e \in timers' \cup expired' : mem'[e[2]].seq # 0 /\ mem'[e[2]].expiration = e[1]
    <3>1. \A e \in timers : mem'[e[2]].seq # 0 /\ mem'[e[2]].expiration = e[1]
      BY <1>6, <1>9 DEF HeapInv
    <3>2. \A e \in back : mem'[e[2]].seq # 0 /\ mem'[e[2]].expiration = e[1]
      BY <1>4, <1>11
    <3> QED BY <1>1, <3>1, <3>2
  <2>2. \A e \in timers', f \in expired' : e[2] # f[2]
    BY <1>1
  <2>3. \A a \in Waiting(pending') : mem'[a].seq # 0 /\ \A e \in timers' \cup expired' : e[2] # a
    BY <1>1, <1>2, <1>6, <1>10, <1>11 DEF HeapInv
  <2>4. activeTimers' = {ActiveTimer(e[2])' : e \in timers'}
    <3>1. \A e \in timers : ActiveTimer(e[2])' = ActiveTimer(e[2])
      BY <1>6, <1>9 DEF ActiveTimer
    <3>2. \A a \in again : ActiveTimer(a)' = ActiveTimer(a)
      BY <1>4 DEF ActiveTimer
    <3>3. \A t \in activeTimers' : \E e \in timers' : t = ActiveTimer(e[2])'
      <4>1. \A t \in activeTimers : \E e \in timers' : t = ActiveTimer(e[2])'
        BY <1>1, <3>1 DEF HeapInv
      <4>2. \A a \in again : \E e \in timers' : ActiveTimer(a) = ActiveTimer(e[2])'
        BY <1>1, <1>11, <3>2
      <4> QED BY <1>1, <4>1, <4>2
    <3>4. \A e \in timers' : ActiveTimer(e[2])' \in activeTimers'
      <4>1. \A e \in timers : ActiveTimer(e[2])' \in activeTimers'
        BY <1>1, <3>1 DEF HeapInv
      <4>2. \A e \in back : ActiveTimer(e[2])' \in activeTimers'
        BY <1>1, <1>11, <3>2
      <4> QED BY <1>1, <4>1, <4>2
    <3> QED BY <3>3, <3>4
  <2> QED BY <1>1, <2>1, <2>2, <2>3, <2>4 DEF HeapInv
<1>15. SeqInv'
  <2>1. \A a \in Addrs : mem'[a].seq \in {0, mem[a].seq}
    BY <1>4, <1>5, <1>6, <1>7
  <2>2. \A a \in Addrs : mem'[a].seq <= created'
    BY <1>1, <2>1 DEF SeqInv, HeapType, TypeOK
  <2>3. \A a, b \in Addrs : mem'[a].seq = mem'[b].seq /\ mem'[a].seq # 0 => a = b
    BY <2>1 DEF SeqInv
  <2>4. cancelled' \subseteq 1..created'
    BY <1>1 DEF SeqInv
  <2>5. ASSUME NEW a \in Addrs, mem'[a].seq \in cancelled'
        PROVE  FALSE
    <3>1. mem'[a].seq # 0
      BY <2>4, <2>5
    <3>2. mem[a].seq \in cancelled
      BY <1>1, <2>1, <2>5, <3>1
    <3>3. a \in done /\ ActiveTimer(a) \in cancelingTimers
      BY <3>2 DEF SeqInv, done
    <3> QED BY <1>4, <1>5, <1>7, <3>1, <3>3
  <2> QED BY <2>2, <2>3, <2>4, <2>5 DEF SeqInv
<1>16. timers' \subseteq Times \X Addrs /\ activeTimers' \subseteq Addrs \X Seqs
  <2>1. \A a \in again : ActiveTimer(a) \in Addrs \X Seqs
    BY <1>3, <1>4 DEF ActiveTimer, HeapType, TypeOK, Seqs
  <2> QED BY <1>1, <1>12, <2>1 DEF HeapType, TypeOK
<1>17. fd' \in {Disarmed} \cup Times /\ (timers' # {} => fd' # Disarmed)
  <2>1. CASE timers' = {}
    BY <1>1, <2>1 DEF NextExpire, HeapType, TypeOK
  <2>2. CASE timers' # {}
    <3>1. Earliest(timers') \in Nat /\ now \in Nat
      BY <1>16, <2>2, EarliestType DEF HeapType, TypeOK
    <3>2. fd' \in Nat \ {0}
      BY <1>1, <2>2, <3>1, ResetType DEF NextExpire
    <3> QED BY <3>2 DEF Disarmed, Times
  <2> QED BY <2>1, <2>2
<1>18. callingExpiredTimers' \in BOOLEAN
  BY <1>1, Zenon
<1>19. \A a \in Addrs : mem'[a].seq \in 0..MaxTimers /\ mem'[a].interval \in Nat
                          /\ mem'[a].expiration \in Times
  BY <1>8 DEF Timer
<1>20. TypeOK'
  BY <1>1, <1>16, <1>17, <1>18, <1>19 DEF HeapType, TypeOK
<1>21. IsFiniteSet(timers') /\ IsFiniteSet(expired')
  BY <1>1, <1>13, FS_Union, FS_EmptySet DEF HeapType
<1>22. HeapType' /\ TimerfdArmed'
  BY <1>1, <1>8, <1>17, <1>20, <1>21 DEF HeapType, TimerfdArmed
<1> QED BY <1>14, <1>15, <1>22

-----------------------------------------------------------------------------
(* The theorems *)

\* Every step keeps the invariant.
LEMMA QueueStep == QueueInv /\ [Next]_vars => QueueInv'
<1> SUFFICES ASSUME QueueInv, [Next]_vars
             PROVE  QueueInv'
  OBVIOUS
<1>1. CASE UNCHANGED vars
  <2> USE <1>1 DEF vars, clock, sets, handler, QueueInv
  <2>1. HeapInv' /\ SeqInv'
    BY HeapFrame DEF heapVars, HeapInv
  <2>2. HeapType' /\ TimerfdArmed'
    BY DEF HeapType, TypeOK, TimerfdArmed
  <2> QED BY <2>1, <2>2
<1>2. CASE LoopStep
  BY <1>2, QuietStep, HandleReadStep, ResetStep, RunFunctorStep DEF LoopStep
<1>3. CASE UserStep
  BY <1>3, QuietStep, AddTimerHereStep, AddTimerStep, CancelHereStep, CancelStep DEF UserStep
<1>4. CASE Tick \/ \E t \in 0..MaxTime : SetClock(t)
  BY <1>4, QuietStep
<1> QED BY <1>1, <1>2, <1>3, <1>4 DEF Next

\* A new queue has it.
LEMMA InitQueueInv == Init => QueueInv
<1> SUFFICES ASSUME Init
             PROVE  QueueInv
  OBVIOUS
<1> USE DEF Init
<1>1. pending \in Seq(Functors) /\ Len(pending) = 0 /\ 1..Len(pending) = {}
  OBVIOUS
<1>2. Waiting(pending) = {} /\ Once(pending)
  BY <1>1 DEF Waiting, Once
<1>3. mem \in [Addrs -> Timer] /\ \A a \in Addrs : mem[a].seq = 0
  BY DEF Free, Timer, Times
<1>4. active \in BOOLEAN /\ callingExpiredTimers \in BOOLEAN /\ inCallback \in BOOLEAN
  BY Zenon
<1>5. \A a \in Addrs : mem[a].seq \in 0..MaxTimers /\ mem[a].interval \in Nat
                          /\ mem[a].expiration \in Times
  BY <1>3 DEF Timer
<1>6. TypeOK
  BY <1>1, <1>4, <1>5 DEF TypeOK
<1>7. HeapType
  BY <1>1, <1>3, <1>6, FS_EmptySet DEF HeapType
<1>8. HeapInv /\ SeqInv /\ TimerfdArmed
  BY <1>2, <1>3 DEF HeapInv, SeqInv, TimerfdArmed
<1> QED BY <1>7, <1>8 DEF QueueInv

\* The invariant of the specification.
LEMMA QueueCorrect == Spec => []QueueInv
BY InitQueueInv, QueueStep, PTL DEF Spec

\* TimerQueue.cc:151,168,198,231,279,300: timers_, activeTimers_ and the heap
\* agree and the timerfd is armed for them, whatever callbacks and other threads
\* add and cancel and however the clock is set.
THEOREM QueueIsSound == Spec => []QueueSound
BY InvSound, QueueCorrect, PTL

\* TimerQueue.cc:148-169,246-258: no cancelled timer becomes active again, its
\* address reused or not.
THEOREM CancelIsFinal == Spec => []CancelSticks
BY InvSound, QueueCorrect, PTL
=============================================================================
