---------------------------- MODULE TimerQueue ----------------------------
(***************************************************************************)
(* net/TimerQueue with Timer and TimerId: timers live on the heap, two     *)
(* ordered sets point to them, one timerfd is armed for the earliest, and  *)
(* handleRead runs the expired ones, whose callbacks may add and cancel    *)
(* timers.  Other threads add and cancel through the loop's functor queue. *)
(* A timer is known by its address and its sequence number; addresses are  *)
(* reused after delete.  Time is counted in units of 100 microseconds, the *)
(* shortest timeout given to the timerfd.                                  *)
(***************************************************************************)
EXTENDS Integers, Sequences, FiniteSets

CONSTANTS
    Addrs,          \* heap addresses
    Threads,        \* threads other than the loop thread
    Delays,         \* distances of the expiration from the call of addTimer
    Intervals,      \* interval_; 0: not repeated
    MaxTimers,      \* bound on the timers created
    MaxTime,        \* bound on the clock, which stops there
    MaxJumps,       \* bound on the times the wall clock is set
    MaxCancels      \* bound on the calls of cancel

ASSUME TimerAssumption ==
    /\ Delays \subseteq Nat /\ Intervals \subseteq Nat
    /\ MaxTimers \in Nat /\ MaxTime \in Nat /\ MaxJumps \in Nat
    /\ MaxCancels \in Nat

VARIABLES
    now,            \* Timestamp::now()
    fd,             \* the timerfd: time left, 0: readable, Disarmed
    active,         \* timerfdChannel_ is in activeChannels_ of this iteration
    mem,            \* the Timer objects on the heap
    timers,         \* timers_: <<expiration, address>>
    activeTimers,   \* activeTimers_: <<address, sequence>>
    cancelingTimers,        \* cancelingTimers_
    callingExpiredTimers,   \* callingExpiredTimers_
    expired, toRun, readAt, \* locals of handleRead: expired, the part of it
                            \* still to run, now
    inCallback,     \* the loop thread is in a timer's callback
    pending,        \* functors of this queue in the loop
    tpc,            \* per thread: the timer whose sequence() addTimer reads
    ids,            \* TimerIds the user has
    created, jumps, cancels,    \* counters of the bounds
    ran, cancelled  \* history: sequence numbers that ran, that were cancelled

clock == <<now, jumps>>
sets == <<timers, activeTimers>>
handler == <<cancelingTimers, callingExpiredTimers, expired, toRun, readAt,
             inCallback>>
vars == <<clock, fd, active, mem, sets, handler, pending, tpc, ids, created,
          cancels, ran, cancelled>>

Disarmed == -1
Seqs == 1..MaxTimers
Free == [seq |-> 0, expiration |-> 0, interval |-> 0]
NoTimer == << >>

Times == Nat
TimerIds == Addrs \X (0..MaxTimers)

TypeOK ==
    /\ now \in 0..MaxTime /\ jumps \in 0..MaxJumps /\ fd \in {Disarmed} \cup Times
    /\ active \in BOOLEAN /\ callingExpiredTimers \in BOOLEAN
    /\ inCallback \in BOOLEAN
    /\ \A a \in Addrs : mem[a].seq \in 0..MaxTimers /\ mem[a].interval \in Nat
                          /\ mem[a].expiration \in Times
    /\ timers \subseteq Times \X Addrs /\ expired \subseteq Times \X Addrs
    /\ toRun \subseteq expired
    /\ activeTimers \subseteq Addrs \X Seqs /\ cancelingTimers \subseteq TimerIds
    /\ ids \subseteq TimerIds
    /\ \A i \in DOMAIN pending : pending[i] \in {"add"} \X Addrs \cup {"cancel"} \X TimerIds
    /\ tpc \in [Threads -> {NoTimer} \cup (Addrs \X Seqs)]
    /\ created \in 0..MaxTimers /\ cancels \in 0..MaxCancels
    /\ ran \subseteq Seqs /\ cancelled \subseteq Seqs
    /\ expired # {} \/ inCallback => callingExpiredTimers

Init ==
    /\ now = 0 /\ jumps = 0 /\ fd = Disarmed /\ active = FALSE
    /\ mem = [a \in Addrs |-> Free]
    /\ timers = {} /\ activeTimers = {} /\ cancelingTimers = {}
    /\ callingExpiredTimers = FALSE /\ expired = {} /\ toRun = {} /\ readAt = 0
    /\ inCallback = FALSE
    /\ pending = << >> /\ tpc = [x \in Threads |-> NoTimer]
    /\ ids = {} /\ created = 0 /\ cancels = 0 /\ ran = {} /\ cancelled = {}

\* The loop thread runs code of the user: another channel's callback or
\* functor, or a timer's callback.
InUserCode == callingExpiredTimers => inCallback

-----------------------------------------------------------------------------
(* Operators *)

\* resetTimerfd with howMuchTimeFromNow: never less than one unit
ResetTimerfd(when) == IF when - now < 1 THEN 1 ELSE when - now

Earliest(ts) == (CHOOSE e \in ts : \A f \in ts : e[1] <= f[1])[1]

ActiveTimer(a) == <<a, mem[a].seq>>

\* insert finds the new timer to be the earliest
EarliestChanged(ts, when) == ts = {} \/ when < Earliest(ts)

\* addTimerInLoop: insert, and the timerfd if the earliest changed; m is the
\* heap with the timer on it
AddTimerInLoop(a, m) ==
    LET when == m[a].expiration IN
    /\ timers' = timers \cup {<<when, a>>}
    /\ activeTimers' = activeTimers \cup {<<a, m[a].seq>>}
    /\ fd' = IF EarliestChanged(timers, when) THEN ResetTimerfd(when) ELSE fd

\* Wrong variant: a timer in its own callback is deleted at once.
CancelInLoopDeletes(id) ==
    LET a == id[1] IN
    IF id[2] # 0 /\ ActiveTimer(a) = id
    THEN /\ timers' = timers \ {<<mem[a].expiration, a>>}
         /\ activeTimers' = activeTimers \ {id}
         /\ mem' = [mem EXCEPT ![a] = Free]
         /\ cancelled' = cancelled \cup {id[2]}
         /\ UNCHANGED cancelingTimers
    ELSE UNCHANGED <<timers, activeTimers, mem, cancelled, cancelingTimers>>

\* cancelInLoop: an active timer is deleted; one that is not is remembered
\* while callbacks run, for reset to see
CancelInLoop(id) ==
    LET a == id[1] IN
    IF id \in activeTimers
    THEN /\ timers' = timers \ {<<mem[a].expiration, a>>}
         /\ activeTimers' = activeTimers \ {id}
         /\ mem' = [mem EXCEPT ![a] = Free]
         /\ cancelled' = cancelled \cup {id[2]}
         /\ UNCHANGED cancelingTimers
    ELSE /\ cancelingTimers' = IF callingExpiredTimers
                               THEN cancelingTimers \cup {id} ELSE cancelingTimers
         /\ cancelled' = IF \E e \in expired : ActiveTimer(e[2]) = id
                         THEN cancelled \cup {id[2]} ELSE cancelled
         /\ UNCHANGED <<timers, activeTimers, mem>>

-----------------------------------------------------------------------------
(* The loop thread *)

\* poll reports the timerfd
Poll ==
    /\ ~callingExpiredTimers /\ ~active /\ fd = 0
    /\ active' = TRUE
    /\ UNCHANGED <<clock, fd, mem, sets, handler, pending, tpc, ids, created,
                   cancels, ran, cancelled>>

\* handleRead up to the callbacks: readTimerfd, getExpired.  The timerfd may
\* have been armed anew since it was reported; the read then changes nothing.
HandleRead ==
    /\ ~callingExpiredTimers /\ active
    /\ active' = FALSE
    /\ fd' = IF fd = 0 THEN Disarmed ELSE fd
    /\ readAt' = now
    /\ expired' = {e \in timers : e[1] <= now}
    /\ toRun' = expired'
    /\ timers' = timers \ expired'
    /\ activeTimers' = activeTimers \ {ActiveTimer(e[2]) : e \in expired'}
    /\ callingExpiredTimers' = TRUE
    /\ cancelingTimers' = {}
    /\ UNCHANGED <<clock, mem, inCallback, pending, tpc, ids, created, cancels,
                   ran, cancelled>>

\* the callback of the next expired timer starts (equal times in the order of
\* the addresses, which is any)
RunTimer(e) ==
    /\ callingExpiredTimers /\ ~inCallback /\ e \in toRun
    /\ \A f \in toRun : e[1] <= f[1]
    /\ toRun' = toRun \ {e}
    /\ ran' = ran \cup ({mem[e[2]].seq} \ {0})
    /\ inCallback' = TRUE
    /\ UNCHANGED <<clock, fd, active, mem, sets, cancelingTimers,
                   callingExpiredTimers, expired, readAt, pending, tpc, ids,
                   created, cancels, cancelled>>

CallbackReturns ==
    /\ inCallback
    /\ inCallback' = FALSE
    /\ UNCHANGED <<clock, fd, active, mem, sets, cancelingTimers,
                   callingExpiredTimers, expired, toRun, readAt, pending, tpc,
                   ids, created, cancels, ran, cancelled>>

\* Wrong variant: cancelingTimers_ is not looked at.
RepeatsAlways(a) == mem[a].interval > 0

\* reset's test whether to restart a timer
Repeats(a) == mem[a].interval > 0 /\ ActiveTimer(a) \notin cancelingTimers

\* Wrong variant: reset does not arm the timerfd.
NextExpireForgotten(ts) == fd

\* the end of reset: arm the timerfd for the earliest of all timers
NextExpire(ts) == IF ts = {} THEN fd ELSE ResetTimerfd(Earliest(ts))

\* reset: restart the repeated timers from the time read in handleRead, delete
\* the others, arm the timerfd
Reset ==
    LET done == {e[2] : e \in expired}
        again == {a \in done : Repeats(a)}
        when(a) == readAt + mem[a].interval
    IN  /\ callingExpiredTimers /\ ~inCallback /\ toRun = {}
        /\ mem' = [a \in Addrs |->
                     IF a \in again THEN [mem[a] EXCEPT !.expiration = when(a)]
                     ELSE IF a \in done THEN Free ELSE mem[a]]
        /\ timers' = timers \cup {<<when(a), a>> : a \in again}
        /\ activeTimers' = activeTimers \cup {ActiveTimer(a) : a \in again}
        /\ fd' = NextExpire(timers')
        /\ callingExpiredTimers' = FALSE
        /\ expired' = {} /\ readAt' = 0
        /\ UNCHANGED <<clock, active, cancelingTimers, toRun, inCallback, pending,
                       tpc, ids, created, cancels, ran, cancelled>>

\* a functor of this queue: addTimerInLoop or cancelInLoop.  The loop runs them
\* when it has dispatched the active channels.
RunFunctor ==
    /\ ~callingExpiredTimers /\ ~active /\ pending # << >>
    /\ pending' = Tail(pending)
    /\ LET f == Head(pending) IN
       \/ /\ f[1] = "add" /\ AddTimerInLoop(f[2], mem)
          /\ UNCHANGED <<mem, cancelingTimers, cancelled>>
       \/ /\ f[1] = "cancel" /\ CancelInLoop(f[2])
          /\ UNCHANGED fd
    /\ UNCHANGED <<clock, active, callingExpiredTimers, expired, toRun, readAt,
                   inCallback, tpc, ids, created, cancels, ran>>

-----------------------------------------------------------------------------
(* Users *)

\* new Timer at a free address, with the next sequence number
NewTimer(a, delay, interval) ==
    [mem EXCEPT ![a] = [seq |-> created + 1, expiration |-> now + delay,
                        interval |-> interval]]

MayCreate(a) == mem[a] = Free /\ created < MaxTimers

\* addTimer called in the loop thread
AddTimerHere(a, delay, interval) ==
    /\ InUserCode /\ MayCreate(a)
    /\ mem' = NewTimer(a, delay, interval)
    /\ AddTimerInLoop(a, mem')
    /\ created' = created + 1
    /\ ids' = ids \cup {<<a, created + 1>>}
    /\ UNCHANGED <<clock, active, handler, pending, tpc, cancels, ran, cancelled>>

\* addTimer called in another thread, up to the end of runInLoop
AddTimer(x, a, delay, interval) ==
    /\ tpc[x] = NoTimer /\ MayCreate(a)
    /\ mem' = NewTimer(a, delay, interval)
    /\ created' = created + 1
    /\ pending' = Append(pending, <<"add", a>>)
    /\ tpc' = [tpc EXCEPT ![x] = <<a, created + 1>>]
    /\ UNCHANGED <<clock, fd, active, sets, handler, ids, cancels, ran, cancelled>>

\* its last line: timer->sequence(), on a timer that may be gone by now.  Freed
\* memory reads as anything.
ReadSequence(x) ==
    LET a == tpc[x][1] IN
    /\ tpc[x] # NoTimer
    /\ \E s \in IF mem[a] = Free THEN 0..MaxTimers ELSE {mem[a].seq} :
         ids' = ids \cup {<<a, s>>}
    /\ tpc' = [tpc EXCEPT ![x] = NoTimer]
    /\ UNCHANGED <<clock, fd, active, mem, sets, handler, pending, created,
                   cancels, ran, cancelled>>

\* cancel called in the loop thread
CancelHere(id) ==
    /\ InUserCode /\ id \in ids /\ cancels < MaxCancels
    /\ cancels' = cancels + 1
    /\ CancelInLoop(id)
    /\ UNCHANGED <<clock, fd, active, callingExpiredTimers, expired, toRun,
                   readAt, inCallback, pending, tpc, ids, created, ran>>

\* cancel called in another thread
Cancel(x, id) ==
    /\ tpc[x] = NoTimer /\ id \in ids /\ cancels < MaxCancels
    /\ cancels' = cancels + 1
    /\ pending' = Append(pending, <<"cancel", id>>)
    /\ UNCHANGED <<clock, fd, active, mem, sets, handler, tpc, ids, created, ran,
                   cancelled>>

-----------------------------------------------------------------------------
(* Time *)

\* The timerfd counts down with CLOCK_MONOTONIC; Timestamp::now() is the wall
\* clock, which goes on as well ...
Tick ==
    /\ now < MaxTime \/ fd > 0
    /\ now' = IF now < MaxTime THEN now + 1 ELSE now
    /\ fd' = IF fd > 0 THEN fd - 1 ELSE fd
    /\ UNCHANGED <<jumps, active, mem, sets, handler, pending, tpc, ids, created,
                   cancels, ran, cancelled>>

\* ... but may be set.
SetClock(t) ==
    /\ jumps < MaxJumps /\ t # now
    /\ now' = t
    /\ jumps' = jumps + 1
    /\ UNCHANGED <<fd, active, mem, sets, handler, pending, tpc, ids, created,
                   cancels, ran, cancelled>>

-----------------------------------------------------------------------------
LoopStep ==
    \/ Poll \/ HandleRead \/ CallbackReturns \/ Reset \/ RunFunctor
    \/ \E e \in toRun : RunTimer(e)

UserStep ==
    \/ \E a \in Addrs, delay \in Delays, interval \in Intervals :
        \/ AddTimerHere(a, delay, interval)
        \/ \E x \in Threads : AddTimer(x, a, delay, interval)
    \/ \E id \in ids : CancelHere(id) \/ \E x \in Threads : Cancel(x, id)
    \/ \E x \in Threads : ReadSequence(x)

Next ==
    \/ LoopStep
    \/ UserStep
    \/ Tick
    \/ \E t \in 0..MaxTime : SetClock(t)

Spec == Init /\ [][Next]_vars

\* The loop thread runs, callbacks return and time passes.
FairSpec == Spec /\ WF_vars(LoopStep) /\ WF_vars(Tick)

-----------------------------------------------------------------------------
(* Properties *)

\* TimerQueue.cc:151,168,198,231,279,300: timers_ and activeTimers_ hold the same
\* timers, under the expirations the timers have, and neither they nor the
\* timers being run are ever deleted memory, whatever the callbacks cancel.
SetsAgree ==
    /\ activeTimers = {ActiveTimer(e[2]) : e \in timers}
    /\ Cardinality(activeTimers) = Cardinality(timers)
    /\ \A e \in timers \cup expired : mem[e[2]].seq # 0 /\ mem[e[2]].expiration = e[1]
    /\ \A e \in timers, f \in expired : e[2] # f[2]

\* TimerQueue.cc:148-169,246-258: a timer that was cancelled never becomes active
\* again, also when its own callback, or one that runs before or after it, did
\* the cancelling.
CancelSticks == \A t \in activeTimers : t[2] \notin cancelled

\* TimerQueue.cc:132-137,261-270: outside handleRead the timerfd is armed or
\* readable whenever a timer waits, also after the earliest was cancelled or
\* the clock was set.
TimerfdArmed == ~callingExpiredTimers /\ timers # {} => fd # Disarmed \/ active

\* The queue is sound: its types (a relative time of zero would disarm the
\* timerfd), its two sets and its timerfd.
QueueSound == TypeOK /\ SetsAgree /\ TimerfdArmed

\* TimerQueue.cc:173-193: a timer runs once its time has come, or is cancelled,
\* however the wall clock is set meanwhile.
TimerRuns ==
    \A s \in Seqs :
        (\E e \in timers : mem[e[2]].seq = s /\ e[1] <= MaxTime)
            ~> (s \in ran \cup cancelled)
=============================================================================
