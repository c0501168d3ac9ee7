----------------------------- MODULE EventLoop -----------------------------
(***************************************************************************)
(* net/EventLoop: one thread blocks in the poller, dispatches the active   *)
(* channels and then drains pendingFunctors_; any other thread may append  *)
(* a functor (queueInLoop, runInLoop) or ask the loop to stop (quit) and   *)
(* then writes the eventfd to unblock the poller.  Each step below is the  *)
(* code between two points at which another thread can observe the state.  *)
(* The poller and the other channels are external: a channel of Channels   *)
(* may become readable at any time and its callback may do anything a      *)
(* callback can do to its loop.                                            *)
(***************************************************************************)
EXTENDS Naturals, Sequences

CONSTANTS
    Threads,        \* the threads other than the loop thread
    Tasks,          \* the functors, each handed to the loop at most once
    Channels,       \* the channels of the loop other than wakeupChannel_
    WakeupChannel,  \* wakeupChannel_
    MaxQuits        \* bound on the calls of quit()

ASSUME LoopAssumption ==
    /\ WakeupChannel \notin Channels
    /\ MaxQuits \in Nat

VARIABLES
    looping, quit, callingPendingFunctors, \* the flags of the object
    pendingFunctors,    \* guarded by mutex_
    functors,           \* what doPendingFunctors swapped out and has not run
    activeChannels,     \* filled by the poller, not yet handled
    wakeupFd,           \* the counter of the eventfd
    ready,              \* channels of Channels the kernel reports as ready
    loopPc,             \* where the loop thread is
    pc,                 \* where each other thread is
    submitted,          \* functors handed over so far
    early,              \* those the loop thread queued outside loop()
    ran,                \* functors in the order in which they ran
    quits               \* calls of quit() so far

flags == <<looping, quit, callingPendingFunctors>>
queues == <<pendingFunctors, functors, submitted, early, ran>>
polled == <<activeChannels, wakeupFd, ready>>
vars == <<flags, queues, polled, loopPc, pc, quits>>

\* loopPc: outside loop(); at while(!quit_); in poll(); in the for over
\* activeChannels_; in a channel's callback; before the swap; in the for
\* over functors; in a functor.
LoopPcs == {"outside", "test", "poll", "dispatch", "event", "swap", "run",
            "functor"}

TypeOK ==
    /\ looping \in BOOLEAN /\ quit \in BOOLEAN
    /\ callingPendingFunctors \in BOOLEAN
    /\ pendingFunctors \in Seq(Tasks) /\ functors \in Seq(Tasks)
    /\ ran \in Seq(Tasks)
    /\ submitted \subseteq Tasks /\ early \subseteq submitted
    /\ activeChannels \subseteq Channels \cup {WakeupChannel}
    /\ ready \subseteq Channels
    /\ wakeupFd \in Nat
    /\ loopPc \in LoopPcs
    /\ pc \in [Threads -> {"idle", "wakeup"}]
    /\ quits \in 0..MaxQuits
    /\ looping <=> loopPc # "outside"
    /\ callingPendingFunctors <=> loopPc \in {"swap", "run", "functor"}

Init ==
    /\ looping = FALSE /\ quit = FALSE /\ callingPendingFunctors = FALSE
    /\ pendingFunctors = << >> /\ functors = << >> /\ ran = << >>
    /\ submitted = {} /\ early = {}
    /\ activeChannels = {} /\ wakeupFd = 0 /\ ready = {}
    /\ loopPc = "outside"
    /\ pc = [x \in Threads |-> "idle"]
    /\ quits = 0

-----------------------------------------------------------------------------
(* The loop thread *)

\* loop() up to the while: a quit() that came earlier is forgotten here
CallLoop ==
    /\ loopPc = "outside" /\ ~looping
    /\ looping' = TRUE
    /\ quit' = FALSE
    /\ loopPc' = "test"
    /\ UNCHANGED <<callingPendingFunctors, queues, polled, pc, quits>>

\* while(!quit_), then activeChannels_.clear() or the end of loop()
TestQuit ==
    /\ loopPc = "test"
    /\ loopPc' = IF quit THEN "outside" ELSE "poll"
    /\ looping' = ~quit
    /\ activeChannels' = IF quit THEN activeChannels ELSE {}
    /\ UNCHANGED <<quit, callingPendingFunctors, queues, wakeupFd, ready, pc,
                   quits>>

Readable == ready \cup IF wakeupFd > 0 THEN {WakeupChannel} ELSE {}

\* poller_->poll returns because a descriptor is ready
PollReturn ==
    /\ loopPc = "poll" /\ Readable # {}
    /\ activeChannels' = Readable
    /\ loopPc' = "dispatch"
    /\ UNCHANGED <<flags, queues, wakeupFd, ready, pc, quits>>

\* Wrong variant: an empty poll skips doPendingFunctors.
PollTimeoutSkipsDrain ==
    /\ loopPc = "poll" /\ Readable = {}
    /\ loopPc' = "test"
    /\ UNCHANGED <<flags, queues, polled, pc, quits>>

\* poller_->poll returns empty-handed after kPollTimeMs
PollTimeout ==
    /\ loopPc = "poll" /\ Readable = {}
    /\ loopPc' = "dispatch"
    /\ UNCHANGED <<flags, queues, polled, pc, quits>>

\* the callback of wakeupChannel_: the read resets the eventfd
HandleRead ==
    /\ loopPc = "dispatch" /\ WakeupChannel \in activeChannels
    /\ activeChannels' = activeChannels \ {WakeupChannel}
    /\ wakeupFd' = 0
    /\ UNCHANGED <<flags, queues, ready, loopPc, pc, quits>>

\* handleEvent of another channel; its callback may leave it readable
HandleEvent(c) ==
    /\ loopPc = "dispatch" /\ c \in activeChannels \ {WakeupChannel}
    /\ activeChannels' = activeChannels \ {c}
    /\ ready' \in {ready, ready \ {c}}
    /\ loopPc' = "event"
    /\ UNCHANGED <<flags, queues, wakeupFd, pc, quits>>

\* a channel's callback, or a functor, returns
CallbackReturns ==
    /\ loopPc \in {"event", "functor"}
    /\ loopPc' = IF loopPc = "event" THEN "dispatch" ELSE "run"
    /\ UNCHANGED <<flags, queues, polled, pc, quits>>

\* doPendingFunctors before it takes the mutex
EnterPending ==
    /\ loopPc = "dispatch" /\ activeChannels = {}
    /\ callingPendingFunctors' = TRUE
    /\ loopPc' = "swap"
    /\ UNCHANGED <<looping, quit, queues, polled, pc, quits>>

\* Wrong variant: the functors are copied and stay in pendingFunctors_.
SwapFunctorsCopies ==
    /\ loopPc = "swap"
    /\ functors' = pendingFunctors
    /\ loopPc' = "run"
    /\ UNCHANGED <<flags, pendingFunctors, submitted, early, ran, polled, pc,
                   quits>>

\* functors.swap(pendingFunctors_) under the mutex
SwapFunctors ==
    /\ loopPc = "swap"
    /\ functors' = pendingFunctors
    /\ pendingFunctors' = << >>
    /\ loopPc' = "run"
    /\ UNCHANGED <<flags, submitted, early, ran, polled, pc, quits>>

\* functors[i]()
RunFunctor ==
    /\ loopPc = "run" /\ functors # << >>
    /\ ran' = Append(ran, Head(functors))
    /\ functors' = Tail(functors)
    /\ loopPc' = "functor"
    /\ UNCHANGED <<flags, pendingFunctors, submitted, early, polled, pc, quits>>

\* the end of doPendingFunctors
LeavePending ==
    /\ loopPc = "run" /\ functors = << >>
    /\ callingPendingFunctors' = FALSE
    /\ loopPc' = "test"
    /\ UNCHANGED <<looping, quit, queues, polled, pc, quits>>

\* the places where the loop thread runs code of the user
InUserCode == loopPc \in {"outside", "event", "functor"}

\* Wrong variant: callbacks of the loop thread never wake the loop.
MustWakeupFromOutside(inLoopThread) == ~inLoopThread

\* queueInLoop's test whether to wake the loop after the push_back
MustWakeup(inLoopThread) == ~inLoopThread \/ callingPendingFunctors

\* queueInLoop called by the loop thread
QueueInLoopHere(t) ==
    /\ InUserCode /\ t \in Tasks \ submitted
    /\ pendingFunctors' = Append(pendingFunctors, t)
    /\ submitted' = submitted \cup {t}
    /\ early' = IF loopPc = "outside" THEN early \cup {t} ELSE early
    /\ wakeupFd' = IF MustWakeup(TRUE) THEN wakeupFd + 1 ELSE wakeupFd
    /\ UNCHANGED <<flags, functors, ran, activeChannels, ready, loopPc, pc,
                   quits>>

\* runInLoop called by the loop thread: cb() at once
RunInLoopHere(t) ==
    /\ InUserCode /\ t \in Tasks \ submitted
    /\ submitted' = submitted \cup {t}
    /\ ran' = Append(ran, t)
    /\ UNCHANGED <<flags, pendingFunctors, functors, early, polled, loopPc, pc,
                   quits>>

\* quit() called by the loop thread: no wakeup
QuitHere ==
    /\ InUserCode /\ quits < MaxQuits
    /\ quit' = TRUE
    /\ quits' = quits + 1
    /\ UNCHANGED <<looping, callingPendingFunctors, queues, polled, loopPc, pc>>

-----------------------------------------------------------------------------
(* The other threads *)

\* queueInLoop, or runInLoop which calls it: push_back under the mutex
QueueInLoop(x, t) ==
    /\ pc[x] = "idle" /\ t \in Tasks \ submitted
    /\ pendingFunctors' = Append(pendingFunctors, t)
    /\ submitted' = submitted \cup {t}
    /\ pc' = [pc EXCEPT ![x] = IF MustWakeup(FALSE) THEN "wakeup" ELSE "idle"]
    /\ UNCHANGED <<flags, functors, early, ran, polled, loopPc, quits>>

\* Wrong variant: quit() does not wake the loop.
QuitSilently(x) ==
    /\ pc[x] = "idle" /\ quits < MaxQuits
    /\ quit' = TRUE
    /\ quits' = quits + 1
    /\ UNCHANGED <<looping, callingPendingFunctors, queues, polled, loopPc, pc>>

\* quit(): the assignment
Quit(x) ==
    /\ pc[x] = "idle" /\ quits < MaxQuits
    /\ quit' = TRUE
    /\ quits' = quits + 1
    /\ pc' = [pc EXCEPT ![x] = "wakeup"]
    /\ UNCHANGED <<looping, callingPendingFunctors, queues, polled, loopPc>>

\* wakeup(): the write to the eventfd that ends either call
Wakeup(x) ==
    /\ pc[x] = "wakeup"
    /\ wakeupFd' = wakeupFd + 1
    /\ pc' = [pc EXCEPT ![x] = "idle"]
    /\ UNCHANGED <<flags, queues, activeChannels, ready, loopPc, quits>>

\* the kernel: a descriptor becomes readable
BecomeReady(c) ==
    /\ c \in Channels \ ready
    /\ ready' = ready \cup {c}
    /\ UNCHANGED <<flags, queues, activeChannels, wakeupFd, loopPc, pc, quits>>

-----------------------------------------------------------------------------
LoopStep ==
    \/ TestQuit \/ PollReturn \/ HandleRead
    \/ \E c \in Channels : HandleEvent(c)
    \/ CallbackReturns \/ EnterPending \/ SwapFunctors \/ RunFunctor
    \/ LeavePending

UserStep ==
    \/ \E t \in Tasks : QueueInLoopHere(t) \/ RunInLoopHere(t)
    \/ QuitHere

ThreadStep ==
    \E x \in Threads :
        \/ \E t \in Tasks : QueueInLoop(x, t)
        \/ Quit(x)
        \/ Wakeup(x)

Next ==
    \/ CallLoop
    \/ LoopStep
    \/ PollTimeout
    \/ UserStep
    \/ ThreadStep
    \/ \E c \in Channels : BecomeReady(c)

Spec == Init /\ [][Next]_vars

\* Threads are scheduled and callbacks return.  The expiry of the poll
\* timeout is not among the fair steps: no property may wait for it.
Fairness ==
    /\ WF_vars(LoopStep)
    /\ \A x \in Threads : WF_vars(Wakeup(x))

FairSpec == Spec /\ Fairness

-----------------------------------------------------------------------------
(* Properties *)

Elements(s) == {s[i] : i \in DOMAIN s}

\* The eventfd is readable, or some thread is about to make it so.
Signalled == wakeupFd > 0 \/ \E x \in Threads : pc[x] = "wakeup"

\* EventLoop.cc:232-247: the loop never sits in poll with a functor to run
\* and nobody to wake it, even when the functor was queued while the loop was
\* draining; and a functor that one loop() call leaves behind is announced to
\* the next one.  Functors the loop thread queues outside loop() are not
\* covered: see EveryTaskRuns.
NoLostWakeup ==
    /\ loopPc \in {"poll", "outside"}
    /\ ~(Elements(pendingFunctors) \subseteq early)
    => Signalled

\* EventLoop.cc:86-94: the loop never sits in poll after a quit() it has not
\* seen, unless the caller is still about to wake it.
NoMissedQuit == loopPc = "poll" /\ quit => Signalled

\* What makes the two inductive: pending work is announced, or the drain that
\* takes it comes before the next poll.
WakeupInv ==
    /\ ~(Elements(pendingFunctors) \subseteq early)
        => Signalled \/ loopPc \in {"dispatch", "event", "swap"}
    /\ quit /\ loopPc = "poll" => Signalled

\* EventLoop implements the FIFO queue: functors run once, in the order in
\* which queueInLoop accepted them, whichever iteration drains them.
TQ == INSTANCE TaskQueue WITH queue <- functors \o pendingFunctors

ImplementsTaskQueue == TQ!Spec

\* EventLoop.h:48-51: a functor handed over by another thread, or by a
\* callback, runs without waiting for the poll timeout, unless loop() ends.
TaskRuns ==
    \A t \in Tasks :
        (t \in submitted \ early) ~> (t \in Elements(ran) \/ ~looping)

\* EventLoop.cc:86-94: once loop() is running, quit() ends it without
\* waiting for the poll timeout.
QuitStops == (quit /\ looping) ~> ~looping

\* EventLoop.cc:232-247: a functor the loop thread queued before loop() is
\* only sure to run once the poll timeout expires, and then it does.
EveryTaskRuns ==
    WF_vars(PollTimeout) =>
        \A t \in Tasks : (t \in submitted) ~> (t \in Elements(ran) \/ ~looping)

\* EventLoop.cc:86-122,190-247: the loop answers its callers: functors and quit()
\* at once, and what was queued before loop() by the poll timeout.
LoopResponds == TaskRuns /\ QuitStops /\ EveryTaskRuns
=============================================================================
