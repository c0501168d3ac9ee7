-------------------------- MODULE EventLoopThread --------------------------
(***************************************************************************)
(* net/EventLoopThread on top of base/Thread and net/EventLoop: an owner   *)
(* starts a thread that builds an EventLoop on its stack, publishes its    *)
(* address under a mutex and enters loop(); the owner's destructor asks    *)
(* the loop to quit and joins the thread.  While the object lives any      *)
(* thread may hand functors to the loop; only the destructor calls quit(). *)
(***************************************************************************)
EXTENDS EventLoop

CONSTANT Owner      \* the thread that owns the EventLoopThread

ASSUME OwnerAssumption == Owner \in Threads

VARIABLES
    ownerPc,        \* where the owner is
    threadPc,       \* where thread_ is
    loopPtr         \* loop_ # NULL

\* ownerPc: before startLoop; in thread_.start() on the latch; at
\* while(loop_ == NULL); in cond_.wait(); after startLoop; in the destructor
\* before and in thread_.join(); destroyed.
OwnerPcs == {"new", "latch", "check", "wait", "started", "quit", "join", "done"}

\* threadPc: not created; created; past the latch, building the EventLoop;
\* loop_ published; in loop.loop(); finished, the EventLoop destroyed.
ThreadPcs == {"none", "created", "running", "published", "looping", "exited"}

tvars == <<ownerPc, threadPc, loopPtr>>
allVars == <<vars, tvars>>

TypeInv ==
    /\ TypeOK
    /\ ownerPc \in OwnerPcs
    /\ threadPc \in ThreadPcs
    /\ loopPtr \in BOOLEAN
    /\ looping => threadPc = "looping"

TInit ==
    /\ Init
    /\ ownerPc = "new"
    /\ threadPc = "none"
    /\ loopPtr = FALSE

-----------------------------------------------------------------------------
(* The owner *)

\* startLoop: Thread::start up to latch_.wait()
StartThread ==
    /\ ownerPc = "new"
    /\ ownerPc' = "latch"
    /\ threadPc' = "created"
    /\ UNCHANGED <<vars, loopPtr>>

\* Thread::start returns: the new thread has counted the latch down
LatchReleased ==
    /\ ownerPc = "latch" /\ threadPc # "created"
    /\ ownerPc' = "check"
    /\ UNCHANGED <<vars, threadPc, loopPtr>>

\* while (loop_ == NULL) cond_.wait(), under the mutex
CheckLoopPtr ==
    /\ ownerPc = "check"
    /\ ownerPc' = IF loopPtr THEN "started" ELSE "wait"
    /\ UNCHANGED <<vars, threadPc, loopPtr>>

\* Wrong variant: if instead of while around the wait.
SpuriousWakeupReturns ==
    /\ ownerPc = "wait"
    /\ ownerPc' = "started"
    /\ UNCHANGED <<vars, threadPc, loopPtr>>

\* pthread_cond_wait may return without a notify
SpuriousWakeup ==
    /\ ownerPc = "wait"
    /\ ownerPc' = "check"
    /\ UNCHANGED <<vars, threadPc, loopPtr>>

\* ~EventLoopThread: loop_->quit() up to its wakeup().  No other thread is
\* using the object that is being destroyed.
DestructorQuit ==
    /\ ownerPc = "started"
    /\ \A x \in Threads \ {Owner} : pc[x] = "idle"
    /\ Quit(Owner)
    /\ ownerPc' = "quit"
    /\ UNCHANGED <<threadPc, loopPtr>>

\* the wakeup() of that quit()
DestructorWakeup ==
    /\ ownerPc = "quit"
    /\ Wakeup(Owner)
    /\ ownerPc' = "join"
    /\ UNCHANGED <<threadPc, loopPtr>>

\* thread_.join() returns
Join ==
    /\ ownerPc = "join" /\ threadPc = "exited"
    /\ ownerPc' = "done"
    /\ UNCHANGED <<vars, threadPc, loopPtr>>

-----------------------------------------------------------------------------
(* The thread *)

\* ThreadData::runInThread counts the latch down and calls threadFunc
RunInThread ==
    /\ threadPc = "created"
    /\ threadPc' = "running"
    /\ UNCHANGED <<vars, ownerPc, loopPtr>>

\* Wrong variant: the address is published without a notify.
PublishSilently ==
    /\ threadPc = "running"
    /\ loopPtr' = TRUE
    /\ threadPc' = "published"
    /\ UNCHANGED <<vars, ownerPc>>

\* threadFunc: loop_ = &loop and cond_.notify() under the mutex
Publish ==
    /\ threadPc = "running"
    /\ loopPtr' = TRUE
    /\ ownerPc' = IF ownerPc = "wait" THEN "check" ELSE ownerPc
    /\ threadPc' = "published"
    /\ UNCHANGED vars

\* threadFunc enters loop.loop()
EnterLoop ==
    /\ threadPc = "published"
    /\ CallLoop
    /\ threadPc' = "looping"
    /\ UNCHANGED <<ownerPc, loopPtr>>

\* loop() has returned; ~EventLoop runs and the thread ends.  loop_ is left
\* as it is.
ThreadExit ==
    /\ threadPc = "looping" /\ ~looping
    /\ threadPc' = "exited"
    /\ UNCHANGED <<vars, ownerPc, loopPtr>>

-----------------------------------------------------------------------------
OwnerStep ==
    \/ LatchReleased \/ CheckLoopPtr
    \/ DestructorWakeup \/ Join

LoopThreadStep ==
    \/ RunInThread \/ Publish \/ EnterLoop \/ ThreadExit
    \/ LoopStep /\ UNCHANGED tvars

\* Threads that hold the address returned by startLoop, and the callbacks of
\* the loop itself, hand it functors.
UseLoop ==
    /\ \/ /\ loopPc \in {"event", "functor"}
          /\ \E t \in Tasks : QueueInLoopHere(t) \/ RunInLoopHere(t)
       \/ /\ ownerPc = "started"
          /\ \E x \in Threads, t \in Tasks : QueueInLoop(x, t)
    /\ UNCHANGED tvars

\* The wakeup() of such a queueInLoop.
FinishUse(x) ==
    /\ x = Owner => ownerPc = "started"
    /\ Wakeup(x)
    /\ UNCHANGED tvars

\* Outside the two threads: the poll timeout and the other channels.
Environment ==
    /\ PollTimeout \/ (looping /\ \E c \in Channels : BecomeReady(c))
    /\ UNCHANGED tvars

\* The owner is destroyed; nothing is left to happen.
Terminated == ownerPc = "done" /\ UNCHANGED allVars

TNext ==
    \/ StartThread \/ SpuriousWakeup \/ DestructorQuit
    \/ OwnerStep \/ LoopThreadStep \/ UseLoop
    \/ \E x \in Threads : FinishUse(x)
    \/ Environment
    \/ Terminated

\* Both threads run, and a thread inside queueInLoop finishes the call.  When
\* the owner destroys the object, if ever, is its own business.
TSpec ==
    /\ TInit /\ [][TNext]_allVars
    /\ WF_allVars(OwnerStep)
    /\ WF_allVars(LoopThreadStep)
    /\ \A x \in Threads : WF_allVars(FinishUse(x))

-----------------------------------------------------------------------------
(* Properties *)

\* EventLoopThread.cc:26-41: startLoop returns only after the thread has
\* built its EventLoop and published it, spurious wakeups included; the two
\* threads stay where TypeInv allows them.
StartReturnsLoop ==
    /\ TypeInv
    /\ ownerPc \in {"started", "quit", "join", "done"} =>
        loopPtr /\ threadPc \in {"published", "looping", "exited"}

\* EventLoopThread.cc:26-53: startLoop returns; the notify is never lost
\* between the owner's test and its wait.
StartTerminates == (ownerPc = "latch") ~> (ownerPc = "started")

\* EventLoopThread.cc:18-23: if loop() was entered before quit() was called,
\* the destructor returns.
JoinAfterQuit == (quit /\ looping) ~> (ownerPc = "done")

\* EventLoop.cc:89 promises that quit() wakes the loop so that it can exit at
\* once: the destructor then always returns.  It does not when quit() comes
\* between the publication and loop(), which clears quit_.
DestructorReturns == (ownerPc = "quit") ~> (ownerPc = "done")
=============================================================================
