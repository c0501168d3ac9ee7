-------------------------- MODULE EventLoopProofs --------------------------
(***************************************************************************)
(* Proofs about EventLoop for any number of threads, functors and          *)
(* channels: the types, the absence of lost wakeups and missed quits, and  *)
(* the implementation of TaskQueue.  Then those about EventLoopThread: the *)
(* loop it starts is an EventLoop, with all that is proved of one, and     *)
(* startLoop() returns no loop that has not been built.                    *)
(***************************************************************************)
EXTENDS EventLoopThread, SequenceTheorems, TLAPS

-----------------------------------------------------------------------------
(* What the elements of a sequence become *)

\* Append adds one element.
LEMMA ElementsAppend ==
    ASSUME NEW S, NEW s \in Seq(S), NEW e \in S
    PROVE  Elements(Append(s, e)) = Elements(s) \cup {e}
<1>1. DOMAIN Append(s, e) = 1..(Len(s) + 1) /\ DOMAIN s = 1..Len(s)
  OBVIOUS
<1>2. /\ \A i \in 1..Len(s) : Append(s, e)[i] = s[i]
      /\ Append(s, e)[Len(s) + 1] = e
  OBVIOUS
<1>3. Len(s) \in Nat
  OBVIOUS
<1>4. \A i \in 1..(Len(s) + 1) : i \in 1..Len(s) \/ i = Len(s) + 1
  BY <1>3
<1>5. /\ \A i \in 1..Len(s) : i \in 1..(Len(s) + 1)
      /\ Len(s) + 1 \in 1..(Len(s) + 1)
  BY <1>3
<1>6. ASSUME NEW x \in Elements(Append(s, e))
      PROVE  x \in Elements(s) \cup {e}
  BY <1>1, <1>2, <1>4, <1>6 DEF Elements
<1>7. ASSUME NEW x \in Elements(s) \cup {e}
      PROVE  x \in Elements(Append(s, e))
  BY <1>1, <1>2, <1>5, <1>7 DEF Elements
<1> QED BY <1>6, <1>7

\* Concatenation unites the elements.
LEMMA ElementsConcat ==
    ASSUME NEW S, NEW s \in Seq(S), NEW t \in Seq(S)
    PROVE  Elements(s \o t) = Elements(s) \cup Elements(t)
<1>1. /\ DOMAIN (s \o t) = 1..(Len(s) + Len(t))
      /\ DOMAIN s = 1..Len(s) /\ DOMAIN t = 1..Len(t)
      /\ Len(s) \in Nat /\ Len(t) \in Nat
  OBVIOUS
<1>2. \A i \in 1..(Len(s) + Len(t)) :
        (s \o t)[i] = IF i <= Len(s) THEN s[i] ELSE t[i - Len(s)]
  BY ConcatProperties
<1>3. ASSUME NEW x \in Elements(s \o t)
      PROVE  x \in Elements(s) \cup Elements(t)
  <2>1. PICK i \in 1..(Len(s) + Len(t)) : x = (s \o t)[i]
    BY <1>1, <1>3 DEF Elements
  <2>2. CASE i <= Len(s)
    <3>1. i \in 1..Len(s)
      BY <1>1, <2>2
    <3>2. x = s[i]
      BY <1>2, <2>1, <2>2
    <3> QED BY <1>1, <3>1, <3>2 DEF Elements
  <2>3. CASE ~(i <= Len(s))
    <3>1. i - Len(s) \in 1..Len(t)
      BY <1>1, <2>3
    <3>2. x = t[i - Len(s)]
      BY <1>2, <2>1, <2>3
    <3> QED BY <1>1, <3>1, <3>2 DEF Elements
  <2> QED BY <2>2, <2>3
<1>4. ASSUME NEW x \in Elements(s)
      PROVE  x \in Elements(s \o t)
  <2>1. PICK i \in 1..Len(s) : x = s[i]
    BY <1>1, <1>4 DEF Elements
  <2>2. i \in 1..(Len(s) + Len(t)) /\ i <= Len(s)
    BY <1>1
  <2>3. x = (s \o t)[i]
    BY <1>2, <2>1, <2>2
  <2> QED BY <1>1, <2>2, <2>3 DEF Elements
<1>5. ASSUME NEW x \in Elements(t)
      PROVE  x \in Elements(s \o t)
  <2>1. PICK i \in 1..Len(t) : x = t[i]
    BY <1>1, <1>5 DEF Elements
  <2>2. /\ i + Len(s) \in 1..(Len(s) + Len(t))
        /\ ~(i + Len(s) <= Len(s))
        /\ (i + Len(s)) - Len(s) = i
    BY <1>1
  <2>3. x = (s \o t)[i + Len(s)]
    BY <1>2, <2>1, <2>2
  <2> QED BY <1>1, <2>2, <2>3 DEF Elements
<1> QED BY <1>3, <1>4, <1>5

\* Head and Tail divide the elements.
LEMMA ElementsHeadTail ==
    ASSUME NEW S, NEW s \in Seq(S), s # << >>
    PROVE  Elements(s) = Elements(Tail(s)) \cup {Head(s)}
<1>1. /\ Len(s) \in Nat /\ Len(s) >= 1
      /\ DOMAIN s = 1..Len(s) /\ DOMAIN Tail(s) = 1..(Len(s) - 1)
      /\ Head(s) = s[1]
  OBVIOUS
<1>2. \A i \in 1..(Len(s) - 1) : Tail(s)[i] = s[i + 1]
  OBVIOUS
<1>3. ASSUME NEW x \in Elements(s)
      PROVE  x \in Elements(Tail(s)) \cup {Head(s)}
  <2>1. PICK i \in 1..Len(s) : x = s[i]
    BY <1>1, <1>3 DEF Elements
  <2>2. CASE i = 1
    BY <1>1, <2>1, <2>2
  <2>3. CASE i # 1
    <3>1. i - 1 \in 1..(Len(s) - 1) /\ (i - 1) + 1 = i
      BY <1>1, <2>3
    <3>2. x = Tail(s)[i - 1]
      BY <1>2, <2>1, <3>1
    <3> QED BY <1>1, <3>1, <3>2 DEF Elements
  <2> QED BY <2>2, <2>3
<1>4. ASSUME NEW x \in Elements(Tail(s))
      PROVE  x \in Elements(s)
  <2>1. PICK i \in 1..(Len(s) - 1) : x = Tail(s)[i]
    BY <1>1, <1>4 DEF Elements
  <2>2. i + 1 \in 1..Len(s) /\ x = s[i + 1]
    BY <1>1, <1>2, <2>1
  <2> QED BY <1>1, <2>2 DEF Elements
<1>5. Head(s) \in Elements(s)
  <2>1. 1 \in 1..Len(s)
    BY <1>1
  <2> QED BY <1>1, <2>1 DEF Elements
<1> QED BY <1>3, <1>4, <1>5

\* The empty sequence has no elements.
LEMMA ElementsEmpty == Elements(<< >>) = {}
BY DEF Elements

-----------------------------------------------------------------------------
(* Types *)

USE LoopAssumption

\* One step keeps every variable in its type and the two flags in step with
\* the place where the loop thread is.
LEMMA TypeStep == TypeOK /\ [Next]_vars => TypeOK'
<1> SUFFICES ASSUME TypeOK, [Next]_vars
             PROVE  TypeOK'
  OBVIOUS
<1> USE DEF TypeOK, LoopPcs
<1>1. CASE CallLoop
  BY <1>1 DEF CallLoop, queues, polled
<1>2. CASE TestQuit
  BY <1>2 DEF TestQuit, queues
<1>3. CASE PollReturn
  BY <1>3 DEF PollReturn, Readable, flags, queues
<1>4. CASE PollTimeout
  BY <1>4 DEF PollTimeout, flags, queues, polled
<1>5. CASE HandleRead
  BY <1>5 DEF HandleRead, flags, queues
<1>6. ASSUME NEW c \in Channels, HandleEvent(c)
      PROVE  TypeOK'
  BY <1>6 DEF HandleEvent, flags, queues
<1>7. CASE CallbackReturns
  BY <1>7 DEF CallbackReturns, flags, queues, polled
<1>8. CASE EnterPending
  BY <1>8 DEF EnterPending, queues, polled
<1>9. CASE SwapFunctors
  BY <1>9 DEF SwapFunctors, flags, polled
<1>10. CASE RunFunctor
  <2>1. Head(functors) \in Tasks /\ Tail(functors) \in Seq(Tasks)
    BY <1>10 DEF RunFunctor
  <2> QED BY <1>10, <2>1 DEF RunFunctor, flags, polled
<1>11. CASE LeavePending
  BY <1>11 DEF LeavePending, queues, polled
<1>12. ASSUME NEW t \in Tasks, QueueInLoopHere(t)
       PROVE  TypeOK'
  BY <1>12 DEF QueueInLoopHere, MustWakeup, InUserCode, flags
<1>13. ASSUME NEW t \in Tasks, RunInLoopHere(t)
       PROVE  TypeOK'
  BY <1>13 DEF RunInLoopHere, InUserCode, flags, polled
<1>14. CASE QuitHere
  BY <1>14 DEF QuitHere, InUserCode, queues, polled
<1>15. ASSUME NEW x \in Threads, NEW t \in Tasks, QueueInLoop(x, t)
       PROVE  TypeOK'
  BY <1>15 DEF QueueInLoop, MustWakeup, flags, polled
<1>16. ASSUME NEW x \in Threads, Quit(x)
       PROVE  TypeOK'
  BY <1>16 DEF Quit, queues, polled
<1>17. ASSUME NEW x \in Threads, Wakeup(x)
       PROVE  TypeOK'
  BY <1>17 DEF Wakeup, flags, queues
<1>18. ASSUME NEW c \in Channels, BecomeReady(c)
       PROVE  TypeOK'
  BY <1>18 DEF BecomeReady, flags, queues
<1>19. CASE UNCHANGED vars
  BY <1>19 DEF vars, flags, queues, polled
<1> QED
  BY <1>1, <1>2, <1>3, <1>4, <1>5, <1>6, <1>7, <1>8, <1>9, <1>10, <1>11,
     <1>12, <1>13, <1>14, <1>15, <1>16, <1>17, <1>18, <1>19
     DEF Next, LoopStep, UserStep, ThreadStep

\* A new loop has its types.
LEMMA InitType == Init => TypeOK
<1> SUFFICES ASSUME Init
             PROVE  TypeOK
  OBVIOUS
<1>1. /\ looping \in BOOLEAN /\ quit \in BOOLEAN
      /\ callingPendingFunctors \in BOOLEAN
      /\ ~looping /\ ~callingPendingFunctors
  BY Zenon DEF Init
<1>2. << >> \in Seq(Tasks) /\ 0 \in 0..MaxQuits
  OBVIOUS
<1>3. pc \in [Threads -> {"idle", "wakeup"}]
  BY DEF Init
<1> QED BY <1>1, <1>2, <1>3 DEF Init, TypeOK, LoopPcs

\* EventLoop.h:78-99: the fields keep their types; looping_ is true exactly
\* inside loop() and callingPendingFunctors_ exactly inside
\* doPendingFunctors.
THEOREM TypeCorrect == Spec => []TypeOK
BY InitType, TypeStep, PTL DEF Spec

-----------------------------------------------------------------------------
(* Wakeups *)

\* A step that leaves alone what WakeupInv reads preserves it.
LEMMA WakeupFrame ==
    ASSUME WakeupInv,
           pendingFunctors' = pendingFunctors, early' = early,
           pc' = pc, wakeupFd' = wakeupFd, quit' = quit,
           \/ loopPc' = loopPc
           \/ /\ loopPc' # "poll"
              /\ \/ loopPc' \in {"dispatch", "event", "swap"}
                 \/ loopPc \notin {"dispatch", "event", "swap"}
    PROVE  WakeupInv'
BY DEF WakeupInv, Signalled

\* A step that leaves some thread about to wake the loop establishes it.
LEMMA WakeupBySignal ==
    ASSUME Signalled'
    PROVE  WakeupInv'
BY DEF WakeupInv

\* One step keeps pending work announced.
LEMMA WakeupStep == TypeOK /\ WakeupInv /\ [Next]_vars => WakeupInv'
<1> SUFFICES ASSUME TypeOK, WakeupInv, [Next]_vars
             PROVE  WakeupInv'
  OBVIOUS
<1>1. CASE CallLoop
  <2>1. ~quit'
    BY <1>1 DEF CallLoop
  <2>2. /\ UNCHANGED <<pendingFunctors, early, pc, wakeupFd>>
        /\ loopPc = "outside" /\ loopPc' = "test"
    BY <1>1 DEF CallLoop, queues, polled
  <2> QED BY <2>1, <2>2 DEF WakeupInv, Signalled
<1>2. CASE TestQuit
  <2>1. /\ UNCHANGED <<pendingFunctors, early, pc, wakeupFd, quit>>
        /\ loopPc = "test"
        /\ loopPc' = "poll" => ~quit
    BY <1>2 DEF TestQuit, queues
  <2> QED BY <2>1 DEF WakeupInv, Signalled
<1>3. CASE PollReturn
  <2>1. UNCHANGED <<pendingFunctors, early, pc, wakeupFd, quit>>
    BY <1>3 DEF PollReturn, queues, flags
  <2> QED BY <1>3, <2>1, WakeupFrame DEF PollReturn
<1>4. CASE PollTimeout
  <2>1. UNCHANGED <<pendingFunctors, early, pc, wakeupFd, quit>>
    BY <1>4 DEF PollTimeout, queues, flags, polled
  <2> QED BY <1>4, <2>1, WakeupFrame DEF PollTimeout
<1>5. CASE HandleRead
  BY <1>5 DEF HandleRead, WakeupInv
<1>6. ASSUME NEW c \in Channels, HandleEvent(c)
      PROVE  WakeupInv'
  <2>1. UNCHANGED <<pendingFunctors, early, pc, wakeupFd, quit>>
    BY <1>6 DEF HandleEvent, queues, flags
  <2> QED BY <1>6, <2>1, WakeupFrame DEF HandleEvent
<1>7. CASE CallbackReturns
  <2>1. UNCHANGED <<pendingFunctors, early, pc, wakeupFd, quit>>
    BY <1>7 DEF CallbackReturns, queues, flags, polled
  <2> QED BY <1>7, <2>1, WakeupFrame DEF CallbackReturns
<1>8. CASE EnterPending
  <2>1. UNCHANGED <<pendingFunctors, early, pc, wakeupFd, quit>>
    BY <1>8 DEF EnterPending, queues, polled
  <2> QED BY <1>8, <2>1, WakeupFrame DEF EnterPending
<1>9. CASE SwapFunctors
  <2>1. Elements(pendingFunctors') = {}
    BY <1>9, ElementsEmpty DEF SwapFunctors
  <2>2. loopPc' = "run"
    BY <1>9 DEF SwapFunctors
  <2> QED BY <2>1, <2>2 DEF WakeupInv, Elements
<1>10. CASE RunFunctor
  <2>1. UNCHANGED <<pendingFunctors, early, pc, wakeupFd, quit>>
    BY <1>10 DEF RunFunctor, flags, polled
  <2> QED BY <1>10, <2>1, WakeupFrame DEF RunFunctor
<1>11. CASE LeavePending
  <2>1. UNCHANGED <<pendingFunctors, early, pc, wakeupFd, quit>>
    BY <1>11 DEF LeavePending, queues, polled
  <2> QED BY <1>11, <2>1, WakeupFrame DEF LeavePending
<1>12. ASSUME NEW t \in Tasks, QueueInLoopHere(t)
       PROVE  WakeupInv'
  <2>1. loopPc' = loopPc /\ pc' = pc /\ loopPc \in {"outside", "event", "functor"}
    BY <1>12 DEF QueueInLoopHere, InUserCode
  <2>2. CASE loopPc = "event"
    BY <2>1, <2>2 DEF WakeupInv
  <2>3. CASE loopPc = "functor"
    <3>1. wakeupFd' = wakeupFd + 1 /\ wakeupFd \in Nat
      BY <1>12, <2>3 DEF QueueInLoopHere, MustWakeup, TypeOK
    <3>2. Signalled'
      BY <3>1 DEF Signalled
    <3> QED BY <3>2, WakeupBySignal
  <2>4. CASE loopPc = "outside"
    <3>1. wakeupFd' = wakeupFd
      BY <1>12, <2>4 DEF QueueInLoopHere, MustWakeup, TypeOK
    <3>2. early' = early \cup {t}
      BY <1>12, <2>4 DEF QueueInLoopHere
    <3>3. Elements(pendingFunctors') = Elements(pendingFunctors) \cup {t}
      BY <1>12, ElementsAppend DEF QueueInLoopHere, TypeOK
    <3>4. Elements(pendingFunctors)' = Elements(pendingFunctors')
      BY DEF Elements
    <3> QED BY <2>1, <2>4, <3>1, <3>2, <3>3, <3>4 DEF WakeupInv, Signalled
  <2> QED BY <2>1, <2>2, <2>3, <2>4
<1>13. ASSUME NEW t \in Tasks, RunInLoopHere(t)
       PROVE  WakeupInv'
  <2>1. UNCHANGED <<pendingFunctors, early, pc, wakeupFd, quit>>
    BY <1>13 DEF RunInLoopHere, flags, polled
  <2> QED BY <1>13, <2>1, WakeupFrame DEF RunInLoopHere
<1>14. CASE QuitHere
  <2>1. /\ UNCHANGED <<pendingFunctors, early, pc, wakeupFd, loopPc>>
        /\ loopPc # "poll"
    BY <1>14 DEF QuitHere, InUserCode, queues, polled
  <2> QED BY <2>1 DEF WakeupInv, Signalled
<1>15. ASSUME NEW x \in Threads, NEW t \in Tasks, QueueInLoop(x, t)
       PROVE  WakeupInv'
  <2>1. Signalled'
    BY <1>15 DEF QueueInLoop, MustWakeup, TypeOK, Signalled
  <2> QED BY <2>1, WakeupBySignal
<1>16. ASSUME NEW x \in Threads, Quit(x)
       PROVE  WakeupInv'
  <2>1. Signalled'
    BY <1>16 DEF Quit, TypeOK, Signalled
  <2> QED BY <2>1, WakeupBySignal
<1>17. ASSUME NEW x \in Threads, Wakeup(x)
       PROVE  WakeupInv'
  <2>1. Signalled'
    BY <1>17 DEF Wakeup, TypeOK, Signalled
  <2> QED BY <2>1, WakeupBySignal
<1>18. ASSUME NEW c \in Channels, BecomeReady(c)
       PROVE  WakeupInv'
  <2>1. UNCHANGED <<pendingFunctors, early, pc, wakeupFd, quit>>
    BY <1>18 DEF BecomeReady, flags, queues
  <2> QED BY <1>18, <2>1, WakeupFrame DEF BecomeReady
<1>19. CASE UNCHANGED vars
  <2>1. UNCHANGED <<pendingFunctors, early, pc, wakeupFd, quit, loopPc>>
    BY <1>19 DEF vars, flags, queues, polled
  <2> QED BY <2>1, WakeupFrame
<1> QED
  BY <1>1, <1>2, <1>3, <1>4, <1>5, <1>6, <1>7, <1>8, <1>9, <1>10, <1>11,
     <1>12, <1>13, <1>14, <1>15, <1>16, <1>17, <1>18, <1>19
     DEF Next, LoopStep, UserStep, ThreadStep

\* The inductive invariant of the wakeup protocol holds in every state.
LEMMA WakeupCorrect == Spec => []WakeupInv
<1>1. Init => WakeupInv
  BY ElementsEmpty DEF Init, WakeupInv
<1> QED BY <1>1, WakeupStep, TypeCorrect, PTL DEF Spec

\* EventLoop.cc:232-247: the loop never blocks in poll, nor is outside
\* loop(), with a functor from another thread or from a callback pending and
\* nobody about to wake it.
THEOREM WakeupNotLost == Spec => []NoLostWakeup
<1>1. WakeupInv => NoLostWakeup
  BY DEF WakeupInv, NoLostWakeup
<1> QED BY <1>1, WakeupCorrect, PTL

\* EventLoop.cc:86-94: the loop never blocks in poll after a quit() unless
\* the caller is about to wake it.
THEOREM QuitNotMissed == Spec => []NoMissedQuit
<1>1. WakeupInv => NoMissedQuit
  BY DEF WakeupInv, NoMissedQuit
<1> QED BY <1>1, WakeupCorrect, PTL

-----------------------------------------------------------------------------
(* EventLoop implements TaskQueue *)

\* Every functor handed over is waiting in one of the two vectors or has run.
SubmittedInv ==
    submitted = Elements(functors) \cup Elements(pendingFunctors)
                    \cup Elements(ran)

\* Steps that leave the queues alone are stuttering steps of TaskQueue.
LEMMA QueuesFrame ==
    ASSUME SubmittedInv, UNCHANGED queues
    PROVE  SubmittedInv' /\ UNCHANGED <<functors \o pendingFunctors, ran>>
<1>1. UNCHANGED <<functors, pendingFunctors, ran, submitted>>
  BY DEF queues
<1> QED BY <1>1 DEF SubmittedInv, Elements

\* A queued functor goes to the end of the abstract queue.
LEMMA QueueStep ==
    ASSUME TypeOK, SubmittedInv, NEW t \in Tasks \ submitted,
           pendingFunctors' = Append(pendingFunctors, t),
           submitted' = submitted \cup {t},
           UNCHANGED <<functors, ran>>
    PROVE  SubmittedInv' /\ TQ!Submit(t)
<1>1. /\ functors \in Seq(Tasks) /\ pendingFunctors \in Seq(Tasks)
      /\ t \in Tasks
  BY DEF TypeOK
<1>2. Elements(Append(pendingFunctors, t)) = Elements(pendingFunctors) \cup {t}
  BY <1>1, ElementsAppend
<1>3. SubmittedInv'
  BY <1>2 DEF SubmittedInv, Elements
<1>4. functors \o Append(pendingFunctors, t)
        = Append(functors \o pendingFunctors, t)
  <2>1. <<t>> \in Seq(Tasks)
    BY <1>1
  <2>2. Append(pendingFunctors, t) = pendingFunctors \o <<t>>
    BY <1>1, AppendIsConcat
  <2>3. functors \o (pendingFunctors \o <<t>>)
          = (functors \o pendingFunctors) \o <<t>>
    BY <1>1, <2>1, ConcatAssociative
  <2>4. functors \o pendingFunctors \in Seq(Tasks)
    BY <1>1, ConcatProperties
  <2>5. Append(functors \o pendingFunctors, t)
          = (functors \o pendingFunctors) \o <<t>>
    BY <1>1, <2>4, AppendIsConcat
  <2> QED BY <2>2, <2>3, <2>5
<1>5. Elements(functors \o pendingFunctors)
        = Elements(functors) \cup Elements(pendingFunctors)
  BY <1>1, ElementsConcat
<1>6. t \notin Elements(functors \o pendingFunctors) \cup Elements(ran)
  BY <1>5 DEF SubmittedInv
<1> QED BY <1>3, <1>4, <1>6 DEF TQ!Submit, TQ!Known, Elements

\* Head and Tail of a concatenation come from its first part.
LEMMA ConcatHeadTail ==
    ASSUME NEW S, NEW s \in Seq(S), NEW t \in Seq(S), s # << >>
    PROVE  /\ s \o t # << >>
           /\ Head(s \o t) = Head(s)
           /\ Tail(s \o t) = Tail(s) \o t
<1>1. /\ Len(s) \in Nat /\ Len(s) >= 1 /\ Len(t) \in Nat
      /\ Tail(s) \in Seq(S) /\ Len(Tail(s)) = Len(s) - 1
  OBVIOUS
<1>2. /\ s \o t \in Seq(S) /\ Len(s \o t) = Len(s) + Len(t)
      /\ \A i \in 1..(Len(s) + Len(t)) :
            (s \o t)[i] = IF i <= Len(s) THEN s[i] ELSE t[i - Len(s)]
  BY ConcatProperties
<1>3. s \o t # << >>
  BY <1>1, ConcatEqualIffEmpty
<1>4. Head(s \o t) = Head(s)
  <2>1. Head(s \o t) = (s \o t)[1] /\ Head(s) = s[1]
    BY <1>1, <1>2, <1>3
  <2> QED BY <1>1, <1>2, <2>1
<1>5. /\ Tail(s \o t) \in Seq(S)
      /\ Len(Tail(s \o t)) = Len(s) + Len(t) - 1
      /\ \A i \in 1..(Len(s) + Len(t) - 1) : Tail(s \o t)[i] = (s \o t)[i + 1]
  BY <1>1, <1>2, <1>3, HeadTailProperties
<1>6. /\ Tail(s) \o t \in Seq(S)
      /\ Len(Tail(s) \o t) = Len(s) + Len(t) - 1
      /\ \A i \in 1..(Len(s) + Len(t) - 1) :
            (Tail(s) \o t)[i] = IF i <= Len(s) - 1 THEN Tail(s)[i]
                                ELSE t[i - (Len(s) - 1)]
  <2>1. /\ Tail(s) \o t \in Seq(S)
        /\ Len(Tail(s) \o t) = Len(Tail(s)) + Len(t)
        /\ \A i \in 1..(Len(Tail(s)) + Len(t)) :
              (Tail(s) \o t)[i] = IF i <= Len(Tail(s)) THEN Tail(s)[i]
                                  ELSE t[i - Len(Tail(s))]
    BY <1>1, ConcatProperties
  <2>2. Len(Tail(s)) + Len(t) = Len(s) + Len(t) - 1
    BY <1>1
  <2> QED BY <1>1, <2>1, <2>2
<1>7. ASSUME NEW i \in 1..(Len(s) + Len(t) - 1)
      PROVE  Tail(s \o t)[i] = (Tail(s) \o t)[i]
  <2>1. /\ i + 1 \in 1..(Len(s) + Len(t))
        /\ i + 1 <= Len(s) <=> i <= Len(s) - 1
        /\ (i + 1) - Len(s) = i - (Len(s) - 1)
    BY <1>1
  <2>2. i <= Len(s) - 1 => Tail(s)[i] = s[i + 1]
    BY <1>1
  <2> QED BY <1>2, <1>5, <1>6, <2>1, <2>2
<1>8. Tail(s \o t) = Tail(s) \o t
  <2>1. \A i \in 1..Len(Tail(s \o t)) : Tail(s \o t)[i] = (Tail(s) \o t)[i]
    BY <1>5, <1>7
  <2> QED BY <1>5, <1>6, <2>1, SeqEqual
<1> QED BY <1>3, <1>4, <1>8

\* The functor doPendingFunctors runs next is the head of the abstract queue.
LEMMA RunStep ==
    ASSUME TypeOK, SubmittedInv, RunFunctor
    PROVE  SubmittedInv' /\ TQ!RunNext
<1>1. /\ functors \in Seq(Tasks) /\ pendingFunctors \in Seq(Tasks)
      /\ ran \in Seq(Tasks) /\ functors # << >>
      /\ Head(functors) \in Tasks /\ Tail(functors) \in Seq(Tasks)
  BY DEF TypeOK, RunFunctor
<1>2. /\ functors' = Tail(functors) /\ ran' = Append(ran, Head(functors))
      /\ UNCHANGED <<pendingFunctors, submitted>>
  BY DEF RunFunctor
<1>3. Elements(Append(ran, Head(functors))) = Elements(ran) \cup {Head(functors)}
  BY <1>1, ElementsAppend
<1>4. Elements(functors) = Elements(Tail(functors)) \cup {Head(functors)}
  BY <1>1, ElementsHeadTail
<1>5. SubmittedInv'
  <2>1. /\ Elements(functors)' = Elements(Tail(functors))
        /\ Elements(pendingFunctors)' = Elements(pendingFunctors)
        /\ Elements(ran)' = Elements(Append(ran, Head(functors)))
    BY <1>2 DEF Elements
  <2> QED BY <1>2, <1>3, <1>4, <2>1 DEF SubmittedInv
<1>6. /\ functors \o pendingFunctors # << >>
      /\ Head(functors \o pendingFunctors) = Head(functors)
      /\ Tail(functors \o pendingFunctors) = Tail(functors) \o pendingFunctors
  BY <1>1, ConcatHeadTail
<1> QED BY <1>2, <1>5, <1>6 DEF TQ!RunNext

\* The swap moves functors inside the abstract queue.
LEMMA SwapStep ==
    ASSUME TypeOK, SubmittedInv, SwapFunctors, functors = << >>
    PROVE  SubmittedInv' /\ UNCHANGED <<functors \o pendingFunctors, ran>>
<1>1. /\ functors' = pendingFunctors /\ pendingFunctors' = << >>
      /\ UNCHANGED <<ran, submitted>>
      /\ pendingFunctors \in Seq(Tasks)
  BY DEF SwapFunctors, TypeOK
<1>2. pendingFunctors \o << >> = pendingFunctors
      /\ << >> \o pendingFunctors = pendingFunctors
  BY <1>1, ConcatEmptySeq
<1>3. SubmittedInv'
  BY <1>1 DEF SubmittedInv, Elements
<1> QED BY <1>1, <1>2, <1>3

\* The batch taken by the previous drain is used up before the next swap.
BatchInv == loopPc \notin {"run", "functor"} => functors = << >>

\* One step keeps the batch empty outside the drain.
LEMMA BatchStep == BatchInv /\ [Next]_vars => BatchInv'
<1> SUFFICES ASSUME BatchInv, [Next]_vars
             PROVE  BatchInv'
  OBVIOUS
<1> USE DEF BatchInv
<1>1. CASE CallLoop
  BY <1>1 DEF CallLoop, queues
<1>2. CASE TestQuit
  BY <1>2 DEF TestQuit, queues
<1>3. CASE PollReturn
  BY <1>3 DEF PollReturn, queues
<1>4. CASE PollTimeout
  BY <1>4 DEF PollTimeout, queues
<1>5. CASE HandleRead
  BY <1>5 DEF HandleRead, queues
<1>6. ASSUME NEW c \in Channels, HandleEvent(c)
      PROVE  BatchInv'
  BY <1>6 DEF HandleEvent, queues
<1>7. CASE CallbackReturns
  BY <1>7 DEF CallbackReturns, queues
<1>8. CASE EnterPending
  BY <1>8 DEF EnterPending, queues
<1>9. CASE SwapFunctors
  BY <1>9 DEF SwapFunctors
<1>10. CASE RunFunctor
  BY <1>10 DEF RunFunctor
<1>11. CASE LeavePending
  BY <1>11 DEF LeavePending, queues
<1>12. CASE UserStep
  BY <1>12 DEF UserStep, QueueInLoopHere, RunInLoopHere, QuitHere, queues
<1>13. CASE ThreadStep
  BY <1>13 DEF ThreadStep, QueueInLoop, Quit, Wakeup, queues
<1>14. ASSUME NEW c \in Channels, BecomeReady(c)
       PROVE  BatchInv'
  BY <1>14 DEF BecomeReady, queues
<1>15. CASE UNCHANGED vars
  BY <1>15 DEF vars, queues
<1> QED
  BY <1>1, <1>2, <1>3, <1>4, <1>5, <1>6, <1>7, <1>8, <1>9, <1>10, <1>11,
     <1>12, <1>13, <1>14, <1>15 DEF Next, LoopStep

\* Every step of EventLoop is a step of TaskQueue or leaves it unchanged.
LEMMA RefinementStep ==
    TypeOK /\ BatchInv /\ SubmittedInv /\ [Next]_vars
        => SubmittedInv' /\ [TQ!Next]_<<functors \o pendingFunctors, ran>>
<1> DEFINE Goal == /\ SubmittedInv'
                   /\ [TQ!Next]_<<functors \o pendingFunctors, ran>>
<1> SUFFICES ASSUME TypeOK, BatchInv, SubmittedInv, [Next]_vars
             PROVE  Goal
  OBVIOUS
<1>1. CASE UNCHANGED queues
  BY <1>1, QueuesFrame
<1>2. CASE SwapFunctors
  <2>1. functors = << >>
    BY <1>2 DEF BatchInv, SwapFunctors
  <2> QED BY <1>2, <2>1, SwapStep
<1>3. CASE RunFunctor
  BY <1>3, RunStep DEF TQ!Next
<1>4. ASSUME NEW t \in Tasks, QueueInLoopHere(t)
      PROVE  Goal
  <2>1. SubmittedInv' /\ TQ!Submit(t)
    BY <1>4, QueueStep DEF QueueInLoopHere
  <2> QED BY <2>1 DEF TQ!Next
<1>5. ASSUME NEW x \in Threads, NEW t \in Tasks, QueueInLoop(x, t)
      PROVE  Goal
  <2>1. SubmittedInv' /\ TQ!Submit(t)
    BY <1>5, QueueStep DEF QueueInLoop
  <2> QED BY <2>1 DEF TQ!Next
<1>6. ASSUME NEW t \in Tasks, RunInLoopHere(t)
      PROVE  Goal
  <2>1. /\ ran' = Append(ran, t) /\ submitted' = submitted \cup {t}
        /\ UNCHANGED <<functors, pendingFunctors>>
        /\ t \notin submitted
    BY <1>6 DEF RunInLoopHere
  <2>2. /\ Elements(Append(ran, t)) = Elements(ran) \cup {t}
        /\ Elements(functors \o pendingFunctors)
              = Elements(functors) \cup Elements(pendingFunctors)
    BY ElementsAppend, ElementsConcat DEF TypeOK
  <2>3. SubmittedInv'
    BY <2>1, <2>2 DEF SubmittedInv, Elements
  <2>4. t \notin Elements(functors \o pendingFunctors) \cup Elements(ran)
    BY <2>1, <2>2 DEF SubmittedInv
  <2>5. TQ!RunInPlace(t)
    BY <2>1, <2>4 DEF TQ!RunInPlace, TQ!Known, Elements
  <2> QED BY <2>3, <2>5 DEF TQ!Next
<1>7. CASE CallLoop \/ TestQuit \/ PollReturn \/ PollTimeout \/ HandleRead
  <2>1. UNCHANGED queues
    BY <1>7 DEF CallLoop, TestQuit, PollReturn, PollTimeout, HandleRead
  <2> QED BY <1>1, <2>1
<1>8. CASE CallbackReturns \/ EnterPending \/ LeavePending \/ QuitHere
  <2>1. UNCHANGED queues
    BY <1>8 DEF CallbackReturns, EnterPending, LeavePending, QuitHere
  <2> QED BY <1>1, <2>1
<1>9. ASSUME NEW c \in Channels, HandleEvent(c) \/ BecomeReady(c)
      PROVE  Goal
  <2>1. UNCHANGED queues
    BY <1>9 DEF HandleEvent, BecomeReady
  <2> QED BY <1>1, <2>1
<1>10. ASSUME NEW x \in Threads, Quit(x) \/ Wakeup(x)
       PROVE  Goal
  <2>1. UNCHANGED queues
    BY <1>10 DEF Quit, Wakeup
  <2> QED BY <1>1, <2>1
<1>11. CASE UNCHANGED vars
  <2>1. UNCHANGED queues
    BY <1>11 DEF vars
  <2> QED BY <1>1, <2>1
<1> HIDE DEF Goal
<1> QED
  BY <1>2, <1>3, <1>4, <1>5, <1>6, <1>7, <1>8, <1>9, <1>10, <1>11
     DEF Next, LoopStep, UserStep, ThreadStep

\* EventLoop.cc:201-247: a functor runs once, in the loop thread, in the order
\* in which queueInLoop accepted it, for any number of threads and functors.
THEOREM LoopImplementsTaskQueue == Spec => ImplementsTaskQueue
<1>1. Init => TQ!Init /\ SubmittedInv /\ BatchInv
  <2> SUFFICES ASSUME Init
               PROVE  TQ!Init /\ SubmittedInv /\ BatchInv
    OBVIOUS
  <2>1. functors = << >> /\ pendingFunctors = << >> /\ ran = << >>
        /\ submitted = {}
    BY DEF Init
  <2>2. << >> \o << >> = << >>
    OBVIOUS
  <2> QED BY <2>1, <2>2, ElementsEmpty DEF TQ!Init, SubmittedInv, BatchInv
<1> QED
  BY <1>1, RefinementStep, BatchStep, TypeCorrect, PTL
     DEF Spec, ImplementsTaskQueue, TQ!Spec

-----------------------------------------------------------------------------
(* The loop of the thread *)

\* Whatever the owner and the thread do, to the loop it is a step of its own, or
\* none.
LEMMA LoopOfThread == [TNext]_allVars => [Next]_vars
<1> SUFFICES ASSUME [TNext]_allVars
             PROVE  [Next]_vars
  OBVIOUS
<1>1. CASE UNCHANGED allVars
  BY <1>1 DEF allVars
<1>2. CASE StartThread \/ SpuriousWakeup \/ Terminated
  BY <1>2 DEF StartThread, SpuriousWakeup, Terminated, allVars
<1>3. CASE DestructorQuit
  BY <1>3, OwnerAssumption DEF DestructorQuit, Next, ThreadStep
<1>4. CASE OwnerStep
  <2>1. CASE DestructorWakeup
    BY <2>1, OwnerAssumption DEF DestructorWakeup, Next, ThreadStep
  <2>2. CASE LatchReleased \/ CheckLoopPtr \/ Join
    BY <2>2 DEF LatchReleased, CheckLoopPtr, Join
  <2> QED BY <1>4, <2>1, <2>2 DEF OwnerStep
<1>5. CASE LoopThreadStep
  <2>1. CASE EnterLoop
    BY <2>1 DEF EnterLoop, Next
  <2>2. CASE RunInThread \/ Publish \/ ThreadExit
    BY <2>2 DEF RunInThread, Publish, ThreadExit
  <2>3. CASE LoopStep
    BY <2>3 DEF Next
  <2> QED BY <1>5, <2>1, <2>2, <2>3 DEF LoopThreadStep
<1>6. CASE UseLoop
  <2>1. CASE \E t \in Tasks : QueueInLoopHere(t) \/ RunInLoopHere(t)
    BY <2>1 DEF Next, UserStep
  <2>2. CASE \E x \in Threads, t \in Tasks : QueueInLoop(x, t)
    BY <2>2 DEF Next, ThreadStep
  <2> QED BY <1>6, <2>1, <2>2 DEF UseLoop
<1>7. CASE \E x \in Threads : FinishUse(x)
  BY <1>7 DEF FinishUse, Next, ThreadStep
<1>8. CASE Environment
  BY <1>8 DEF Environment, Next
<1> QED BY <1>1, <1>2, <1>3, <1>4, <1>5, <1>6, <1>7, <1>8 DEF TNext

\* EventLoopThread.cc:43-53: the thread runs a plain EventLoop: the composed
\* system implements the specification of one.
THEOREM ThreadRunsLoop == TSpec => Spec
<1>1. TInit => Init
  BY DEF TInit
<1> QED BY <1>1, LoopOfThread, PTL DEF TSpec, Spec

\* EventLoop.cc:86-94,232-247: a loop in a thread of its own loses no wakeup and
\* no quit(), that of the destructor included, before it enters poll.
THEOREM ThreadIsWoken == TSpec => [](NoLostWakeup /\ NoMissedQuit)
BY ThreadRunsLoop, WakeupNotLost, QuitNotMissed, PTL

-----------------------------------------------------------------------------
(* startLoop *)

\* The thread gets ahead of its owner only once it exists, and loop_ is the
\* address of a loop that the thread has built.
StartInv ==
    /\ TypeInv
    /\ ownerPc = "new" => threadPc = "none"
    /\ loopPtr <=> threadPc \in {"published", "looping", "exited"}
    /\ ownerPc \in {"started", "quit", "join", "done"} => loopPtr

\* Its types, of which those of the loop come from the loop's own proof.
LEMMA ThreadTypeStep == StartInv /\ [TNext]_allVars => TypeInv'
<1> SUFFICES ASSUME StartInv, [TNext]_allVars
             PROVE  TypeInv'
  OBVIOUS
<1>0. TypeInv
  BY DEF StartInv
<1>1. TypeOK'
  BY <1>0, LoopOfThread, TypeStep DEF TypeInv
<1>2. /\ ownerPc' \in OwnerPcs /\ threadPc' \in ThreadPcs /\ loopPtr' \in BOOLEAN
  <2> USE <1>0
  <2>1. UNCHANGED tvars => ownerPc' \in OwnerPcs /\ threadPc' \in ThreadPcs
                           /\ loopPtr' \in BOOLEAN
    BY DEF tvars, TypeInv
  <2>2. CASE UNCHANGED allVars \/ Terminated
    BY <2>1, <2>2 DEF Terminated, allVars
  <2>3. CASE StartThread \/ SpuriousWakeup \/ DestructorQuit
    BY <2>3 DEF StartThread, SpuriousWakeup, DestructorQuit, TypeInv, OwnerPcs, ThreadPcs
  <2>4. CASE OwnerStep
    BY <2>4 DEF OwnerStep, LatchReleased, CheckLoopPtr, DestructorWakeup, Join, TypeInv,
                OwnerPcs, ThreadPcs
  <2>5. CASE LoopThreadStep
    BY <2>1, <2>5 DEF LoopThreadStep, RunInThread, Publish, EnterLoop, ThreadExit, TypeInv,
                      OwnerPcs, ThreadPcs
  <2>6. CASE UseLoop \/ (\E x \in Threads : FinishUse(x)) \/ Environment
    BY <2>1, <2>6 DEF UseLoop, FinishUse, Environment
  <2> QED BY <2>2, <2>3, <2>4, <2>5, <2>6 DEF TNext
<1>3. looping' => threadPc' = "looping"
  <2> USE <1>0 DEF TypeInv
  <2>1. UNCHANGED <<looping, threadPc>> => (looping' => threadPc' = "looping")
    OBVIOUS
  <2>2. CASE UNCHANGED allVars \/ Terminated \/ StartThread \/ SpuriousWakeup
    BY <2>1, <2>2 DEF Terminated, allVars, vars, flags, tvars, StartThread, SpuriousWakeup,
                      StartInv
  <2>3. CASE DestructorQuit \/ OwnerStep
    BY <2>1, <2>3 DEF DestructorQuit, Quit, OwnerStep, LatchReleased, CheckLoopPtr,
                      DestructorWakeup, Wakeup, Join, vars, flags
  <2>4. CASE LoopThreadStep
    <3>1. CASE RunInThread \/ Publish \/ EnterLoop \/ ThreadExit
      BY <3>1 DEF RunInThread, Publish, EnterLoop, ThreadExit, vars, flags
    <3>2. CASE LoopStep /\ UNCHANGED tvars
      <4>1. looping' => looping
        BY <3>2 DEF LoopStep, TestQuit, PollReturn, HandleRead, HandleEvent, CallbackReturns,
                    EnterPending, SwapFunctors, RunFunctor, LeavePending, flags, TypeOK
      <4> QED BY <3>2, <4>1 DEF tvars
    <3> QED BY <2>4, <3>1, <3>2 DEF LoopThreadStep
  <2>5. CASE UseLoop \/ (\E x \in Threads : FinishUse(x)) \/ Environment
    BY <2>1, <2>5 DEF UseLoop, QueueInLoopHere, RunInLoopHere, QueueInLoop, FinishUse, Wakeup,
                      Environment, PollTimeout, BecomeReady, tvars, flags
  <2> QED BY <2>2, <2>3, <2>4, <2>5 DEF TNext
<1> QED BY <1>1, <1>2, <1>3 DEF TypeInv

\* Every step keeps the invariant.
LEMMA StartStep == StartInv /\ [TNext]_allVars => StartInv'
<1> SUFFICES ASSUME StartInv, [TNext]_allVars
             PROVE  StartInv'
  OBVIOUS
<1>1. TypeInv'
  BY ThreadTypeStep DEF StartInv
<1>2. UNCHANGED tvars => StartInv'
  BY <1>1 DEF StartInv, tvars
<1>3. CASE UNCHANGED allVars \/ Terminated
  BY <1>2, <1>3 DEF Terminated, allVars
<1>4. CASE StartThread \/ SpuriousWakeup \/ DestructorQuit
  BY <1>1, <1>4 DEF StartThread, SpuriousWakeup, DestructorQuit, StartInv
<1>5. CASE OwnerStep
  BY <1>1, <1>5 DEF OwnerStep, LatchReleased, CheckLoopPtr, DestructorWakeup, Join, StartInv
<1>6. CASE LoopThreadStep
  BY <1>1, <1>2, <1>6 DEF LoopThreadStep, RunInThread, Publish, EnterLoop, ThreadExit, StartInv
<1>7. CASE UseLoop \/ (\E x \in Threads : FinishUse(x)) \/ Environment
  BY <1>2, <1>7 DEF UseLoop, FinishUse, Environment
<1> QED BY <1>3, <1>4, <1>5, <1>6, <1>7 DEF TNext

\* EventLoopThread.cc:26-41: startLoop() returns only once the thread has built
\* its EventLoop and published it, however often the wait wakes up for nothing.
THEOREM StartLoopReturnsLoop == TSpec => []StartReturnsLoop
<1>1. TInit => StartInv
  <2> SUFFICES ASSUME TInit
               PROVE  StartInv
    OBVIOUS
  <2>1. TypeOK
    <3>1. Init => TypeOK
      BY InitType
    <3> QED BY <3>1 DEF TInit
  <2> QED BY <2>1 DEF TInit, Init, StartInv, TypeInv, OwnerPcs, ThreadPcs
<1>2. StartInv => StartReturnsLoop
  BY DEF StartInv, StartReturnsLoop
<1> QED BY <1>1, <1>2, StartStep, PTL DEF TSpec
=============================================================================
