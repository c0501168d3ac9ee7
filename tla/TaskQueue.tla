----------------------------- MODULE TaskQueue -----------------------------
(***************************************************************************)
(* What an EventLoop promises to the threads that hand it functors,        *)
(* whatever its poller, eventfd and mutex do: a functor that is queued runs *)
(* once, in the loop thread, after every functor queued before it; a       *)
(* functor the loop thread hands to runInLoop runs in place.  EventLoop    *)
(* implements this specification.                                          *)
(***************************************************************************)
EXTENDS Sequences

CONSTANT Tasks      \* the functors; each one is handed over at most once

VARIABLES
    queue,          \* accepted functors that have not run, oldest first
    ran             \* functors in the order in which they ran

Known(s) == {s[i] : i \in DOMAIN s}

Init ==
    /\ queue = << >>
    /\ ran = << >>

\* queueInLoop, from any thread
Submit(t) ==
    /\ t \notin Known(queue) \cup Known(ran)
    /\ queue' = Append(queue, t)
    /\ UNCHANGED ran

\* doPendingFunctors reaches the oldest functor
RunNext ==
    /\ queue # << >>
    /\ ran' = Append(ran, Head(queue))
    /\ queue' = Tail(queue)

\* runInLoop, called by the loop thread itself
RunInPlace(t) ==
    /\ t \notin Known(queue) \cup Known(ran)
    /\ ran' = Append(ran, t)
    /\ UNCHANGED queue

Next ==
    \/ \E t \in Tasks : Submit(t) \/ RunInPlace(t)
    \/ RunNext

Spec == Init /\ [][Next]_<<queue, ran>>
=============================================================================
