------------------------------ MODULE Interest ------------------------------
(***************************************************************************)
(* What a Poller promises to the channels of a loop (net/Poller.h): poll   *)
(* reports the events that the registered channels asked for last, and     *)
(* nothing else.                                                           *)
(***************************************************************************)
CONSTANTS
    Fds,        \* descriptors
    Events,     \* events a channel may ask for
    Always      \* events reported without being asked for

VARIABLES
    interest,   \* per descriptor: the events its channel asked for last
    ready,      \* per descriptor: what the kernel found at the last poll
    reported    \* what the last poll reported

Unregistered == {"unregistered"}
NothingReady == [f \in Fds |-> {}]

Init == interest = [f \in Fds |-> Unregistered] /\ ready = NothingReady /\ reported = {}

Update(f, events) ==
    interest' = [interest EXCEPT ![f] = events] /\ UNCHANGED <<ready, reported>>

Remove(f) ==
    interest' = [interest EXCEPT ![f] = Unregistered] /\ UNCHANGED <<ready, reported>>

\* What there is to say of f when the kernel finds it ready for evs
Report(f, evs) ==
    IF interest[f] = Unregistered THEN {} ELSE evs \cap (interest[f] \cup Always)

\* Some of the descriptors with something to report are reported, each with all
\* it has; at least one if any of them belongs to a channel that asked for
\* something.
Poll ==
    /\ LET found == {f \in Fds : Report(f, ready'[f]) # {}}
       IN  /\ reported' \subseteq {<<f, Report(f, ready'[f])>> : f \in found}
           /\ (\E f \in found : interest[f] # {}) => reported' # {}
    /\ UNCHANGED interest

\* The loop has handled what was reported
Handled == ready' = NothingReady /\ reported' = {} /\ UNCHANGED interest

Next ==
    \/ \E f \in Fds, events \in SUBSET Events : Update(f, events)
    \/ \E f \in Fds : Remove(f)
    \/ Poll \/ Handled

Spec == Init /\ [][Next]_<<interest, ready, reported>>
=============================================================================
