------------------------------ MODULE Pollers ------------------------------
(***************************************************************************)
(* net/Channel registered in net/poller/PollPoller or EPollPoller, the one *)
(* that newDefaultPoller picks.  PollPoller keeps a vector of pollfd and   *)
(* each channel its place in it; EPollPoller leaves the table to the       *)
(* kernel and keeps a status in the channel.  Both are shown to do what    *)
(* Interest promises.  Everything happens in the loop thread.              *)
(***************************************************************************)
EXTENDS Integers, Sequences, FiniteSets

CONSTANTS
    MaxFd,          \* descriptors are 0..MaxFd
    InitEvents,     \* kInitEventListSize
    Readiness       \* sets of events a descriptor may be found ready for

ASSUME PollersAssumption ==
    MaxFd \in Nat /\ InitEvents \in Nat \ {0} /\ {} \in Readiness

Fds == 0..MaxFd
Events == {"IN", "OUT"}
Always == {"HUP"}

VARIABLES
    kind,           \* "poll" or "epoll"
    alive,          \* per descriptor: its Channel exists
    events,         \* Channel::events_
    index,          \* Channel::index_
    channels,       \* channels_: the descriptors in the map
    pollfds,        \* PollPoller::pollfds_: [fd, events]
    kernel,         \* the epoll set: descriptor -> events
    room,           \* events_.size() of EPollPoller
    activeChannels, \* what the last poll reported: <<descriptor, revents>>
    ready,          \* what the kernel found at the last poll
    updates,        \* updates of the Channel so far: 0, 1 or 2 for more
    failed          \* assertions that failed

tables == <<channels, pollfds, kernel>>
vars == <<kind, alive, events, index, tables, room, activeChannels, ready, updates, failed>>

kNew == -1
kAdded == 1
kDeleted == 2

NothingReady == [f \in Fds |-> {}]

\* newDefaultPoller asks the environment for WEB_USE_POLL
Init ==
    /\ kind \in {"poll", "epoll"}
    /\ alive = [f \in Fds |-> FALSE]
    /\ events = [f \in Fds |-> {}] /\ index = [f \in Fds |-> kNew]
    /\ channels = {} /\ pollfds = << >> /\ kernel = << >> /\ room = InitEvents
    /\ activeChannels = {} /\ ready = NothingReady /\ updates = [f \in Fds |-> 0] /\ failed = {}

\* fd of a pollfd that poll must ignore
Negated(f) == -f - 1

Assert(p, name) == failed' = IF p THEN failed ELSE failed \cup {name}

-----------------------------------------------------------------------------
(* PollPoller; C++ indexes are one less than those of the sequence *)

\* updateChannel of a new channel, which is added whatever its events are
PollAdd(f, evs) ==
    /\ Assert(f \notin channels, "add")
    /\ pollfds' = Append(pollfds, [fd |-> f, events |-> evs])
    /\ index' = [index EXCEPT ![f] = Len(pollfds)]
    /\ channels' = channels \cup {f}

\* updateChannel of a known one
PollModify(f, evs) ==
    /\ Assert(/\ f \in channels /\ index[f] < Len(pollfds)
              /\ pollfds[index[f] + 1].fd \in {f, Negated(f)}, "modify")
    /\ pollfds' = [pollfds EXCEPT ![index[f] + 1] =
                      [fd |-> IF evs = {} THEN Negated(f) ELSE f, events |-> evs]]
    /\ UNCHANGED <<index, channels>>

\* Wrong variant: only a channel that is being polled learns its new place.
MovedIndexOfPolled(place) ==
    LET fd == pollfds[Len(pollfds)].fd
    IN  IF fd < 0 THEN index ELSE [index EXCEPT ![fd] = place]

\* The channel at the end of pollfds_ moves to the place that becomes free
MovedIndex(place) ==
    LET fd == pollfds[Len(pollfds)].fd
    IN  [index EXCEPT ![IF fd < 0 THEN Negated(fd) ELSE fd] = place]

\* removeChannel: the last entry takes the place that becomes free
PollRemove(f) ==
    LET place == index[f]
        n == Len(pollfds)
    IN
    /\ failed' = failed
         \cup (IF f \in channels /\ place < n THEN {} ELSE {"remove"})
         \cup (IF pollfds[place + 1] = [fd |-> Negated(f), events |-> {}] THEN {}
               ELSE IF updates[f] = 1 THEN {"ignored when new"} ELSE {"ignored"})
    /\ channels' = channels \ {f}
    /\ pollfds' = SubSeq([pollfds EXCEPT ![place + 1] = pollfds[n]], 1, n - 1)
    /\ index' = [(IF place = n - 1 THEN index ELSE MovedIndex(place)) EXCEPT ![f] = kNew]

-----------------------------------------------------------------------------
(* EPollPoller *)

\* The epoll set with f watched for evs; without f
Watch(f, evs) == [g \in DOMAIN kernel \cup {f} |-> IF g = f THEN evs ELSE kernel[g]]
Unwatch(f) == [g \in DOMAIN kernel \ {f} |-> kernel[g]]

\* update(EPOLL_CTL_ADD) of a channel that is new or was taken out, whatever
\* its events are
EpollAdd(f, evs) ==
    /\ Assert(index[f] = kNew <=> f \notin channels, "add")
    /\ channels' = channels \cup {f}
    /\ index' = [index EXCEPT ![f] = kAdded]
    /\ kernel' = Watch(f, evs)

\* Wrong variant: only the Channel learns of the change.
EpollModifyLocally(f, evs) ==
    /\ Assert(f \in channels /\ index[f] = kAdded, "modify")
    /\ IF evs = {}
       THEN kernel' = Unwatch(f) /\ index' = [index EXCEPT ![f] = kDeleted]
       ELSE UNCHANGED <<kernel, index>>
    /\ UNCHANGED channels

EpollModify(f, evs) ==
    /\ Assert(f \in channels /\ index[f] = kAdded, "modify")
    /\ IF evs = {}
       THEN kernel' = Unwatch(f) /\ index' = [index EXCEPT ![f] = kDeleted]
       ELSE kernel' = Watch(f, evs) /\ UNCHANGED index
    /\ UNCHANGED channels

EpollRemove(f) ==
    /\ Assert(f \in channels /\ index[f] \in {kAdded, kDeleted}, "remove")
    /\ channels' = channels \ {f}
    /\ index' = [index EXCEPT ![f] = kNew]
    /\ kernel' = IF index[f] = kAdded THEN Unwatch(f) ELSE kernel

-----------------------------------------------------------------------------
(* Channel *)

\* A descriptor is opened and gets its Channel
NewChannel(f) ==
    /\ ~alive[f] /\ alive' = [alive EXCEPT ![f] = TRUE]
    /\ UNCHANGED <<kind, events, index, tables, room, activeChannels, ready, updates, failed>>

\* Channel::update, to the poller
Update(f, evs) ==
    /\ alive[f]
    /\ updates' = [updates EXCEPT ![f] = IF @ = 2 THEN 2 ELSE @ + 1]
    /\ events' = [events EXCEPT ![f] = evs]
    /\ \/ kind = "poll" /\ index[f] < 0 /\ PollAdd(f, evs) /\ UNCHANGED kernel
       \/ kind = "poll" /\ index[f] >= 0 /\ PollModify(f, evs) /\ UNCHANGED kernel
       \/ kind = "epoll" /\ index[f] \in {kNew, kDeleted} /\ EpollAdd(f, evs) /\ UNCHANGED pollfds
       \/ kind = "epoll" /\ index[f] = kAdded /\ EpollModify(f, evs) /\ UNCHANGED pollfds
    /\ UNCHANGED <<kind, alive, room, activeChannels, ready>>

EnableReading(f) == Update(f, events[f] \cup {"IN"})
EnableWriting(f) == Update(f, events[f] \cup {"OUT"})
DisableWriting(f) == Update(f, events[f] \ {"OUT"})
DisableAll(f) == Update(f, {})

\* Channel::remove and the destructor that follows it.  The owner disables the
\* channel first, and removes none that poll has reported and whose events are
\* still to be handled.  What the dead Channel held is put back to its initial
\* values; PollPoller leaves index_ as it is.
Remove(f) ==
    /\ alive[f] /\ updates[f] > 0 /\ events[f] = {}
    /\ \A a \in activeChannels : a[1] # f
    /\ alive' = [alive EXCEPT ![f] = FALSE] /\ updates' = [updates EXCEPT ![f] = 0]
    /\ \/ kind = "poll" /\ PollRemove(f) /\ UNCHANGED kernel
       \/ kind = "epoll" /\ EpollRemove(f) /\ UNCHANGED pollfds
    /\ UNCHANGED <<kind, events, room, activeChannels, ready>>

-----------------------------------------------------------------------------
(* poll *)

\* PollPoller: all the entries with something to report
PollReports(found) ==
    LET revents(p) == IF p.fd < 0 THEN {} ELSE found[p.fd] \cap (p.events \cup Always)
    IN  {<<pollfds[i].fd, revents(pollfds[i])>> :
           i \in {j \in 1..Len(pollfds) : revents(pollfds[j]) # {}}}

\* EPollPoller: as many of them as there is room for
EpollReports(found) ==
    LET revents(f) == found[f] \cap (kernel[f] \cup Always)
        full == {<<f, revents(f)>> : f \in {g \in DOMAIN kernel : revents(g) # {}}}
    IN  {some \in SUBSET full : Cardinality(some) = IF Cardinality(full) < room
                                                    THEN Cardinality(full) ELSE room}

\* poll and fillActiveChannels, which looks up every descriptor in channels_;
\* EPollPoller doubles the room it has used up
Poll ==
    /\ ready = NothingReady
    /\ \E found \in [Fds -> Readiness] :
         /\ \A f \in Fds : ~alive[f] => found[f] = {}
         /\ ready' = found
         /\ activeChannels' \in IF kind = "poll" THEN {PollReports(found)}
                                ELSE EpollReports(found)
         /\ Assert(\A a \in activeChannels' : a[1] \in channels, "fill")
         /\ room' = IF kind = "epoll" /\ activeChannels' # {}
                         /\ Cardinality(activeChannels') = room /\ room <= MaxFd
                    THEN 2 * room ELSE room
    /\ UNCHANGED <<kind, alive, events, index, tables, updates>>

\* The loop has handled the events
Handled ==
    /\ ready # NothingReady /\ ready' = NothingReady /\ activeChannels' = {}
    /\ UNCHANGED <<kind, alive, events, index, tables, room, updates, failed>>

ChannelStep(f) ==
    \/ NewChannel(f) \/ EnableReading(f) \/ EnableWriting(f) \/ DisableWriting(f)
    \/ DisableAll(f) \/ Remove(f)

Next == failed = {} /\ (Poll \/ Handled \/ \E f \in Fds : ChannelStep(f))

Spec == Init /\ [][Next]_vars

-----------------------------------------------------------------------------
(* Properties *)

I == INSTANCE Interest WITH
        interest <- [f \in Fds |-> IF f \in channels THEN events[f] ELSE {"unregistered"}],
        reported <- activeChannels

\* Both pollers do what Interest promises: through every sequence of
\* registrations, changes, removals and reuse of descriptors, poll reports the
\* events that the channels asked for last - the index kept in the channels of
\* PollPoller always names their own entry, the status kept in those of
\* EPollPoller is the state of the kernel's set, and the room that EPollPoller
\* has for events never hides them all.
ImplementsInterest == I!Spec

\* No such sequence breaks an assertion of the pollers, but for one: PollPoller
\* asserts that a channel it removes is one that poll ignores, which is not so
\* if its only update was the one by which it was disabled and added - as by
\* the destructor of an Acceptor that never listened.
AssertsHold ==
    failed \subseteq {"ignored when new"}
=============================================================================
