--------------------------- MODULE PollersProofs ---------------------------
(***************************************************************************)
(* Proofs about Pollers for any number of descriptors: the assertions of   *)
(* PollPoller and EPollPoller hold, and both implement Interest.           *)
(***************************************************************************)
EXTENDS Pollers, FiniteSetTheorems, SequenceTheorems, TLAPS

USE PollersAssumption

-----------------------------------------------------------------------------
(* The invariant *)

\* The descriptor an entry of pollfds_ belongs to, polled or ignored.
OwnerOf(p) == IF p.fd < 0 THEN Negated(p.fd) ELSE p.fd

\* Types of the state that both pollers use.
PollersType ==
    /\ kind \in {"poll", "epoll"}
    /\ alive \in [Fds -> BOOLEAN]
    /\ events \in [Fds -> SUBSET Events]
    /\ index \in [Fds -> Int]
    /\ channels \subseteq Fds
    /\ room \in Nat \ {0}
    /\ updates \in [Fds -> 0..2]

\* channels_ holds the channels that live and were updated; one that was never
\* updated asked for nothing.
MapSound ==
    \A f \in Fds : /\ f \in channels <=> updates[f] > 0
                   /\ f \in channels => alive[f]
                   /\ f \notin channels => events[f] = {}

\* PollPoller: index_ and pollfds_ point at each other, the entry has the
\* events of the channel, and it is ignored once a second update asked for none.
PollSound ==
    /\ pollfds \in Seq([fd : Int, events : SUBSET Events])
    /\ \A i \in 1..Len(pollfds) : /\ OwnerOf(pollfds[i]) \in channels
                                  /\ index[OwnerOf(pollfds[i])] = i - 1
    /\ \A f \in Fds \ channels : index[f] = kNew
    /\ \A f \in channels :
          /\ index[f] \in 0..(Len(pollfds) - 1)
          /\ pollfds[index[f] + 1].events = events[f]
          /\ pollfds[index[f] + 1].fd = f
                \/ (pollfds[index[f] + 1].fd = Negated(f) /\ events[f] = {})
          /\ updates[f] = 2 /\ events[f] = {} => pollfds[index[f] + 1].fd = Negated(f)

\* EPollPoller: index_ tells whether the kernel watches the descriptor, and the
\* kernel has the events of the channel.
EpollSound ==
    /\ \A f \in Fds : /\ index[f] \in {kNew, kAdded, kDeleted}
                      /\ index[f] = kNew <=> f \notin channels
                      /\ index[f] = kDeleted => events[f] = {}
                      /\ index[f] = kAdded <=> f \in DOMAIN kernel
    /\ DOMAIN kernel \subseteq Fds
    /\ \A f \in DOMAIN kernel : kernel[f] = events[f]

\* Everything the pollers rest on.
PollersInv ==
    /\ PollersType /\ MapSound
    /\ kind = "poll" => PollSound
    /\ kind = "epoll" => EpollSound

\* A new loop has it.
LEMMA InitPollersInv == Init => PollersInv
<1> SUFFICES ASSUME Init
             PROVE  PollersInv
  OBVIOUS
<1>1. PollersType
  BY DEF Init, PollersType, kNew
<1>2. MapSound
  BY DEF Init, MapSound
<1>3. PollSound
  <2>1. pollfds = << >> /\ channels = {} /\ index = [f \in Fds |-> kNew]
    BY DEF Init
  <2>2. pollfds \in Seq([fd : Int, events : SUBSET Events]) /\ Len(pollfds) = 0
    BY <2>1
  <2>3. 1..Len(pollfds) = {}
    BY <2>2
  <2> QED BY <2>1, <2>2, <2>3 DEF PollSound
<1>4. EpollSound
  <2>1. kernel = << >> /\ channels = {} /\ index = [f \in Fds |-> kNew]
        /\ events = [f \in Fds |-> {}]
    BY DEF Init
  <2>2. DOMAIN kernel = {}
    BY <2>1
  <2> QED BY <2>1, <2>2 DEF EpollSound, kNew, kAdded, kDeleted
<1> QED BY <1>1, <1>2, <1>3, <1>4 DEF PollersInv

-----------------------------------------------------------------------------
(* Negated descriptors *)

\* poll can tell an ignored descriptor from a polled one, and which it is.
LEMMA NegatedFd ==
    ASSUME NEW f \in Fds
    PROVE  /\ f \in Int /\ f >= 0 /\ Negated(f) \in Int /\ Negated(f) < 0
           /\ Negated(Negated(f)) = f /\ Negated(f) # f
BY DEF Fds, Negated

\* The owner of an entry made for f, polled or ignored, is f.
LEMMA OwnerOfEntry ==
    ASSUME NEW f \in Fds, NEW p, p.fd \in {f, Negated(f)}
    PROVE  OwnerOf(p) = f
BY NegatedFd DEF OwnerOf

-----------------------------------------------------------------------------
(* Channel::update *)

\* What every update does to the map and the channel, whichever the poller.
LEMMA UpdateCommon ==
    ASSUME PollersType, MapSound, NEW f \in Fds, NEW evs \in SUBSET Events, Update(f, evs),
           channels' = channels \cup {f}, index' \in [Fds -> Int]
    PROVE  PollersType' /\ MapSound'
<1>1. /\ alive[f] /\ UNCHANGED <<kind, alive, room>>
      /\ updates' = [updates EXCEPT ![f] = IF @ = 2 THEN 2 ELSE @ + 1]
      /\ events' = [events EXCEPT ![f] = evs]
  BY DEF Update
<1>2. updates[f] \in 0..2
  BY DEF PollersType
<1>3. (IF updates[f] = 2 THEN 2 ELSE updates[f] + 1) \in 0..2
      /\ (IF updates[f] = 2 THEN 2 ELSE updates[f] + 1) > 0
  BY <1>2
<1>4. updates' \in [Fds -> 0..2] /\ updates'[f] > 0
      /\ \A g \in Fds : g # f => updates'[g] = updates[g]
  BY <1>1, <1>3 DEF PollersType
<1>5. events' \in [Fds -> SUBSET Events] /\ events'[f] = evs
      /\ \A g \in Fds : g # f => events'[g] = events[g]
  BY <1>1 DEF PollersType
<1>6. PollersType'
  BY <1>1, <1>4, <1>5 DEF PollersType
<1>7. MapSound'
  <2> SUFFICES ASSUME NEW g \in Fds
               PROVE  /\ g \in channels' <=> updates'[g] > 0
                      /\ g \in channels' => alive'[g]
                      /\ g \notin channels' => events'[g] = {}
    BY DEF MapSound
  <2>1. CASE g = f
    BY <1>1, <1>4, <2>1
  <2>2. CASE g # f
    BY <1>1, <1>4, <1>5, <2>2 DEF MapSound
  <2> QED BY <2>1, <2>2
<1> QED BY <1>6, <1>7

\* PollPoller.cc: a new channel is appended to pollfds_ and learns its place.
LEMMA PollAddStep ==
    ASSUME PollersInv, kind = "poll", NEW f \in Fds, NEW evs \in SUBSET Events,
           Update(f, evs), index[f] < 0, PollAdd(f, evs)
    PROVE  PollersInv' /\ failed' = failed /\ channels' = channels \cup {f}
<1>1. /\ PollersType /\ MapSound /\ PollSound /\ kind' = "poll"
      /\ index \in [Fds -> Int] /\ channels \subseteq Fds
  BY DEF PollersInv, PollersType, Update
<1>2. f \notin channels
  BY <1>1 DEF PollSound
<1>3. /\ failed' = failed /\ channels' = channels \cup {f}
      /\ pollfds' = Append(pollfds, [fd |-> f, events |-> evs])
      /\ index' = [index EXCEPT ![f] = Len(pollfds)]
      /\ events' = [events EXCEPT ![f] = evs]
      /\ updates' = [updates EXCEPT ![f] = IF @ = 2 THEN 2 ELSE @ + 1]
  BY <1>2 DEF PollAdd, Assert, Update
<1> DEFINE n == Len(pollfds)
           e == [fd |-> f, events |-> evs]
<1>4. /\ pollfds \in Seq([fd : Int, events : SUBSET Events]) /\ n \in Nat
      /\ e \in [fd : Int, events : SUBSET Events] /\ e.fd = f /\ e.events = evs
  BY <1>1, NegatedFd DEF PollSound
<1>5. /\ pollfds' \in Seq([fd : Int, events : SUBSET Events])
      /\ Len(pollfds') = n + 1 /\ pollfds'[n + 1] = e
      /\ \A i \in 1..n : pollfds'[i] = pollfds[i]
  BY <1>3, <1>4
<1>6. index' \in [Fds -> Int] /\ index'[f] = n
      /\ \A g \in Fds : g # f => index'[g] = index[g]
  BY <1>1, <1>3, <1>4
<1>7. PollersType' /\ MapSound'
  BY <1>1, <1>3, <1>6, UpdateCommon
<1>8. events'[f] = evs /\ \A g \in Fds : g # f => events'[g] = events[g]
  BY <1>1, <1>3 DEF PollersType
<1>9. updates'[f] = 1 /\ \A g \in Fds : g # f => updates'[g] = updates[g]
  <2>1. updates[f] = 0
    BY <1>1, <1>2 DEF MapSound, PollersType
  <2> QED BY <1>1, <1>3, <2>1 DEF PollersType
<1>10. ASSUME NEW i \in 1..Len(pollfds')
       PROVE  OwnerOf(pollfds'[i]) \in channels' /\ index'[OwnerOf(pollfds'[i])] = i - 1
  <2>1. CASE i = n + 1
    <3>1. OwnerOf(e) = f
      BY <1>4, OwnerOfEntry
    <3> HIDE DEF e
    <3> QED BY <1>3, <1>4, <1>5, <1>6, <2>1, <3>1
  <2>2. CASE i # n + 1
    <3>1. i \in 1..n
      BY <1>4, <1>5, <2>2
    <3>2. OwnerOf(pollfds[i]) \in channels /\ index[OwnerOf(pollfds[i])] = i - 1
      BY <1>1, <3>1 DEF PollSound
    <3>3. OwnerOf(pollfds[i]) # f /\ OwnerOf(pollfds[i]) \in Fds
      BY <1>1, <1>2, <3>2
    <3> QED BY <1>3, <1>5, <1>6, <3>1, <3>2, <3>3
  <2> QED BY <2>1, <2>2
<1>11. \A g \in Fds \ channels' : index'[g] = kNew
  BY <1>1, <1>3, <1>6 DEF PollSound
<1>12. ASSUME NEW g \in channels'
       PROVE  /\ index'[g] \in 0..(Len(pollfds') - 1)
              /\ pollfds'[index'[g] + 1].events = events'[g]
              /\ \/ pollfds'[index'[g] + 1].fd = g
                 \/ pollfds'[index'[g] + 1].fd = Negated(g) /\ events'[g] = {}
              /\ updates'[g] = 2 /\ events'[g] = {} => pollfds'[index'[g] + 1].fd = Negated(g)
  <2>1. CASE g = f
    <3>1. pollfds'[index'[g] + 1] = e /\ index'[g] \in 0..(Len(pollfds') - 1)
      BY <1>4, <1>5, <1>6, <2>1
    <3> HIDE DEF e
    <3> QED BY <1>4, <1>8, <1>9, <2>1, <3>1
  <2>2. CASE g # f
    <3>1. g \in channels /\ g \in Fds
      BY <1>1, <1>3, <2>2
    <3>2. /\ index[g] \in 0..(n - 1) /\ index'[g] = index[g]
          /\ events'[g] = events[g] /\ updates'[g] = updates[g]
      BY <1>1, <1>6, <1>8, <1>9, <2>2, <3>1 DEF PollSound
    <3>3. index[g] + 1 \in 1..n /\ index[g] \in 0..(Len(pollfds') - 1)
      BY <1>4, <1>5, <3>2
    <3>4. pollfds'[index'[g] + 1] = pollfds[index[g] + 1]
      BY <1>5, <3>2, <3>3
    <3> QED BY <1>1, <3>1, <3>2, <3>3, <3>4 DEF PollSound
  <2> QED BY <2>1, <2>2
<1>13. PollSound'
  <2> HIDE DEF e
  <2> QED BY <1>5, <1>10, <1>11, <1>12 DEF PollSound
<1> QED BY <1>1, <1>3, <1>7, <1>13 DEF PollersInv

\* PollPoller.cc: the entry a channel points at is its own, and is rewritten.
LEMMA PollModifyStep ==
    ASSUME PollersInv, kind = "poll", NEW f \in Fds, NEW evs \in SUBSET Events,
           Update(f, evs), index[f] >= 0, PollModify(f, evs)
    PROVE  PollersInv' /\ failed' = failed /\ channels' = channels \cup {f}
<1>1. /\ PollersType /\ MapSound /\ PollSound /\ kind' = "poll"
      /\ index \in [Fds -> Int] /\ channels \subseteq Fds
  BY DEF PollersInv, PollersType, Update
<1>2. f \in channels
  BY <1>1 DEF PollSound, kNew
<1> DEFINE n == Len(pollfds)
           k == index[f] + 1
           e == [fd |-> IF evs = {} THEN Negated(f) ELSE f, events |-> evs]
<1>3. /\ pollfds \in Seq([fd : Int, events : SUBSET Events]) /\ n \in Nat
      /\ index[f] \in 0..(n - 1) /\ k \in 1..n /\ index[f] < n
      /\ pollfds[k].fd \in {f, Negated(f)}
  BY <1>1, <1>2 DEF PollSound
<1>4. /\ failed' = failed
      /\ pollfds' = [pollfds EXCEPT ![k] = e]
      /\ index' = index /\ channels' = channels
      /\ events' = [events EXCEPT ![f] = evs]
      /\ updates' = [updates EXCEPT ![f] = IF @ = 2 THEN 2 ELSE @ + 1]
  BY <1>2, <1>3 DEF PollModify, Assert, Update
<1>5. /\ e \in [fd : Int, events : SUBSET Events] /\ e.events = evs
      /\ e.fd \in {f, Negated(f)} /\ (evs # {} => e.fd = f) /\ (evs = {} => e.fd = Negated(f))
  BY NegatedFd
<1>6. /\ pollfds' \in Seq([fd : Int, events : SUBSET Events])
      /\ Len(pollfds') = n /\ pollfds'[k] = e
      /\ \A i \in 1..n : i # k => pollfds'[i] = pollfds[i]
  <2> HIDE DEF e, k
  <2> QED BY <1>3, <1>4, <1>5
<1>7. PollersType' /\ MapSound'
  BY <1>1, <1>2, <1>4, UpdateCommon
<1>8. events'[f] = evs /\ \A g \in Fds : g # f => events'[g] = events[g]
  BY <1>1, <1>4 DEF PollersType
<1>9. \A g \in Fds : g # f => updates'[g] = updates[g]
  BY <1>1, <1>4 DEF PollersType
<1>10. ASSUME NEW i \in 1..Len(pollfds')
       PROVE  OwnerOf(pollfds'[i]) \in channels' /\ index'[OwnerOf(pollfds'[i])] = i - 1
  <2>1. CASE i = k
    <3>1. OwnerOf(e) = f
      BY <1>5, OwnerOfEntry
    <3>2. index[f] = k - 1
      BY <1>1
    <3> HIDE DEF e, k
    <3> QED BY <1>2, <1>4, <1>6, <2>1, <3>1, <3>2
  <2>2. CASE i # k
    BY <1>1, <1>4, <1>6, <2>2 DEF PollSound
  <2> QED BY <2>1, <2>2
<1>11. \A g \in Fds \ channels' : index'[g] = kNew
  BY <1>1, <1>4 DEF PollSound
<1>12. ASSUME NEW g \in channels'
       PROVE  /\ index'[g] \in 0..(Len(pollfds') - 1)
              /\ pollfds'[index'[g] + 1].events = events'[g]
              /\ \/ pollfds'[index'[g] + 1].fd = g
                 \/ pollfds'[index'[g] + 1].fd = Negated(g) /\ events'[g] = {}
              /\ updates'[g] = 2 /\ events'[g] = {} => pollfds'[index'[g] + 1].fd = Negated(g)
  <2>1. CASE g = f
    <3>1. pollfds'[index'[g] + 1] = e /\ index'[g] \in 0..(Len(pollfds') - 1)
      BY <1>3, <1>4, <1>6, <2>1
    <3> HIDE DEF e
    <3> QED BY <1>5, <1>8, <2>1, <3>1
  <2>2. CASE g # f
    <3>1. g \in channels /\ g \in Fds
      BY <1>1, <1>4
    <3>2. /\ index[g] \in 0..(n - 1) /\ index'[g] = index[g]
          /\ events'[g] = events[g] /\ updates'[g] = updates[g]
      BY <1>1, <1>4, <1>8, <1>9, <2>2, <3>1 DEF PollSound
    <3>3. index[g] # index[f]
      <4>1. OwnerOf(pollfds[k]) = f
        BY <1>3, OwnerOfEntry
      <4>2. OwnerOf(pollfds[index[g] + 1]) = g
        BY <1>1, <3>1, OwnerOfEntry DEF PollSound
      <4> QED BY <2>2, <4>1, <4>2
    <3>4. index[g] + 1 \in 1..n /\ index[g] + 1 # k
      BY <1>1, <1>3, <3>1, <3>2, <3>3
    <3>5. pollfds'[index'[g] + 1] = pollfds[index[g] + 1]
      <4> HIDE DEF k
      <4> QED BY <1>6, <3>2, <3>4
    <3> QED BY <1>1, <1>6, <3>1, <3>2, <3>5 DEF PollSound
  <2> QED BY <2>1, <2>2
<1>13. PollSound'
  <2> HIDE DEF e, k
  <2> QED BY <1>6, <1>10, <1>11, <1>12 DEF PollSound
<1> QED BY <1>1, <1>2, <1>4, <1>7, <1>13 DEF PollersInv

\* EPollPoller.cc: a channel that is new or was taken out goes to the kernel.
LEMMA EpollAddStep ==
    ASSUME PollersInv, kind = "epoll", NEW f \in Fds, NEW evs \in SUBSET Events,
           Update(f, evs), index[f] \in {kNew, kDeleted}, EpollAdd(f, evs)
    PROVE  PollersInv' /\ failed' = failed /\ channels' = channels \cup {f}
<1>1. /\ PollersType /\ MapSound /\ EpollSound /\ kind' = "epoll"
      /\ index \in [Fds -> Int]
  BY DEF PollersInv, PollersType, Update
<1>2. /\ failed' = failed /\ channels' = channels \cup {f}
      /\ index' = [index EXCEPT ![f] = kAdded] /\ kernel' = Watch(f, evs)
      /\ events' = [events EXCEPT ![f] = evs]
  BY <1>1 DEF EpollAdd, Assert, Update, EpollSound
<1>3. index' \in [Fds -> Int] /\ index'[f] = kAdded
      /\ \A g \in Fds : g # f => index'[g] = index[g]
  BY <1>1, <1>2 DEF kAdded
<1>4. PollersType' /\ MapSound'
  BY <1>1, <1>2, <1>3, UpdateCommon
<1>5. events'[f] = evs /\ \A g \in Fds : g # f => events'[g] = events[g]
  BY <1>1, <1>2 DEF PollersType
<1>6. /\ DOMAIN kernel' = DOMAIN kernel \cup {f} /\ kernel'[f] = evs
      /\ \A g \in DOMAIN kernel : g # f => kernel'[g] = kernel[g]
  BY <1>2 DEF Watch
<1>7. EpollSound'
  <2>1. ASSUME NEW g \in Fds
        PROVE  /\ index'[g] \in {kNew, kAdded, kDeleted}
               /\ index'[g] = kNew <=> g \notin channels'
               /\ index'[g] = kDeleted => events'[g] = {}
               /\ index'[g] = kAdded <=> g \in DOMAIN kernel'
    <3>1. CASE g = f
      BY <1>2, <1>3, <1>6, <3>1 DEF kNew, kAdded, kDeleted
    <3>2. CASE g # f
      BY <1>1, <1>2, <1>3, <1>5, <1>6, <3>2 DEF EpollSound
    <3> QED BY <3>1, <3>2
  <2>2. DOMAIN kernel' \subseteq Fds
    BY <1>1, <1>6 DEF EpollSound
  <2>3. ASSUME NEW g \in DOMAIN kernel'
        PROVE  kernel'[g] = events'[g]
    BY <1>1, <1>5, <1>6 DEF EpollSound
  <2> QED BY <2>1, <2>2, <2>3 DEF EpollSound
<1> QED BY <1>1, <1>2, <1>4, <1>7 DEF PollersInv

\* EPollPoller.cc: one the kernel watches is modified there, or taken out when it
\* asks for nothing.
LEMMA EpollModifyStep ==
    ASSUME PollersInv, kind = "epoll", NEW f \in Fds, NEW evs \in SUBSET Events,
           Update(f, evs), index[f] = kAdded, EpollModify(f, evs)
    PROVE  PollersInv' /\ failed' = failed /\ channels' = channels \cup {f}
<1>1. /\ PollersType /\ MapSound /\ EpollSound /\ kind' = "epoll"
      /\ index \in [Fds -> Int]
  BY DEF PollersInv, PollersType, Update
<1>2. f \in channels /\ f \in DOMAIN kernel
  BY <1>1 DEF EpollSound, kNew, kAdded
<1>3. /\ failed' = failed /\ channels' = channels
      /\ events' = [events EXCEPT ![f] = evs]
  BY <1>2 DEF EpollModify, Assert, Update
<1>4. events'[f] = evs /\ \A g \in Fds : g # f => events'[g] = events[g]
  BY <1>1, <1>3 DEF PollersType
<1>5. CASE evs = {}
  <2>1. kernel' = Unwatch(f) /\ index' = [index EXCEPT ![f] = kDeleted]
    BY <1>5 DEF EpollModify
  <2>2. index' \in [Fds -> Int] /\ index'[f] = kDeleted
        /\ \A g \in Fds : g # f => index'[g] = index[g]
    BY <1>1, <2>1 DEF kDeleted
  <2>3. /\ DOMAIN kernel' = DOMAIN kernel \ {f}
        /\ \A g \in DOMAIN kernel : g # f => kernel'[g] = kernel[g]
    BY <2>1 DEF Unwatch
  <2>4. PollersType' /\ MapSound'
    BY <1>1, <1>2, <1>3, <2>2, UpdateCommon
  <2>5. EpollSound'
    <3>1. ASSUME NEW g \in Fds
          PROVE  /\ index'[g] \in {kNew, kAdded, kDeleted}
                 /\ index'[g] = kNew <=> g \notin channels'
                 /\ index'[g] = kDeleted => events'[g] = {}
                 /\ index'[g] = kAdded <=> g \in DOMAIN kernel'
      <4>1. CASE g = f
        BY <1>2, <1>3, <1>4, <1>5, <2>2, <2>3, <4>1 DEF kNew, kAdded, kDeleted
      <4>2. CASE g # f
        BY <1>1, <1>3, <1>4, <2>2, <2>3, <4>2 DEF EpollSound
      <4> QED BY <4>1, <4>2
    <3>2. DOMAIN kernel' \subseteq Fds
      BY <1>1, <2>3 DEF EpollSound
    <3>3. ASSUME NEW g \in DOMAIN kernel'
          PROVE  kernel'[g] = events'[g]
      BY <1>1, <1>4, <2>3 DEF EpollSound
    <3> QED BY <3>1, <3>2, <3>3 DEF EpollSound
  <2> QED BY <1>1, <1>2, <1>3, <2>4, <2>5 DEF PollersInv
<1>6. CASE evs # {}
  <2>1. kernel' = Watch(f, evs) /\ index' = index
    BY <1>6 DEF EpollModify
  <2>2. /\ DOMAIN kernel' = DOMAIN kernel /\ kernel'[f] = evs
        /\ \A g \in DOMAIN kernel : g # f => kernel'[g] = kernel[g]
    BY <1>2, <2>1 DEF Watch
  <2>3. PollersType' /\ MapSound'
    BY <1>1, <1>2, <1>3, <2>1, UpdateCommon
  <2>4. EpollSound'
    <3>1. ASSUME NEW g \in Fds
          PROVE  index'[g] = kDeleted => events'[g] = {}
      <4>1. CASE g = f
        BY <2>1, <4>1 DEF kAdded, kDeleted
      <4>2. CASE g # f
        BY <1>1, <1>4, <2>1, <4>2 DEF EpollSound
      <4> QED BY <4>1, <4>2
    <3>2. ASSUME NEW g \in DOMAIN kernel'
          PROVE  kernel'[g] = events'[g]
      BY <1>1, <1>4, <2>2 DEF EpollSound
    <3> QED BY <1>1, <1>3, <2>1, <2>2, <3>1, <3>2 DEF EpollSound
  <2> QED BY <1>1, <1>2, <1>3, <2>3, <2>4 DEF PollersInv
<1> QED BY <1>5, <1>6

\* Every update keeps the invariant, fails no assertion and registers the channel.
LEMMA UpdateStep ==
    ASSUME PollersInv, NEW f \in Fds, NEW evs \in SUBSET Events, Update(f, evs)
    PROVE  PollersInv' /\ failed' = failed /\ channels' = channels \cup {f}
BY PollAddStep, PollModifyStep, EpollAddStep, EpollModifyStep DEF Update

-----------------------------------------------------------------------------
(* Channel::remove *)

\* What every removal does to the map and the channel, whichever the poller.
LEMMA RemoveCommon ==
    ASSUME PollersType, MapSound, NEW f \in Fds, Remove(f),
           channels' = channels \ {f}, index' \in [Fds -> Int]
    PROVE  PollersType' /\ MapSound'
<1>1. /\ UNCHANGED <<kind, events, room>> /\ events[f] = {}
      /\ alive' = [alive EXCEPT ![f] = FALSE] /\ updates' = [updates EXCEPT ![f] = 0]
  BY DEF Remove
<1>2. alive' \in [Fds -> BOOLEAN] /\ \A g \in Fds : g # f => alive'[g] = alive[g]
  BY <1>1 DEF PollersType
<1>3. updates' \in [Fds -> 0..2] /\ updates'[f] = 0
      /\ \A g \in Fds : g # f => updates'[g] = updates[g]
  BY <1>1 DEF PollersType
<1>4. PollersType'
  BY <1>1, <1>2, <1>3 DEF PollersType
<1>5. ASSUME NEW g \in Fds
      PROVE  /\ g \in channels' <=> updates'[g] > 0
             /\ g \in channels' => alive'[g]
             /\ g \notin channels' => events'[g] = {}
  <2>1. CASE g = f
    BY <1>1, <1>3, <2>1
  <2>2. CASE g # f
    BY <1>1, <1>2, <1>3, <2>2 DEF MapSound
  <2> QED BY <2>1, <2>2
<1> QED BY <1>4, <1>5 DEF MapSound

\* EPollPoller.cc: the kernel forgets the descriptor if it still watches it.
LEMMA EpollRemoveStep ==
    ASSUME PollersInv, kind = "epoll", NEW f \in Fds, Remove(f), EpollRemove(f)
    PROVE  PollersInv' /\ failed' = failed /\ channels' = channels \ {f}
<1>1. /\ PollersType /\ MapSound /\ EpollSound /\ kind' = "epoll"
      /\ index \in [Fds -> Int] /\ f \in channels /\ events' = events
  BY DEF PollersInv, PollersType, Remove, MapSound
<1>2. /\ failed' = failed /\ channels' = channels \ {f}
      /\ index' = [index EXCEPT ![f] = kNew]
      /\ kernel' = IF index[f] = kAdded THEN Unwatch(f) ELSE kernel
  <2>1. index[f] \in {kAdded, kDeleted}
    BY <1>1 DEF EpollSound
  <2> QED BY <1>1, <2>1 DEF EpollRemove, Assert
<1>3. index' \in [Fds -> Int] /\ index'[f] = kNew
      /\ \A g \in Fds : g # f => index'[g] = index[g]
  BY <1>1, <1>2 DEF kNew
<1>4. PollersType' /\ MapSound'
  BY <1>1, <1>2, <1>3, RemoveCommon
<1>5. /\ DOMAIN kernel' = DOMAIN kernel \ {f}
      /\ \A g \in DOMAIN kernel : g # f => kernel'[g] = kernel[g]
  <2>1. CASE index[f] = kAdded
    BY <1>2, <2>1 DEF Unwatch
  <2>2. CASE index[f] # kAdded
    BY <1>1, <1>2, <2>2 DEF EpollSound
  <2> QED BY <2>1, <2>2
<1>6. EpollSound'
  <2>1. ASSUME NEW g \in Fds
        PROVE  /\ index'[g] \in {kNew, kAdded, kDeleted}
               /\ index'[g] = kNew <=> g \notin channels'
               /\ index'[g] = kDeleted => events'[g] = {}
               /\ index'[g] = kAdded <=> g \in DOMAIN kernel'
    <3>1. CASE g = f
      BY <1>2, <1>3, <1>5, <3>1 DEF kNew, kAdded, kDeleted
    <3>2. CASE g # f
      BY <1>1, <1>2, <1>3, <1>5, <3>2 DEF EpollSound
    <3> QED BY <3>1, <3>2
  <2>2. DOMAIN kernel' \subseteq Fds
    BY <1>1, <1>5 DEF EpollSound
  <2>3. ASSUME NEW g \in DOMAIN kernel'
        PROVE  kernel'[g] = events'[g]
    BY <1>1, <1>5 DEF EpollSound
  <2> QED BY <2>1, <2>2, <2>3 DEF EpollSound
<1> QED BY <1>1, <1>2, <1>4, <1>6 DEF PollersInv

\* PollPoller.cc: iter_swap with the last entry, then pop_back.
LEMMA SwapAndPop ==
    ASSUME NEW S, NEW s \in Seq(S), NEW k \in 1..Len(s)
    PROVE  LET moved == SubSeq([s EXCEPT ![k] = s[Len(s)]], 1, Len(s) - 1)
           IN  /\ moved \in Seq(S) /\ Len(moved) = Len(s) - 1
               /\ \A i \in 1..(Len(s) - 1) : moved[i] = IF i = k THEN s[Len(s)] ELSE s[i]
<1> DEFINE n == Len(s)
           t == [s EXCEPT ![k] = s[n]]
<1>1. n \in Nat /\ n \in 1..n /\ s[n] \in S
  OBVIOUS
<1>2. /\ t \in Seq(S) /\ Len(t) = n
      /\ \A i \in 1..n : t[i] = IF i = k THEN s[n] ELSE s[i]
  BY <1>1, ExceptSeq
<1> HIDE DEF t
<1>3. \A i \in 1..(n - 1) : t[i] \in S /\ i \in 1..n /\ 1 + i - 1 = i
  BY <1>1, <1>2
<1>4. 1 \in Int /\ n - 1 \in Int /\ (n - 1) - 1 + 1 = n - 1
      /\ (IF 1 <= n - 1 THEN (n - 1) - 1 + 1 ELSE 0) = n - 1
  <2>1. n >= 1
    BY <1>1
  <2> HIDE DEF n
  <2> QED BY <1>1, <2>1
<1>5. /\ SubSeq(t, 1, n - 1) \in Seq(S) /\ Len(SubSeq(t, 1, n - 1)) = n - 1
      /\ \A i \in 1..(n - 1) : SubSeq(t, 1, n - 1)[i] = t[i]
  <2>1. /\ SubSeq(t, 1, n - 1) \in Seq(S)
        /\ Len(SubSeq(t, 1, n - 1)) = IF 1 <= n - 1 THEN (n - 1) - 1 + 1 ELSE 0
        /\ \A i \in 1..((n - 1) - 1 + 1) : SubSeq(t, 1, n - 1)[i] = t[1 + i - 1]
    BY <1>3, <1>4, SubSeqProperties
  <2> QED BY <1>3, <1>4, <2>1
<1> QED BY <1>2, <1>3, <1>5 DEF t

\* PollPoller.cc: the last entry moves to the place that becomes free, and the
\* channel it belongs to learns of it.
LEMMA PollRemoveStep ==
    ASSUME PollersInv, kind = "poll", NEW f \in Fds, Remove(f), PollRemove(f)
    PROVE  /\ PollersInv' /\ channels' = channels \ {f}
           /\ failed' \subseteq failed \cup {"ignored when new"}
<1>1. /\ PollersType /\ MapSound /\ PollSound /\ kind' = "poll"
      /\ index \in [Fds -> Int] /\ channels \subseteq Fds
      /\ f \in channels /\ events' = events /\ events[f] = {}
      /\ updates[f] \in {1, 2} /\ updates' = [updates EXCEPT ![f] = 0]
  BY DEF PollersInv, PollersType, Remove, MapSound
<1> DEFINE place == index[f]
           n == Len(pollfds)
           last == OwnerOf(pollfds[n])
<1>2. /\ pollfds \in Seq([fd : Int, events : SUBSET Events]) /\ n \in Nat
      /\ place \in 0..(n - 1) /\ n >= 1 /\ n \in 1..n /\ place < n
      /\ place + 1 \in 1..n
  BY <1>1 DEF PollSound
<1>3. /\ channels' = channels \ {f}
      /\ pollfds' = SubSeq([pollfds EXCEPT ![place + 1] = pollfds[n]], 1, n - 1)
      /\ index' = [(IF place = n - 1 THEN index ELSE MovedIndex(place)) EXCEPT ![f] = kNew]
  BY DEF PollRemove
<1>4. failed' \subseteq failed \cup {"ignored when new"}
  <2>1. failed' = failed
           \cup (IF f \in channels /\ place < n THEN {} ELSE {"remove"})
           \cup (IF pollfds[place + 1] = [fd |-> Negated(f), events |-> {}] THEN {}
                 ELSE IF updates[f] = 1 THEN {"ignored when new"} ELSE {"ignored"})
    BY DEF PollRemove
  <2>2. updates[f] = 2 => pollfds[place + 1] = [fd |-> Negated(f), events |-> {}]
    <3>1. pollfds[place + 1] \in [fd : Int, events : SUBSET Events]
      <4> HIDE DEF place
      <4> QED BY <1>2, ElementOfSeq
    <3>2. updates[f] = 2 => /\ pollfds[place + 1].fd = Negated(f)
                            /\ pollfds[place + 1].events = {}
      BY <1>1 DEF PollSound
    <3> QED BY <3>1, <3>2
  <2> QED BY <1>1, <1>2, <2>1, <2>2
<1>5. last \in channels /\ last \in Fds /\ index[last] = n - 1
      /\ last = IF pollfds[n].fd < 0 THEN Negated(pollfds[n].fd) ELSE pollfds[n].fd
  BY <1>1, <1>2 DEF PollSound, OwnerOf
<1>6. /\ pollfds' \in Seq([fd : Int, events : SUBSET Events]) /\ Len(pollfds') = n - 1
      /\ \A i \in 1..(n - 1) :
            pollfds'[i] = IF i = place + 1 THEN pollfds[n] ELSE pollfds[i]
  <2> HIDE DEF place
  <2> QED BY <1>2, <1>3, SwapAndPop
<1>7. \A g \in channels : g # f => index[g] # place
  <2>1. OwnerOf(pollfds[place + 1]) = f
    <3>1. pollfds[place + 1].fd \in {f, Negated(f)}
      BY <1>1 DEF PollSound
    <3> QED BY <3>1, OwnerOfEntry
  <2>2. \A g \in channels : OwnerOf(pollfds[index[g] + 1]) = g
    BY <1>1, OwnerOfEntry DEF PollSound
  <2> QED BY <2>1, <2>2
<1>8. place = n - 1 <=> last = f
  BY <1>1, <1>5, <1>7
<1>9. /\ index' \in [Fds -> Int] /\ index'[f] = kNew
      /\ \A g \in Fds : g # f => index'[g] = IF g = last THEN place ELSE index[g]
  <2>1. CASE place = n - 1
    <3>1. index' = [index EXCEPT ![f] = kNew]
      BY <1>3, <2>1
    <3> QED BY <1>1, <1>8, <2>1, <3>1 DEF kNew
  <2>2. CASE place # n - 1
    <3>1. MovedIndex(place) = [index EXCEPT ![last] = place]
      BY <1>5 DEF MovedIndex
    <3>2. index' = [[index EXCEPT ![last] = place] EXCEPT ![f] = kNew]
      BY <1>3, <2>2, <3>1
    <3> HIDE DEF last
    <3> QED BY <1>1, <1>5, <3>2 DEF kNew
  <2> QED BY <2>1, <2>2
<1>10. PollersType' /\ MapSound'
  BY <1>1, <1>3, <1>9, RemoveCommon
<1>11. \A g \in Fds : g # f => updates'[g] = updates[g]
  BY <1>1 DEF PollersType
<1> HIDE DEF last
<1>12. ASSUME NEW i \in 1..(n - 1)
       PROVE  OwnerOf(pollfds'[i]) \in channels' /\ index'[OwnerOf(pollfds'[i])] = i - 1
  <2>1. CASE i = place + 1
    <3>1. pollfds'[i] = pollfds[n] /\ OwnerOf(pollfds'[i]) = last
      BY <1>6, <2>1 DEF last
    <3>2. last # f
      BY <1>2, <1>8, <2>1
    <3>3. index'[last] = place /\ last \in channels'
      BY <1>3, <1>5, <1>9, <3>2
    <3> QED BY <1>1, <2>1, <3>1, <3>3
  <2>2. CASE i # place + 1
    <3>1. pollfds'[i] = pollfds[i] /\ i \in 1..n
      <4>1. i \in 1..n
        BY <1>2
      <4> HIDE DEF place
      <4> QED BY <1>6, <2>2, <4>1
    <3> DEFINE g == OwnerOf(pollfds[i])
    <3>2. g \in channels /\ g \in Fds /\ index[g] = i - 1
      BY <1>1, <3>1 DEF PollSound
    <3>3. g # f /\ g # last
      BY <1>1, <1>2, <1>5, <2>2, <3>2
    <3> QED BY <1>3, <1>9, <3>1, <3>2, <3>3
  <2> QED BY <2>1, <2>2
<1>13. \A g \in Fds \ channels' : index'[g] = kNew
  BY <1>1, <1>3, <1>5, <1>9 DEF PollSound
<1>14. ASSUME NEW g \in channels'
       PROVE  /\ index'[g] \in 0..((n - 1) - 1)
              /\ pollfds'[index'[g] + 1].events = events'[g]
              /\ \/ pollfds'[index'[g] + 1].fd = g
                 \/ pollfds'[index'[g] + 1].fd = Negated(g) /\ events'[g] = {}
              /\ updates'[g] = 2 /\ events'[g] = {} => pollfds'[index'[g] + 1].fd = Negated(g)
  <2>1. g \in channels /\ g # f /\ g \in Fds /\ updates'[g] = updates[g]
    BY <1>1, <1>3, <1>11
  <2>2. /\ index'[g] \in 0..((n - 1) - 1)
        /\ pollfds'[index'[g] + 1] = pollfds[index[g] + 1]
    <3>1. CASE g = last
      <4>1. index'[g] = place /\ index[g] = n - 1 /\ place # n - 1
        BY <1>5, <1>8, <1>9, <2>1, <3>1
      <4>2. place + 1 \in 1..(n - 1) /\ place \in 0..((n - 1) - 1) /\ (n - 1) + 1 = n
        BY <1>2, <4>1
      <4>3. pollfds'[place + 1] = pollfds[n]
        BY <1>6, <4>2
      <4> QED BY <4>1, <4>2, <4>3
    <3>2. CASE g # last
      <4>1. index'[g] = index[g] /\ index[g] \in 0..(n - 1) /\ index[g] # place
        BY <1>1, <1>7, <1>9, <2>1, <3>2 DEF PollSound
      <4>2. index[g] # n - 1
        <5>1. OwnerOf(pollfds[index[g] + 1]) = g
          BY <1>1, <2>1, OwnerOfEntry DEF PollSound
        <5>2. index[g] = n - 1 => index[g] + 1 = n
          BY <1>2
        <5> QED BY <3>2, <5>1, <5>2 DEF last
      <4>3. /\ index[g] + 1 \in 1..(n - 1) /\ index[g] \in 0..((n - 1) - 1)
            /\ index[g] + 1 # place + 1
        BY <1>2, <4>1, <4>2
      <4> QED BY <1>6, <4>1, <4>3
    <3> QED BY <3>1, <3>2
  <2> QED BY <1>1, <2>1, <2>2 DEF PollSound
<1>15. PollSound'
  <2>1. 1..Len(pollfds') = 1..(n - 1) /\ Len(pollfds') - 1 = (n - 1) - 1
    BY <1>6
  <2> QED BY <1>6, <1>12, <1>13, <1>14, <2>1 DEF PollSound
<1> QED BY <1>1, <1>3, <1>4, <1>10, <1>15 DEF PollersInv

\* Every removal keeps the invariant and fails at most the one assertion.
LEMMA RemoveStep ==
    ASSUME PollersInv, NEW f \in Fds, Remove(f)
    PROVE  /\ PollersInv' /\ channels' = channels \ {f}
           /\ failed' \subseteq failed \cup {"ignored when new"}
BY PollRemoveStep, EpollRemoveStep DEF Remove

-----------------------------------------------------------------------------
(* poll *)

\* What the kernel may say of f when it finds it ready for found[f].
Says(found, f) == found[f] \cap (events[f] \cup Always)

\* A report that Interest allows: only what registered channels have to say,
\* and something of it if one of them asked for anything.
Honest(found, reports) ==
    /\ \A a \in reports : \E f \in channels : a = <<f, Says(found, f)>> /\ Says(found, f) # {}
    /\ \A f \in channels : events[f] # {} /\ Says(found, f) # {} => reports # {}

\* PollPoller.cc: the entries of pollfds_ with revents are what the channels
\* have to say.
LEMMA PollHonest ==
    ASSUME PollersInv, kind = "poll", NEW found
    PROVE  Honest(found, PollReports(found))
<1> DEFINE revents(p) == IF p.fd < 0 THEN {} ELSE found[p.fd] \cap (p.events \cup Always)
<1>1. PollSound /\ channels \subseteq Fds
  BY DEF PollersInv, PollersType
<1>2. PollReports(found)
        = {<<pollfds[i].fd, revents(pollfds[i])>> :
              i \in {j \in 1..Len(pollfds) : revents(pollfds[j]) # {}}}
  BY DEF PollReports
<1>3. ASSUME NEW i \in 1..Len(pollfds), revents(pollfds[i]) # {}
      PROVE  /\ pollfds[i].fd \in channels
             /\ revents(pollfds[i]) = Says(found, pollfds[i].fd)
  <2>1. ~(pollfds[i].fd < 0)
    BY <1>3
  <2>2. pollfds[i].fd \in channels /\ index[pollfds[i].fd] = i - 1
    BY <1>1, <2>1 DEF PollSound, OwnerOf
  <2>3. (i - 1) + 1 = i
    OBVIOUS
  <2>4. pollfds[i].events = events[pollfds[i].fd]
    BY <1>1, <2>2, <2>3 DEF PollSound
  <2> QED BY <2>1, <2>2, <2>4 DEF Says
<1>4. ASSUME NEW a \in PollReports(found)
      PROVE  \E f \in channels : a = <<f, Says(found, f)>> /\ Says(found, f) # {}
  <2>1. PICK i \in 1..Len(pollfds) :
            revents(pollfds[i]) # {} /\ a = <<pollfds[i].fd, revents(pollfds[i])>>
    BY <1>2
  <2> HIDE DEF revents
  <2> QED BY <1>3, <2>1
<1>5. ASSUME NEW f \in channels, events[f] # {}, Says(found, f) # {}
      PROVE  PollReports(found) # {}
  <2> DEFINE k == index[f] + 1
  <2>1. /\ index[f] \in 0..(Len(pollfds) - 1) /\ pollfds[k].fd = f
        /\ pollfds[k].events = events[f]
    BY <1>1, <1>5 DEF PollSound
  <2>2. k \in 1..Len(pollfds)
    BY <1>1, <2>1 DEF PollSound
  <2>3. revents(pollfds[k]) = Says(found, f)
    <3>1. ~(f < 0)
      BY <1>1, NegatedFd
    <3> QED BY <2>1, <3>1 DEF Says
  <2> HIDE DEF k, revents
  <2>4. <<pollfds[k].fd, revents(pollfds[k])>> \in PollReports(found)
    BY <1>2, <1>5, <2>2, <2>3
  <2> QED BY <2>4
<1> QED BY <1>4, <1>5 DEF Honest

\* EPollPoller.cc: events_ has room for at least one of the descriptors that are
\* ready, and what it receives is what the channels have to say.
LEMMA EpollHonest ==
    ASSUME PollersInv, kind = "epoll", NEW found, NEW some \in EpollReports(found)
    PROVE  Honest(found, some)
<1> DEFINE revents(f) == found[f] \cap (kernel[f] \cup Always)
           full == {<<f, revents(f)>> : f \in {g \in DOMAIN kernel : revents(g) # {}}}
<1>1. /\ EpollSound /\ channels \subseteq Fds /\ room \in Nat \ {0}
      /\ events \in [Fds -> SUBSET Events]
  BY DEF PollersInv, PollersType
<1>2. /\ some \subseteq full
      /\ Cardinality(some) = IF Cardinality(full) < room THEN Cardinality(full) ELSE room
  BY DEF EpollReports
<1>3. ASSUME NEW f \in DOMAIN kernel
      PROVE  f \in channels /\ f \in Fds /\ revents(f) = Says(found, f)
  BY <1>1 DEF EpollSound, Says, kNew, kAdded
<1>4. \A a \in some : \E f \in channels : a = <<f, Says(found, f)>> /\ Says(found, f) # {}
  <2> SUFFICES ASSUME NEW a \in some
               PROVE  \E f \in channels : a = <<f, Says(found, f)>> /\ Says(found, f) # {}
    OBVIOUS
  <2>1. PICK f \in DOMAIN kernel : revents(f) # {} /\ a = <<f, revents(f)>>
    BY <1>2
  <2> HIDE DEF revents
  <2> QED BY <1>3, <2>1
<1>5. IsFiniteSet(full)
  <2> DEFINE all == Events \cup Always
  <2>1. IsFiniteSet(all)
    <3>1. all = (({} \cup {"IN"}) \cup {"OUT"}) \cup {"HUP"}
      BY DEF Events, Always
    <3> QED BY <3>1, FS_EmptySet, FS_AddElement
  <2>2. IsFiniteSet(SUBSET all) /\ IsFiniteSet(Fds)
    <3> HIDE DEF all
    <3>1. IsFiniteSet(SUBSET all)
      BY <2>1, FS_SUBSET
    <3>2. IsFiniteSet(Fds)
      BY FS_Interval DEF Fds
    <3> QED BY <3>1, <3>2
  <2>3. IsFiniteSet(Fds \X SUBSET all)
    BY <2>2, FS_Product
  <2>4. full \subseteq Fds \X SUBSET all
    <3>1. \A f \in DOMAIN kernel : f \in Fds /\ revents(f) \in SUBSET all
      BY <1>1, <1>3 DEF EpollSound
    <3> HIDE DEF revents
    <3> QED BY <3>1
  <2> QED BY <2>3, <2>4, FS_Subset
<1>6. ASSUME NEW f \in channels, events[f] # {}, Says(found, f) # {}
      PROVE  some # {}
  <2>1. f \in DOMAIN kernel
    BY <1>1, <1>6 DEF EpollSound
  <2>2. revents(f) # {}
    BY <1>3, <1>6, <2>1
  <2>3. full # {}
    <3> HIDE DEF revents
    <3>1. <<f, revents(f)>> \in full
      BY <2>1, <2>2
    <3> QED BY <3>1
  <2> HIDE DEF full
  <2>4. Cardinality(full) \in Nat /\ Cardinality(full) # 0
    BY <1>5, <2>3, FS_CardinalityType, FS_EmptySet
  <2>5. Cardinality(some) # 0
    BY <1>1, <1>2, <2>4
  <2> QED BY <2>5, FS_EmptySet
<1> QED BY <1>4, <1>6 DEF Honest

\* poll keeps the invariant, finds every descriptor in channels_, and reports
\* what Interest allows.
LEMMA PollStep ==
    ASSUME PollersInv, Poll
    PROVE  PollersInv' /\ failed' = failed /\ I!Poll
<1>1. PICK found \in [Fds -> Readiness] :
         /\ ready' = found
         /\ activeChannels' \in IF kind = "poll" THEN {PollReports(found)}
                                ELSE EpollReports(found)
         /\ Assert(\A a \in activeChannels' : a[1] \in channels, "fill")
         /\ room' = IF kind = "epoll" /\ activeChannels' # {}
                         /\ Cardinality(activeChannels') = room /\ room <= MaxFd
                    THEN 2 * room ELSE room
  BY DEF Poll
<1>2. UNCHANGED <<kind, alive, events, index, channels, pollfds, kernel, updates>>
  BY DEF Poll, tables
<1>3. Honest(found, activeChannels')
  <2>1. kind \in {"poll", "epoll"}
    BY DEF PollersInv, PollersType
  <2> QED BY <1>1, <2>1, PollHonest, EpollHonest
<1>4. \A a \in activeChannels' : a[1] \in channels
  BY <1>3 DEF Honest
<1>5. failed' = failed
  BY <1>1, <1>4 DEF Assert
<1>6. room' \in Nat \ {0}
  <2>1. room \in Nat \ {0}
    BY DEF PollersInv, PollersType
  <2>2. room' = 2 * room \/ room' = room
    BY <1>1
  <2> QED BY <2>1, <2>2
<1>7. PollersInv'
  <2>1. PollersType'
    BY <1>2, <1>6 DEF PollersInv, PollersType
  <2>2. MapSound' /\ (kind' = "poll" => PollSound') /\ (kind' = "epoll" => EpollSound')
    BY <1>2 DEF PollersInv, MapSound, PollSound, EpollSound
  <2> QED BY <2>1, <2>2 DEF PollersInv
<1>8. I!Poll
  <2> DEFINE interest == [f \in Fds |-> IF f \in channels THEN events[f] ELSE {"unregistered"}]
             what == {f \in Fds : I!Report(f, ready'[f]) # {}}
  <2>1. channels \subseteq Fds /\ events \in [Fds -> SUBSET Events]
    BY DEF PollersInv, PollersType
  <2>2. interest' = interest
    BY <1>2
  <2>3. \A f \in Fds : I!Report(f, ready'[f]) = IF f \in channels THEN Says(found, f) ELSE {}
    BY <1>1, <2>1 DEF I!Report, I!Unregistered, Says, Events
  <2>4. activeChannels' \subseteq {<<f, I!Report(f, ready'[f])>> : f \in what}
    <3> SUFFICES ASSUME NEW a \in activeChannels'
                 PROVE  \E f \in what : a = <<f, I!Report(f, ready'[f])>>
      OBVIOUS
    <3>1. PICK f \in channels : a = <<f, Says(found, f)>> /\ Says(found, f) # {}
      BY <1>3 DEF Honest
    <3> QED BY <2>1, <2>3, <3>1
  <2>5. (\E f \in what : interest[f] # {}) => activeChannels' # {}
    <3> SUFFICES ASSUME NEW f \in what, interest[f] # {}
                 PROVE  activeChannels' # {}
      OBVIOUS
    <3>1. f \in channels /\ events[f] # {} /\ Says(found, f) # {}
      BY <2>3
    <3> QED BY <1>3, <3>1 DEF Honest
  <2> QED BY <2>2, <2>4, <2>5 DEF I!Poll
<1> QED BY <1>5, <1>7, <1>8

-----------------------------------------------------------------------------
(* The theorems *)

\* Channel.h: enabling and disabling are updates to a set of events.
LEMMA EnableIsUpdate ==
    ASSUME PollersInv, NEW f \in Fds,
           EnableReading(f) \/ EnableWriting(f) \/ DisableWriting(f) \/ DisableAll(f)
    PROVE  \E evs \in SUBSET Events : Update(f, evs)
<1>1. /\ events[f] \cup {"IN"} \in SUBSET Events /\ events[f] \cup {"OUT"} \in SUBSET Events
      /\ events[f] \ {"OUT"} \in SUBSET Events /\ {} \in SUBSET Events
  BY DEF PollersInv, PollersType, Events
<1> QED BY <1>1 DEF EnableReading, EnableWriting, DisableWriting, DisableAll

\* Every step keeps the invariant, and of the assertions only the one on a
\* channel that is ignored when new can fail.
LEMMA PollersStep ==
    PollersInv /\ AssertsHold /\ [Next]_vars => PollersInv' /\ AssertsHold'
<1> DEFINE Goal == PollersInv' /\ AssertsHold'
<1> SUFFICES ASSUME PollersInv, AssertsHold, [Next]_vars
             PROVE  Goal
  OBVIOUS
<1> USE DEF AssertsHold
<1>1. CASE Poll
  BY <1>1, PollStep
<1>2. CASE Handled \/ UNCHANGED vars
  <2>1. UNCHANGED <<kind, alive, events, index, channels, pollfds, kernel, room,
                    updates, failed>>
    BY <1>2 DEF Handled, vars, tables
  <2> QED BY <2>1 DEF PollersInv, PollersType, MapSound, PollSound, EpollSound
<1>3. ASSUME NEW f \in Fds, NewChannel(f)
      PROVE  Goal
  <2>1. /\ alive' = [alive EXCEPT ![f] = TRUE]
        /\ UNCHANGED <<kind, events, index, channels, pollfds, kernel, room, updates, failed>>
    BY <1>3 DEF NewChannel, tables
  <2>2. PollersType'
    BY <2>1 DEF PollersInv, PollersType
  <2>3. MapSound'
    <3>1. \A g \in Fds : alive[g] => alive'[g]
      BY <2>1 DEF PollersInv, PollersType
    <3> QED BY <2>1, <3>1 DEF PollersInv, MapSound
  <2>4. (kind' = "poll" => PollSound') /\ (kind' = "epoll" => EpollSound')
    BY <2>1 DEF PollersInv, PollSound, EpollSound
  <2> QED BY <2>1, <2>2, <2>3, <2>4 DEF PollersInv
<1>4. ASSUME NEW f \in Fds, NEW evs \in SUBSET Events, Update(f, evs)
      PROVE  Goal
  BY <1>4, UpdateStep
<1>5. ASSUME NEW f \in Fds,
             \/ EnableReading(f) \/ EnableWriting(f)
             \/ DisableWriting(f) \/ DisableAll(f)
      PROVE  Goal
  BY <1>4, <1>5, EnableIsUpdate
<1>6. ASSUME NEW f \in Fds, Remove(f)
      PROVE  Goal
  BY <1>6, RemoveStep
<1> HIDE DEF Goal
<1> QED BY <1>1, <1>2, <1>3, <1>4, <1>5, <1>6 DEF Next, ChannelStep

\* The invariant and the assertions hold in every reachable state.
LEMMA PollersCorrect == Spec => [](PollersInv /\ AssertsHold)
<1>1. Init => PollersInv /\ AssertsHold
  BY InitPollersInv DEF Init, AssertsHold
<1> QED BY <1>1, PollersStep, PTL DEF Spec

\* PollPoller.cc and EPollPoller.cc: for any number of descriptors, no sequence of
\* registrations, changes, removals and reuse breaks an assertion of either poller,
\* but for the one on a channel whose only update disabled it.
THEOREM PollerAsserts == Spec => []AssertsHold
BY PollersCorrect, PTL

\* The abstract interest of f is what its channel asked for, if it is registered.
LEMMA InterestUpdate ==
    ASSUME PollersInv, NEW f \in Fds, NEW evs \in SUBSET Events, Update(f, evs)
    PROVE  I!Update(f, evs)
<1>1. /\ channels' = channels \cup {f} /\ events' = [events EXCEPT ![f] = evs]
      /\ UNCHANGED <<ready, activeChannels>>
  BY UpdateStep DEF Update
<1>2. events \in [Fds -> SUBSET Events]
  BY DEF PollersInv, PollersType
<1> QED BY <1>1, <1>2 DEF I!Update

\* A removed descriptor is unregistered.
LEMMA InterestRemove ==
    ASSUME PollersInv, NEW f \in Fds, Remove(f)
    PROVE  I!Remove(f)
<1>1. channels' = channels \ {f} /\ UNCHANGED <<events, ready, activeChannels>>
  BY RemoveStep DEF Remove
<1> QED BY <1>1 DEF I!Remove, I!Unregistered

\* Every step of the pollers is a step of Interest or leaves it unchanged.
LEMMA InterestStep ==
    PollersInv /\ [Next]_vars
        => [I!Next]_<<[f \in Fds |-> IF f \in channels THEN events[f] ELSE {"unregistered"}],
                      ready, activeChannels>>
<1> DEFINE interest == [f \in Fds |-> IF f \in channels THEN events[f] ELSE {"unregistered"}]
           Goal == [I!Next]_<<interest, ready, activeChannels>>
<1> SUFFICES ASSUME PollersInv, [Next]_vars
             PROVE  Goal
  OBVIOUS
<1>1. CASE Poll
  BY <1>1, PollStep DEF I!Next
<1>2. CASE Handled
  <2>1. I!Handled
    BY <1>2 DEF Handled, I!Handled, NothingReady, I!NothingReady, tables
  <2> QED BY <2>1 DEF I!Next
<1>3. ASSUME NEW f \in Fds, NewChannel(f)
      PROVE  Goal
  BY <1>3 DEF NewChannel, tables
<1>4. ASSUME NEW f \in Fds, NEW evs \in SUBSET Events, Update(f, evs)
      PROVE  Goal
  BY <1>4, InterestUpdate DEF I!Next
<1>5. ASSUME NEW f \in Fds,
             \/ EnableReading(f) \/ EnableWriting(f)
             \/ DisableWriting(f) \/ DisableAll(f)
      PROVE  Goal
  BY <1>4, <1>5, EnableIsUpdate
<1>6. ASSUME NEW f \in Fds, Remove(f)
      PROVE  Goal
  BY <1>6, InterestRemove DEF I!Next
<1>7. CASE UNCHANGED vars
  BY <1>7 DEF vars, tables
<1> HIDE DEF Goal
<1> QED BY <1>1, <1>2, <1>3, <1>4, <1>5, <1>6, <1>7 DEF Next, ChannelStep

\* Poller.h: whichever poller newDefaultPoller picks and for any number of
\* descriptors, poll reports what the registered channels asked for last.
THEOREM PollersImplementInterest == Spec => ImplementsInterest
<1>1. Init => I!Init
  BY DEF Init, I!Init, I!Unregistered, NothingReady, I!NothingReady
<1> QED BY <1>1, InterestStep, PollersCorrect, PTL DEF Spec, ImplementsInterest, I!Spec
=============================================================================
