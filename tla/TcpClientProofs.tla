-------------------------- MODULE TcpClientProofs --------------------------
(***************************************************************************)
(* Proofs about TcpClient and its Connector for any number of failures,    *)
(* connections and calls: the assertions, the lifetime of the Connector,   *)
(* and stop().  Everything is stated for a process that no assertion has   *)
(* ended.                                                                  *)
(***************************************************************************)
EXTENDS TcpClient, SequenceTheorems, TLAPS

USE ConnectorAssumption, ClientAssumption

-----------------------------------------------------------------------------
(* The functors of the loop *)

Names == {"start", "cancel", "reset", "connectDestroyed", "forceClose"}

\* The functor of Connector::start is the next to run.
StartsWith(q) == q # << >> /\ q[1][1] = "start"

\* A queue q of which b functors are left in this turn, in phase ph of the loop,
\* for a channel_ ch and a close callback cb: only the first functor can be
\* that of start, and it belongs to the turn; resetChannel is queued once, while
\* the channel waits for it, and runs in the same turn; forceClose comes with
\* the callback of a destroyed client.
QueueOK(q, b, ph, ch, cb) ==
    /\ q \in Seq(Names \X Nat) /\ b \in Nat
    /\ ph = "functors" => b <= Len(q) /\ (StartsWith(q) => b > 0)
    /\ \A k \in 2..Len(q) : q[k][1] # "start"
    /\ \A k \in 1..Len(q) :
          /\ q[k][1] = "reset" => /\ ch = "removed" /\ ph # "poll"
                                  /\ ph = "functors" => k <= b
          /\ q[k][1] = "forceClose" => cb = "detail"
    /\ \A j, k \in 1..Len(q) : q[j][1] = "reset" /\ q[k][1] = "reset" => j = k
    /\ ch = "removed" => \E k \in 1..Len(q) : q[k][1] = "reset"

\* What Append does to the places of a queue.
LEMMA Places ==
    ASSUME NEW S, NEW q \in Seq(S), NEW e \in S
    PROVE  /\ Append(q, e) \in Seq(S) /\ Append(q, e) # << >>
           /\ Len(q) \in Nat /\ Len(Append(q, e)) = Len(q) + 1
           /\ Append(q, e)[Len(q) + 1] = e
           /\ \A k \in 1..Len(q) : Append(q, e)[k] = q[k]
           /\ q # << >> => Len(q) > 0
<1>1. /\ Append(q, e) \in Seq(S) /\ Append(q, e) # << >>
      /\ Len(Append(q, e)) = Len(q) + 1 /\ Append(q, e)[Len(q) + 1] = e
      /\ \A k \in 1..Len(q) : Append(q, e)[k] = q[k]
  BY AppendProperties
<1>2. Len(q) \in Nat /\ (q # << >> => Len(q) > 0)
  OBVIOUS
<1> QED BY <1>1, <1>2

\* A functor that is neither startInLoop nor resetChannel is queued.
LEMMA Push ==
    ASSUME NEW q, NEW b, NEW ph, NEW ch, NEW cb, NEW cb2, QueueOK(q, b, ph, ch, cb),
           NEW n \in {"cancel", "connectDestroyed", "forceClose"}, NEW a \in Nat,
           cb2 = cb \/ cb2 = "detail", n = "forceClose" => cb2 = "detail"
    PROVE  /\ QueueOK(Append(q, <<n, a>>), b, ph, ch, cb2)
           /\ StartsWith(Append(q, <<n, a>>)) <=> StartsWith(q)
<1> DEFINE e == <<n, a>>
           r == Append(q, e)
<1>1. q \in Seq(Names \X Nat) /\ e \in Names \X Nat /\ e[1] = n /\ b \in Nat
  BY DEF QueueOK, Names
<1> HIDE DEF e
<1>2. /\ r \in Seq(Names \X Nat) /\ r # << >> /\ Len(q) \in Nat /\ Len(r) = Len(q) + 1
      /\ r[Len(q) + 1] = e /\ \A k \in 1..Len(q) : r[k] = q[k]
      /\ q # << >> => Len(q) > 0
  BY <1>1, Places
<1> HIDE DEF r
<1>3. \A k \in 1..Len(r) : k \in 1..Len(q) \/ k = Len(q) + 1
  BY <1>2
<1>4. \A k \in 1..Len(q) : k \in 1..Len(r)
  BY <1>2
<1>5. StartsWith(r) <=> StartsWith(q)
  <2>1. CASE q = << >>
    <3>1. r[1] = e
      BY <1>2, <2>1
    <3> QED BY <1>1, <2>1, <3>1 DEF StartsWith
  <2>2. CASE q # << >>
    <3>1. r[1] = q[1]
      BY <1>2, <2>2
    <3> QED BY <1>2, <2>2, <3>1 DEF StartsWith
  <2> QED BY <2>1, <2>2
<1>6. ASSUME NEW k \in 2..Len(r)
      PROVE  r[k][1] # "start"
  <2>1. CASE k = Len(q) + 1
    BY <1>1, <1>2, <2>1
  <2>2. CASE k # Len(q) + 1
    <3>1. k \in 2..Len(q) /\ k \in 1..Len(q)
      BY <1>2, <2>2
    <3> QED BY <1>2, <3>1 DEF QueueOK
  <2> QED BY <2>1, <2>2
<1>7. ph = "functors" => b <= Len(r) /\ (StartsWith(r) => b > 0)
  BY <1>1, <1>2, <1>5 DEF QueueOK
<1>8. \A k \in 1..Len(r) :
         /\ r[k][1] = "reset" => k \in 1..Len(q) /\ q[k][1] = "reset"
         /\ r[k][1] = "forceClose" => n = "forceClose" \/ (k \in 1..Len(q) /\ q[k][1] = "forceClose")
  BY <1>1, <1>2, <1>3
<1>9. ch = "removed" => \E k \in 1..Len(r) : r[k][1] = "reset"
  BY <1>2, <1>4 DEF QueueOK
<1>10. QueueOK(r, b, ph, ch, cb2)
  BY <1>1, <1>2, <1>6, <1>7, <1>8, <1>9 DEF QueueOK
<1> QED BY <1>5, <1>10 DEF r, e

\* Connector::removeAndResetChannel queues resetChannel.
LEMMA PushReset ==
    ASSUME NEW q, NEW b, NEW cb, QueueOK(q, b, "events", "polled", cb)
    PROVE  /\ QueueOK(Append(q, <<"reset", 0>>), b, "events", "removed", cb)
           /\ StartsWith(Append(q, <<"reset", 0>>)) <=> StartsWith(q)
<1> DEFINE e == <<"reset", 0>>
           r == Append(q, e)
<1>1. q \in Seq(Names \X Nat) /\ e \in Names \X Nat /\ e[1] = "reset" /\ b \in Nat
  BY DEF QueueOK, Names
<1> HIDE DEF e
<1>2. /\ r \in Seq(Names \X Nat) /\ r # << >> /\ Len(q) \in Nat /\ Len(r) = Len(q) + 1
      /\ r[Len(q) + 1] = e /\ \A k \in 1..Len(q) : r[k] = q[k]
      /\ q # << >> => Len(q) > 0
  BY <1>1, Places
<1> HIDE DEF r
<1>3. \A k \in 1..Len(r) : k \in 1..Len(q) \/ k = Len(q) + 1
  BY <1>2
<1>4. Len(q) + 1 \in 1..Len(r)
  BY <1>2
<1>5. StartsWith(r) <=> StartsWith(q)
  <2>1. CASE q = << >>
    <3>1. r[1] = e
      BY <1>2, <2>1
    <3> QED BY <1>1, <2>1, <3>1 DEF StartsWith
  <2>2. CASE q # << >>
    <3>1. r[1] = q[1]
      BY <1>2, <2>2
    <3> QED BY <1>2, <2>2, <3>1 DEF StartsWith
  <2> QED BY <2>1, <2>2
<1>6. ASSUME NEW k \in 2..Len(r)
      PROVE  r[k][1] # "start"
  <2>1. CASE k = Len(q) + 1
    BY <1>1, <1>2, <2>1
  <2>2. CASE k # Len(q) + 1
    <3>1. k \in 2..Len(q) /\ k \in 1..Len(q)
      BY <1>2, <2>2
    <3> QED BY <1>2, <3>1 DEF QueueOK
  <2> QED BY <2>1, <2>2
<1>7. \A k \in 1..Len(q) : q[k][1] # "reset"
  BY DEF QueueOK
<1>8. \A k \in 1..Len(r) : /\ r[k][1] = "reset" => k = Len(q) + 1
                           /\ r[k][1] = "forceClose" => k \in 1..Len(q)
  BY <1>1, <1>2, <1>3, <1>7
<1>9. \A k \in 1..Len(r) : r[k][1] = "forceClose" => cb = "detail"
  BY <1>2, <1>8 DEF QueueOK
<1>10. QueueOK(r, b, "events", "removed", cb)
  BY <1>1, <1>2, <1>4, <1>6, <1>8, <1>9 DEF QueueOK
<1> QED BY <1>5, <1>10 DEF r, e

\* doPendingFunctors runs the oldest functor.
LEMMA Pop ==
    ASSUME NEW q, NEW b, NEW ch, NEW cb, QueueOK(q, b, "functors", ch, cb), b > 0
    PROVE  /\ Head(q) \in Names \X Nat /\ q # << >>
           /\ Head(q)[1] = "start" <=> StartsWith(q)
           /\ Head(q)[1] = "reset" => ch = "removed"
           /\ Head(q)[1] = "forceClose" => cb = "detail"
           /\ ~StartsWith(Tail(q))
           /\ QueueOK(Tail(q), b - 1, "functors",
                      IF Head(q)[1] = "reset" THEN "none" ELSE ch, cb)
<1> DEFINE r == Tail(q)
           ch2 == IF Head(q)[1] = "reset" THEN "none" ELSE ch
<1>1. q \in Seq(Names \X Nat) /\ b \in Nat /\ b <= Len(q)
  BY DEF QueueOK
<1>2. Len(q) \in Nat /\ q # << >>
  BY <1>1
<1>3. /\ Len(q) > 0 /\ Head(q) = q[1] /\ Head(q) \in Names \X Nat
      /\ r \in Seq(Names \X Nat) /\ Len(r) = Len(q) - 1
      /\ \A k \in 1..(Len(q) - 1) : r[k] = q[k + 1]
  BY <1>1, <1>2, HeadTailProperties, EmptySeq
<1> HIDE DEF r
<1>4. 1 \in 1..Len(q) /\ \A k \in 1..Len(r) : k + 1 \in 1..Len(q) /\ k + 1 \in 2..Len(q)
                                              /\ k + 1 # 1 /\ r[k] = q[k + 1]
  BY <1>2, <1>3
<1>5. \A k \in 1..Len(r) : r[k][1] # "start"
  BY <1>4 DEF QueueOK
<1>6. ~StartsWith(r)
  <2>1. r # << >> => 1 \in 1..Len(r)
    BY <1>3
  <2> QED BY <1>5, <2>1 DEF StartsWith
<1>7. ASSUME NEW k \in 1..Len(r)
      PROVE  /\ r[k][1] = "reset" => ch2 = "removed" /\ k <= b - 1
             /\ r[k][1] = "forceClose" => cb = "detail"
  <2>1. r[k][1] = "reset" => ch = "removed" /\ k + 1 <= b
    BY <1>4 DEF QueueOK
  <2>2. r[k][1] = "reset" => Head(q)[1] # "reset"
    BY <1>3, <1>4 DEF QueueOK
  <2>3. r[k][1] = "forceClose" => cb = "detail"
    BY <1>4 DEF QueueOK
  <2> QED BY <1>1, <2>1, <2>2, <2>3
<1>8. \A j, k \in 1..Len(r) : r[j][1] = "reset" /\ r[k][1] = "reset" => j = k
  <2> SUFFICES ASSUME NEW j \in 1..Len(r), NEW k \in 1..Len(r),
                      r[j][1] = "reset", r[k][1] = "reset"
               PROVE  j = k
    OBVIOUS
  <2>1. j + 1 = k + 1
    BY <1>4 DEF QueueOK
  <2> QED BY <2>1
<1>9. ch2 = "removed" => \E k \in 1..Len(r) : r[k][1] = "reset"
  <2> SUFFICES ASSUME ch2 = "removed"
               PROVE  \E k \in 1..Len(r) : r[k][1] = "reset"
    OBVIOUS
  <2>1. PICK j \in 1..Len(q) : q[j][1] = "reset"
    BY DEF QueueOK
  <2>2. j # 1
    BY <1>3, <2>1
  <2>3. j - 1 \in 1..Len(r) /\ (j - 1) + 1 = j
    BY <1>3, <2>2
  <2> QED BY <1>4, <2>1, <2>3
<1>10. b - 1 \in Nat /\ b - 1 <= Len(r)
  BY <1>1, <1>3
<1>11. \A k \in 2..Len(r) : k \in 1..Len(r)
  BY <1>3
<1>12. QueueOK(r, b - 1, "functors", ch2, cb)
  <2> HIDE DEF ch2
  <2> QED BY <1>3, <1>5, <1>6, <1>7, <1>8, <1>9, <1>10, <1>11 DEF QueueOK
<1>13. /\ Head(q)[1] = "reset" => ch = "removed"
       /\ Head(q)[1] = "forceClose" => cb = "detail"
  BY <1>3, <1>4 DEF QueueOK
<1> QED BY <1>2, <1>3, <1>6, <1>12, <1>13 DEF r, StartsWith

\* A channel_ that is not removed may be closed or opened.
LEMMA OtherChannel ==
    ASSUME NEW q, NEW b, NEW ph, NEW ch, NEW ch2, NEW cb, QueueOK(q, b, ph, ch, cb),
           ch # "removed", ch2 # "removed"
    PROVE  QueueOK(q, b, ph, ch2, cb)
BY DEF QueueOK

-----------------------------------------------------------------------------
(* The invariant *)

Live == {"up", "shut", "hup"}
Retries == (timer \cup due) \ {Release}

\* Types.
ClientType ==
    /\ state_ \in {"kDisconnected", "kConnecting", "kConnected"}
    /\ channel_ \in {"none", "polled", "removed"}
    /\ timerId_ \in Nat /\ timer \subseteq Nat /\ due \subseteq Nat
    /\ phase \in {"poll", "events", "functors"}
    /\ pc \in {"none", "retry", "startInLoop", "connect", "restart", "newConnection"}
    /\ connection_ \in 0..MaxConns
    /\ conns \in [Ids -> {"none", "up", "shut", "hup", "closed", "destroyed"}]
    /\ closeCallback \in {"client", "detail"}
    /\ upc \in {"idle", "stopConnector", "cancelTimer"}

\* The flags.
FlagType ==
    /\ connect_ \in BOOLEAN /\ freed \in BOOLEAN /\ retry_ \in BOOLEAN
    /\ clientConnect \in BOOLEAN /\ client \in BOOLEAN /\ started \in BOOLEAN
    /\ stopped \in BOOLEAN /\ held \in BOOLEAN

\* state_ says whether an attempt is under way, and which handler may be.
AttemptInv ==
    /\ state_ = "kConnecting" <=> channel_ = "polled"
    /\ state_ = "kConnecting" => pc = "none"
    /\ pc \in {"restart", "newConnection"} => state_ = "kConnected"
    /\ pc \in {"retry", "startInLoop", "connect"} => state_ = "kDisconnected"
    /\ pc \in {"restart", "startInLoop", "connect"} => channel_ = "none"

\* There is one retry timer, the last one set, and only while nothing else is
\* under way.
TimerInv ==
    /\ timer \cap due = {}
    /\ Retries \subseteq {timerId_}
    /\ Retries # {} => state_ = "kDisconnected" /\ pc = "none"
    /\ client => Release \notin timer \cup due

\* The connection that is alive is the one the client holds; only a destroyed
\* client has let go of it.
ConnInv ==
    /\ connection_ # 0 => state_ = "kConnected" /\ pc = "none" /\ client
    /\ \A i \in Ids : conns[i] \in Live => connection_ = i \/ closeCallback = "detail"

\* Before startInLoop runs for the first time nothing has happened.
StartInv ==
    /\ ~started => /\ pending = << >> /\ phase # "functors"
                   /\ \A i \in Ids : conns[i] = "none"
    /\ ~started \/ StartsWith(pending) =>
          /\ state_ = "kDisconnected" /\ channel_ = "none" /\ pc = "none"
          /\ Retries = {} /\ connection_ = 0

\* The events of this turn are still true: what has happened in the turn did not
\* replace the attempt, the timer or the connection they are about.
ActiveInv ==
    /\ active # {} => phase = "events"
    /\ <<"sock", 0>> \in active => channel_ = "polled"
    /\ \A t : <<"timer", t>> \in active =>
          /\ t \in Nat /\ t <= timerId_
          /\ t # Release => t \notin timer
          /\ t \in due /\ t # Release => channel_ = "none"
    /\ \A i : <<"conn", i>> \in active =>
          /\ i \in Ids /\ conns[i] = "hup"
          /\ connection_ = i => channel_ = "none"

\* A destroyed client leaves a Connector that is idle, and deleted once nothing
\* can reach it.
DeadInv ==
    /\ ~client => connection_ = 0 /\ channel_ = "none" /\ pc = "none"
    /\ ~client /\ closeCallback = "client" => ~connect_
    /\ closeCallback = "detail" => ~client /\ freed
    /\ freed => ~client /\ Retries = {} /\ ~StartsWith(pending)
    /\ <<"timer", Release>> \in active => ~client /\ ~StartsWith(pending)
    /\ ~client /\ StartsWith(pending) => phase # "poll"

\* After stop() no flag that is still to be tested is set.
StopInv ==
    /\ upc # "idle" => started /\ ~clientConnect
    /\ stopped => /\ ~connect_ /\ pc \notin {"restart", "newConnection"}
                  /\ client => started /\ ~clientConnect

\* What is still to be done to the connections cs is queued once in q:
\* connectDestroyed of one that has closed, forceClose of one that has not.
EndsOK(q, cs) ==
    /\ \A k \in 1..Len(q) :
          /\ q[k][1] = "connectDestroyed" => q[k][2] \in Ids /\ cs[q[k][2]] = "closed"
          /\ q[k][1] = "forceClose" => q[k][2] \in Ids /\ cs[q[k][2]] \in Live
    /\ \A j, k \in 1..Len(q) :
          q[j][1] \in {"connectDestroyed", "forceClose"} /\ q[j] = q[k] => j = k

\* It is, unless a connection closed with its forceClose queued; the one that the
\* client holds has not closed.
CloseInv ==
    ~closedAmid => /\ EndsOK(pending, conns)
                   /\ connection_ # 0 => conns[connection_] \in Live

\* Everything the three theorems rest on, but for CloseInv.
ClientInv ==
    /\ ClientType /\ FlagType /\ QueueOK(pending, batch, phase, channel_, closeCallback)
    /\ AttemptInv /\ TimerInv /\ ConnInv /\ StartInv /\ ActiveInv /\ DeadInv /\ StopInv

\* A new client has it.
LEMMA InitClientInv == Init => ClientInv /\ CloseInv /\ failed = {} /\ ~useAfterFree
<1> SUFFICES ASSUME Init
             PROVE  ClientInv /\ CloseInv /\ failed = {} /\ ~useAfterFree
  OBVIOUS
<1> USE DEF Init, ConnectorInit
<1>1. ClientType /\ FlagType
  <2>1. ClientType
    BY DEF ClientType
  <2>2. FlagType
    BY Zenon DEF FlagType
  <2> QED BY <2>1, <2>2
<1>2. QueueOK(pending, batch, phase, channel_, closeCallback)
  <2>1. pending = << >> /\ Len(pending) = 0 /\ pending \in Seq(Names \X Nat)
    OBVIOUS
  <2>2. 1..Len(pending) = {} /\ 2..Len(pending) = {}
    BY <2>1
  <2> QED BY <2>1, <2>2 DEF QueueOK
<1>3. ~StartsWith(pending)
  BY DEF StartsWith
<1>4. AttemptInv /\ TimerInv /\ ConnInv /\ StartInv /\ ActiveInv /\ DeadInv /\ StopInv
  BY <1>3 DEF AttemptInv, TimerInv, Retries, ConnInv, Live, StartInv, ActiveInv, DeadInv, StopInv
<1>5. CloseInv
  <2>1. pending = << >> /\ Len(pending) = 0
    OBVIOUS
  <2>2. 1..Len(pending) = {}
    BY <2>1
  <2> QED BY <2>2 DEF CloseInv, EndsOK
<1> QED BY <1>1, <1>2, <1>4, <1>5 DEF ClientInv

-----------------------------------------------------------------------------
(* The user's thread *)

\* What has to be shown of a step.
Kept == AssertsHold' /\ ~useAfterFree' /\ (failed' = {} => ClientInv')

\* connect(): the functor of start is the first of the queue.
LEMMA CallConnectStep ==
    ASSUME ClientInv, failed = {}, ~useAfterFree, CallConnect
    PROVE  Kept
<1> USE DEF CallConnect, attempt, loopVars, history
<1>1. pending = << >> /\ phase # "functors"
  BY DEF ClientInv, StartInv
<1>2. pending' = Append(<< >>, <<"start", 0>>)
  BY <1>1
<1>3. /\ pending' # << >> /\ Len(pending') = 1 /\ pending'[1] = <<"start", 0>>
      /\ pending' \in Seq(Names \X Nat)
  <2> DEFINE e == <<"start", 0>>
  <2>1. e \in Names \X Nat
    BY DEF Names
  <2> HIDE DEF e
  <2>2. /\ Append(<< >>, e) # << >> /\ Len(Append(<< >>, e)) = 1
        /\ Append(<< >>, e)[1] = e /\ Append(<< >>, e) \in Seq(Names \X Nat)
    BY <2>1
  <2> QED BY <1>2, <2>2 DEF e
<1>4. StartsWith(pending')
  BY <1>3 DEF StartsWith
<1>5. QueueOK(pending, batch, phase, channel_, closeCallback)'
  <2>1. 1..Len(pending') = {1} /\ 2..Len(pending') = {}
    BY <1>3
  <2>2. batch' \in Nat /\ channel_' # "removed" /\ phase' # "functors"
    BY <1>1 DEF ClientInv, QueueOK, StartInv
  <2> QED BY <1>3, <2>1, <2>2 DEF QueueOK
<1>6. ClientType' /\ AttemptInv' /\ TimerInv' /\ ConnInv' /\ ActiveInv'
  BY DEF ClientInv, ClientType, AttemptInv, TimerInv, Retries, ConnInv, ActiveInv
<1>8. FlagType'
  BY Zenon DEF ClientInv, FlagType
<1>7. StartInv' /\ DeadInv' /\ StopInv'
  BY <1>1, <1>4 DEF ClientInv, StartInv, Retries, DeadInv, StopInv, StartsWith
<1> QED BY <1>5, <1>6, <1>7, <1>8 DEF Kept, ClientInv, AssertsHold

\* stop(): the flag of the client, then that of the Connector.
LEMMA StopFlagsStep ==
    ASSUME ClientInv, failed = {}, ~useAfterFree, Stop \/ StopConnector
    PROVE  Kept
<1> USE DEF Stop, StopConnector, Overtaken, connectorVars, attempt, loopVars, clientVars, history
<1>1. QueueOK(pending, batch, phase, channel_, closeCallback)'
  BY DEF ClientInv, QueueOK, StartsWith
<1>2. StartsWith(pending)' = StartsWith(pending)
  BY DEF StartsWith
<1>3. ClientType' /\ AttemptInv' /\ TimerInv' /\ ConnInv' /\ ActiveInv'
  <2>1. ClientType'
    BY DEF ClientInv, ClientType
  <2>2. UNCHANGED <<state_, channel_, pc, timer, due, timerId_, client, connection_,
                    conns, closeCallback, active, phase>>
    OBVIOUS
  <2> QED BY <2>1, <2>2 DEF ClientInv, AttemptInv, TimerInv, Retries, ConnInv, ActiveInv
<1>4. StartInv' /\ DeadInv' /\ StopInv'
  BY <1>2 DEF ClientInv, FlagType, StartInv, Retries, DeadInv, StopInv
<1>5. FlagType'
  BY Zenon DEF ClientInv, FlagType
<1> QED BY <1>1, <1>3, <1>4, <1>5 DEF Kept, ClientInv, AssertsHold

\* stop(): the rest of Connector::stop.
LEMMA CancelTimerStep ==
    ASSUME ClientInv, failed = {}, ~useAfterFree, CancelTimer
    PROVE  Kept
<1> USE DEF CancelTimer, Assert, attempt, loopVars, clientVars, history
<1>1. timerId_ \in Nat
  BY DEF ClientInv, ClientType
<1>2. /\ QueueOK(pending', batch, phase, channel_, closeCallback)
      /\ StartsWith(pending') <=> StartsWith(pending)
  BY <1>1, Push DEF ClientInv
<1>3. QueueOK(pending, batch, phase, channel_, closeCallback)'
  BY <1>2
<1>4. ClientType' /\ AttemptInv' /\ TimerInv' /\ ConnInv' /\ ActiveInv'
  BY DEF ClientInv, ClientType, AttemptInv, TimerInv, Retries, ConnInv, ActiveInv
<1>5. StartInv' /\ DeadInv' /\ StopInv'
  BY <1>2 DEF ClientInv, FlagType, StartInv, Retries, DeadInv, StopInv
<1>6. FlagType'
  BY Zenon DEF ClientInv, FlagType
<1> QED BY <1>3, <1>4, <1>5, <1>6 DEF Kept, ClientInv, AssertsHold

\* disconnect()
LEMMA DisconnectStep ==
    ASSUME ClientInv, failed = {}, ~useAfterFree, Disconnect
    PROVE  Kept
<1> USE DEF Disconnect, connectorVars, attempt, loopVars, clientVars, history
<1>1. QueueOK(pending, batch, phase, channel_, closeCallback)'
  BY DEF ClientInv, QueueOK, StartsWith
<1>2. StartsWith(pending)' = StartsWith(pending)
  BY DEF StartsWith
<1>3. ClientType' /\ AttemptInv' /\ TimerInv'
  BY DEF ClientInv, ClientType, AttemptInv, TimerInv, Retries
<1>4. ConnInv' /\ ActiveInv'
  BY DEF ClientInv, ClientType, ConnInv, Live, ActiveInv
<1>5. StartInv' /\ DeadInv' /\ StopInv'
  BY <1>2 DEF ClientInv, FlagType, StartInv, Retries, DeadInv, StopInv
<1>6. FlagType'
  BY Zenon DEF ClientInv, FlagType
<1> QED BY <1>1, <1>3, <1>4, <1>5, <1>6 DEF Kept, ClientInv, AssertsHold

-----------------------------------------------------------------------------
(* Phases of the loop *)

\* What poll reports.
LEMMA ReadyElements ==
    ASSUME NEW x
    PROVE  /\ <<"sock", 0>> \in Ready => channel_ = "polled"
           /\ <<"timer", x>> \in Ready => x \in due
           /\ <<"conn", x>> \in Ready => x \in Ids /\ conns[x] = "hup"
<1>1. <<"sock", 0>> \in Ready => channel_ = "polled"
  BY DEF Ready
<1>2. <<"timer", x>> \in Ready => x \in due
  BY DEF Ready
<1>3. <<"conn", x>> \in Ready => x \in Ids /\ conns[x] = "hup"
  BY DEF Ready
<1> QED BY <1>1, <1>2, <1>3

\* resetChannel does not wait across turns of the loop.
LEMMA NotRemovedAtPoll ==
    ASSUME ClientInv, phase = "poll"
    PROVE  channel_ \in {"none", "polled"}
BY DEF ClientInv, QueueOK, ClientType

\* poll returns
LEMMA PollStep ==
    ASSUME ClientInv, failed = {}, ~useAfterFree, Poll
    PROVE  Kept
<1> USE DEF Poll, connectorVars, attempt, clientVars, user, history
<1>0. channel_ \in {"none", "polled"}
  BY NotRemovedAtPoll
<1>1. QueueOK(pending, batch, phase, channel_, closeCallback)'
  BY <1>0 DEF ClientInv, QueueOK
<1>2. StartsWith(pending)' = StartsWith(pending)
  BY DEF StartsWith
<1>3. ClientType' /\ AttemptInv' /\ TimerInv' /\ ConnInv'
  BY DEF ClientInv, ClientType, AttemptInv, TimerInv, Retries, ConnInv
<1>4. FlagType'
  BY Zenon DEF ClientInv, FlagType
<1>5. ActiveInv'
  <2>1. ASSUME NEW t, <<"timer", t>> \in active'
        PROVE  /\ t \in Nat /\ t <= timerId_' /\ t \notin timer'
               /\ t \in due' /\ t # Release => channel_' = "none"
    <3>1. t \in due
      BY <2>1, ReadyElements
    <3>2. t = 0 \/ (t = timerId_ /\ t \in Retries)
      BY <3>1 DEF ClientInv, TimerInv, Retries, Release
    <3>3. t \in Nat /\ t <= timerId_
      BY <3>2 DEF ClientInv, ClientType
    <3>4. t # Release => channel_ = "none"
      BY <1>0, <3>1 DEF ClientInv, TimerInv, Retries, AttemptInv
    <3>5. t \notin timer'
      BY <3>1 DEF ClientInv, TimerInv
    <3> QED BY <3>3, <3>4, <3>5
  <2>2. ASSUME NEW i, <<"conn", i>> \in active'
        PROVE  i \in Ids /\ conns'[i] = "hup" /\ (connection_' = i => channel_' = "none")
    <3>1. i \in Ids /\ conns[i] = "hup"
      BY <2>2, ReadyElements
    <3>2. i # 0
      BY <3>1 DEF Ids
    <3> QED BY <1>0, <3>1, <3>2 DEF ClientInv, ConnInv, AttemptInv
  <2> QED BY <2>1, <2>2, ReadyElements DEF ActiveInv
<1>6. DeadInv'
  <2>1. <<"timer", Release>> \in active' => Release \in due
    BY ReadyElements
  <2> QED BY <1>2, <2>1 DEF ClientInv, DeadInv, TimerInv, Retries
<1>7. StartInv' /\ StopInv'
  BY <1>2 DEF ClientInv, StartInv, Retries, StopInv
<1> QED BY <1>1, <1>3, <1>4, <1>5, <1>6, <1>7 DEF Kept, ClientInv, AssertsHold

\* The events are done: the turn runs what is queued now.
LEMMA EventsDoneStep ==
    ASSUME ClientInv, failed = {}, ~useAfterFree, EventsDone
    PROVE  Kept
<1> USE DEF EventsDone, connectorVars, attempt, clientVars, user, history
<1>1. QueueOK(pending, batch, phase, channel_, closeCallback)'
  <2> DEFINE n == Len(pending)
  <2>1. /\ QueueOK(pending, batch, phase, channel_, closeCallback)
        /\ pending \in Seq(Names \X Nat) /\ n \in Nat
    BY DEF ClientInv, QueueOK
  <2>2. CASE pending = << >>
    <3>1. phase' = "poll" /\ batch' = n /\ n = 0
      BY <2>2
    <3>2. 1..n = {}
      BY <3>1
    <3> QED BY <2>1, <3>1, <3>2 DEF QueueOK
  <2>3. CASE pending # << >>
    <3>1. phase' = "functors" /\ batch' = n /\ n > 0
      BY <2>1, <2>3
    <3>2. \A k \in 1..n : k <= n
      BY <2>1
    <3> HIDE DEF EventsDone
    <3>3. UNCHANGED <<pending, channel_, closeCallback>>
      BY DEF EventsDone
    <3> QED BY <2>1, <3>1, <3>2, <3>3 DEF QueueOK
  <2> QED BY <2>2, <2>3
<1>2. StartsWith(pending)' = StartsWith(pending)
  BY DEF StartsWith
<1>3. ClientType' /\ AttemptInv' /\ TimerInv' /\ ConnInv'
  BY DEF ClientInv, ClientType, AttemptInv, TimerInv, Retries, ConnInv
<1>4. FlagType'
  BY Zenon DEF ClientInv, FlagType
<1>5. ActiveInv' /\ StopInv'
  BY DEF ClientInv, ActiveInv, StopInv
<1>6. DeadInv' /\ StartInv'
  <2>1. StartsWith(pending) => phase' = "functors"
    BY DEF StartsWith
  <2>2. ~started => phase' # "functors"
    BY DEF ClientInv, StartInv
  <2> QED BY <1>2, <2>1, <2>2 DEF ClientInv, DeadInv, StartInv, Retries
<1> QED BY <1>1, <1>3, <1>4, <1>5, <1>6 DEF Kept, ClientInv, AssertsHold

\* The functors of the turn are done: resetChannel and startInLoop were among them.
LEMMA FunctorsDoneStep ==
    ASSUME ClientInv, failed = {}, ~useAfterFree, FunctorsDone
    PROVE  Kept
<1> USE DEF FunctorsDone, connectorVars, attempt, clientVars, user, history
<1>0. \A k \in 1..Len(pending) : pending[k][1] # "reset"
  <2>1. \A k \in 1..Len(pending) : ~(k <= 0)
    OBVIOUS
  <2> QED BY <2>1 DEF ClientInv, QueueOK
<1>1. QueueOK(pending, batch, phase, channel_, closeCallback)'
  BY <1>0 DEF ClientInv, QueueOK
<1>2. ~StartsWith(pending) /\ ~StartsWith(pending)'
  BY DEF StartsWith, ClientInv, QueueOK
<1>3. ClientType' /\ AttemptInv' /\ TimerInv' /\ ConnInv'
  BY DEF ClientInv, ClientType, AttemptInv, TimerInv, Retries, ConnInv
<1>4. FlagType'
  BY Zenon DEF ClientInv, FlagType
<1>5. ActiveInv' /\ StopInv'
  BY DEF ClientInv, ActiveInv, StopInv
<1>6. DeadInv' /\ StartInv'
  BY <1>2 DEF ClientInv, DeadInv, StartInv, Retries
<1> QED BY <1>1, <1>3, <1>4, <1>5, <1>6 DEF Kept, ClientInv, AssertsHold

\* newConnection: the client gets a connection that no event is about yet.
LEMMA NewConnectionStep ==
    ASSUME ClientInv, failed = {}, ~useAfterFree, NewConnection
    PROVE  Kept
<1> USE DEF NewConnection, attempt, loopVars, user, history
<1>0. /\ pc = "newConnection" /\ state_ = "kConnected" /\ connection_ = 0 /\ client
      /\ Retries = {} /\ started /\ ~StartsWith(pending) /\ ~stopped
      /\ closeCallback = "client"
  BY DEF ClientInv, ClientType, AttemptInv, ConnInv, TimerInv, StartInv, DeadInv, StopInv
<1>1. PICK i \in Ids : /\ conns[i] = "none" /\ conns' = [conns EXCEPT ![i] = "up"]
                       /\ connection_' = i
  OBVIOUS
<1>2. QueueOK(pending, batch, phase, channel_, closeCallback)'
  BY DEF ClientInv, QueueOK
<1>3. ~StartsWith(pending)'
  BY <1>0 DEF StartsWith
<1>4. ClientType'
  <2>1. connection_' \in 0..MaxConns
    BY <1>1 DEF Ids
  <2> QED BY <1>1, <2>1 DEF ClientInv, ClientType
<1>5. FlagType'
  BY Zenon DEF ClientInv, FlagType
<1>6. AttemptInv' /\ TimerInv'
  BY <1>0 DEF ClientInv, AttemptInv, TimerInv, Retries
<1>7. ConnInv'
  <2>1. conns \in [Ids -> {"none", "up", "shut", "hup", "closed", "destroyed"}]
        /\ \A j \in Ids : conns[j] \notin Live
    <3>1. \A j \in Ids : j # 0
      BY DEF Ids
    <3> QED BY <1>0, <3>1 DEF ClientInv, ClientType, ConnInv
  <2> QED BY <1>0, <1>1, <2>1 DEF ConnInv
<1>8. ActiveInv'
  BY <1>0, <1>1 DEF ClientInv, ClientType, ActiveInv
<1>9. StartInv' /\ DeadInv' /\ StopInv'
  BY <1>0, <1>3 DEF ClientInv, StartInv, Retries, DeadInv, StopInv
<1> QED BY <1>2, <1>4, <1>5, <1>6, <1>7, <1>8, <1>9 DEF Kept, ClientInv, AssertsHold

-----------------------------------------------------------------------------
(* Handlers of the Connector *)

\* The event of the socket finds the attempt it is about, and ends it: the
\* channel waits for resetChannel, and what follows depends on connect_.
LEMMA HandleEventOutcome ==
    ASSUME state_ = "kConnecting", failed = {}, HandleEvent
    PROVE  /\ failed' = {} /\ channel_' = "removed"
           /\ pending' = Append(pending, <<"reset", 0>>)
           /\ UNCHANGED <<timer, timerId_>>
           /\ \/ state_' = "kDisconnected" /\ pc' \in {"none", "retry"}
              \/ state_' = "kConnected" /\ pc' \in {"none", "newConnection"}
           /\ pc' # "none" => connect_
<1>1. CASE HandleError
  BY <1>1 DEF HandleError, Assert, RemoveAndResetChannel, Retry
<1>2. CASE sock # "error" /\ HandleWrite
  BY <1>2 DEF HandleWrite, FinishAttempt, RemoveAndResetChannel, Retry
<1> QED BY <1>1, <1>2 DEF HandleEvent

\* The socket's channel is active
LEMMA SockEventStep ==
    ASSUME ClientInv, failed = {}, ~useAfterFree, SockEvent
    PROVE  Kept
<1>0. /\ channel_ = "polled" /\ state_ = "kConnecting" /\ client /\ ~freed
      /\ phase = "events" /\ pc = "none" /\ Retries = {} /\ connection_ = 0
      /\ started /\ ~StartsWith(pending)
  BY DEF SockEvent, ClientInv, ActiveInv, AttemptInv, DeadInv, TimerInv, ConnInv, StartInv
<1>1. HandleEvent /\ useAfterFree' = useAfterFree
  BY <1>0 DEF SockEvent, UseConnector
<1>2. /\ failed' = {} /\ channel_' = "removed"
      /\ pending' = Append(pending, <<"reset", 0>>)
      /\ UNCHANGED <<timer, timerId_>>
      /\ \/ state_' = "kDisconnected" /\ pc' \in {"none", "retry"}
         \/ state_' = "kConnected" /\ pc' \in {"none", "newConnection"}
      /\ pc' # "none" => connect_
  BY <1>0, <1>1, HandleEventOutcome
<1>3. /\ UNCHANGED <<connect_, due, freed, phase, batch, retry_, clientConnect, connection_,
                     conns, closeCallback, held, client, upc, calls, started, stopped,
                     destroyedAmid>>
      /\ active' = active \ {<<"sock", 0>>}
  BY DEF SockEvent, clientVars, user
<1>4. /\ QueueOK(pending', batch, "events", "removed", closeCallback)
      /\ ~StartsWith(pending')
  BY <1>0, <1>2, PushReset DEF ClientInv
<1>5. QueueOK(pending, batch, phase, channel_, closeCallback)'
  BY <1>0, <1>2, <1>3, <1>4
<1>6. ClientType'
  BY <1>2, <1>3 DEF ClientInv, ClientType
<1>7. FlagType'
  BY <1>3, Zenon DEF ClientInv, FlagType
<1>8. AttemptInv' /\ TimerInv' /\ ConnInv'
  BY <1>0, <1>2, <1>3 DEF ClientInv, AttemptInv, TimerInv, Retries, ConnInv
<1>9. StartInv' /\ DeadInv' /\ StopInv'
  BY <1>0, <1>2, <1>3, <1>4 DEF ClientInv, StartInv, DeadInv, Retries, StopInv
<1>10. ActiveInv'
  <2>1. \A i \in Ids : i # 0
    BY DEF Ids
  <2>2. \A t \in due : t = Release
    BY <1>0 DEF Retries
  <2> QED BY <1>0, <1>2, <1>3, <2>1, <2>2 DEF ClientInv, ActiveInv
<1> QED
  BY <1>1, <1>2, <1>5, <1>6, <1>7, <1>8, <1>9, <1>10 DEF Kept, ClientInv, AssertsHold

\* startInLoop of a Connector that is disconnected and has no channel: its test,
\* or the connect that follows it.
LEMMA StartInLoopOutcome ==
    ASSUME state_ = "kDisconnected", channel_ = "none", failed = {}, StartInLoop \/ Connect
    PROVE  /\ failed' = {} /\ UNCHANGED <<timer, timerId_>>
           /\ \/ state_' = "kConnecting" /\ channel_' = "polled" /\ pc' = "none"
              \/ /\ state_' = "kDisconnected" /\ channel_' = "none"
                 /\ pc' \in {"none", "retry", "connect"}
           /\ StartInLoop => channel_' = "none" /\ (pc' # "none" => connect_)
<1>1. CASE StartInLoop
  BY <1>1 DEF StartInLoop, Assert, attempt
<1>2. CASE Connect /\ ~StartInLoop
  BY <1>2 DEF Connect, Connecting, Retry, Assert
<1> QED BY <1>1, <1>2

\* A start by whatever caused it: the attempt that follows is the only one.
LEMMA Started ==
    ASSUME ClientInv, failed = {}, ~useAfterFree, ~freed,
           state_ = "kDisconnected", channel_ = "none", StartInLoop \/ (Connect /\ client),
           UNCHANGED <<connect_, freed, phase, clientVars, user, stopped, destroyedAmid,
                       useAfterFree>>,
           Retries' = {}, timer' \cup due' \subseteq timer \cup due, timer' \cap due' = {},
           active' \subseteq active, started, ~StartsWith(pending'),
           QueueOK(pending', batch', phase, channel_, closeCallback)
    PROVE  Kept
<1> USE DEF clientVars, user
<1>1. /\ failed' = {} /\ UNCHANGED <<timer, timerId_>>
      /\ \/ state_' = "kConnecting" /\ channel_' = "polled" /\ pc' = "none"
         \/ /\ state_' = "kDisconnected" /\ channel_' = "none"
            /\ pc' \in {"none", "retry", "connect"}
      /\ StartInLoop => channel_' = "none" /\ (pc' # "none" => connect_)
  BY StartInLoopOutcome
<1>2. channel_' # "none" \/ pc' # "none" => client
  BY <1>1 DEF ClientInv, DeadInv, ClientType
<1>3. connection_ = 0
  BY DEF ClientInv, ConnInv
<1>4. <<"sock", 0>> \notin active
  BY DEF ClientInv, ActiveInv
<1>5. QueueOK(pending, batch, phase, channel_, closeCallback)'
  BY <1>1, OtherChannel
<1>6. ClientType'
  BY <1>1 DEF ClientInv, ClientType
<1>7. FlagType'
  BY Zenon DEF ClientInv, FlagType
<1>8. AttemptInv' /\ TimerInv' /\ ConnInv'
  BY <1>1, <1>3 DEF ClientInv, AttemptInv, TimerInv, Retries, ConnInv
<1>9. StartInv' /\ DeadInv' /\ StopInv'
  BY <1>1, <1>2, <1>3 DEF ClientInv, StartInv, DeadInv, Retries, StopInv
<1>10. ActiveInv'
  <2>1. \A i \in Ids : i # 0
    BY DEF Ids
  <2>2. \A t \in due' : t = Release
    BY DEF Retries
  <2> QED BY <1>1, <1>3, <1>4, <2>1, <2>2 DEF ClientInv, ActiveInv
<1> QED BY <1>1, <1>5, <1>6, <1>7, <1>8, <1>9, <1>10 DEF Kept, ClientInv, AssertsHold

\* restart, its startInLoop
LEMMA RestartStartsStep ==
    ASSUME ClientInv, failed = {}, ~useAfterFree, RestartStarts,
           UNCHANGED <<clientVars, user, history>>
    PROVE  Kept
<1>1. /\ pc = "startInLoop" /\ state_ = "kDisconnected" /\ channel_ = "none"
      /\ Retries = {} /\ client /\ ~freed /\ started /\ ~StartsWith(pending)
  BY DEF RestartStarts, ClientInv, AttemptInv, TimerInv, DeadInv, StartInv
<1>2. /\ StartInLoop
      /\ UNCHANGED <<connect_, freed, phase, active, batch, due, pending, clientVars, user,
                     stopped, destroyedAmid, useAfterFree>>
  BY DEF RestartStarts, loopVars, history
<1>3. timer' = timer
  BY <1>1, <1>2, StartInLoopOutcome
<1>4. Retries' = {} /\ timer' \cup due' \subseteq timer \cup due /\ timer' \cap due' = {}
  BY <1>1, <1>2, <1>3 DEF Retries, ClientInv, TimerInv
<1>5. /\ ~StartsWith(pending') /\ active' \subseteq active
      /\ QueueOK(pending', batch', phase, channel_, closeCallback)
  BY <1>1, <1>2 DEF ClientInv
<1> QED BY <1>1, <1>2, <1>4, <1>5, Started

\* startInLoop, its connect: connect_ may have been cleared since it was tested,
\* but the client is there.
LEMMA StartConnectsStep ==
    ASSUME ClientInv, failed = {}, ~useAfterFree, StartConnects,
           UNCHANGED <<clientVars, user, history>>
    PROVE  Kept
<1>1. /\ pc = "connect" /\ state_ = "kDisconnected" /\ channel_ = "none"
      /\ Retries = {} /\ client /\ ~freed /\ started /\ ~StartsWith(pending)
  BY DEF StartConnects, ClientInv, AttemptInv, TimerInv, DeadInv, StartInv
<1>2. /\ Connect
      /\ UNCHANGED <<connect_, freed, phase, active, batch, due, pending, clientVars, user,
                     stopped, destroyedAmid, useAfterFree>>
  BY DEF StartConnects, loopVars, history
<1>3. timer' = timer
  BY <1>1, <1>2, StartInLoopOutcome
<1>4. Retries' = {} /\ timer' \cup due' \subseteq timer \cup due /\ timer' \cap due' = {}
  BY <1>1, <1>2, <1>3 DEF Retries, ClientInv, TimerInv
<1>5. /\ ~StartsWith(pending') /\ active' \subseteq active
      /\ QueueOK(pending', batch', phase, channel_, closeCallback)
  BY <1>1, <1>2 DEF ClientInv
<1> QED BY <1>1, <1>2, <1>4, <1>5, Started

\* restart, up to startInLoop
LEMMA RestartStep ==
    ASSUME ClientInv, failed = {}, ~useAfterFree, Restart,
           UNCHANGED <<clientVars, user, history>>
    PROVE  Kept
<1>1. /\ pc = "restart" /\ state_ = "kConnected" /\ channel_ = "none" /\ Retries = {}
      /\ client /\ connection_ = 0 /\ ~stopped /\ started /\ ~StartsWith(pending)
  BY DEF Restart, ClientInv, AttemptInv, TimerInv, DeadInv, ConnInv, StartInv, StopInv
<1>2. /\ pc' = "startInLoop" /\ state_' = "kDisconnected" /\ connect_' = TRUE
      /\ UNCHANGED <<channel_, timerId_, timer, phase, active, batch, due, pending, freed,
                     failed, clientVars, user, history>>
  BY DEF Restart, loopVars
<1> USE DEF clientVars, user, history
<1>3. QueueOK(pending, batch, phase, channel_, closeCallback)' /\ ~StartsWith(pending')
  BY <1>1, <1>2 DEF ClientInv
<1>4. ClientType'
  BY <1>2 DEF ClientInv, ClientType
<1>5. FlagType'
  BY <1>2, Zenon DEF ClientInv, FlagType
<1>6. AttemptInv' /\ TimerInv' /\ ConnInv'
  BY <1>1, <1>2 DEF ClientInv, AttemptInv, TimerInv, Retries, ConnInv
<1>7. StartInv' /\ DeadInv' /\ StopInv' /\ ActiveInv'
  BY <1>1, <1>2, <1>3 DEF ClientInv, StartInv, DeadInv, Retries, StopInv, ActiveInv
<1> QED BY <1>2, <1>3, <1>4, <1>5, <1>6, <1>7 DEF Kept, ClientInv, AssertsHold

\* retry, the rest: a timer that no event of this turn is about
LEMMA RunAfterStep ==
    ASSUME ClientInv, failed = {}, ~useAfterFree, RunAfter,
           UNCHANGED <<clientVars, user, history>>
    PROVE  Kept
<1>1. /\ pc = "retry" /\ state_ = "kDisconnected" /\ Retries = {} /\ client /\ ~freed
      /\ connection_ = 0 /\ started /\ ~StartsWith(pending)
      /\ timerId_ \in Nat /\ timer \subseteq Nat /\ due \subseteq Nat
  BY DEF RunAfter, ClientInv, ClientType, AttemptInv, TimerInv, DeadInv, ConnInv, StartInv
<1>2. /\ pc' = "none" /\ timerId_' = timerId_ + 1 /\ timer' = timer \cup {timerId_ + 1}
      /\ UNCHANGED <<connect_, state_, channel_, phase, active, batch, due, pending, freed,
                     failed, clientVars, user, history>>
  BY DEF RunAfter, loopVars
<1> USE DEF clientVars, user, history
<1>3. QueueOK(pending, batch, phase, channel_, closeCallback)' /\ ~StartsWith(pending')
  BY <1>1, <1>2 DEF ClientInv
<1>4. ClientType'
  BY <1>1, <1>2 DEF ClientInv, ClientType
<1>5. FlagType'
  BY <1>2, Zenon DEF ClientInv, FlagType
<1>6. /\ timer = {} /\ due = {} /\ timer' = {timerId_'} /\ timerId_' > timerId_
      /\ timerId_' # Release
  BY <1>1, <1>2 DEF ClientInv, TimerInv, Retries, Release
<1>7. AttemptInv' /\ ConnInv' /\ StopInv'
  BY <1>1, <1>2 DEF ClientInv, AttemptInv, ConnInv, StopInv
<1>8. TimerInv'
  BY <1>1, <1>2, <1>6 DEF TimerInv, Retries
<1>9. StartInv' /\ DeadInv'
  BY <1>1, <1>2, <1>3 DEF ClientInv, StartInv, DeadInv, Retries
<1>10. ActiveInv'
  <2>1. \A t : <<"timer", t>> \in active' => /\ t \in Nat /\ t <= timerId_'
                                               /\ t \notin due' /\ t \notin timer'
    BY <1>1, <1>2, <1>6 DEF ClientInv, ActiveInv
  <2> QED BY <1>2, <2>1 DEF ClientInv, ActiveInv
<1> QED BY <1>2, <1>3, <1>4, <1>5, <1>7, <1>8, <1>9, <1>10 DEF Kept, ClientInv, AssertsHold

\* A retry timer runs: it is the last one set, and nothing else is under way.
LEMMA RetryTimerStep ==
    ASSUME ClientInv, failed = {}, ~useAfterFree, NEW t \in 1..MaxFailures,
           RetryTimerEvent(t)
    PROVE  Kept
<1>0. /\ phase = "events" /\ pc = "none" /\ <<"timer", t>> \in active
      /\ active' = active \ {<<"timer", t>>} /\ due' = due \ {t}
      /\ UNCHANGED <<connect_, freed, phase, batch, clientVars, user, stopped,
                     destroyedAmid>>
      /\ t # Release
  BY DEF RetryTimerEvent, Release
<1>1. CASE t \in due
  <2>1. /\ t \in Retries /\ Retries \subseteq {timerId_} /\ timer \cap due = {}
        /\ state_ = "kDisconnected" /\ channel_ = "none" /\ ~freed
        /\ started /\ ~StartsWith(pending)
    BY <1>0, <1>1 DEF Retries, ClientInv, TimerInv, ActiveInv, DeadInv, StartInv
  <2>2. StartInLoop /\ UNCHANGED <<pending, useAfterFree>>
    BY <1>1, <2>1 DEF RetryTimerEvent, UseConnector
  <2>3. timer' = timer
    BY <2>1, <2>2, StartInLoopOutcome
  <2>4. timer' \cup due' \subseteq timer \cup due /\ timer' \cap due' = {}
    BY <1>0, <2>1, <2>3
  <2>5. t \notin timer' /\ t \notin due'
    BY <1>0, <1>1, <2>1, <2>3
  <2>6. \A x \in Retries' : x \in Retries
    BY <2>4 DEF Retries
  <2>7. \A x \in Retries' : x = t
    BY <2>1, <2>6
  <2>8. Retries' = {}
    BY <2>5, <2>7 DEF Retries
  <2>9. /\ ~StartsWith(pending') /\ active' \subseteq active
        /\ QueueOK(pending', batch', phase, channel_, closeCallback)
    BY <1>0, <2>1, <2>2 DEF ClientInv
  <2> QED BY <1>0, <2>1, <2>2, <2>4, <2>8, <2>9, Started
<1>2. CASE t \notin due
  <2>1. UNCHANGED <<state_, channel_, timerId_, timer, due, pending, pc, failed, useAfterFree>>
    BY <1>0, <1>2 DEF RetryTimerEvent, UseConnector, attempt
  <2> USE DEF clientVars, user
  <2>2. QueueOK(pending, batch, phase, channel_, closeCallback)'
        /\ StartsWith(pending') = StartsWith(pending)
    BY <1>0, <2>1 DEF ClientInv
  <2>3. ClientType'
    BY <1>0, <2>1 DEF ClientInv, ClientType
  <2>4. FlagType'
    BY <1>0, Zenon DEF ClientInv, FlagType
  <2>5. AttemptInv' /\ TimerInv' /\ ConnInv'
    BY <1>0, <2>1 DEF ClientInv, AttemptInv, TimerInv, Retries, ConnInv
  <2>6. StartInv' /\ DeadInv' /\ StopInv' /\ ActiveInv'
    BY <1>0, <2>1, <2>2 DEF ClientInv, StartInv, DeadInv, Retries, StopInv, ActiveInv
  <2> QED BY <2>1, <2>2, <2>3, <2>4, <2>5, <2>6 DEF Kept, ClientInv, AssertsHold
<1> QED BY <1>1, <1>2

-----------------------------------------------------------------------------
(* The end of a connection *)

\* A connection closes in a turn of the loop, by its own event or by forceClose.
LEMMA ConnClosed ==
    ASSUME ClientInv, failed = {}, ~useAfterFree, NEW i \in Nat, NEW q, HandleClose(i, q),
           closeCallback = "client" => i \in Ids /\ connection_ = i /\ channel_ = "none",
           active' \subseteq active, <<"conn", i>> \notin active',
           UNCHANGED <<connect_, attempt, due, freed, phase, retry_, clientConnect,
                       closeCallback, held, client, user, stopped, useAfterFree>>,
           started, StartsWith(q) => StartsWith(pending),
           QueueOK(q, batch', phase, channel_, closeCallback)
    PROVE  Kept
<1> USE DEF attempt, user
<1>1. /\ conns' = [conns EXCEPT ![i] = "closed"] /\ failed' = {}
      /\ pending' = Append(q, <<"connectDestroyed", i>>)
      /\ \/ closeCallback = "client" /\ connection_' = 0
               /\ pc' = IF retry_ /\ clientConnect THEN "restart" ELSE "none"
         \/ closeCallback = "detail" /\ UNCHANGED <<connection_, pc>>
  BY DEF HandleClose, RemoveConnection, Assert
<1>2. \A j \in Ids : j \in Nat /\ j # 0
  BY DEF Ids
<1>3. /\ QueueOK(pending', batch', phase, channel_, closeCallback)
      /\ StartsWith(pending') => StartsWith(pending)
  BY <1>1, <1>2, Push
<1>4. QueueOK(pending, batch, phase, channel_, closeCallback)'
  BY <1>3
<1>5. FlagType'
  BY Zenon DEF ClientInv, FlagType
<1>6. conns' \in [Ids -> {"none", "up", "shut", "hup", "closed", "destroyed"}]
      /\ (i \in Ids => conns'[i] = "closed")
      /\ \A j \in Ids : j # i => conns'[j] = conns[j]
  BY <1>1 DEF ClientInv, ClientType
<1>7. CASE closeCallback = "client"
  <2>1. /\ connection_ = i /\ channel_ = "none" /\ state_ = "kConnected" /\ client
        /\ connection_' = 0 /\ pc' \in {"none", "restart"} /\ Retries = {}
        /\ (pc' = "restart" => clientConnect) /\ ~StartsWith(pending)
    BY <1>1, <1>2, <1>7 DEF ClientInv, ConnInv, TimerInv, StartInv
  <2>2. ClientType'
    BY <1>6, <2>1 DEF ClientInv, ClientType
  <2>3. AttemptInv' /\ TimerInv' /\ ConnInv'
    BY <1>2, <1>6, <1>7, <2>1 DEF ClientInv, AttemptInv, TimerInv, Retries, ConnInv, Live
  <2>4. StartInv' /\ DeadInv' /\ StopInv'
    BY <1>3, <2>1 DEF ClientInv, StartInv, Retries, DeadInv, StopInv
  <2>5. ActiveInv'
    BY <1>2, <1>6, <2>1 DEF ClientInv, ActiveInv
  <2> QED BY <1>1, <1>4, <1>5, <2>2, <2>3, <2>4, <2>5 DEF Kept, ClientInv, AssertsHold
<1>8. CASE closeCallback = "detail"
  <2>1. UNCHANGED <<connection_, pc>>
    BY <1>1, <1>8
  <2>2. ClientType'
    BY <1>6, <2>1 DEF ClientInv, ClientType
  <2>3. AttemptInv' /\ TimerInv' /\ ConnInv'
    BY <1>6, <1>8, <2>1 DEF ClientInv, AttemptInv, TimerInv, Retries, ConnInv
  <2>4. StartInv' /\ DeadInv' /\ StopInv'
    BY <1>3, <2>1 DEF ClientInv, StartInv, Retries, DeadInv, StopInv
  <2>5. ActiveInv'
    BY <1>6, <2>1 DEF ClientInv, ActiveInv
  <2> QED BY <1>1, <1>4, <1>5, <2>2, <2>3, <2>4, <2>5 DEF Kept, ClientInv, AssertsHold
<1> QED BY <1>7, <1>8 DEF ClientInv, ClientType

\* A connection's channel is active
LEMMA ConnEventStep ==
    ASSUME ClientInv, failed = {}, ~useAfterFree, NEW i \in Ids, ConnEvent(i)
    PROVE  Kept
<1>1. /\ <<"conn", i>> \in active /\ active' = active \ {<<"conn", i>>}
      /\ HandleClose(i, pending)
      /\ UNCHANGED <<connect_, attempt, due, freed, phase, batch, retry_, clientConnect,
                     closeCallback, held, client, user, stopped, useAfterFree>>
  BY DEF ConnEvent
<1>2. conns[i] = "hup" /\ (connection_ = i => channel_ = "none")
  BY <1>1 DEF ClientInv, ActiveInv
<1>3. closeCallback = "client" => connection_ = i /\ channel_ = "none"
  BY <1>2 DEF ClientInv, ConnInv, Live
<1>4. started
  BY <1>2 DEF ClientInv, StartInv
<1>5. QueueOK(pending, batch', phase, channel_, closeCallback)
  BY <1>1 DEF ClientInv
<1>6. i \in Nat
  BY DEF Ids
<1> QED BY <1>1, <1>3, <1>4, <1>5, <1>6, ConnClosed

-----------------------------------------------------------------------------
(* Functors *)

\* A functor runs that at most drops timers, the removed channel or a closed
\* connection.
LEMMA Popped ==
    ASSUME ClientInv, failed = {}, ~useAfterFree, phase = "functors", batch > 0,
           pending' = Tail(pending), batch' = batch - 1,
           channel_' = IF Head(pending)[1] = "reset" THEN "none" ELSE channel_,
           timer' \subseteq timer, due' \subseteq due,
           conns' \in [Ids -> {"none", "up", "shut", "hup", "closed", "destroyed"}],
           \A i \in Ids : conns'[i] \in {conns[i], "destroyed"},
           UNCHANGED <<state_, timerId_, pc, failed, connect_, freed, phase, active, retry_,
                       clientConnect, connection_, closeCallback, held, client, user, history>>
    PROVE  Kept
<1> USE DEF user, history
<1>1. /\ Head(pending)[1] = "reset" => channel_ = "removed"
      /\ ~StartsWith(pending')
      /\ QueueOK(pending', batch', "functors", channel_', closeCallback)
  BY Pop DEF ClientInv
<1>2. QueueOK(pending, batch, phase, channel_, closeCallback)'
  BY <1>1
<1>3. active = {} /\ started
  BY DEF ClientInv, ActiveInv, StartInv
<1>4. channel_' = channel_ \/ (channel_ = "removed" /\ channel_' = "none")
  BY <1>1
<1>5. ClientType'
  BY <1>4 DEF ClientInv, ClientType
<1>6. FlagType'
  BY Zenon DEF ClientInv, FlagType
<1>7. AttemptInv' /\ TimerInv'
  BY <1>4 DEF ClientInv, AttemptInv, TimerInv, Retries
<1>8. ConnInv'
  BY DEF ClientInv, ConnInv, Live
<1>9. StartInv' /\ ActiveInv' /\ StopInv'
  BY <1>1, <1>3 DEF ClientInv, StartInv, ActiveInv, StopInv
<1>10. DeadInv'
  BY <1>1, <1>3, <1>4 DEF ClientInv, DeadInv, Retries
<1> QED BY <1>2, <1>5, <1>6, <1>7, <1>8, <1>9, <1>10 DEF Kept, ClientInv, AssertsHold

\* doPendingFunctors runs a functor.
LEMMA RunFunctorStep ==
    ASSUME ClientInv, CloseInv, failed = {}, ~useAfterFree, RunFunctor
    PROVE  Kept
<1> DEFINE name == Head(pending)[1]
           arg == Head(pending)[2]
           queue == Tail(pending)
<1>1. /\ phase = "functors" /\ batch > 0 /\ pc = "none" /\ batch' = batch - 1
      /\ UNCHANGED <<connect_, freed, phase, active, retry_, clientConnect, closeCallback,
                     held, client, user, stopped, destroyedAmid, closedAmid>>
  BY DEF RunFunctor
<1>2. /\ arg \in Nat
      /\ name = "start" <=> StartsWith(pending)
      /\ name = "reset" => channel_ = "removed"
      /\ name = "forceClose" => closeCallback = "detail"
      /\ ~StartsWith(queue)
      /\ QueueOK(queue, batch - 1, "functors",
                 IF name = "reset" THEN "none" ELSE channel_, closeCallback)
  BY <1>1, Pop DEF ClientInv
<1>3. started
  BY <1>1 DEF ClientInv, StartInv
<1>4. conns \in [Ids -> {"none", "up", "shut", "hup", "closed", "destroyed"}]
  BY DEF ClientInv, ClientType
<1>5. active' \subseteq active
  BY <1>1
<1>6. CASE name = "start" /\ UseConnector(StartInLoop /\ pending' = queue, queue)
           /\ UNCHANGED <<due, connection_, conns>>
  <2>1. /\ state_ = "kDisconnected" /\ channel_ = "none" /\ Retries = {} /\ ~freed
    BY <1>2, <1>6 DEF ClientInv, StartInv, DeadInv
  <2>2. StartInLoop /\ pending' = queue /\ UNCHANGED useAfterFree
    BY <1>6, <2>1 DEF UseConnector
  <2>3. timer' = timer
    BY <2>1, <2>2, StartInLoopOutcome
  <2>4. Retries' = {} /\ timer' \cup due' \subseteq timer \cup due /\ timer' \cap due' = {}
    BY <1>6, <2>1, <2>3 DEF Retries, ClientInv, TimerInv
  <2>5. ~StartsWith(pending') /\ QueueOK(pending', batch', phase, channel_, closeCallback)
    BY <1>1, <1>2, <1>6, <2>2
  <2>6. UNCHANGED <<connect_, freed, phase, clientVars, user, stopped, destroyedAmid,
                    useAfterFree>>
    BY <1>1, <1>6, <2>2 DEF clientVars
  <2> QED BY <1>3, <1>5, <2>1, <2>2, <2>4, <2>5, <2>6, Started
<1>7. CASE name = "cancel" /\ Cancel(arg) /\ pending' = queue
           /\ UNCHANGED <<state_, channel_, retryDelay, timerId_, sock, failures, gaveUp, pc,
                          failed, connection_, conns, useAfterFree>>
  <2>1. timer' \subseteq timer /\ due' \subseteq due
    BY <1>7 DEF Cancel
  <2>2. channel_' = IF Head(pending)[1] = "reset" THEN "none" ELSE channel_
    BY <1>7
  <2>3. /\ conns' \in [Ids -> {"none", "up", "shut", "hup", "closed", "destroyed"}]
        /\ \A i \in Ids : conns'[i] \in {conns[i], "destroyed"}
    BY <1>4, <1>7
  <2> QED BY <1>1, <1>7, <2>1, <2>2, <2>3, Popped DEF history
<1>8. CASE /\ name = "reset"
           /\ UseConnector(/\ channel_' = "none" /\ pending' = queue
                           /\ UNCHANGED <<state_, retryDelay, timerId_, timer, sock, failures,
                                          gaveUp, pc, failed>>, queue)
           /\ UNCHANGED <<due, connection_, conns>>
  <2>1. ~freed
    BY <1>2, <1>8 DEF ClientInv, DeadInv
  <2>2. /\ channel_' = "none" /\ pending' = queue
        /\ UNCHANGED <<state_, timerId_, timer, pc, failed, useAfterFree>>
    BY <1>8, <2>1 DEF UseConnector
  <2>3. channel_' = IF Head(pending)[1] = "reset" THEN "none" ELSE channel_
    BY <1>8, <2>2
  <2>4. /\ conns' \in [Ids -> {"none", "up", "shut", "hup", "closed", "destroyed"}]
        /\ \A i \in Ids : conns'[i] \in {conns[i], "destroyed"}
    BY <1>4, <1>8
  <2>5. timer' \subseteq timer /\ due' \subseteq due
    BY <1>8, <2>2
  <2> QED BY <1>1, <1>8, <2>2, <2>3, <2>4, <2>5, Popped DEF history
<1>9. CASE /\ name = "connectDestroyed" /\ pending' = queue
           /\ Assert(StateConnected(arg), "connectDestroyed")
           /\ conns' = [conns EXCEPT ![arg] = "destroyed"]
           /\ UNCHANGED <<attempt, due, pc, connection_, useAfterFree>>
  <2>1. /\ conns' \in [Ids -> {"none", "up", "shut", "hup", "closed", "destroyed"}]
        /\ \A i \in Ids : conns'[i] \in {conns[i], "destroyed"}
    BY <1>4, <1>9
  <2>2. channel_' = IF Head(pending)[1] = "reset" THEN "none" ELSE channel_
    BY <1>9 DEF attempt
  <2>3. timer' \subseteq timer /\ due' \subseteq due
    BY <1>9 DEF attempt
  <2>4. CASE StateConnected(arg)
    <3>1. failed' = failed
      BY <1>9, <2>4 DEF Assert
    <3> QED BY <1>1, <1>9, <2>1, <2>2, <2>3, <3>1, Popped DEF history, attempt
  <2>5. CASE ~StateConnected(arg)
    <3>1. closedAmid
      <4>1. /\ pending \in Seq(Names \X Nat) /\ pending # << >>
            /\ pending[1] = Head(pending) /\ 1 \in 1..Len(pending)
        BY <1>1, Pop DEF ClientInv, QueueOK
      <4>2. ~closedAmid => conns[arg] = "closed"
        BY <1>9, <4>1 DEF CloseInv, EndsOK
      <4> QED BY <2>5, <4>2 DEF StateConnected
    <3>2. failed' = {"connectDestroyed"}
      BY <1>9, <2>5 DEF Assert
    <3> QED BY <1>1, <1>9, <3>1, <3>2 DEF Kept, AssertsHold
  <2> QED BY <2>4, <2>5
<1>10. CASE /\ name = "forceClose" /\ HandleClose(arg, queue)
            /\ UNCHANGED <<attempt, due, useAfterFree>>
  <2>1. closeCallback # "client"
    BY <1>2, <1>10
  <2>2. <<"conn", arg>> \notin active'
    BY <1>1 DEF ClientInv, ActiveInv
  <2>3. StartsWith(queue) => StartsWith(pending)
    BY <1>2
  <2>4. QueueOK(queue, batch', phase, channel_, closeCallback)
    BY <1>1, <1>2, <1>10
  <2>5. UNCHANGED <<connect_, attempt, due, freed, phase, retry_, clientConnect,
                    closeCallback, held, client, user, stopped, useAfterFree>>
    BY <1>1, <1>10
  <2> HIDE DEF name, arg, queue
  <2> QED BY <1>2, <1>3, <1>5, <1>10, <2>1, <2>2, <2>3, <2>4, <2>5, ConnClosed
<1>11. CASE /\ name = "forceClose" /\ pending' = queue
            /\ UNCHANGED <<pc, failed, connection_, conns>>
            /\ UNCHANGED <<attempt, due, useAfterFree>>
  <2>1. channel_' = IF Head(pending)[1] = "reset" THEN "none" ELSE channel_
    BY <1>11 DEF attempt
  <2>2. /\ conns' \in [Ids -> {"none", "up", "shut", "hup", "closed", "destroyed"}]
        /\ \A i \in Ids : conns'[i] \in {conns[i], "destroyed"}
    BY <1>4, <1>11
  <2>3. timer' \subseteq timer /\ due' \subseteq due
    BY <1>11 DEF attempt
  <2> QED BY <1>1, <1>11, <2>1, <2>2, <2>3, Popped DEF history, attempt
<1> QED BY <1>6, <1>7, <1>8, <1>9, <1>10, <1>11 DEF RunFunctor

-----------------------------------------------------------------------------
(* Destruction *)

\* A queue is as good with the close callback of a destroyed client.
LEMMA OtherCallback ==
    ASSUME NEW q, NEW b, NEW ph, NEW ch, NEW cb, QueueOK(q, b, ph, ch, cb)
    PROVE  QueueOK(q, b, ph, ch, "detail")
BY DEF QueueOK

\* ~TcpClient with a connection: no attempt, no timer and no start is left.
LEMMA DestroyConnectedStep ==
    ASSUME ClientInv, failed = {}, ~useAfterFree, DestroyClient, DestroyConnected
    PROVE  Kept
<1>1. /\ client /\ client' = FALSE /\ upc = "idle" /\ pc = "none" /\ phase # "poll"
      /\ UNCHANGED <<state_, channel_, timerId_, pc, phase, active, batch, retry_,
                     clientConnect, conns, held, upc, calls, started, useAfterFree>>
  BY DEF DestroyClient, loopVars, user
<1>2. /\ connection_ # 0 /\ connection_' = 0 /\ closeCallback' = "detail" /\ freed' = TRUE
      /\ destroyedAmid' = (channel_ = "removed")
      /\ failed' = IF channel_ = "none" THEN failed ELSE failed \cup {"dtor"}
      /\ timer' \subseteq timer /\ due' \subseteq due
      /\ UNCHANGED <<connect_, stopped>>
  BY DEF DestroyConnected, Destroy, Cancel, Assert
<1>3. /\ state_ = "kConnected" /\ Retries = {} /\ channel_ \in {"none", "removed"}
      /\ ~StartsWith(pending) /\ started /\ connection_ \in Nat
  BY <1>2 DEF ClientInv, ClientType, ConnInv, TimerInv, AttemptInv, StartInv
<1>4. /\ QueueOK(pending', batch, phase, channel_, "detail") /\ ~StartsWith(pending')
  <2>1. CASE held
    BY <1>3, <2>1, OtherCallback DEF DestroyConnected, ClientInv
  <2>2. CASE ~held
    <3>1. pending' = Append(pending, <<"forceClose", connection_>>)
      BY <2>2 DEF DestroyConnected
    <3> QED BY <1>3, <3>1, Push DEF ClientInv
  <2> QED BY <2>1, <2>2
<1>5. AssertsHold'
  BY <1>2, <1>3 DEF AssertsHold
<1>6. QueueOK(pending, batch, phase, channel_, closeCallback)'
  BY <1>1, <1>2, <1>4
<1>7. ClientType'
  BY <1>1, <1>2 DEF ClientInv, ClientType
<1>8. FlagType'
  BY <1>1, <1>2, Zenon DEF ClientInv, FlagType
<1>9. AttemptInv' /\ TimerInv' /\ ConnInv'
  BY <1>1, <1>2, <1>3 DEF ClientInv, AttemptInv, TimerInv, Retries, ConnInv
<1>10. StartInv' /\ StopInv'
  BY <1>1, <1>2, <1>3, <1>4 DEF ClientInv, StartInv, StopInv
<1>11. failed' = {} => DeadInv'
  <2>1. failed' = {} => channel_' = "none"
    BY <1>1, <1>2
  <2> QED BY <1>1, <1>2, <1>3, <1>4, <2>1 DEF DeadInv, Retries
<1>12. ActiveInv'
  <2>1. \A i \in Ids : i # 0
    BY DEF Ids
  <2> QED BY <1>1, <1>2, <2>1 DEF ClientInv, ActiveInv
<1> QED BY <1>1, <1>5, <1>6, <1>7, <1>8, <1>9, <1>10, <1>11, <1>12 DEF Kept, ClientInv

\* ~TcpClient without one: the Connector is stopped and given its last second.
LEMMA DestroyUnconnectedStep ==
    ASSUME ClientInv, failed = {}, ~useAfterFree, DestroyClient, DestroyUnconnected
    PROVE  Kept
<1>1. /\ client /\ client' = FALSE /\ upc = "idle" /\ pc = "none" /\ phase # "poll"
      /\ UNCHANGED <<state_, channel_, timerId_, pc, phase, active, batch, retry_,
                     clientConnect, conns, held, upc, calls, started, useAfterFree>>
  BY DEF DestroyClient, loopVars, user
<1>2. /\ connection_ = 0 /\ connect_' = FALSE /\ stopped' = TRUE
      /\ timer' = (timer \ ({timerId_} \ {0})) \cup {Release}
      /\ due' = due \ ({timerId_} \ {0})
      /\ failed' = IF channel_ = "none" THEN failed ELSE failed \cup {"stop"}
      /\ UNCHANGED <<pending, freed, connection_, closeCallback, destroyedAmid>>
  BY DEF DestroyUnconnected, Assert
<1>3. /\ Release \notin timer \cup due /\ closeCallback = "client" /\ ~freed
      /\ <<"timer", Release>> \notin active
  BY <1>1 DEF ClientInv, ClientType, TimerInv, DeadInv
<1>4. AssertsHold'
  BY <1>2 DEF AssertsHold
<1>5. QueueOK(pending, batch, phase, channel_, closeCallback)'
  BY <1>1, <1>2 DEF ClientInv
<1>6. ClientType'
  BY <1>1, <1>2 DEF ClientInv, ClientType, Release
<1>7. FlagType'
  BY <1>1, <1>2, Zenon DEF ClientInv, FlagType
<1>8. AttemptInv' /\ ConnInv'
  BY <1>1, <1>2 DEF ClientInv, AttemptInv, ConnInv
<1>9. timer' \cap due' = {} /\ Retries' \subseteq Retries
  BY <1>2, <1>3 DEF ClientInv, TimerInv, Retries
<1>10. TimerInv'
  BY <1>1, <1>9 DEF ClientInv, TimerInv
<1>11. StartInv' /\ StopInv'
  BY <1>1, <1>2, <1>9 DEF ClientInv, StartInv, StopInv
<1>12. failed' = {} => DeadInv'
  <2>1. failed' = {} => channel_' = "none"
    BY <1>1, <1>2
  <2> QED BY <1>1, <1>2, <1>3, <2>1 DEF DeadInv
<1>13. ActiveInv'
  BY <1>1, <1>2, <1>3 DEF ClientInv, ActiveInv
<1> QED BY <1>1, <1>4, <1>5, <1>6, <1>7, <1>8, <1>10, <1>11, <1>12, <1>13 DEF Kept, ClientInv

\* The second is over.
LEMMA ReleaseConnectorStep ==
    ASSUME ClientInv, failed = {}, ~useAfterFree, ReleaseConnector
    PROVE  Kept
<1>1. /\ <<"timer", Release>> \in active /\ active' = active \ {<<"timer", Release>>}
      /\ freed' = TRUE /\ timer' = timer \ {timerId_} /\ due' = due \ {Release, timerId_}
      /\ failed' = IF channel_ = "none" THEN failed ELSE failed \cup {"dtor"}
      /\ UNCHANGED <<connect_, state_, channel_, timerId_, pending, pc, phase, batch,
                     retry_, clientConnect, connection_, conns, closeCallback, held, client,
                     upc, calls, started, stopped, useAfterFree, destroyedAmid>>
  BY DEF ReleaseConnector, Assert, clientVars, user, history
<1>2. ~client /\ ~StartsWith(pending) /\ channel_ = "none" /\ failed' = {}
  BY <1>1 DEF ClientInv, DeadInv
<1>3. Retries' = {} /\ timer' \cap due' = {}
  BY <1>1 DEF ClientInv, TimerInv, Retries
<1>4. QueueOK(pending, batch, phase, channel_, closeCallback)' /\ ~StartsWith(pending')
  BY <1>1, <1>2 DEF ClientInv
<1>5. ClientType'
  BY <1>1 DEF ClientInv, ClientType
<1>6. FlagType'
  BY <1>1, Zenon DEF ClientInv, FlagType
<1>7. AttemptInv' /\ ConnInv' /\ StopInv' /\ ActiveInv'
  BY <1>1 DEF ClientInv, AttemptInv, ConnInv, StopInv, ActiveInv
<1>8. TimerInv'
  BY <1>1, <1>2, <1>3 DEF TimerInv
<1>9. StartInv' /\ DeadInv'
  BY <1>1, <1>2, <1>3, <1>4 DEF ClientInv, StartInv, DeadInv
<1> QED BY <1>1, <1>2, <1>4, <1>5, <1>6, <1>7, <1>8, <1>9 DEF Kept, ClientInv, AssertsHold

-----------------------------------------------------------------------------
(* The world *)

\* A timer expires, an attempt ends.
LEMMA ExpireStep ==
    ASSUME ClientInv, failed = {}, ~useAfterFree, NEW t, Expire(t) \/ SocketReady
    PROVE  Kept
<1>1. /\ timer' \cup due' = timer \cup due /\ timer' \cap due' = {} /\ timer' \subseteq timer
      /\ \A x \in due' : x \in due \/ x \in timer
      /\ UNCHANGED <<connect_, state_, channel_, timerId_, pending, pc, freed, failed,
                     phase, active, batch, retry_, clientConnect, connection_, conns,
                     closeCallback, held, client, upc, calls, started, stopped, useAfterFree,
                     destroyedAmid>>
  BY DEF ClientInv, TimerInv, Expire, SocketReady, loopVars, clientVars, user, history
<1>2. Retries' = Retries
  BY <1>1 DEF Retries
<1>3. QueueOK(pending, batch, phase, channel_, closeCallback)'
      /\ StartsWith(pending') = StartsWith(pending)
  BY <1>1 DEF ClientInv
<1>4. ClientType'
  BY <1>1 DEF ClientInv, ClientType
<1>5. FlagType'
  BY <1>1, Zenon DEF ClientInv, FlagType
<1>6. AttemptInv' /\ TimerInv' /\ ConnInv' /\ StopInv'
  BY <1>1, <1>2 DEF ClientInv, AttemptInv, TimerInv, ConnInv, StopInv
<1>7. StartInv' /\ DeadInv'
  BY <1>1, <1>2, <1>3 DEF ClientInv, StartInv, DeadInv
<1>8. ActiveInv'
  BY <1>1 DEF ClientInv, ActiveInv
<1> QED BY <1>1, <1>3, <1>4, <1>5, <1>6, <1>7, <1>8 DEF Kept, ClientInv, AssertsHold

\* The peer closes a connection that is up.
LEMMA PeerCloseStep ==
    ASSUME ClientInv, failed = {}, ~useAfterFree, NEW i \in Ids, PeerClose(i)
    PROVE  Kept
<1>1. /\ conns[i] \in {"up", "shut"} /\ conns' = [conns EXCEPT ![i] = "hup"]
      /\ UNCHANGED <<connect_, state_, channel_, timerId_, timer, due, pending, pc, freed,
                     failed, phase, active, batch, retry_, clientConnect, connection_,
                     closeCallback, held, client, upc, calls, started, stopped, useAfterFree,
                     destroyedAmid>>
  BY DEF PeerClose, connectorVars, attempt, loopVars, user, history
<1>2. /\ conns' \in [Ids -> {"none", "up", "shut", "hup", "closed", "destroyed"}]
      /\ conns'[i] = "hup" /\ \A j \in Ids : j # i => conns'[j] = conns[j]
  BY <1>1 DEF ClientInv, ClientType
<1>3. QueueOK(pending, batch, phase, channel_, closeCallback)'
      /\ StartsWith(pending') = StartsWith(pending)
  BY <1>1 DEF ClientInv
<1>4. ClientType'
  BY <1>1, <1>2 DEF ClientInv, ClientType
<1>5. FlagType'
  BY <1>1, Zenon DEF ClientInv, FlagType
<1>6. AttemptInv' /\ TimerInv' /\ StopInv' /\ DeadInv'
  BY <1>1, <1>3 DEF ClientInv, AttemptInv, TimerInv, Retries, StopInv, DeadInv
<1>7. ConnInv' /\ ActiveInv'
  BY <1>1, <1>2 DEF ClientInv, ConnInv, Live, ActiveInv
<1>8. StartInv'
  BY <1>1, <1>3 DEF ClientInv, StartInv, Retries
<1> QED BY <1>1, <1>3, <1>4, <1>5, <1>6, <1>7, <1>8 DEF Kept, ClientInv, AssertsHold

-----------------------------------------------------------------------------
(* What is still to be done to a connection *)

Ends == {"connectDestroyed", "forceClose"}
ConnStates == {"none", "up", "shut", "hup", "closed", "destroyed"}

\* A functor is queued; one that ends a connection is the first for it.
LEMMA EndsPush ==
    ASSUME NEW q \in Seq(Names \X Nat), NEW cs, EndsOK(q, cs), NEW n \in Names, NEW a \in Nat,
           n = "connectDestroyed" => a \in Ids /\ cs[a] = "closed",
           n = "forceClose" => a \in Ids /\ cs[a] \in Live,
           n \in Ends => \A k \in 1..Len(q) : ~(q[k][1] = n /\ q[k][2] = a)
    PROVE  EndsOK(Append(q, <<n, a>>), cs)
<1> DEFINE e == <<n, a>>
           r == Append(q, e)
<1>1. e \in Names \X Nat /\ e[1] = n /\ e[2] = a
  OBVIOUS
<1> HIDE DEF e
<1>2. /\ Len(q) \in Nat /\ Len(r) = Len(q) + 1
      /\ r[Len(q) + 1] = e /\ \A k \in 1..Len(q) : r[k] = q[k]
  BY <1>1, Places
<1> HIDE DEF r
<1>3. \A k \in 1..Len(r) : (k \in 1..Len(q) /\ r[k] = q[k]) \/ (k = Len(q) + 1 /\ r[k] = e)
  BY <1>2
<1>4. ASSUME NEW k \in 1..Len(r)
      PROVE  /\ r[k][1] = "connectDestroyed" => r[k][2] \in Ids /\ cs[r[k][2]] = "closed"
             /\ r[k][1] = "forceClose" => r[k][2] \in Ids /\ cs[r[k][2]] \in Live
  BY <1>1, <1>3 DEF EndsOK
<1>5. ASSUME NEW j \in 1..Len(r), NEW k \in 1..Len(r), r[j][1] \in Ends, r[j] = r[k]
      PROVE  j = k
  <2>1. CASE j \in 1..Len(q) /\ r[j] = q[j] /\ k \in 1..Len(q) /\ r[k] = q[k]
    BY <1>5, <2>1 DEF EndsOK, Ends
  <2>2. CASE j = Len(q) + 1 /\ k = Len(q) + 1
    BY <2>2
  <2>3. CASE j = Len(q) + 1 /\ r[j] = e /\ k \in 1..Len(q) /\ r[k] = q[k]
    BY <1>1, <1>5, <2>3
  <2>4. CASE k = Len(q) + 1 /\ r[k] = e /\ j \in 1..Len(q) /\ r[j] = q[j]
    BY <1>1, <1>5, <2>4
  <2> QED BY <1>3, <2>1, <2>2, <2>3, <2>4
<1>6. EndsOK(r, cs)
  BY <1>4, <1>5 DEF EndsOK, Ends
<1> QED BY <1>6 DEF r, e

\* Functors are equal by name and argument.
LEMMA SamePair ==
    ASSUME NEW x \in Names \X Nat, NEW y \in Names \X Nat, x[1] = y[1], x[2] = y[2]
    PROVE  x = y
OBVIOUS

\* The oldest functor leaves the queue; if it ends a connection, no other like it
\* is left.
LEMMA EndsPop ==
    ASSUME NEW q \in Seq(Names \X Nat), q # << >>, NEW cs, EndsOK(q, cs)
    PROVE  /\ EndsOK(Tail(q), cs) /\ Tail(q) \in Seq(Names \X Nat)
           /\ Head(q) \in Names \X Nat
           /\ Head(q)[1] = "connectDestroyed" => Head(q)[2] \in Ids /\ cs[Head(q)[2]] = "closed"
           /\ Head(q)[1] = "forceClose" => Head(q)[2] \in Ids /\ cs[Head(q)[2]] \in Live
           /\ Head(q)[1] \in Ends => \A k \in 1..Len(Tail(q)) : Tail(q)[k][1] \in Ends
                                                                   => Tail(q)[k][2] # Head(q)[2]
<1> DEFINE r == Tail(q)
<1>1. /\ Len(q) \in Nat /\ Len(q) > 0 /\ Head(q) = q[1] /\ Head(q) \in Names \X Nat
      /\ r \in Seq(Names \X Nat) /\ Len(r) = Len(q) - 1
      /\ \A k \in 1..(Len(q) - 1) : r[k] = q[k + 1]
  BY HeadTailProperties, EmptySeq
<1> HIDE DEF r
<1>2. 1 \in 1..Len(q) /\ \A k \in 1..Len(r) : k + 1 \in 1..Len(q) /\ k + 1 # 1 /\ r[k] = q[k + 1]
  BY <1>1
<1>3. \A k \in 1..Len(r) :
         /\ r[k][1] = "connectDestroyed" => r[k][2] \in Ids /\ cs[r[k][2]] = "closed"
         /\ r[k][1] = "forceClose" => r[k][2] \in Ids /\ cs[r[k][2]] \in Live
  BY <1>2 DEF EndsOK
<1>4. ASSUME NEW j \in 1..Len(r), NEW k \in 1..Len(r), r[j][1] \in Ends, r[j] = r[k]
      PROVE  j = k
  <2>1. /\ j + 1 \in 1..Len(q) /\ k + 1 \in 1..Len(q)
        /\ q[j + 1] = q[k + 1] /\ q[j + 1][1] \in Ends
    BY <1>2, <1>4
  <2>2. j + 1 = k + 1
    BY <2>1 DEF EndsOK, Ends
  <2> QED BY <2>2
<1>5. EndsOK(r, cs)
  BY <1>3, <1>4 DEF EndsOK, Ends
<1>6. /\ q[1][1] = "connectDestroyed" => q[1][2] \in Ids /\ cs[q[1][2]] = "closed"
      /\ q[1][1] = "forceClose" => q[1][2] \in Ids /\ cs[q[1][2]] \in Live
  BY <1>2 DEF EndsOK
<1>7. ASSUME q[1][1] \in Ends, NEW k \in 1..Len(r), r[k][1] \in Ends, r[k][2] = q[1][2]
      PROVE  FALSE
  <2>1. r[k][1] = q[1][1]
    BY <1>3, <1>6, <1>7 DEF Ends, Live
  <2>2. r[k] \in Names \X Nat /\ q[1] \in Names \X Nat
    BY <1>1
  <2>3. r[k] = q[1]
    BY <1>7, <2>1, <2>2, SamePair
  <2>4. k + 1 \in 1..Len(q) /\ k + 1 # 1 /\ q[k + 1] = q[1] /\ 1 \in 1..Len(q)
    BY <1>2, <2>3
  <2> QED BY <1>7, <2>4 DEF EndsOK, Ends
<1> QED BY <1>1, <1>5, <1>6, <1>7 DEF r

\* A connection changes that no queued functor is about.
LEMMA EndsOther ==
    ASSUME NEW q, NEW cs \in [Ids -> ConnStates], NEW cs2, EndsOK(q, cs), NEW i \in Ids,
           \A j \in Ids : j # i => cs2[j] = cs[j],
           \A k \in 1..Len(q) : q[k][1] \in Ends => q[k][2] # i
    PROVE  EndsOK(q, cs2)
BY DEF EndsOK, Ends

\* A connection changes that stays open.
LEMMA EndsLive ==
    ASSUME NEW q, NEW cs, NEW cs2, EndsOK(q, cs),
           \A j \in Ids : cs2[j] = cs[j] \/ (cs[j] \in Live /\ cs2[j] \in Live)
    PROVE  EndsOK(q, cs2)
BY DEF EndsOK, Live

\* handleClose, of a connection that no functor left in q is about.
LEMMA CloseEnds ==
    ASSUME NEW i \in Ids, NEW q \in Seq(Names \X Nat), EndsOK(q, conns), HandleClose(i, q),
           conns \in [Ids -> ConnStates], connection_ # 0 => closeCallback = "client",
           \A k \in 1..Len(q) : q[k][1] \in Ends => q[k][2] # i
    PROVE  CloseInv'
<1>1. /\ conns' = [conns EXCEPT ![i] = "closed"]
      /\ pending' = Append(q, <<"connectDestroyed", i>>) /\ connection_' = 0
  BY DEF HandleClose, RemoveConnection
<1>2. conns'[i] = "closed" /\ \A j \in Ids : j # i => conns'[j] = conns[j]
  BY <1>1
<1>3. EndsOK(q, conns')
  BY <1>2, EndsOther
<1>4. /\ \A k \in 1..Len(q) : ~(q[k][1] = "connectDestroyed" /\ q[k][2] = i)
      /\ "connectDestroyed" \in Names /\ i \in Nat
  BY DEF Ends, Names, Ids
<1>5. EndsOK(Append(q, <<"connectDestroyed", i>>), conns')
  BY <1>2, <1>3, <1>4, EndsPush
<1> QED BY <1>1, <1>5 DEF CloseInv

\* A step that leaves the connections alone and queues at most a functor of the
\* Connector.
LEMMA EndsKept ==
    ASSUME ClientInv, CloseInv, UNCHANGED <<conns, connection_, closedAmid>>,
           NEW n \in Names \ Ends, NEW a \in Nat,
           pending' = pending \/ pending' = Append(pending, <<n, a>>)
    PROVE  CloseInv'
<1>1. pending \in Seq(Names \X Nat)
  BY DEF ClientInv, QueueOK
<1>2. EndsOK(pending, conns) => EndsOK(pending', conns)
  <2>1. CASE pending' = pending
    BY <2>1
  <2>2. CASE pending' = Append(pending, <<n, a>>)
    BY <1>1, <2>2, EndsPush DEF Ends
  <2> QED BY <2>1, <2>2
<1> QED BY <1>2 DEF CloseInv

\* doPendingFunctors
LEMMA RunFunctorEnds ==
    ASSUME ClientInv, CloseInv, failed = {}, RunFunctor, failed' = {}
    PROVE  CloseInv'
<1> SUFFICES ASSUME ~closedAmid
             PROVE  CloseInv'
  BY DEF RunFunctor, CloseInv
<1> DEFINE name == Head(pending)[1]
           arg == Head(pending)[2]
           queue == Tail(pending)
<1>1. /\ pending \in Seq(Names \X Nat) /\ pending # << >> /\ EndsOK(pending, conns)
      /\ connection_ # 0 => conns[connection_] \in Live
      /\ name = "forceClose" => closeCallback = "detail"
  BY Pop DEF ClientInv, QueueOK, RunFunctor, CloseInv
<1>2. /\ EndsOK(queue, conns) /\ queue \in Seq(Names \X Nat)
      /\ name = "connectDestroyed" => arg \in Ids /\ conns[arg] = "closed"
      /\ name = "forceClose" => arg \in Ids /\ conns[arg] \in Live
      /\ name \in Ends => \A k \in 1..Len(queue) : queue[k][1] \in Ends => queue[k][2] # arg
  BY <1>1, EndsPop
<1>3. conns \in [Ids -> ConnStates] /\ connection_ \in 0..MaxConns
  BY DEF ClientInv, ClientType, ConnStates
<1>4. CASE pending' = queue /\ UNCHANGED <<conns, connection_>>
  BY <1>1, <1>2, <1>4 DEF CloseInv
<1>5. CASE /\ name = "connectDestroyed" /\ pending' = queue
           /\ conns' = [conns EXCEPT ![arg] = "destroyed"] /\ UNCHANGED connection_
  <2>1. \A j \in Ids : j # arg => conns'[j] = conns[j]
    BY <1>3, <1>5
  <2> HIDE DEF name, arg, queue
  <2>2. EndsOK(queue, conns')
    <3>1. /\ arg \in Ids /\ EndsOK(queue, conns)
          /\ \A k \in 1..Len(queue) : queue[k][1] \in Ends => queue[k][2] # arg
      BY <1>2, <1>5 DEF Ends
    <3> QED BY <1>3, <2>1, <3>1, EndsOther
  <2>3. connection_ # 0 => connection_ \in Ids /\ connection_ # arg
    BY <1>1, <1>2, <1>3, <1>5 DEF Ids, Live
  <2> QED BY <1>1, <1>5, <2>1, <2>2, <2>3 DEF CloseInv
<1>6. CASE name = "forceClose" /\ HandleClose(arg, queue)
  <2>1. connection_ # 0 => closeCallback = "client"
    BY DEF ClientInv, ConnInv, DeadInv, ClientType
  <2> HIDE DEF name, arg, queue
  <2> QED BY <1>2, <1>3, <1>6, <2>1, CloseEnds DEF Ends
<1>7. CASE name = "start" /\ UseConnector(StartInLoop /\ pending' = queue, queue)
           /\ UNCHANGED <<due, connection_, conns>>
  BY <1>4, <1>7 DEF UseConnector
<1>8. CASE /\ name = "reset"
           /\ UseConnector(/\ channel_' = "none" /\ pending' = queue
                           /\ UNCHANGED <<state_, retryDelay, timerId_, timer, sock, failures,
                                          gaveUp, pc, failed>>, queue)
           /\ UNCHANGED <<due, connection_, conns>>
  BY <1>4, <1>8 DEF UseConnector
<1> QED BY <1>4, <1>5, <1>6, <1>7, <1>8 DEF RunFunctor

\* A connection's event finds it open, and nothing queued for it unless its
\* forceClose is.
LEMMA ConnEventEnds ==
    ASSUME ClientInv, CloseInv, NEW i \in Ids, ConnEvent(i)
    PROVE  CloseInv'
<1> SUFFICES ASSUME ~closedAmid'
             PROVE  CloseInv'
  BY DEF CloseInv
<1>1. /\ HandleClose(i, pending) /\ <<"conn", i>> \in active /\ ~closedAmid
      /\ \A k \in DOMAIN pending : pending[k] # <<"forceClose", i>>
  BY DEF ConnEvent
<1>2. /\ conns[i] = "hup" /\ pending \in Seq(Names \X Nat) /\ EndsOK(pending, conns)
      /\ conns \in [Ids -> ConnStates]
  BY <1>1 DEF ClientInv, ActiveInv, QueueOK, CloseInv, ClientType, ConnStates
<1>3. connection_ # 0 => closeCallback = "client"
  BY DEF ClientInv, ConnInv, DeadInv, ClientType
<1>4. ASSUME NEW k \in 1..Len(pending), pending[k][1] \in Ends, pending[k][2] = i
      PROVE  FALSE
  <2>1. pending[k][1] = "forceClose"
    BY <1>2, <1>4 DEF EndsOK, Ends
  <2>2. pending[k] \in Names \X Nat /\ k \in DOMAIN pending
    BY <1>2
  <2>3. pending[k] = <<"forceClose", i>>
    BY <1>4, <2>1, <2>2
  <2> QED BY <1>1, <2>2, <2>3
<1> QED BY <1>1, <1>2, <1>3, <1>4, CloseEnds

\* ~TcpClient queues the only forceClose there is.
LEMMA DestroyEnds ==
    ASSUME ClientInv, CloseInv, DestroyClient
    PROVE  CloseInv'
<1> SUFFICES ASSUME ~closedAmid
             PROVE  CloseInv'
  BY DEF DestroyClient, CloseInv
<1>1. /\ pending \in Seq(Names \X Nat) /\ EndsOK(pending, conns) /\ UNCHANGED conns
      /\ connection_ # 0 => conns[connection_] \in Live
      /\ connection_ \in 0..MaxConns /\ closeCallback = "client"
  BY DEF DestroyClient, ClientInv, QueueOK, CloseInv, DeadInv, ClientType
<1>2. CASE DestroyUnconnected
  BY <1>1, <1>2 DEF DestroyUnconnected, CloseInv
<1>3. CASE DestroyConnected
  <2>1. connection_ # 0 /\ connection_ \in Ids /\ connection_ \in Nat /\ connection_' = 0
    BY <1>1, <1>3 DEF DestroyConnected, Ids
  <2>2. \A k \in 1..Len(pending) : pending[k][1] # "forceClose"
    BY <1>1 DEF ClientInv, QueueOK
  <2>3. EndsOK(Append(pending, <<"forceClose", connection_>>), conns)
    BY <1>1, <2>1, <2>2, EndsPush DEF Names
  <2> QED BY <1>1, <1>3, <2>1, <2>3 DEF DestroyConnected, CloseInv
<1> QED BY <1>2, <1>3 DEF DestroyClient

\* Every step keeps it.
LEMMA CloseStep ==
    ASSUME ClientInv, CloseInv, Next, failed' = {}
    PROVE  CloseInv'
<1>1. failed = {} /\ conns \in [Ids -> ConnStates] /\ timerId_ \in Nat
  BY DEF Next, ClientInv, ClientType, ConnStates
<1>2. /\ "start" \in Names \ Ends /\ "cancel" \in Names \ Ends /\ "reset" \in Names \ Ends
      /\ 0 \in Nat
  BY DEF Names, Ends
<1>3. CASE Poll \/ EventsDone \/ FunctorsDone \/ ReleaseConnector \/ HandlerStep
  <2>1. UNCHANGED <<conns, connection_, closedAmid, pending>>
    BY <1>3 DEF Poll, EventsDone, FunctorsDone, ReleaseConnector, HandlerStep, RestartStarts,
                StartConnects, Restart, RunAfter, connectorVars, clientVars, history
  <2> QED BY <1>2, <2>1, EndsKept
<1>4. CASE SockEvent
  <2>1. /\ UNCHANGED <<conns, connection_, closedAmid>>
        /\ pending' = pending \/ pending' = Append(pending, <<"reset", 0>>)
    BY <1>4 DEF SockEvent, UseConnector, HandleEvent, HandleError, HandleWrite, FinishAttempt,
                RemoveAndResetChannel, clientVars
  <2> QED BY <1>2, <2>1, EndsKept
<1>5. CASE \E t \in 1..MaxFailures : RetryTimerEvent(t)
  <2>1. UNCHANGED <<conns, connection_, closedAmid, pending>>
    BY <1>5 DEF RetryTimerEvent, UseConnector, clientVars
  <2> QED BY <1>2, <2>1, EndsKept
<1>6. CASE NewConnection
  <2>1. PICK i \in Ids : conns[i] = "none" /\ conns' = [conns EXCEPT ![i] = "up"] /\ connection_' = i
    BY <1>6 DEF NewConnection
  <2>2. UNCHANGED <<pending, closedAmid>>
    BY <1>6 DEF NewConnection, history
  <2>3. conns'[i] = "up" /\ \A j \in Ids : j # i => conns'[j] = conns[j]
    BY <1>1, <2>1
  <2>4. EndsOK(pending, conns) => \A k \in 1..Len(pending) : pending[k][1] \in Ends
                                                                => pending[k][2] # i
    BY <2>1 DEF EndsOK, Ends, Live
  <2>5. EndsOK(pending, conns) => EndsOK(pending, conns')
    BY <1>1, <2>3, <2>4, EndsOther
  <2> QED BY <2>1, <2>2, <2>3, <2>5 DEF CloseInv, Live
<1>7. CASE CallConnect \/ Stop \/ StopConnector \/ CancelTimer
  <2>1. /\ UNCHANGED <<conns, connection_, closedAmid>>
        /\ \/ pending' = pending \/ pending' = Append(pending, <<"start", 0>>)
           \/ pending' = Append(pending, <<"cancel", timerId_>>)
    BY <1>7 DEF CallConnect, Stop, StopConnector, CancelTimer, connectorVars, clientVars, history
  <2> QED BY <1>1, <1>2, <2>1, EndsKept
<1>8. CASE Disconnect \/ \E i \in Ids : PeerClose(i)
  <2>1. /\ UNCHANGED <<pending, connection_, closedAmid>>
        /\ \A j \in Ids : conns'[j] = conns[j] \/ (conns[j] \in Live /\ conns'[j] \in Live)
    BY <1>1, <1>8 DEF Disconnect, PeerClose, connectorVars, history, Live
  <2>2. EndsOK(pending, conns) => EndsOK(pending, conns')
    BY <2>1, EndsLive
  <2>3. connection_ # 0 => connection_ \in Ids
    BY DEF ClientInv, ClientType, Ids
  <2> QED BY <2>1, <2>2, <2>3 DEF CloseInv
<1>9. CASE SocketReady \/ \E t \in 0..MaxFailures : Expire(t)
  <2>1. UNCHANGED <<conns, connection_, closedAmid, pending>>
    BY <1>9 DEF SocketReady, Expire, clientVars, history
  <2> QED BY <1>2, <2>1, EndsKept
<1> QED
  BY <1>1, <1>3, <1>4, <1>5, <1>6, <1>7, <1>8, <1>9, RunFunctorEnds, ConnEventEnds, DestroyEnds
     DEF Next, LoopStep, UserStep, World

-----------------------------------------------------------------------------
(* The theorems *)

\* As long as no assertion has failed the client is in order.
SafeInv == AssertsHold /\ ~useAfterFree /\ (failed = {} => ClientInv /\ CloseInv)

\* Every step keeps it; a failed assertion lets no step follow.
LEMMA ClientStep ==
    ASSUME SafeInv, [Next]_vars
    PROVE  SafeInv'
<1>1. CASE UNCHANGED vars
  <2>1. /\ UNCHANGED <<failed, useAfterFree, destroyedAmid, closedAmid>>
        /\ CloseInv' <=> CloseInv
    BY <1>1 DEF vars, connectorVars, clientVars, history, CloseInv, EndsOK
  <2>2. ClientInv' <=> ClientInv
    <3> USE <1>1 DEF vars, connectorVars, attempt, loopVars, clientVars, user, history
    <3>1. /\ QueueOK(pending, batch, phase, channel_, closeCallback)'
             <=> QueueOK(pending, batch, phase, channel_, closeCallback)
          /\ StartsWith(pending') <=> StartsWith(pending)
      OBVIOUS
    <3>2. (ClientType' <=> ClientType) /\ (AttemptInv' <=> AttemptInv)
      BY DEF ClientType, AttemptInv
    <3>3. FlagType' <=> FlagType
      BY Zenon DEF FlagType
    <3>4. (TimerInv' <=> TimerInv) /\ (ConnInv' <=> ConnInv) /\ (StopInv' <=> StopInv)
      BY DEF TimerInv, Retries, ConnInv, StopInv
    <3>5. StartInv' <=> StartInv
      BY <3>1 DEF StartInv, Retries
    <3>6. ActiveInv' <=> ActiveInv
      BY DEF ActiveInv
    <3>7. DeadInv' <=> DeadInv
      BY <3>1 DEF DeadInv, Retries
    <3> QED BY <3>1, <3>2, <3>3, <3>4, <3>5, <3>6, <3>7 DEF ClientInv
  <2> QED BY <2>1, <2>2 DEF SafeInv, AssertsHold
<1>2. CASE Next
  <2>1. failed = {} /\ ~useAfterFree /\ ClientInv /\ CloseInv
    BY <1>2 DEF SafeInv, Next
  <2> SUFFICES Kept
    BY <1>2, <2>1, CloseStep DEF SafeInv, Kept
  <2>2. CASE LoopStep
    <3>1. CASE Poll \/ EventsDone \/ FunctorsDone
      BY <2>1, <3>1, PollStep, EventsDoneStep, FunctorsDoneStep
    <3>2. CASE SockEvent \/ RunFunctor \/ ReleaseConnector \/ NewConnection
      BY <2>1, <3>2, SockEventStep, RunFunctorStep, ReleaseConnectorStep, NewConnectionStep
    <3>3. CASE \E t \in 1..MaxFailures : RetryTimerEvent(t)
      BY <2>1, <3>3, RetryTimerStep
    <3>4. CASE \E i \in Ids : ConnEvent(i)
      BY <2>1, <3>4, ConnEventStep
    <3>5. CASE HandlerStep
      BY <2>1, <3>5, RestartStartsStep, RestartStep, RunAfterStep,
            StartConnectsStep DEF HandlerStep
    <3> QED BY <2>2, <3>1, <3>2, <3>3, <3>4, <3>5 DEF LoopStep
  <2>3. CASE UserStep
    BY <2>1, <2>3, CallConnectStep, StopFlagsStep, CancelTimerStep, DisconnectStep DEF UserStep
  <2>4. CASE DestroyClient
    <3>1. DestroyConnected \/ DestroyUnconnected
      BY <2>4 DEF DestroyClient
    <3> QED BY <2>1, <2>4, <3>1, DestroyConnectedStep, DestroyUnconnectedStep
  <2>5. CASE World
    <3>1. CASE \E i \in Ids : PeerClose(i)
      BY <2>1, <3>1, PeerCloseStep
    <3>2. CASE SocketReady \/ \E t \in 0..MaxFailures : Expire(t)
      BY <2>1, <3>2, ExpireStep
    <3> QED BY <2>5, <3>1, <3>2 DEF World
  <2> QED BY <1>2, <2>2, <2>3, <2>4, <2>5 DEF Next
<1> QED BY <1>1, <1>2

\* The invariant of the specification.
LEMMA ClientSafe == Spec => []SafeInv
<1>1. Init => SafeInv
  BY InitClientInv DEF SafeInv, AssertsHold
<1>2. SafeInv /\ [Next]_vars => SafeInv'
  BY ClientStep
<1> QED BY <1>1, <1>2, PTL DEF Spec

\* Connector and TcpClient: however retries, reconnections and calls from
\* another thread interleave, the assertions of startInLoop, connecting,
\* handleWrite, handleError and removeConnection hold, ~Connector finds a
\* channel only when the client goes in the turn of its connection, and
\* connectDestroyed runs twice only when the peer's close is handled between
\* ~TcpClient and the forceClose it queued.
THEOREM ClientAsserts == Spec => []AssertsHold
<1>1. SafeInv => AssertsHold
  BY DEF SafeInv
<1> QED BY <1>1, ClientSafe, PTL

\* ~TcpClient and detail::removeConnector: no timer, functor or event reaches
\* the Connector after its deletion.
THEOREM NoUseAfterFree == Spec => []ConnectorOutlived
<1>1. SafeInv => ConnectorOutlived
  BY DEF SafeInv, ConnectorOutlived
<1> QED BY <1>1, ClientSafe, PTL

\* stop(): no connection is handed over after it, unless the loop thread had
\* tested the flag before.
THEOREM NoConnectionAfterStop == Spec => StopSticks
<1>1. SafeInv /\ [Next]_vars => [stopped => connection_' \in {0, connection_}]_vars
  <2> SUFFICES ASSUME SafeInv, Next, stopped
               PROVE  connection_' \in {0, connection_}
    OBVIOUS
  <2>1. pc # "newConnection"
    BY DEF SafeInv, Next, ClientInv, StopInv
  <2>2. CASE LoopStep
    <3>1. CASE \E i \in Ids : ConnEvent(i)
      BY <3>1 DEF ConnEvent, HandleClose, RemoveConnection
    <3>2. CASE RunFunctor
      BY <3>2 DEF RunFunctor, HandleClose, RemoveConnection
    <3>3. CASE Poll \/ EventsDone \/ FunctorsDone \/ SockEvent \/ ReleaseConnector \/ HandlerStep
      BY <3>3 DEF Poll, EventsDone, FunctorsDone, SockEvent, ReleaseConnector, HandlerStep,
                  clientVars
    <3>4. CASE \E t \in 1..MaxFailures : RetryTimerEvent(t)
      BY <3>4 DEF RetryTimerEvent, clientVars
    <3>5. CASE NewConnection
      BY <2>1, <3>5 DEF NewConnection
    <3> QED BY <2>2, <3>1, <3>2, <3>3, <3>4, <3>5 DEF LoopStep
  <2>3. CASE UserStep
    BY <2>3 DEF UserStep, CallConnect, Stop, StopConnector, CancelTimer, Disconnect, clientVars
  <2>4. CASE DestroyClient
    BY <2>4 DEF DestroyClient, DestroyConnected, DestroyUnconnected
  <2>5. CASE World
    BY <2>5 DEF World, SocketReady, PeerClose, Expire, clientVars
  <2> QED BY <2>2, <2>3, <2>4, <2>5 DEF Next
<1> QED BY <1>1, ClientSafe, PTL DEF Spec, StopSticks
=============================================================================
