----------------------------- MODULE TcpServer -----------------------------
(***************************************************************************)
(* net/TcpServer, Acceptor and EventLoopThreadPool driving TcpConnection:  *)
(* a base loop accepts connections and keeps the map of them, io loops     *)
(* serve them, user threads call send, shutdown and forceClose on them,    *)
(* and the peers send, close and reset.  A loop is what EventLoop was      *)
(* shown to provide: it polls when an event or a functor waits, dispatches *)
(* the events, then runs the functors it found, in order.                  *)
(***************************************************************************)
EXTENDS TcpConnection

CONSTANTS
    Conns,              \* connections
    ThreadCounts,       \* values setThreadNum may be given
    Users,              \* user threads
    MaxForce,           \* bound on the calls of forceClose
    ConnectionOps,      \* what connectionCallback_ may call on its connection
    MessageOps,         \* what messageCallback_ may call
    WriteCompleteOps,   \* what writeCompleteCallback_ may call
    ThreadOps           \* what user threads may call

Ops == {"send", "shutdown", "forceClose"}

Base == 0                   \* loop_ of the server
Loops == UNION {0..n : n \in ThreadCounts}
Listener == "listener"      \* acceptChannel_
None == "none"

ASSUME ServerAssumption ==
    /\ ThreadCounts \subseteq Nat /\ ThreadCounts # {} /\ IsFiniteSet(ThreadCounts)
    /\ MaxForce \in Nat
    /\ ConnectionOps \subseteq Ops /\ MessageOps \subseteq Ops
    /\ WriteCompleteOps \subseteq Ops /\ ThreadOps \subseteq Ops
    /\ Listener \notin Conns

VARIABLES
    conn,           \* the connections
    loopOf,         \* TcpConnection::loop_
    connections,    \* connections_
    listening,      \* listenning_ of the acceptor
    backlog,        \* connections the kernel holds for accept
    numThreads,     \* numThreads_ of the thread pool
    next,           \* next_ of the thread pool
    lpc,            \* per loop: "poll", "dispatch" or "run"
    active,         \* per loop: activeChannels_
    todo,           \* per loop: callbacks of the event being handled
    ctx,            \* per loop: the user callback being run, as <<kind, connection>>
    pending,        \* per loop: pendingFunctors_
    batch,          \* per loop: functors of doPendingFunctors still to run
    upc,            \* per user thread: the call it is in
    held,           \* connections of which the user keeps a TcpConnectionPtr
    unsent,         \* messages not used yet
    forces,         \* calls of forceClose so far
    removals        \* per connection: runs of removeConnectionInLoop

server == <<connections, listening, backlog, numThreads, next, loopOf, removals>>
inLoop == <<lpc, active, todo, ctx>>
queues == <<pending, batch>>
user == <<upc, held, unsent, forces>>
vars == <<conn, server, inLoop, queues, user>>

Idle == [op |-> None, c |-> None, m |-> None, step |-> None]
Functor(op, c) == [op |-> op, c |-> c, m |-> None]
SendFunctor(c, m) == [op |-> "sendInLoop", c |-> c, m |-> m]

FunctorOps == {"connectEstablished", "removeConnectionInLoop",
               "connectDestroyed", "sendInLoop", "shutdownInLoop",
               "forceCloseInLoop", "writeComplete", "highWaterMark"}

Functors == [op : FunctorOps, c : Conns, m : Msgs \cup {None}]
Elements(s) == {s[i] : i \in DOMAIN s}

TypeOK ==
    /\ \A c \in Conns : IsConnection(conn[c])
    /\ loopOf \in [Conns -> Loops]
    /\ connections \subseteq Conns /\ backlog \subseteq Conns
    /\ held \subseteq Conns /\ unsent \subseteq Msgs
    /\ listening \in BOOLEAN /\ numThreads \in Loops /\ next \in Loops
    /\ forces \in 0..MaxForce
    /\ \A l \in Loops :
        /\ lpc[l] \in {"poll", "dispatch", "run"}
        /\ active[l] \subseteq Conns \cup {Listener}
        /\ Elements(pending[l]) \cup Elements(batch[l]) \subseteq Functors
        /\ Elements(todo[l]) \subseteq {"close", "error", "read", "write"} \X Conns
        /\ ctx[l] \in {<< >>} \cup
                ({"connection", "message", "writeComplete"} \X Conns)
        /\ batch[l] # << >> => lpc[l] = "run"
        /\ active[l] # {} \/ todo[l] # << >> => lpc[l] = "dispatch"

Init ==
    /\ conn = [c \in Conns |-> Unborn]
    /\ loopOf = [c \in Conns |-> Base]
    /\ connections = {} /\ listening = FALSE /\ backlog = {}
    /\ numThreads = 0 /\ next = 0
    /\ lpc = [l \in Loops |-> "poll"]
    /\ active = [l \in Loops |-> {}]
    /\ todo = [l \in Loops |-> << >>]
    /\ ctx = [l \in Loops |-> << >>]
    /\ pending = [l \in Loops |-> << >>]
    /\ batch = [l \in Loops |-> << >>]
    /\ upc = [u \in Users |-> Idle]
    /\ held = {} /\ unsent = Msgs /\ forces = 0
    /\ removals = [c \in Conns |-> 0]

\* The loop thread is in no callback.
Free(l) == todo[l] = << >> /\ ctx[l] = << >>

Queue(l, fs) == pending' = [pending EXCEPT ![l] = @ \o fs]

\* Who keeps the connection's shared_ptr: the map, a bound functor, the user,
\* a call in progress.
Referenced(c) ==
    \/ c \in connections \cup held
    \/ \E l \in Loops :
        \/ \E f \in Elements(pending[l]) \cup Elements(batch[l]) : f.c = c
        \/ ctx[l] # << >> /\ ctx[l][2] = c
    \/ \E u \in Users : upc[u].c = c

-----------------------------------------------------------------------------
(* Server: accepting *)

\* setThreadNum and start(): start the pool's loops, then Acceptor::listen in the
\* base loop
Start ==
    /\ ~listening
    /\ numThreads' \in ThreadCounts
    /\ listening' = TRUE
    /\ UNCHANGED <<conn, connections, backlog, next, loopOf, removals, inLoop,
                   queues, user>>

\* EventLoopThreadPool::getNextLoop: loops_[next_], or the base loop
NextLoop == IF numThreads = 0 THEN Base ELSE next + 1

\* newConnection: register in the map, then connectEstablished in the io loop
NewConnection(c) ==
    LET l == NextLoop IN
    /\ loopOf' = [loopOf EXCEPT ![c] = l]
    /\ next' = IF numThreads = 0 THEN next ELSE (next + 1) % numThreads
    /\ connections' = connections \cup {c}
    /\ IF l = Base
       THEN /\ conn' = [conn EXCEPT ![c] = ConnectEstablished(@)]
            /\ ctx' = [ctx EXCEPT ![Base] = <<"connection", c>>]
            /\ held' = held \cup {c}
            /\ UNCHANGED pending
       ELSE /\ conn' = [conn EXCEPT ![c].state = "kConnecting"]
            /\ Queue(l, <<Functor("connectEstablished", c)>>)
            /\ UNCHANGED <<ctx, held>>

\* one turn of the loop of Acceptor::handleRead
AcceptOne(c) ==
    /\ Listener \in active[Base] /\ Free(Base) /\ c \in backlog
    /\ backlog' = backlog \ {c}
    /\ NewConnection(c)
    /\ UNCHANGED <<listening, numThreads, removals, lpc, active, todo, batch, upc,
                   unsent, forces>>

\* a turn in which the descriptor is beyond the limit: it is closed
RefuseOne(c) ==
    /\ Listener \in active[Base] /\ Free(Base) /\ c \in backlog
    /\ backlog' = backlog \ {c}
    /\ conn' = [conn EXCEPT ![c] = Unborn]
    /\ UNCHANGED <<connections, listening, numThreads, next, loopOf, removals,
                   inLoop, queues, user>>

\* accept finds nothing more
AcceptDone ==
    /\ Listener \in active[Base] /\ Free(Base) /\ backlog = {}
    /\ active' = [active EXCEPT ![Base] = @ \ {Listener}]
    /\ UNCHANGED <<conn, server, lpc, todo, ctx, queues, user>>

-----------------------------------------------------------------------------
(* The loops *)

ReadyConns(l) == {c \in Conns : loopOf[c] = l /\ Revents(conn[c]) # {}}

ReadyListener(l) ==
    IF l = Base /\ listening /\ backlog # {} THEN {Listener} ELSE {}

\* poll returns with the events of the moment, or because of a wakeup
Poll(l) ==
    /\ lpc[l] = "poll"
    /\ ReadyConns(l) \cup ReadyListener(l) # {} \/ pending[l] # << >>
    /\ active' = [active EXCEPT ![l] = ReadyConns(l) \cup ReadyListener(l)]
    /\ conn' = [c \in Conns |->
                  IF c \in ReadyConns(l)
                  THEN [conn[c] EXCEPT !.revents = Revents(conn[c])]
                  ELSE conn[c]]
    /\ lpc' = [lpc EXCEPT ![l] = "dispatch"]
    /\ UNCHANGED <<server, todo, ctx, queues, user>>

\* handleEvent of a connection's channel
HandleEvent(l, c) ==
    /\ c \in active[l] /\ Free(l)
    /\ active' = [active EXCEPT ![l] = @ \ {c}]
    /\ todo' = [todo EXCEPT ![l] =
                  [i \in DOMAIN HandlersOf(conn[c].revents) |->
                     <<HandlersOf(conn[c].revents)[i], c>>]]
    /\ conn' = [conn EXCEPT ![c].revents = {}]
    /\ UNCHANGED <<server, lpc, ctx, queues, user>>

\* doPendingFunctors up to the swap
TakeFunctors(l) ==
    /\ lpc[l] = "dispatch" /\ active[l] = {} /\ Free(l)
    /\ batch' = [batch EXCEPT ![l] = pending[l]]
    /\ pending' = [pending EXCEPT ![l] = << >>]
    /\ lpc' = [lpc EXCEPT ![l] = "run"]
    /\ UNCHANGED <<conn, server, active, todo, ctx, user>>

\* doPendingFunctors returns
FunctorsDone(l) ==
    /\ lpc[l] = "run" /\ batch[l] = << >> /\ Free(l)
    /\ lpc' = [lpc EXCEPT ![l] = "poll"]
    /\ UNCHANGED <<conn, server, active, todo, ctx, queues, user>>

\* a user callback returns
CallbackReturns(l) ==
    /\ ctx[l] # << >>
    /\ ctx' = [ctx EXCEPT ![l] = << >>]
    /\ UNCHANGED <<conn, server, lpc, active, todo, queues, user>>

-----------------------------------------------------------------------------
(* Callbacks of a connection's channel *)

\* removeConnectionInLoop
Remove(c) ==
    /\ connections' = connections \ {c}
    /\ removals' = [removals EXCEPT ![c] = @ + 1]

\* Wrong variant: connectDestroyed does not wait for the functors' turn.
CloseDestroysAtOnce(l, c) ==
    /\ Remove(c)
    /\ conn' = [conn EXCEPT ![c] = ConnectDestroyed(HandleClose(@))]
    /\ UNCHANGED pending

\* Wrong variant: a connection that is being shut down is not closed.
CloseIfConnected(l, c) ==
    /\ conn[c].state = "kConnected"
    /\ conn' = [conn EXCEPT ![c] = HandleClose(@)]
    /\ Queue(Base, <<Functor("removeConnectionInLoop", c)>>)
    /\ UNCHANGED <<connections, removals>>

\* handleClose with closeCallback_ = removeConnection, which runs
\* removeConnectionInLoop in the base loop
Close(l, c) ==
    /\ conn' = [conn EXCEPT ![c] = HandleClose(@)]
    /\ IF l = Base
       THEN /\ Remove(c)
            /\ Queue(loopOf[c], <<Functor("connectDestroyed", c)>>)
       ELSE /\ Queue(Base, <<Functor("removeConnectionInLoop", c)>>)
            /\ UNCHANGED <<connections, removals>>

\* The next callback of the event being handled is h, on connection c.
NextHandler(l, h, c) ==
    /\ todo[l] # << >> /\ ctx[l] = << >> /\ Head(todo[l]) = <<h, c>>
    /\ todo' = [todo EXCEPT ![l] = Tail(@)]
    /\ UNCHANGED <<listening, backlog, numThreads, next, loopOf, lpc, active, batch, user>>

\* closeCallback_
HandleHangup(l, c) ==
    /\ NextHandler(l, "close", c)
    /\ Close(l, c)
    /\ UNCHANGED ctx

\* errorCallback_
HandleSocketError(l, c) ==
    /\ NextHandler(l, "error", c)
    /\ conn' = [conn EXCEPT ![c] = HandleError(@)]
    /\ UNCHANGED <<connections, removals, ctx, pending>>

\* handleRead, n > 0: messageCallback_
HandleReadMessage(l, c) ==
    /\ NextHandler(l, "read", c) /\ conn[c].input > 0
    /\ conn' = [conn EXCEPT ![c].input = 0]
    /\ ctx' = [ctx EXCEPT ![l] = <<"message", c>>]
    /\ UNCHANGED <<connections, removals, pending>>

\* handleRead, n = 0
HandleReadEof(l, c) ==
    /\ NextHandler(l, "read", c)
    /\ conn[c].input = 0 /\ conn[c].peer \in {"fin", "dead"}
    /\ Close(l, c)
    /\ UNCHANGED ctx

\* handleRead, n < 0
HandleReadError(l, c) ==
    /\ NextHandler(l, "read", c)
    /\ conn[c].input = 0 /\ conn[c].peer \in {"open", "rst"}
    /\ conn' = [conn EXCEPT ![c] = HandleError(@)]
    /\ UNCHANGED <<connections, removals, ctx, pending>>

\* handleWrite
HandleWrite(l, c) ==
    /\ NextHandler(l, "write", c)
    /\ \E n \in WriteSizes(conn[c], conn[c].out) :
        LET sent == n > 0 /\ IsWriting(conn[c]) IN
        /\ conn' = IF sent THEN [conn EXCEPT ![c] = AfterWrite(@, n)] ELSE conn
        /\ Queue(l, IF sent /\ n = Len(conn[c].out)
                    THEN <<Functor("writeComplete", c)>> ELSE << >>)
    /\ UNCHANGED <<connections, removals, ctx>>

-----------------------------------------------------------------------------
(* Functors *)

\* The next functor of loop l is op on connection c, with message m.
NextFunctor(l, op, c, m) ==
    /\ lpc[l] = "run" /\ Free(l) /\ batch[l] # << >>
    /\ Head(batch[l]) = [op |-> op, c |-> c, m |-> m]
    /\ batch' = [batch EXCEPT ![l] = Tail(@)]
    /\ UNCHANGED <<listening, backlog, numThreads, next, loopOf, lpc, active, todo, upc,
                   unsent, forces>>

RunConnectEstablished(l, c) ==
    /\ NextFunctor(l, "connectEstablished", c, None)
    /\ conn' = [conn EXCEPT ![c] = ConnectEstablished(@)]
    /\ ctx' = [ctx EXCEPT ![l] = <<"connection", c>>]
    /\ held' = held \cup {c}
    /\ UNCHANGED <<connections, removals, pending>>

RunRemoveConnection(l, c) ==
    /\ NextFunctor(l, "removeConnectionInLoop", c, None)
    /\ Remove(c)
    /\ Queue(loopOf[c], <<Functor("connectDestroyed", c)>>)
    /\ UNCHANGED <<conn, ctx, held>>

RunConnectDestroyed(l, c) ==
    /\ NextFunctor(l, "connectDestroyed", c, None)
    /\ conn' = [conn EXCEPT ![c] = ConnectDestroyed(@)]
    /\ UNCHANGED <<connections, removals, ctx, held, pending>>

\* sendInLoop
SendInLoop(l, c, m) ==
    \E n \in SendSizes(conn[c], m) :
        /\ conn' = [conn EXCEPT ![c] = AfterSend(@, m, n)]
        /\ Queue(l, [i \in DOMAIN SendQueues(conn[c], n) |->
                       Functor(SendQueues(conn[c], n)[i], c)])

RunSend(l, c, m) ==
    /\ NextFunctor(l, "sendInLoop", c, m)
    /\ SendInLoop(l, c, m)
    /\ UNCHANGED <<connections, removals, ctx, held>>

RunShutdown(l, c) ==
    /\ NextFunctor(l, "shutdownInLoop", c, None)
    /\ conn' = [conn EXCEPT ![c] = ShutdownInLoop(@)]
    /\ UNCHANGED <<connections, removals, ctx, held, pending>>

RunForceClose(l, c) ==
    /\ NextFunctor(l, "forceCloseInLoop", c, None)
    /\ IF conn[c].state \in {"kConnected", "kDisconnecting"}
       THEN Close(l, c)
       ELSE UNCHANGED <<conn, connections, removals, pending>>
    /\ UNCHANGED <<ctx, held>>

RunWriteComplete(l, c) ==
    /\ NextFunctor(l, "writeComplete", c, None)
    /\ ctx' = [ctx EXCEPT ![l] = <<"writeComplete", c>>]
    /\ UNCHANGED <<conn, connections, removals, held, pending>>

\* highWaterMarkCallback_: code of the user that leaves the connection alone
RunHighWaterMark(l, c) ==
    /\ NextFunctor(l, "highWaterMark", c, None)
    /\ UNCHANGED <<conn, connections, removals, ctx, held, pending>>

-----------------------------------------------------------------------------
(* Calls of the user, in the loop thread and in other threads *)

OpsOf(kind) ==
    CASE kind = "connection" -> ConnectionOps
      [] kind = "message" -> MessageOps
      [] kind = "writeComplete" -> WriteCompleteOps

\* What each call asks of state_ before it does anything.
StateAllows(op, s) ==
    s = "kConnected" \/ (op = "forceClose" /\ s = "kDisconnecting")

\* A callback of loop l may call op on its connection c.
InCallback(l, c, op) ==
    /\ ctx[l] # << >> /\ ctx[l][2] = c
    /\ op \in OpsOf(ctx[l][1]) /\ StateAllows(op, conn[c].state)
    /\ UNCHANGED <<server, inLoop, batch, upc, held>>

CallSend(l, c, m) ==
    /\ InCallback(l, c, "send") /\ m \in unsent
    /\ SendInLoop(l, c, m)
    /\ unsent' = unsent \ {m}
    /\ UNCHANGED forces

CallShutdown(l, c) ==
    /\ InCallback(l, c, "shutdown")
    /\ conn' = [conn EXCEPT
                  ![c] = ShutdownInLoop([@ EXCEPT !.state = "kDisconnecting"])]
    /\ UNCHANGED <<pending, unsent, forces>>

CallForceClose(l, c) ==
    /\ InCallback(l, c, "forceClose") /\ forces < MaxForce
    /\ conn' = [conn EXCEPT ![c].state = "kDisconnecting"]
    /\ Queue(l, <<Functor("forceCloseInLoop", c)>>)
    /\ forces' = forces + 1
    /\ UNCHANGED unsent

\* Another thread: the test of state_ ...
ThreadTest(u, c, op) ==
    /\ upc[u] = Idle /\ c \in held
    /\ op \in ThreadOps /\ StateAllows(op, conn[c].state)
    /\ IF op = "send"
       THEN \E m \in unsent :
              /\ upc' = [upc EXCEPT ![u] = [op |-> op, c |-> c, m |-> m,
                                            step |-> "queue"]]
              /\ unsent' = unsent \ {m}
       ELSE /\ upc' = [upc EXCEPT ![u] = [op |-> op, c |-> c, m |-> None,
                                          step |-> "set"]]
            /\ UNCHANGED unsent
    /\ IF op = "forceClose" THEN forces < MaxForce /\ forces' = forces + 1
                            ELSE UNCHANGED forces
    /\ UNCHANGED <<conn, server, inLoop, queues, held>>

\* ... the assignment of state_ in shutdown and forceClose ...
ThreadSetState(u) ==
    /\ upc[u].step = "set"
    /\ conn' = [conn EXCEPT ![upc[u].c].state = "kDisconnecting"]
    /\ upc' = [upc EXCEPT ![u].step = "queue"]
    /\ UNCHANGED <<server, inLoop, queues, held, unsent, forces>>

\* ... and the functor handed to the connection's loop.
ThreadQueue(u) ==
    LET call == upc[u]
        f == CASE call.op = "send" -> SendFunctor(call.c, call.m)
               [] call.op = "shutdown" -> Functor("shutdownInLoop", call.c)
               [] call.op = "forceClose" -> Functor("forceCloseInLoop", call.c)
    IN  /\ call.step = "queue"
        /\ Queue(loopOf[call.c], <<f>>)
        /\ upc' = [upc EXCEPT ![u] = Idle]
        /\ UNCHANGED <<conn, server, inLoop, batch, held, unsent, forces>>

\* The user drops its TcpConnectionPtr.
DropPtr(c) ==
    /\ c \in held
    /\ held' = held \ {c}
    /\ UNCHANGED <<conn, server, inLoop, queues, upc, unsent, forces>>

-----------------------------------------------------------------------------
(* The peers *)

Arrive(c) ==
    /\ listening /\ conn[c].state = "none" /\ c \notin backlog
    /\ backlog' = backlog \cup {c}
    /\ UNCHANGED <<conn, connections, listening, numThreads, next, loopOf, removals, inLoop,
                   queues, user>>

PeerActs(c, r) ==
    /\ c \in backlog \/ conn[c].state # "none"
    /\ conn' = [conn EXCEPT ![c] = r]
    /\ UNCHANGED <<server, inLoop, queues, user>>

PeerSends(c) ==
    /\ conn[c].peer = "open" /\ conn[c].input = 0 /\ conn[c].closes = 0
    /\ PeerActs(c, [conn[c] EXCEPT !.input = 1])

PeerReads(c) ==
    /\ conn[c].sndFull
    /\ PeerActs(c, [conn[c] EXCEPT !.sndFull = FALSE])

PeerCloses(c) ==
    /\ conn[c].peer = "open"
    /\ PeerActs(c, [conn[c] EXCEPT !.peer = "fin"])

PeerResets(c) ==
    /\ conn[c].peer \in {"open", "fin"}
    /\ PeerActs(c, [conn[c] EXCEPT !.peer = "rst", !.input = 0])

-----------------------------------------------------------------------------
LoopStep(l) ==
    \/ Poll(l) \/ TakeFunctors(l) \/ FunctorsDone(l) \/ CallbackReturns(l)
    \/ l = Base /\ (AcceptDone \/ \E c \in Conns : AcceptOne(c) \/ RefuseOne(c))
    \/ \E c \in Conns :
        \/ HandleEvent(l, c)
        \/ HandleHangup(l, c) \/ HandleSocketError(l, c)
        \/ HandleReadMessage(l, c) \/ HandleReadEof(l, c) \/ HandleReadError(l, c)
        \/ HandleWrite(l, c)
        \/ RunConnectEstablished(l, c) \/ RunRemoveConnection(l, c)
        \/ RunConnectDestroyed(l, c) \/ RunShutdown(l, c) \/ RunForceClose(l, c)
        \/ RunWriteComplete(l, c) \/ RunHighWaterMark(l, c)
        \/ \E m \in Msgs : RunSend(l, c, m)

CallStep(l) ==
    \E c \in Conns :
        \/ CallShutdown(l, c) \/ CallForceClose(l, c)
        \/ \E m \in Msgs : CallSend(l, c, m)

ThreadStep(u) ==
    \/ ThreadSetState(u) \/ ThreadQueue(u)
    \/ \E c \in Conns, op \in Ops : ThreadTest(u, c, op)

PeerStep ==
    \E c \in Conns :
        Arrive(c) \/ PeerSends(c) \/ PeerReads(c) \/ PeerCloses(c) \/ PeerResets(c)

Next ==
    \/ Start
    \/ \E l \in Loops : LoopStep(l) \/ CallStep(l)
    \/ \E u \in Users : ThreadStep(u)
    \/ \E c \in Conns : DropPtr(c)
    \/ PeerStep

Spec == Init /\ [][Next]_vars

\* Every loop thread runs and its callbacks return; nothing is asked of the
\* peers and of the user.
FairSpec == Spec /\ \A l \in Loops : WF_vars(LoopStep(l))

-----------------------------------------------------------------------------
(* Properties *)

Created(c) == conn[c].state # "none"

\* TcpServer.cc:85-86, TcpConnection.h:108: the connection is in the map when it
\* is removed, so it is removed once, and connectDestroyed runs once.
RemovedOnce == \A c \in Conns : removals[c] <= 1 /\ conn[c].destroyed <= 1

\* TcpConnection.cc:91,109,120, TcpServer.cc:86: the assertions the Debug
\* build compiles hold whenever control reaches them, however the events of a
\* connection and the functors of its two loops interleave.
AssertsHold ==
    /\ TypeOK /\ RemovedOnce
    /\ \A l \in Loops :
        /\ lpc[l] = "run" /\ batch[l] # << >> /\ Free(l) =>
            LET f == Head(batch[l]) IN
            /\ f.op = "connectEstablished" => conn[f.c].state = "kConnecting"
            /\ f.op = "connectDestroyed" =>
                 conn[f.c].state \in {"kConnected", "kDisconnecting"}
            /\ f.op = "removeConnectionInLoop" => f.c \in connections
        /\ todo[l] # << >> /\ Head(todo[l])[1] = "close" =>
             conn[Head(todo[l])[2]].state \in {"kConnected", "kDisconnecting"}

\* Channel.cc:32-41, TcpServer.cc:87-92: when the last TcpConnectionPtr is
\* gone, no poller knows the channel and no loop is about to call it or is in
\* one of its callbacks.
ChannelOutlived ==
    \A c \in Conns :
        Created(c) /\ ~Referenced(c) =>
            /\ conn[c].index = "kNew"
            /\ \A l \in Loops :
                 /\ c \notin active[l]
                 /\ \A h \in Elements(todo[l]) : h[2] # c

\* TcpConnection.cc:180-269: what the kernel got and what outputBuffer_ still
\* holds is what was handed to sendInLoop, in order, nothing lost or doubled.
StreamIntact ==
    \A c \in Conns : conn[c].wire \o conn[c].out = conn[c].given

\* TcpConnection.cc:133-153,256-259: as long as the connection is not closed,
\* SHUT_WR comes after all the output accepted before it.
ShutdownAfterOutput ==
    [][\A c \in Conns :
         conn'[c].shutWr /\ ~conn[c].shutWr /\ conn[c].closes = 0
            => conn'[c].out = << >>]_vars

\* TcpServer.cc:72-93, TcpConnection.cc:117-130: when the peer closes or resets,
\* the connection comes down, whatever the callbacks do.
PeerCloseEnds ==
    \A c \in Conns :
        (conn[c].state = "kConnected" /\ conn[c].peer # "open")
            ~> (conn[c].state = "kDisconnected" /\ c \notin connections)

\* TcpConnection.cc:207-269: output does not sit in outputBuffer_ while the
\* socket can take it.
OutputMoves ==
    \A c \in Conns :
        (conn[c].out # << >> /\ conn[c].closes = 0)
            ~> (conn[c].out = << >> \/ conn[c].sndFull \/ conn[c].closes > 0)
=============================================================================
