----------------------------- MODULE TcpClient -----------------------------
(***************************************************************************)
(* net/TcpClient over Connector: one client, its loop thread, and a user   *)
(* in another thread, who connects once and may call stop() and            *)
(* disconnect() at any time.  The client is destroyed in the loop thread.  *)
(* Of a TcpConnection, modelled in its own module, only what the client    *)
(* sees is kept: it comes up, its peer or forceClose ends it, and it calls *)
(* its close callback.                                                     *)
(***************************************************************************)
EXTENDS Connector

CONSTANTS
    MaxConns,       \* bound on the connections; the peer closes all but the last
    MaxCalls        \* bound on the calls of stop() and disconnect()

ASSUME ClientAssumption == MaxConns \in Nat \ {0} /\ MaxCalls \in Nat

VARIABLES
    retry_, clientConnect,  \* TcpClient::retry_, TcpClient::connect_
    connection_,            \* the connection the client holds; 0: none
    conns,                  \* the connections: what has become of each
    closeCallback,          \* "client" or, set by ~TcpClient, "detail"
    held,                   \* the user has a TcpConnectionPtr of its own
    upc,                    \* step of the user's call; "idle": none
    calls,                  \* calls made
    started,                \* connect() was called
    client,                 \* the TcpClient exists
    stopped,                \* history: a stop() that nothing in progress overtakes
    useAfterFree,           \* history: a deleted Connector was used
    destroyedAmid,          \* history: ... deleted in the turn of its connection
    closedAmid              \* history: a connection closed with its forceClose queued

user == <<upc, calls, started>>
history == <<stopped, useAfterFree, destroyedAmid, closedAmid>>
clientVars == <<retry_, clientConnect, connection_, conns, closeCallback, held,
                client>>
connectorVars == <<connect_, attempt, due, pending, pc, freed, failed>>
vars == <<connectorVars, loopVars, clientVars, user, history>>

Ids == 1..MaxConns

Init ==
    /\ ConnectorInit
    /\ retry_ \in BOOLEAN /\ clientConnect = TRUE /\ connection_ = 0
    /\ conns = [i \in Ids |-> "none"] /\ closeCallback = "client"
    /\ held \in BOOLEAN
    /\ upc = "idle" /\ calls = 0 /\ started = FALSE /\ client = TRUE
    /\ stopped = FALSE /\ useAfterFree = FALSE /\ destroyedAmid = FALSE
    /\ closedAmid = FALSE

-----------------------------------------------------------------------------
(* The user's thread *)

\* TcpClient::connect and Connector::start: startInLoop is queued
CallConnect ==
    /\ client /\ ~started /\ started' = TRUE
    /\ clientConnect' = TRUE /\ connect_' = TRUE
    /\ pending' = Append(pending, <<"start", 0>>)
    /\ UNCHANGED <<attempt, due, pc, freed, failed, loopVars, retry_, connection_,
                   conns, closeCallback, held, client, upc, calls, history>>

\* TcpClient::stop, its own flag
Stop ==
    /\ started /\ client /\ upc = "idle" /\ calls < MaxCalls
    /\ calls' = calls + 1 /\ upc' = "stopConnector" /\ clientConnect' = FALSE
    /\ UNCHANGED <<connectorVars, loopVars, retry_, connection_, conns,
                   closeCallback, held, client, started, history>>

\* The loop thread has passed its test of a flag and will connect all the same;
\* startInLoop does too, but handleWrite throws its connection away
Overtaken == pc \in {"restart", "newConnection"}

\* Connector::stop, its flag
StopConnector ==
    /\ upc = "stopConnector" /\ upc' = "cancelTimer"
    /\ connect_' = FALSE
    /\ stopped' = (stopped \/ ~Overtaken)
    /\ UNCHANGED <<attempt, due, pending, pc, freed, failed, loopVars, clientVars,
                   calls, started, useAfterFree, destroyedAmid, closedAmid>>

\* Connector::stop, the rest: the timer known now is cancelled in the loop;
\* the assertion reads channel_, which belongs to the loop thread
CancelTimer ==
    /\ upc = "cancelTimer" /\ upc' = "idle"
    /\ pending' = Append(pending, <<"cancel", timerId_>>)
    /\ Assert(channel_ = "none", "stop")
    /\ UNCHANGED <<connect_, attempt, due, pc, freed, loopVars, clientVars, calls,
                   started, history>>

\* TcpClient::disconnect
Disconnect ==
    /\ started /\ client /\ upc = "idle" /\ calls < MaxCalls
    /\ calls' = calls + 1 /\ clientConnect' = FALSE
    /\ conns' = IF connection_ # 0 /\ conns[connection_] = "up"
                THEN [conns EXCEPT ![connection_] = "shut"] ELSE conns
    /\ UNCHANGED <<connectorVars, loopVars, retry_, connection_, closeCallback,
                   held, client, upc, started, history>>

-----------------------------------------------------------------------------
(* The loop *)

Ready ==
    {<<"sock", 0>> : x \in {y \in {sock} : channel_ = "polled" /\ y # "pending"}}
        \cup {<<"conn", i>> : i \in {j \in Ids : conns[j] = "hup"}}
        \cup {<<"timer", t>> : t \in due}

\* poll returns, for the client's channels or for another channel of the loop
Poll ==
    /\ phase = "poll"
    /\ phase' = "events" /\ active' = Ready
    /\ UNCHANGED <<connectorVars, batch, clientVars, user, history>>

\* The events are done: doPendingFunctors takes what is queued now
EventsDone ==
    /\ phase = "events" /\ active = {} /\ pc = "none"
    /\ phase' = IF pending = << >> THEN "poll" ELSE "functors"
    /\ batch' = Len(pending)
    /\ UNCHANGED <<connectorVars, active, clientVars, user, history>>

\* newConnection: the TcpConnection is made and established
NewConnection ==
    /\ pc = "newConnection" /\ pc' = "none"
    /\ \E i \in Ids :
         /\ conns[i] = "none" /\ \A j \in 1..(i - 1) : conns[j] # "none"
         /\ conns' = [conns EXCEPT ![i] = "up"] /\ connection_' = i
    /\ UNCHANGED <<connect_, attempt, due, pending, freed, failed, loopVars, retry_,
                   clientConnect, closeCallback, held, client, user, history>>

\* TcpClient::removeConnection, up to its test of connect_
RemoveConnection(i, queue) ==
    /\ Assert(connection_ = i, "removeConnection")
    /\ connection_' = 0
    /\ pending' = Append(queue, <<"connectDestroyed", i>>)
    /\ pc' = IF retry_ /\ clientConnect THEN "restart" ELSE "none"

\* The connection closes and calls its close callback; queue is the functor
\* queue as it is before the call
HandleClose(i, queue) ==
    /\ conns' = [conns EXCEPT ![i] = "closed"]
    /\ \/ closeCallback = "client" /\ RemoveConnection(i, queue)
       \/ /\ closeCallback = "detail"
          /\ pending' = Append(queue, <<"connectDestroyed", i>>)
          /\ UNCHANGED <<connection_, pc, failed>>

\* A step of the Connector, which may find it deleted; queue as above
UseConnector(step, queue) ==
    IF ~freed THEN step /\ UNCHANGED useAfterFree
    ELSE /\ useAfterFree' = TRUE
         /\ pending' = queue /\ UNCHANGED <<attempt, pc, failed>>

SockEvent ==
    /\ phase = "events" /\ pc = "none" /\ <<"sock", 0>> \in active
    /\ active' = active \ {<<"sock", 0>>}
    /\ UseConnector(HandleEvent, pending)
    /\ UNCHANGED <<connect_, due, freed, phase, batch, clientVars, user, stopped,
                   destroyedAmid, closedAmid>>

\* A retry timer runs, unless it was cancelled in this turn
RetryTimerEvent(t) ==
    /\ phase = "events" /\ pc = "none" /\ <<"timer", t>> \in active
    /\ active' = active \ {<<"timer", t>>} /\ due' = due \ {t}
    /\ \/ t \in due /\ UseConnector(StartInLoop /\ UNCHANGED pending, pending)
       \/ t \notin due /\ UNCHANGED <<attempt, pending, pc, failed, useAfterFree>>
    /\ UNCHANGED <<connect_, freed, phase, batch, clientVars, user, stopped,
                   destroyedAmid, closedAmid>>

ConnEvent(i) ==
    /\ phase = "events" /\ pc = "none" /\ <<"conn", i>> \in active
    /\ active' = active \ {<<"conn", i>>}
    /\ HandleClose(i, pending)
    /\ closedAmid' = (closedAmid \/ \E k \in DOMAIN pending : pending[k] = <<"forceClose", i>>)
    /\ UNCHANGED <<connect_, attempt, due, freed, phase, batch, retry_,
                   clientConnect, closeCallback, held, client, user, stopped,
                   useAfterFree, destroyedAmid>>

\* TcpConnection::state_ is kConnected or kDisconnecting: handleClose leaves it alone
StateConnected(i) == conns[i] \in {"up", "shut", "hup", "closed"}

RunFunctor ==
    LET name == Head(pending)[1]
        arg == Head(pending)[2]
        queue == Tail(pending)
    IN
    /\ phase = "functors" /\ batch > 0 /\ pc = "none" /\ batch' = batch - 1
    /\ \/ /\ name = "start"
          /\ UseConnector(StartInLoop /\ pending' = queue, queue)
          /\ UNCHANGED <<due, connection_, conns>>
       \/ /\ name = "cancel" /\ Cancel(arg) /\ pending' = queue
          /\ UNCHANGED <<state_, channel_, retryDelay, timerId_, sock, failures,
                         gaveUp, pc, failed, connection_, conns, useAfterFree>>
       \/ /\ name = "reset"
          /\ UseConnector(/\ channel_' = "none" /\ pending' = queue
                          /\ UNCHANGED <<state_, retryDelay, timerId_, timer, sock,
                                         failures, gaveUp, pc, failed>>, queue)
          /\ UNCHANGED <<due, connection_, conns>>
       \/ /\ name = "connectDestroyed" /\ pending' = queue
          /\ Assert(StateConnected(arg), "connectDestroyed")
          /\ conns' = [conns EXCEPT ![arg] = "destroyed"]
          /\ UNCHANGED <<attempt, due, pc, connection_, useAfterFree>>
       \/ /\ name = "forceClose"
          /\ IF StateConnected(arg) THEN HandleClose(arg, queue)
             ELSE pending' = queue /\ UNCHANGED <<pc, failed, connection_, conns>>
          /\ UNCHANGED <<attempt, due, useAfterFree>>
    /\ UNCHANGED <<connect_, freed, phase, active, retry_, clientConnect, closeCallback,
                   held, client, user, stopped, destroyedAmid, closedAmid>>

FunctorsDone ==
    /\ phase = "functors" /\ batch = 0 /\ pc = "none" /\ phase' = "poll"
    /\ UNCHANGED <<connectorVars, active, batch, clientVars, user, history>>

-----------------------------------------------------------------------------
(* Destruction, in the loop thread *)

\* ~TcpClient with a connection: it may outlive the client, the Connector does
\* not; a connection nobody else holds is closed
DestroyConnected ==
    /\ connection_ # 0 /\ connection_' = 0
    /\ closeCallback' = "detail"
    /\ pending' = IF held THEN pending
                  ELSE Append(pending, <<"forceClose", connection_>>)
    /\ Destroy
    /\ destroyedAmid' = (channel_ = "removed")
    /\ UNCHANGED <<connect_, stopped>>

\* Wrong variant: the Connector goes with the client at once.
DestroyUnconnectedAtOnce ==
    /\ connection_ = 0
    /\ connect_' = FALSE /\ stopped' = TRUE /\ freed' = TRUE
    /\ Cancel(timerId_)
    /\ Assert(channel_ = "none", "stop")
    /\ UNCHANGED <<pending, connection_, closeCallback, destroyedAmid>>

\* ~TcpClient without one: the Connector is stopped and kept for a second
DestroyUnconnected ==
    /\ connection_ = 0
    /\ connect_' = FALSE /\ stopped' = TRUE
    /\ timer' = (timer \ ({timerId_} \ {0})) \cup {Release}
    /\ due' = due \ ({timerId_} \ {0})
    /\ Assert(channel_ = "none", "stop")
    /\ UNCHANGED <<pending, freed, connection_, closeCallback, destroyedAmid>>

DestroyClient ==
    /\ client /\ client' = FALSE /\ upc = "idle" /\ pc = "none"
    /\ phase \in {"events", "functors"}
    /\ DestroyConnected \/ DestroyUnconnected
    /\ UNCHANGED <<state_, channel_, retryDelay, timerId_, sock, failures, gaveUp, pc,
                   loopVars, retry_, clientConnect, conns, held, user, useAfterFree,
                   closedAmid>>

\* The second is over: detail::removeConnector drops the last pointer
ReleaseConnector ==
    /\ phase = "events" /\ pc = "none" /\ <<"timer", Release>> \in active
    /\ active' = active \ {<<"timer", Release>>}
    /\ freed' = TRUE
    /\ timer' = timer \ {timerId_} /\ due' = due \ {Release, timerId_}
    /\ Assert(channel_ = "none", "dtor")
    /\ UNCHANGED <<connect_, state_, channel_, retryDelay, timerId_, sock,
                   failures, gaveUp, pending, pc, phase, batch, clientVars,
                   user, history>>

-----------------------------------------------------------------------------
(* The world *)

\* The attempt ends
SocketReady ==
    /\ channel_ = "polled" /\ sock = "pending"
    /\ \/ sock' = "ok" /\ \E i \in Ids : conns[i] = "none"
       \/ sock' \in {"soerror", "self", "error"} /\ failures < MaxFailures
    /\ UNCHANGED <<connect_, state_, channel_, retryDelay, timerId_, timer,
                   failures, gaveUp, due, pending, pc, freed, failed, loopVars,
                   clientVars, user, history>>

PeerClose(i) ==
    /\ conns[i] = "shut" \/ (conns[i] = "up" /\ i < MaxConns)
    /\ conns' = [conns EXCEPT ![i] = "hup"]
    /\ UNCHANGED <<connectorVars, loopVars, retry_, clientConnect, connection_,
                   closeCallback, held, client, user, history>>

Expire(t) ==
    /\ t \in timer /\ timer' = timer \ {t} /\ due' = due \cup {t}
    /\ UNCHANGED <<connect_, state_, channel_, retryDelay, timerId_, sock,
                   failures, gaveUp, pending, pc, freed, failed, loopVars,
                   clientVars, user, history>>

-----------------------------------------------------------------------------
HandlerStep ==
    /\ RestartStarts \/ StartConnects \/ Restart \/ RunAfter
    /\ UNCHANGED <<clientVars, user, history>>

LoopStep ==
    \/ Poll \/ EventsDone \/ SockEvent \/ \E t \in 1..MaxFailures : RetryTimerEvent(t)
    \/ \E i \in Ids : ConnEvent(i)
    \/ ReleaseConnector \/ RunFunctor \/ FunctorsDone
    \/ NewConnection \/ HandlerStep

UserStep == CallConnect \/ Stop \/ StopConnector \/ CancelTimer \/ Disconnect

World == SocketReady \/ (\E i \in Ids : PeerClose(i)) \/ \E t \in 0..MaxFailures : Expire(t)

\* A failed assertion ends the process.
Next == failed = {} /\ (LoopStep \/ UserStep \/ DestroyClient \/ World)

Spec == Init /\ [][Next]_vars

\* The loop thread runs, attempts end, timers expire.
FairSpec ==
    /\ Spec
    /\ WF_vars(failed = {} /\ LoopStep)
    /\ WF_vars(failed = {} /\ SocketReady)
    /\ \A t \in 0..MaxFailures : WF_vars(failed = {} /\ Expire(t))

-----------------------------------------------------------------------------
(* Properties *)

\* Only one attempt is under way, one connection is up at a time, and the
\* callbacks find the Connector in the state they assert: no sequence of
\* retries, reconnections and calls from another thread breaks an assertion of
\* startInLoop, connecting, handleWrite, handleError or removeConnection, and
\* that of ~Connector fails only when the client is destroyed in the very turn
\* of the loop in which it connected.  That of connectDestroyed fails only when
\* the peer's close is handled between ~TcpClient and the forceClose it queued
\* (TcpConnection.cc:294 tests state_, which handleClose leaves alone, so the
\* connection is removed twice).  The assertion of Connector::stop is left out:
\* it fails whenever an attempt is under way.
AssertsHold ==
    /\ failed \subseteq {"stop", "dtor", "connectDestroyed"}
    /\ "dtor" \in failed => destroyedAmid
    /\ "connectDestroyed" \in failed => closedAmid

\* No functor, timer or event reaches a Connector that has been deleted.
ConnectorOutlived == ~useAfterFree

\* Once stop() has cleared connect_, no connection is handed to the client,
\* however attempts, timers and reconnections were under way - unless the loop
\* thread had already tested the flag it clears.
StopSticks == [][stopped => connection_' \in {0, connection_}]_vars

\* A client that was told to connect, and to reconnect, gets its connection
\* however often attempts fail, unless the user stops or destroys it or the
\* error is one that Connector does not retry after.
ClientConnects ==
    started ~> \/ connection_ # 0
               \/ calls > 0 \/ ~client \/ gaveUp \/ failed # {}
               \/ ~retry_ /\ conns[1] # "none"
=============================================================================
