----------------------------- MODULE Connector -----------------------------
(***************************************************************************)
(* net/Connector: non-blocking connect with retries, in the thread of one  *)
(* loop, whose turns it shares with TcpClient.  The steps of a handler are *)
(* split where it tests a flag that another thread may clear before the    *)
(* handler acts on it; pc says which step is next.                         *)
(***************************************************************************)
EXTENDS Integers, Sequences, FiniteSets

CONSTANTS
    InitRetryDelay,     \* kInitRetryDelayMs
    MaxRetryDelay,      \* kMaxRetryDelayMs
    MaxFailures         \* bound on the attempts that fail

ASSUME ConnectorAssumption ==
    /\ InitRetryDelay \in Nat \ {0} /\ MaxRetryDelay \in Nat
    /\ InitRetryDelay <= MaxRetryDelay /\ MaxFailures \in Nat

VARIABLES
    connect_,       \* Connector::connect_
    state_,         \* Connector::state_
    channel_,       \* "none", "polled", or "removed" until resetChannel runs
    retryDelay,     \* retryDelayMs_
    timerId_,       \* the retry timer set last; 0: none yet
    timer, due,     \* timers in the loop's queue: waiting, expired; Release is
                    \* the one ~TcpClient sets, the others are those of retry
    sock,           \* what the kernel says of the attempt
    failures,       \* attempts that failed
    gaveUp,         \* connect() met an error it does not retry after
    phase,          \* the loop: "poll", "events", "functors"
    active,         \* sources of events of this turn still to be handled
    batch,          \* functors of this turn still to run
    pending,        \* the functors of the loop, oldest first: <<name, argument>>
    pc,             \* step of a handler that is next; "none": no handler runs
    freed,          \* the Connector has been deleted
    failed          \* assertions that failed; the program has aborted

loopVars == <<phase, active, batch>>
attempt == <<state_, channel_, retryDelay, timerId_, timer, sock, failures,
             gaveUp>>

Release == 0

ConnectorInit ==
    /\ connect_ = FALSE /\ state_ = "kDisconnected" /\ channel_ = "none"
    /\ retryDelay = InitRetryDelay /\ timerId_ = 0 /\ timer = {} /\ due = {}
    /\ sock = "none" /\ failures = 0 /\ gaveUp = FALSE
    /\ phase = "poll" /\ active = {} /\ batch = 0 /\ pending = << >>
    /\ pc = "none" /\ freed = FALSE /\ failed = {}

Assert(p, name) == failed' = IF p THEN failed ELSE failed \cup {name}

-----------------------------------------------------------------------------
(* An attempt *)

\* connecting: a channel that waits for the socket to be writable
Connecting ==
    /\ state_' = "kConnecting" /\ channel_' = "polled" /\ sock' = "pending"
    /\ Assert(channel_ = "none", "connecting")
    /\ pc' = "none"
    /\ UNCHANGED <<retryDelay, timerId_, timer, failures, gaveUp>>

\* Wrong variant: the attempt is over, but state_ does not say so.
RetryKeepsState ==
    /\ failures < MaxFailures /\ failures' = failures + 1
    /\ sock' = "none"
    /\ pc' = IF connect_ THEN "retry" ELSE "none"
    /\ UNCHANGED <<state_, retryDelay, timerId_, timer, gaveUp>>

\* retry, up to its test of connect_: the socket is closed
Retry ==
    /\ failures < MaxFailures /\ failures' = failures + 1
    /\ sock' = "none" /\ state_' = "kDisconnected"
    /\ pc' = IF connect_ THEN "retry" ELSE "none"
    /\ UNCHANGED <<retryDelay, timerId_, timer, gaveUp>>

\* Wrong variant: the delay grows, the timer is forgotten.
RunAfterForgotten ==
    /\ pc = "retry" /\ pc' = "none"
    /\ retryDelay' = IF 2 * retryDelay < MaxRetryDelay THEN 2 * retryDelay
                                                       ELSE MaxRetryDelay
    /\ UNCHANGED <<connect_, state_, channel_, timerId_, timer, sock, failures,
                   gaveUp, loopVars, due, pending, freed, failed>>

\* retry, the rest: the timer is added to the loop's queue
RunAfter ==
    /\ pc = "retry" /\ pc' = "none"
    /\ timerId_' = timerId_ + 1 /\ timer' = timer \cup {timerId_ + 1}
    /\ retryDelay' = IF 2 * retryDelay < MaxRetryDelay THEN 2 * retryDelay
                                                       ELSE MaxRetryDelay
    /\ UNCHANGED <<connect_, state_, channel_, sock, failures, gaveUp, loopVars,
                   due, pending, freed, failed>>

\* connect: under way, to be retried, or given up with an error that leaves
\* nothing behind
Connect ==
    \/ Connecting
    \/ Retry /\ UNCHANGED <<channel_, failed>>
    \/ /\ gaveUp' = TRUE /\ pc' = "none"
       /\ UNCHANGED <<state_, channel_, retryDelay, timerId_, timer, sock,
                      failures, failed>>

\* startInLoop, up to its test of connect_: a Connector already connecting or
\* connected must not start
StartInLoop ==
    /\ Assert(state_ = "kDisconnected", "startInLoop")
    /\ pc' = IF state_ = "kDisconnected" /\ connect_ THEN "connect" ELSE "none"
    /\ UNCHANGED attempt

\* startInLoop, the rest
StartConnects ==
    /\ pc = "connect"
    /\ Connect
    /\ UNCHANGED <<connect_, due, loopVars, pending, freed>>

\* restart, once connect_ is set
RestartStarts ==
    /\ pc = "startInLoop"
    /\ StartInLoop
    /\ UNCHANGED <<connect_, due, loopVars, pending, freed>>

\* restart, up to startInLoop, in the loop thread
Restart ==
    /\ pc = "restart" /\ pc' = "startInLoop"
    /\ state_' = "kDisconnected" /\ retryDelay' = InitRetryDelay
    /\ connect_' = TRUE
    /\ UNCHANGED <<channel_, timerId_, timer, sock, failures, gaveUp, loopVars,
                   due, pending, freed, failed>>

-----------------------------------------------------------------------------
(* The socket's channel *)

\* removeAndResetChannel: the Channel itself goes later, as it is running
RemoveAndResetChannel ==
    /\ channel_' = "removed" /\ pending' = Append(pending, <<"reset", 0>>)

\* handleWrite in kConnecting: SO_ERROR and self-connection are retried; go is
\* the value of connect_ that decides on a connection that came up
FinishAttempt(go) ==
    /\ RemoveAndResetChannel /\ UNCHANGED failed
    /\ \/ sock \in {"soerror", "self"} /\ Retry
       \/ /\ sock = "ok" /\ state_' = "kConnected" /\ sock' = "none"
          /\ pc' = IF go THEN "newConnection" ELSE "none"
          /\ UNCHANGED <<retryDelay, timerId_, timer, failures, gaveUp>>

\* Wrong variant: a connection that came up is used without asking connect_.
HandleWriteAlwaysConnects == state_ = "kConnecting" /\ FinishAttempt(TRUE)

\* handleWrite, up to the test of connect_
HandleWrite ==
    IF state_ = "kConnecting" THEN FinishAttempt(connect_)
    ELSE /\ Assert(state_ = "kDisconnected", "handleWrite")
         /\ UNCHANGED <<attempt, pending, pc>>

\* handleError, then handleWrite of the same event, which finds
\* kDisconnected and does nothing
HandleError ==
    /\ sock = "error"
    /\ Assert(state_ = "kConnecting", "handleError")
    /\ RemoveAndResetChannel
    /\ Retry

\* Channel::handleEvent calls the error callback before the write callback
HandleEvent == HandleError \/ (sock # "error" /\ HandleWrite)

-----------------------------------------------------------------------------
(* Lifetime *)

\* TimerQueue::cancel in the loop thread, of the timer t
Cancel(t) ==
    IF t = 0 THEN UNCHANGED <<timer, due>>
    ELSE timer' = timer \ {t} /\ due' = due \ {t}

\* ~Connector: its timer goes with it
Destroy ==
    /\ freed' = TRUE
    /\ Cancel(timerId_)
    /\ Assert(channel_ = "none", "dtor")
=============================================================================
