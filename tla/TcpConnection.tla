--------------------------- MODULE TcpConnection ---------------------------
(***************************************************************************)
(* net/TcpConnection with its Channel, its registration in EPollPoller and *)
(* its socket.  A connection is a record; each operation that runs in the  *)
(* thread of the connection's loop is an operator from the record before   *)
(* to the record (or the possible records) after.  TcpServer gives them to *)
(* threads and loops.                                                      *)
(***************************************************************************)
EXTENDS Integers, Sequences, FiniteSets

CONSTANTS
    Msgs,           \* messages; each is sent at most once
    MsgLen,         \* bytes in a message
    HighWaterMark   \* highWaterMark_, or 0 when no callback is set

ASSUME ConnectionAssumption ==
    /\ MsgLen \in Nat \ {0}
    /\ HighWaterMark \in Nat

Bytes(m) == [k \in 1..MsgLen |-> <<m, k>>]

States == {"none", "kConnecting", "kConnected", "kDisconnecting",
           "kDisconnected"}

\* fin: the peer has closed its side; rst: it has reset the connection; dead:
\* a reset whose error has been fetched.
Peers == {"open", "fin", "rst", "dead"}

\* state: state_; events, index: of channel_ (index as EPollPoller keeps it);
\* revents: what the last poll reported; out: outputBuffer_; wire: bytes the
\* kernel took; sndFull: the kernel takes no more for now; shutWr: SHUT_WR
\* done; peer, input: the other side and the messages waiting to be read.
\* given, closes, destroyed are history: bytes handed to sendInLoop, runs of
\* handleClose and of connectDestroyed.
Unborn ==
    [state |-> "none", events |-> {}, index |-> "kNew", revents |-> {},
     out |-> << >>, wire |-> << >>, sndFull |-> FALSE, shutWr |-> FALSE,
     peer |-> "open", input |-> 0,
     given |-> << >>, closes |-> 0, destroyed |-> 0]

IsConnection(r) ==
    /\ DOMAIN r = DOMAIN Unborn
    /\ r.state \in States /\ r.peer \in Peers
    /\ r.events \subseteq {"r", "w"} /\ r.revents \subseteq {"IN", "OUT", "HUP", "ERR"}
    /\ r.index \in {"kNew", "kAdded", "kDeleted"}
    /\ r.sndFull \in BOOLEAN /\ r.shutWr \in BOOLEAN
    /\ r.input \in Nat /\ r.closes \in Nat /\ r.destroyed \in Nat
    /\ r.events # {} => r.index = "kAdded"

-----------------------------------------------------------------------------
(* Channel and EPollPoller *)

\* Channel::update and EPollPoller::updateChannel: a channel that is not in
\* the epoll set is added whatever its events are; one that is in the set and
\* wants nothing is taken out but stays in channels_.
UpdateChannel(r, events) ==
    [r EXCEPT !.events = events,
              !.index = IF r.index = "kAdded" /\ events = {} THEN "kDeleted"
                        ELSE "kAdded"]

EnableReading(r) == UpdateChannel(r, r.events \cup {"r"})
EnableWriting(r) == UpdateChannel(r, r.events \cup {"w"})
DisableWriting(r) == UpdateChannel(r, r.events \ {"w"})
DisableAll(r) == UpdateChannel(r, {})
IsWriting(r) == "w" \in r.events

\* Channel::remove and EPollPoller::removeChannel
RemoveChannel(r) == [r EXCEPT !.index = "kNew"]

\* What epoll_wait reports for the socket: errors and hang-ups are reported
\* whether they were asked for or not.
Revents(r) ==
    IF r.index # "kAdded" THEN {}
    ELSE LET gone == r.peer \in {"rst", "dead"} IN
         (IF "r" \in r.events /\ (r.input > 0 \/ r.peer # "open")
            THEN {"IN"} ELSE {})
         \cup (IF "w" \in r.events /\ (~r.sndFull \/ gone \/ r.shutWr)
                 THEN {"OUT"} ELSE {})
         \cup (IF gone \/ (r.peer = "fin" /\ r.shutWr) THEN {"HUP"} ELSE {})
         \cup (IF r.peer = "rst" THEN {"ERR"} ELSE {})

\* Channel::handleEventWithGuard: the callbacks it calls, in order
HandlersOf(revents) ==
    (IF "HUP" \in revents /\ "IN" \notin revents THEN <<"close">> ELSE << >>)
    \o (IF "ERR" \in revents THEN <<"error">> ELSE << >>)
    \o (IF "IN" \in revents THEN <<"read">> ELSE << >>)
    \o (IF "OUT" \in revents THEN <<"write">> ELSE << >>)

-----------------------------------------------------------------------------
(* The socket *)

\* write(2): how many bytes of data the kernel may take; 0 stands for an
\* error, EWOULDBLOCK included.
WriteSizes(r, data) ==
    IF r.shutWr \/ r.peer \in {"rst", "dead"} \/ r.sndFull \/ data = << >>
    THEN {0} ELSE 1..Len(data)

Write(r, data, n) ==
    [r EXCEPT !.wire = @ \o SubSeq(data, 1, n),
              !.sndFull = @ \/ (0 < n /\ n < Len(data))]

-----------------------------------------------------------------------------
(* Operations in the loop thread *)

\* connectEstablished up to connectionCallback_
ConnectEstablished(r) == EnableReading([r EXCEPT !.state = "kConnected"])

\* Wrong variant: the connection counts as down before connectDestroyed.
HandleCloseSetsState(r) ==
    [DisableAll(r) EXCEPT !.closes = @ + 1, !.state = "kDisconnected"]

\* handleClose up to closeCallback_: state_ is left as it is
HandleClose(r) == [DisableAll(r) EXCEPT !.closes = @ + 1]

\* connectDestroyed; connectionCallback_ finds the connection down, where
\* send, shutdown and forceClose do nothing
ConnectDestroyed(r) ==
    RemoveChannel(DisableAll([r EXCEPT !.state = "kDisconnected",
                                       !.destroyed = @ + 1]))

\* handleError: getsockopt fetches and clears the error
HandleError(r) == [r EXCEPT !.peer = IF @ = "rst" THEN "dead" ELSE @]

\* Wrong variant: SHUT_WR although output is waiting.
ShutdownInLoopAtOnce(r) == [r EXCEPT !.shutWr = TRUE]

\* shutdownInLoop
ShutdownInLoop(r) == IF IsWriting(r) THEN r ELSE [r EXCEPT !.shutWr = TRUE]

\* Wrong variant: the socket is written although output is waiting.
MayWriteDirectlyAlways(r) == TRUE

\* sendInLoop's test whether the socket may be written at once
MayWriteDirectly(r) == ~IsWriting(r) /\ r.out = << >>

\* Wrong variant: the rest is buffered and the write event not enabled.
AfterSendNotWriting(r, m, n) ==
    [Write(r, Bytes(m), n) EXCEPT !.given = @ \o Bytes(m),
                                  !.out = @ \o SubSeq(Bytes(m), n + 1, MsgLen)]

\* sendInLoop when write takes n bytes (0 when it is not called)
AfterSend(r, m, n) ==
    LET data == Bytes(m)
        rest == SubSeq(data, n + 1, MsgLen)
        sent == [Write(r, data, n) EXCEPT !.given = @ \o data,
                                          !.out = @ \o rest]
    IN  IF rest # << >> /\ ~IsWriting(r) THEN EnableWriting(sent) ELSE sent

SendSizes(r, m) ==
    IF MayWriteDirectly(r) THEN WriteSizes(r, Bytes(m)) ELSE {0}

\* the functors sendInLoop queues: writeCompleteCallback_ when all is written,
\* highWaterMarkCallback_ when the output reaches the mark
SendQueues(r, n) ==
    LET waiting == Len(r.out) + MsgLen - n IN
    IF n = MsgLen THEN <<"writeComplete">>
    ELSE IF HighWaterMark > 0 /\ waiting >= HighWaterMark
                              /\ Len(r.out) < HighWaterMark
    THEN <<"highWaterMark">> ELSE << >>

\* handleWrite when write takes n bytes, 0 < n
AfterWrite(r, n) ==
    LET left == SubSeq(r.out, n + 1, Len(r.out))
        wrote == [Write(r, r.out, n) EXCEPT !.out = left]
        idle == DisableWriting(wrote)
    IN  IF left # << >> THEN wrote
        ELSE IF r.state = "kDisconnecting" THEN ShutdownInLoop(idle) ELSE idle
=============================================================================
