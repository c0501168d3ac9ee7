-------------------------- MODULE TcpServerProofs --------------------------
(***************************************************************************)
(* Proofs about TcpConnection and TcpServer for any connections, threads,  *)
(* users and messages.                                                     *)
(***************************************************************************)
EXTENDS TcpServer, SequenceTheorems, TLAPS

-----------------------------------------------------------------------------
(* The operations of a connection, field by field *)

Fields == {"state", "events", "index", "revents", "out", "wire", "sndFull", "shutWr",
           "peer", "input", "given", "closes", "destroyed"}

\* s is r but for the fields of X.
Same(r, s, X) == DOMAIN s = Fields /\ \A x \in Fields \ X : s[x] = r[x]

LEMMA UnbornFields == DOMAIN Unborn = Fields
BY DEF Unborn, Fields

\* Channel::update
LEMMA UpdateChannelFields ==
    ASSUME NEW r, NEW ev, DOMAIN r = Fields
    PROVE  /\ Same(r, UpdateChannel(r, ev), {"events", "index"})
           /\ UpdateChannel(r, ev).events = ev
           /\ UpdateChannel(r, ev).index =
                IF r.index = "kAdded" /\ ev = {} THEN "kDeleted" ELSE "kAdded"
BY DEF UpdateChannel, Fields, Same

\* connectEstablished
LEMMA EstablishedFields ==
    ASSUME NEW r, DOMAIN r = Fields
    PROVE  LET s == ConnectEstablished(r)
           IN  /\ Same(r, s, {"state", "events", "index"})
               /\ s.state = "kConnected" /\ s.index = "kAdded" /\ s.events = r.events \cup {"r"}
<1> DEFINE t == [r EXCEPT !.state = "kConnected"]
<1>1. DOMAIN t = Fields /\ Same(r, t, {"state"}) /\ t.state = "kConnected"
  BY DEF Fields, Same
<1>2. t.events = r.events
  BY <1>1 DEF Same, Fields
<1> HIDE DEF t
<1>3. r.events \cup {"r"} # {}
  OBVIOUS
<1> QED BY <1>1, <1>2, <1>3, UpdateChannelFields DEF ConnectEstablished, EnableReading, Same, Fields, t

\* handleClose
LEMMA CloseFields ==
    ASSUME NEW r, DOMAIN r = Fields
    PROVE  LET s == HandleClose(r)
           IN  /\ Same(r, s, {"closes", "events", "index"})
               /\ s.closes = r.closes + 1 /\ s.events = {}
               /\ s.index = IF r.index = "kAdded" THEN "kDeleted" ELSE "kAdded"
<1> DEFINE t == UpdateChannel(r, {})
<1>1. /\ Same(r, t, {"events", "index"}) /\ t.events = {}
      /\ t.index = IF r.index = "kAdded" THEN "kDeleted" ELSE "kAdded"
  BY UpdateChannelFields
<1> HIDE DEF t
<1>2. HandleClose(r) = [t EXCEPT !.closes = t.closes + 1] /\ t.closes = r.closes
  BY <1>1 DEF HandleClose, DisableAll, t, Same, Fields
<1> QED BY <1>1, <1>2 DEF Same, Fields

\* connectDestroyed
LEMMA DestroyedFields ==
    ASSUME NEW r, DOMAIN r = Fields
    PROVE  LET s == ConnectDestroyed(r)
           IN  /\ Same(r, s, {"state", "destroyed", "events", "index"})
               /\ s.state = "kDisconnected" /\ s.destroyed = r.destroyed + 1
               /\ s.events = {} /\ s.index = "kNew"
<1> DEFINE t == [r EXCEPT !.state = "kDisconnected", !.destroyed = @ + 1]
           v == UpdateChannel(t, {})
<1>1. /\ Same(r, t, {"state", "destroyed"}) /\ t.state = "kDisconnected"
      /\ t.destroyed = r.destroyed + 1
  BY DEF Same, Fields
<1> HIDE DEF t
<1>2. Same(t, v, {"events", "index"}) /\ v.events = {}
  BY <1>1, UpdateChannelFields DEF Same
<1> HIDE DEF v
<1>3. ConnectDestroyed(r) = [v EXCEPT !.index = "kNew"]
  BY DEF ConnectDestroyed, RemoveChannel, DisableAll, t, v
<1> QED BY <1>1, <1>2, <1>3 DEF Same, Fields

\* handleError
LEMMA ErrorFields ==
    ASSUME NEW r, DOMAIN r = Fields
    PROVE  LET s == HandleError(r)
           IN  Same(r, s, {"peer"}) /\ s.peer \in {r.peer, "dead"}
BY DEF HandleError, Same, Fields

\* shutdownInLoop
LEMMA ShutdownFields ==
    ASSUME NEW r, DOMAIN r = Fields
    PROVE  LET s == ShutdownInLoop(r)
           IN  /\ Same(r, s, {"shutWr"}) /\ s.shutWr \in {r.shutWr, TRUE}
               /\ IsWriting(r) => s.shutWr = r.shutWr
BY DEF ShutdownInLoop, Same, Fields

\* write
LEMMA WriteFields ==
    ASSUME NEW r, DOMAIN r = Fields, NEW data, NEW n
    PROVE  LET s == Write(r, data, n)
           IN  /\ Same(r, s, {"wire", "sndFull"})
               /\ s.wire = r.wire \o SubSeq(data, 1, n)
               /\ s.sndFull = (r.sndFull \/ (0 < n /\ n < Len(data)))
BY DEF Write, Same, Fields

-----------------------------------------------------------------------------
(* The output stream of a connection *)

Byte == Msgs \X Nat

\* What has been handed to sendInLoop is on the wire or in outputBuffer_, and as
\* long as the connection is not closed the channel asks for the write event
\* while output waits.
StreamInv(r) ==
    /\ DOMAIN r = Fields
    /\ r.out \in Seq(Byte) /\ r.wire \in Seq(Byte) /\ r.given \in Seq(Byte)
    /\ r.wire \o r.out = r.given
    /\ r.closes \in Nat
    /\ r.closes = 0 /\ r.out # << >> => IsWriting(r)

LEMMA BytesOfMessage ==
    ASSUME NEW m \in Msgs
    PROVE  Bytes(m) \in Seq(Byte) /\ Len(Bytes(m)) = MsgLen
<1> USE ConnectionAssumption
<1>1. \A k \in 1..MsgLen : <<m, k>> \in Byte
  BY DEF Byte
<1> QED BY <1>1, IsASeq DEF Bytes

LEMMA Regroup == \A a, b, c \in Seq(Byte) : (a \o b) \o c = a \o (b \o c)
BY ConcatAssociative

\* What a write takes goes behind what was written before, and the rest behind
\* the output that waits, of which there is none if anything was written.
LEMMA SendOrder ==
    ASSUME NEW before \in Seq(Byte), NEW waiting \in Seq(Byte),
           NEW took \in Seq(Byte), NEW rest \in Seq(Byte),
           took = << >> \/ waiting = << >>
    PROVE  (before \o took) \o (waiting \o rest) = (before \o waiting) \o (took \o rest)
<1>1. CASE took = << >>
  <2>1. before \o took = before /\ took \o rest = rest
    BY <1>1
  <2>2. before \o (waiting \o rest) = (before \o waiting) \o rest
    BY Regroup, Zenon
  <2> QED BY <2>1, <2>2, Zenon
<1>2. CASE waiting = << >>
  <2>1. waiting \o rest = rest /\ before \o waiting = before
    BY <1>2
  <2>2. (before \o took) \o rest = before \o (took \o rest)
    BY Regroup, Zenon
  <2> QED BY <2>1, <2>2, Zenon
<1> QED BY <1>1, <1>2

\* A write splits the data into what the kernel took and what is left.
LEMMA WriteSplits ==
    ASSUME NEW data \in Seq(Byte), NEW n \in 0..Len(data)
    PROVE  LET took == SubSeq(data, 1, n)
               left == SubSeq(data, n + 1, Len(data))
           IN  took \in Seq(Byte) /\ left \in Seq(Byte) /\ took \o left = data
<1>0. Len(data) \in Nat /\ n \in Int
  BY LenProperties
<1>1. \A i \in 1..Len(data) : data[i] \in Byte
  BY ElementOfSeq
<1>2. SubSeq(data, 1, n) \in Seq(Byte) /\ SubSeq(data, n + 1, Len(data)) \in Seq(Byte)
  BY <1>0, <1>1, SubSeqProperties
<1>3. SubSeq(data, 1, n) \o SubSeq(data, n + 1, Len(data)) = data
  <2>1. 1 \in 1..Len(data) + 1 /\ n \in 1 - 1..Len(data) /\ Len(data) \in n..Len(data)
    BY <1>0
  <2>2. SubSeq(data, 1, n) \o SubSeq(data, n + 1, Len(data)) = SubSeq(data, 1, Len(data))
    BY <2>1, ConcatAdjacentSubSeq
  <2> QED BY <2>2, SubSeqFull
<1> QED BY <1>2, <1>3

\* sendInLoop
LEMMA SendKeepsStream ==
    ASSUME NEW r, StreamInv(r), NEW m \in Msgs, NEW n \in SendSizes(r, m)
    PROVE  LET s == AfterSend(r, m, n)
           IN  /\ StreamInv(s)
               /\ Same(r, s, {"wire", "sndFull", "given", "out", "events", "index"})
<1> DEFINE data == Bytes(m)
           took == SubSeq(data, 1, n)
           rest == SubSeq(data, n + 1, MsgLen)
           w == Write(r, data, n)
           sent == [w EXCEPT !.given = @ \o data, !.out = @ \o rest]
<1>1. data \in Seq(Byte) /\ Len(data) = MsgLen
  BY BytesOfMessage
<1>2. n \in 0..MsgLen /\ (n = 0 \/ (~IsWriting(r) /\ r.out = << >>))
  BY <1>1 DEF SendSizes, WriteSizes, MayWriteDirectly
<1>3. took \in Seq(Byte) /\ rest \in Seq(Byte) /\ took \o rest = data
  BY <1>1, <1>2, WriteSplits
<1>4. n = 0 => took = << >>
  BY SubSeqEmpty
<1>5. /\ Same(r, w, {"wire", "sndFull"}) /\ w.wire = r.wire \o took
  BY WriteFields DEF StreamInv
<1> HIDE DEF data, took, rest, w
<1>6. /\ Same(r, sent, {"wire", "sndFull", "given", "out"}) /\ sent.wire = r.wire \o took
      /\ sent.given = r.given \o data /\ sent.out = r.out \o rest
  BY <1>5 DEF Same, Fields
<1> HIDE DEF sent
<1>7. /\ sent.wire \in Seq(Byte) /\ sent.given \in Seq(Byte) /\ sent.out \in Seq(Byte)
  BY <1>1, <1>3, <1>6, ConcatProperties DEF StreamInv
<1>8. sent.wire \o sent.out = sent.given
  <2> DEFINE before == r.wire
             waiting == r.out
  <2>1. before \in Seq(Byte) /\ waiting \in Seq(Byte) /\ r.given = before \o waiting
    BY DEF StreamInv
  <2>2. took = << >> \/ waiting = << >>
    BY <1>2, <1>4
  <2>3. sent.wire = before \o took /\ sent.out = waiting \o rest
    BY <1>6
  <2> HIDE DEF before, waiting
  <2>4. (before \o took) \o (waiting \o rest) = (before \o waiting) \o (took \o rest)
    <3>1. took \in Seq(Byte) /\ rest \in Seq(Byte) /\ before \in Seq(Byte)
          /\ waiting \in Seq(Byte)
      BY <1>3, <2>1
    <3> QED BY <3>1, <2>2, SendOrder, ZenonT(30)
  <2> QED BY <2>1, <2>3, <2>4, <1>3, <1>6
<1>9. rest = << >> => sent.out = r.out
  BY <1>6, ConcatEmptySeq DEF StreamInv
<1>10. CASE rest # << >> /\ ~IsWriting(r)
  <2>1. AfterSend(r, m, n) = UpdateChannel(sent, sent.events \cup {"w"})
    BY <1>10 DEF AfterSend, EnableWriting, data, rest, w, sent
  <2>2. /\ Same(sent, AfterSend(r, m, n), {"events", "index"})
        /\ IsWriting(AfterSend(r, m, n))
    BY <2>1, <1>6, UpdateChannelFields DEF IsWriting, Same
  <2> HIDE <2>1
  <2> QED BY <2>2, <1>6, <1>7, <1>8 DEF StreamInv, Same, Fields
<1>11. CASE ~(rest # << >> /\ ~IsWriting(r))
  <2>1. AfterSend(r, m, n) = sent
    BY <1>11 DEF AfterSend, data, rest, w, sent
  <2>2. sent.closes = r.closes /\ (IsWriting(sent) <=> IsWriting(r))
    BY <1>6 DEF Same, Fields, IsWriting
  <2> QED BY <2>1, <2>2, <1>6, <1>7, <1>8, <1>9, <1>11 DEF StreamInv, Same, Fields
<1> QED BY <1>10, <1>11

\* handleWrite: SHUT_WR only when nothing is left
LEMMA WriteKeepsStream ==
    ASSUME NEW r, StreamInv(r), NEW n \in 1..Len(r.out)
    PROVE  LET s == AfterWrite(r, n)
           IN  /\ StreamInv(s)
               /\ Same(r, s, {"wire", "sndFull", "out", "events", "index", "shutWr"})
               /\ s.shutWr = r.shutWr \/ s.out = << >>
<1> DEFINE took == SubSeq(r.out, 1, n)
           left == SubSeq(r.out, n + 1, Len(r.out))
           w == Write(r, r.out, n)
           wrote == [w EXCEPT !.out = left]
           idle == UpdateChannel(wrote, wrote.events \ {"w"})
<1>1. took \in Seq(Byte) /\ left \in Seq(Byte) /\ took \o left = r.out
  BY WriteSplits DEF StreamInv
<1>2. Same(r, w, {"wire", "sndFull"}) /\ w.wire = r.wire \o took
  <2> DEFINE data == r.out
  <2>1. DOMAIN r = Fields /\ w = Write(r, data, n) /\ took = SubSeq(data, 1, n)
    BY DEF StreamInv
  <2> HIDE DEF data, w, took
  <2> QED BY <2>1, WriteFields
<1>3. AfterWrite(r, n) = IF left # << >> THEN wrote
        ELSE IF r.state = "kDisconnecting" THEN ShutdownInLoop(idle) ELSE idle
  BY DEF AfterWrite, DisableWriting
<1> HIDE DEF took, left, w
<1>4. /\ Same(r, wrote, {"wire", "sndFull", "out"}) /\ wrote.wire = r.wire \o took
      /\ wrote.out = left
  BY <1>2 DEF Same, Fields
<1> HIDE DEF wrote
<1>5. wrote.wire \in Seq(Byte) /\ wrote.out \in Seq(Byte)
      /\ wrote.wire \o wrote.out = r.given
  <2> DEFINE before == r.wire
  <2>1. before \in Seq(Byte) /\ r.given = before \o r.out /\ wrote.wire = before \o took
    BY <1>4 DEF StreamInv
  <2> HIDE DEF before
  <2>2. (before \o took) \o left = before \o (took \o left)
    BY <2>1, <1>1, Regroup, Zenon
  <2>3. before \o took \in Seq(Byte)
    BY <2>1, <1>1, ConcatProperties
  <2> QED BY <2>1, <2>2, <2>3, <1>1, <1>4
<1>6. r.out # << >>
  BY EmptySeq
<1>7. StreamInv(wrote)
  BY <1>4, <1>5, <1>6 DEF StreamInv, Same, Fields, IsWriting
<1>8. Same(wrote, idle, {"events", "index"})
  BY <1>4, UpdateChannelFields DEF Same
<1> HIDE DEF idle
<1>9. ASSUME left = << >>
      PROVE  StreamInv(idle) /\ idle.out = << >>
  BY <1>4, <1>7, <1>8, <1>9 DEF StreamInv, Same, Fields
<1>10. Same(idle, ShutdownInLoop(idle), {"shutWr"})
  BY <1>8, ShutdownFields DEF Same
<1>11. ASSUME left = << >>
       PROVE  StreamInv(ShutdownInLoop(idle)) /\ ShutdownInLoop(idle).out = << >>
  BY <1>9, <1>10, <1>11 DEF StreamInv, Same, Fields
<1>12. CASE left # << >>
  BY <1>3, <1>4, <1>7, <1>12 DEF Same, Fields
<1>13. CASE left = << >>
  BY <1>3, <1>4, <1>8, <1>9, <1>10, <1>11, <1>13 DEF Same, Fields
<1> QED BY <1>12, <1>13

-----------------------------------------------------------------------------
(* The steps of a connection *)

\* A connection that the server has not created is in no poller.
ConnInv(r) ==
    /\ StreamInv(r)
    /\ r.state = "none" => r.closes = 0 /\ r.index = "kNew"

\* What a step may do to a connection: it does not vanish once it is created,
\* closes are not undone, and SHUT_WR waits for the output unless it is closed.
Moves(r, s) ==
    /\ ConnInv(s)
    /\ r.state # "none" => s.state # "none"
    /\ r.closes <= s.closes
    /\ s.shutWr /\ ~r.shutWr /\ r.closes = 0 => s.out = << >>

LEMMA UnbornInv == ConnInv(Unborn)
BY EmptySeq, UnbornFields DEF ConnInv, StreamInv, Unborn

LEMMA Stays ==
    ASSUME NEW r, ConnInv(r)
    PROVE  Moves(r, r)
BY DEF Moves, ConnInv, StreamInv

\* A step that leaves the stream alone
LEMMA StreamKept ==
    ASSUME NEW r, NEW s, StreamInv(r), DOMAIN s = Fields,
           s.out = r.out, s.wire = r.wire, s.given = r.given, s.closes \in Nat,
           s.closes = 0 => r.closes = 0 /\ (IsWriting(r) => IsWriting(s))
    PROVE  StreamInv(s)
<1>1. s.wire \o s.out = s.given
  <2>1. r.wire \o r.out = r.given
    BY DEF StreamInv
  <2> QED BY <2>1, Zenon
<1>2. s.out \in Seq(Byte) /\ s.wire \in Seq(Byte) /\ s.given \in Seq(Byte)
  BY DEF StreamInv
<1>3. s.closes = 0 /\ s.out # << >> => IsWriting(s)
  BY DEF StreamInv
<1> QED BY <1>1, <1>2, <1>3 DEF StreamInv

\* A step that leaves the stream, closes, events and SHUT_WR alone
LEMMA OtherFieldsMove ==
    ASSUME NEW r, NEW s, ConnInv(r),
           Same(r, s, {"state", "revents", "peer", "input", "sndFull"}),
           s.state = "none" => r.state = "none"
    PROVE  Moves(r, s)
<1>1. /\ s.out = r.out /\ s.wire = r.wire /\ s.given = r.given /\ s.closes = r.closes
      /\ s.events = r.events /\ s.index = r.index /\ s.shutWr = r.shutWr
      /\ DOMAIN s = Fields
  BY DEF Same, Fields
<1>2. StreamInv(r) /\ r.closes \in Nat
  BY DEF ConnInv, StreamInv
<1>3. StreamInv(s)
  BY <1>1, <1>2, StreamKept DEF IsWriting
<1> QED BY <1>1, <1>2, <1>3 DEF Moves, ConnInv

\* connectEstablished
LEMMA EstablishedMoves ==
    ASSUME NEW r, ConnInv(r)
    PROVE  Moves(r, ConnectEstablished(r)) /\ ConnectEstablished(r).state = "kConnected"
<1> DEFINE s == ConnectEstablished(r)
<1>1. Same(r, s, {"state", "events", "index"}) /\ s.state = "kConnected"
      /\ s.events = r.events \cup {"r"}
  BY EstablishedFields DEF ConnInv, StreamInv
<1> HIDE DEF s
<1>2. /\ s.out = r.out /\ s.wire = r.wire /\ s.given = r.given /\ s.closes = r.closes
      /\ s.shutWr = r.shutWr /\ DOMAIN s = Fields
  BY <1>1 DEF Same, Fields
<1>3. StreamInv(r) /\ r.closes \in Nat
  BY DEF ConnInv, StreamInv
<1>4. StreamInv(s)
  BY <1>1, <1>2, <1>3, StreamKept DEF IsWriting
<1>5. Moves(r, s)
  BY <1>1, <1>2, <1>3, <1>4 DEF Moves, ConnInv
<1> QED BY <1>1, <1>5 DEF s

\* handleClose
LEMMA CloseMoves ==
    ASSUME NEW r, ConnInv(r), r.state # "none"
    PROVE  Moves(r, HandleClose(r)) /\ HandleClose(r).closes > 0
<1> DEFINE s == HandleClose(r)
<1>1. Same(r, s, {"closes", "events", "index"}) /\ s.closes = r.closes + 1
  BY CloseFields DEF ConnInv, StreamInv
<1> HIDE DEF s
<1>2. /\ s.out = r.out /\ s.wire = r.wire /\ s.given = r.given /\ s.state = r.state
      /\ s.shutWr = r.shutWr /\ DOMAIN s = Fields
  BY <1>1 DEF Same, Fields
<1>3. StreamInv(r) /\ r.closes \in Nat
  BY DEF ConnInv, StreamInv
<1>4. StreamInv(s)
  BY <1>1, <1>2, <1>3, StreamKept DEF IsWriting
<1>5. Moves(r, s) /\ s.closes > 0
  BY <1>1, <1>2, <1>3, <1>4 DEF Moves, ConnInv
<1> QED BY <1>5 DEF s

\* connectDestroyed
LEMMA DestroyedMoves ==
    ASSUME NEW r, ConnInv(r), r.closes > 0
    PROVE  Moves(r, ConnectDestroyed(r)) /\ ConnectDestroyed(r).state = "kDisconnected"
<1> DEFINE s == ConnectDestroyed(r)
<1>1. Same(r, s, {"state", "destroyed", "events", "index"}) /\ s.state = "kDisconnected"
  BY DestroyedFields DEF ConnInv, StreamInv
<1> HIDE DEF s
<1>2. /\ s.out = r.out /\ s.wire = r.wire /\ s.given = r.given /\ s.closes = r.closes
      /\ s.shutWr = r.shutWr /\ DOMAIN s = Fields
  BY <1>1 DEF Same, Fields
<1>3. StreamInv(r) /\ r.closes \in Nat
  BY DEF ConnInv, StreamInv
<1>4. StreamInv(s)
  BY <1>1, <1>2, <1>3, StreamKept DEF IsWriting
<1>5. Moves(r, s)
  BY <1>1, <1>2, <1>3, <1>4 DEF Moves, ConnInv
<1> QED BY <1>1, <1>5 DEF s

\* handleError
LEMMA ErrorMoves ==
    ASSUME NEW r, ConnInv(r)
    PROVE  Moves(r, HandleError(r)) /\ HandleError(r).state = r.state
<1> DEFINE s == HandleError(r)
<1>1. Same(r, s, {"peer"})
  BY ErrorFields DEF ConnInv, StreamInv
<1> HIDE DEF s
<1>2. s.state = r.state /\ Same(r, s, {"state", "revents", "peer", "input", "sndFull"})
  BY <1>1 DEF Same, Fields
<1>3. Moves(r, s)
  BY <1>2, OtherFieldsMove
<1> QED BY <1>2, <1>3 DEF s

\* shutdownInLoop
LEMMA ShutdownMoves ==
    ASSUME NEW r, ConnInv(r)
    PROVE  Moves(r, ShutdownInLoop(r)) /\ ShutdownInLoop(r).state = r.state
<1> DEFINE s == ShutdownInLoop(r)
<1>1. Same(r, s, {"shutWr"}) /\ (IsWriting(r) => s.shutWr = r.shutWr)
  BY ShutdownFields DEF ConnInv, StreamInv
<1> HIDE DEF s
<1>2. /\ s.out = r.out /\ s.wire = r.wire /\ s.given = r.given /\ s.closes = r.closes
      /\ s.events = r.events /\ s.index = r.index /\ s.state = r.state
      /\ DOMAIN s = Fields
  BY <1>1 DEF Same, Fields
<1>3. StreamInv(r) /\ r.closes \in Nat
  BY DEF ConnInv, StreamInv
<1>4. StreamInv(s)
  BY <1>1, <1>2, <1>3, StreamKept DEF IsWriting
<1>5. r.closes = 0 /\ ~IsWriting(r) => r.out = << >>
  BY DEF ConnInv, StreamInv
<1>6. s.shutWr /\ ~r.shutWr /\ r.closes = 0 => s.out = << >>
  BY <1>1, <1>2, <1>5
<1>7. Moves(r, s)
  BY <1>2, <1>3, <1>4, <1>6 DEF Moves, ConnInv
<1> QED BY <1>2, <1>7 DEF s

\* sendInLoop
LEMMA SendMoves ==
    ASSUME NEW r, ConnInv(r), r.state # "none", NEW m \in Msgs, NEW n \in SendSizes(r, m)
    PROVE  Moves(r, AfterSend(r, m, n))
<1> DEFINE s == AfterSend(r, m, n)
<1>1. StreamInv(s) /\ Same(r, s, {"wire", "sndFull", "given", "out", "events", "index"})
  BY SendKeepsStream DEF ConnInv
<1> HIDE DEF s
<1>2. s.state = r.state /\ s.closes = r.closes /\ s.shutWr = r.shutWr
  BY <1>1 DEF Same, Fields
<1>3. Moves(r, s)
  BY <1>1, <1>2 DEF Moves, ConnInv, StreamInv
<1> QED BY <1>3 DEF s

\* handleWrite
LEMMA WriteMoves ==
    ASSUME NEW r, ConnInv(r), r.state # "none", NEW n \in 1..Len(r.out)
    PROVE  Moves(r, AfterWrite(r, n))
<1> DEFINE s == AfterWrite(r, n)
<1>1. /\ StreamInv(s)
      /\ Same(r, s, {"wire", "sndFull", "out", "events", "index", "shutWr"})
      /\ s.shutWr = r.shutWr \/ s.out = << >>
  BY WriteKeepsStream DEF ConnInv
<1> HIDE DEF s
<1>2. s.state = r.state /\ s.closes = r.closes
  BY <1>1 DEF Same, Fields
<1>3. Moves(r, s)
  BY <1>1, <1>2 DEF Moves, ConnInv, StreamInv
<1> QED BY <1>3 DEF s

-----------------------------------------------------------------------------
(* Queues, events and calls name connections that exist *)

Handlers == {"close", "error", "read", "write"} \X Conns
Calls == [op : Ops, c : Conns, m : Msgs \cup {None}, step : {"set", "queue"}]

\* With the connections k, functor f is of a created connection, and it is
\* removed or destroyed only after handleClose.
FunctorOK(k, f) ==
    /\ k[f.c].state # "none"
    /\ f.op \in {"removeConnectionInLoop", "connectDestroyed"} => k[f.c].closes > 0

QueueOK(k, q) ==
    /\ q \in [Loops -> Seq(Functors)]
    /\ \A l \in Loops : \A i \in 1..Len(q[l]) : FunctorOK(k, q[l][i])

ActiveOK(k, a) ==
    /\ a \in [Loops -> SUBSET (Conns \cup {Listener})]
    /\ \A l \in Loops : \A c \in a[l] \ {Listener} : k[c].state # "none"

TodoOK(k, t) ==
    /\ t \in [Loops -> Seq(Handlers)]
    /\ \A l \in Loops : \A i \in 1..Len(t[l]) : k[t[l][i][2]].state # "none"

CallsOK(k, p) ==
    /\ p \in [Users -> Calls \cup {Idle}]
    /\ \A u \in Users : p[u] # Idle => k[p[u].c].state # "none"

BacklogOK(k, b) == b \subseteq Conns /\ \A c \in b : k[c].state = "none"

ConnsOK(k) == k = [c \in Conns |-> k[c]] /\ \A c \in Conns : ConnInv(k[c])

\* All this, with the connections k
Holds(k) ==
    /\ ConnsOK(k) /\ BacklogOK(k, backlog)
    /\ QueueOK(k, pending) /\ QueueOK(k, batch)
    /\ ActiveOK(k, active) /\ TodoOK(k, todo)
    /\ CallsOK(k, upc)

\* The inductive invariant
StreamsInv == Holds(conn)

\* All the connections move.
AllMove(k, l) ==
    /\ l = [c \in Conns |-> l[c]]
    /\ \A c \in Conns : Moves(k[c], l[c])

LEMMA AllStay ==
    ASSUME NEW k, ConnsOK(k)
    PROVE  AllMove(k, k)
BY Stays DEF AllMove, ConnsOK

LEMMA OneMoves ==
    ASSUME NEW k, ConnsOK(k), NEW c \in Conns, NEW r, Moves(k[c], r)
    PROVE  AllMove(k, [k EXCEPT ![c] = r])
BY Stays DEF AllMove, ConnsOK

LEMMA ConnsMove ==
    ASSUME NEW k, NEW k2, ConnsOK(k), AllMove(k, k2)
    PROVE  ConnsOK(k2) /\ \A c \in Conns :
             /\ k[c].state # "none" => k2[c].state # "none"
             /\ k[c].closes > 0 => k2[c].closes > 0
<1>1. ASSUME NEW c \in Conns
      PROVE  /\ ConnInv(k2[c])
             /\ k[c].state # "none" => k2[c].state # "none"
             /\ k[c].closes > 0 => k2[c].closes > 0
  <2>1. ConnInv(k[c]) /\ Moves(k[c], k2[c])
    BY DEF ConnsOK, AllMove
  <2>2. k[c].closes \in Nat /\ k2[c].closes \in Nat
    BY <2>1 DEF Moves, ConnInv, StreamInv
  <2> QED BY <2>1, <2>2 DEF Moves
<1> QED BY <1>1 DEF ConnsOK, AllMove

LEMMA QueueMoves ==
    ASSUME NEW k, NEW k2, ConnsOK(k), AllMove(k, k2), NEW q, QueueOK(k, q)
    PROVE  QueueOK(k2, q)
<1>1. ASSUME NEW l \in Loops, NEW i \in 1..Len(q[l])
      PROVE  FunctorOK(k2, q[l][i])
  <2>1. q[l][i] \in Functors /\ FunctorOK(k, q[l][i])
    BY ElementOfSeq DEF QueueOK
  <2>2. q[l][i].c \in Conns
    BY <2>1 DEF Functors
  <2> QED BY <2>1, <2>2, ConnsMove DEF FunctorOK
<1> QED BY <1>1 DEF QueueOK

LEMMA ActiveMoves ==
    ASSUME NEW k, NEW k2, ConnsOK(k), AllMove(k, k2), NEW a, ActiveOK(k, a)
    PROVE  ActiveOK(k2, a)
<1>1. ASSUME NEW l \in Loops, NEW c \in a[l] \ {Listener}
      PROVE  k2[c].state # "none"
  <2>1. c \in Conns /\ k[c].state # "none"
    BY DEF ActiveOK
  <2> QED BY <2>1, ConnsMove
<1> QED BY <1>1 DEF ActiveOK

LEMMA TodoMoves ==
    ASSUME NEW k, NEW k2, ConnsOK(k), AllMove(k, k2), NEW t, TodoOK(k, t)
    PROVE  TodoOK(k2, t)
<1>1. ASSUME NEW l \in Loops, NEW i \in 1..Len(t[l])
      PROVE  k2[t[l][i][2]].state # "none"
  <2>1. t[l][i] \in Handlers /\ k[t[l][i][2]].state # "none"
    BY ElementOfSeq DEF TodoOK
  <2>2. t[l][i][2] \in Conns
    BY <2>1 DEF Handlers
  <2> QED BY <2>1, <2>2, ConnsMove
<1> QED BY <1>1 DEF TodoOK

LEMMA CallsMove ==
    ASSUME NEW k, NEW k2, ConnsOK(k), AllMove(k, k2), NEW p, CallsOK(k, p)
    PROVE  CallsOK(k2, p)
<1>1. ASSUME NEW u \in Users, p[u] # Idle
      PROVE  k2[p[u].c].state # "none"
  <2>1. p[u] \in Calls /\ k[p[u].c].state # "none"
    BY <1>1 DEF CallsOK
  <2>2. p[u].c \in Conns
    BY <2>1 DEF Calls
  <2> QED BY <2>1, <2>2, ConnsMove
<1> QED BY <1>1 DEF CallsOK

\* queueInLoop
LEMMA QueueGets ==
    ASSUME NEW k, NEW q, QueueOK(k, q), NEW l, NEW fs \in Seq(Functors),
           \A i \in 1..Len(fs) : FunctorOK(k, fs[i])
    PROVE  QueueOK(k, [q EXCEPT ![l] = @ \o fs])
<1> DEFINE q2 == [q EXCEPT ![l] = @ \o fs]
<1>1. CASE l \in Loops
  <2> DEFINE old == q[l]
             new == old \o fs
  <2>1. old \in Seq(Functors) /\ \A i \in 1..Len(old) : FunctorOK(k, old[i])
    BY <1>1 DEF QueueOK
  <2>2. q2 = [q EXCEPT ![l] = new]
    OBVIOUS
  <2> HIDE DEF old
  <2>3. /\ new \in Seq(Functors) /\ Len(new) = Len(old) + Len(fs)
        /\ \A i \in 1..Len(old) + Len(fs) :
             new[i] = IF i <= Len(old) THEN old[i] ELSE fs[i - Len(old)]
    BY <2>1, ConcatProperties
  <2>4. Len(old) \in Nat /\ Len(fs) \in Nat
    BY <2>1, LenProperties
  <2> HIDE DEF new
  <2>5. ASSUME NEW i \in 1..Len(new)
        PROVE  FunctorOK(k, new[i])
    <3>1. CASE i <= Len(old)
      BY <3>1, <2>1, <2>3, <2>4
    <3>2. CASE ~(i <= Len(old))
      <4>1. i - Len(old) \in 1..Len(fs) /\ new[i] = fs[i - Len(old)]
        BY <3>2, <2>3, <2>4
      <4> QED BY <4>1
    <3> QED BY <3>1, <3>2
  <2> HIDE DEF q2
  <2> QED BY <1>1, <2>2, <2>3, <2>5 DEF QueueOK, q2
<1>2. CASE l \notin Loops
  <2>1. q2 = q
    BY <1>2 DEF QueueOK
  <2> QED BY <2>1
<1> QED BY <1>1, <1>2

LEMMA QueueGetsOne ==
    ASSUME NEW k, NEW q, QueueOK(k, q), NEW l, NEW f \in Functors, FunctorOK(k, f)
    PROVE  QueueOK(k, [q EXCEPT ![l] = @ \o <<f>>])
<1>1. <<f>> \in Seq(Functors) /\ \A i \in 1..Len(<<f>>) : FunctorOK(k, <<f>>[i])
  OBVIOUS
<1> QED BY <1>1, QueueGets

\* A functor leaves the queue.
LEMMA QueueTail ==
    ASSUME NEW k, NEW q, QueueOK(k, q), NEW l \in Loops, q[l] # << >>
    PROVE  /\ QueueOK(k, [q EXCEPT ![l] = Tail(@)])
           /\ Head(q[l]) \in Functors /\ FunctorOK(k, Head(q[l]))
<1> DEFINE old == q[l]
           new == Tail(old)
<1>1. old \in Seq(Functors) /\ old # << >> /\ \A i \in 1..Len(old) : FunctorOK(k, old[i])
  BY DEF QueueOK
<1>2. [q EXCEPT ![l] = Tail(@)] = [q EXCEPT ![l] = new]
  OBVIOUS
<1> HIDE DEF old
<1>3. /\ new \in Seq(Functors) /\ Len(new) = Len(old) - 1 /\ Head(old) = old[1]
      /\ Head(old) \in Functors /\ Len(old) \in Nat /\ Len(old) > 0
      /\ \A i \in 1..Len(new) : new[i] = old[i + 1]
  BY <1>1, HeadTailProperties, LenProperties, EmptySeq
<1> HIDE DEF new
<1>4. ASSUME NEW i \in 1..Len(new)
      PROVE  FunctorOK(k, new[i])
  <2>1. i + 1 \in 1..Len(old)
    BY <1>3
  <2> QED BY <2>1, <1>1, <1>3
<1>5. FunctorOK(k, Head(old))
  BY <1>1, <1>3
<1>6. QueueOK(k, [q EXCEPT ![l] = new])
  BY <1>3, <1>4 DEF QueueOK
<1> QED BY <1>2, <1>3, <1>5, <1>6 DEF old

\* A callback of the event being handled is taken.
LEMMA TodoTail ==
    ASSUME NEW k, NEW t, TodoOK(k, t), NEW l \in Loops, t[l] # << >>,
           NEW h, NEW c, Head(t[l]) = <<h, c>>
    PROVE  TodoOK(k, [t EXCEPT ![l] = Tail(@)]) /\ c \in Conns /\ k[c].state # "none"
<1> DEFINE old == t[l]
           new == Tail(old)
<1>1. old \in Seq(Handlers) /\ old # << >>
      /\ \A i \in 1..Len(old) : k[old[i][2]].state # "none"
  BY DEF TodoOK
<1>2. [t EXCEPT ![l] = Tail(@)] = [t EXCEPT ![l] = new] /\ Head(old) = <<h, c>>
  OBVIOUS
<1> HIDE DEF old
<1>3. /\ new \in Seq(Handlers) /\ Len(new) = Len(old) - 1 /\ Head(old) = old[1]
      /\ Head(old) \in Handlers /\ Len(old) \in Nat /\ Len(old) > 0
      /\ \A i \in 1..Len(new) : new[i] = old[i + 1]
  BY <1>1, HeadTailProperties, LenProperties, EmptySeq
<1> HIDE DEF new
<1>4. ASSUME NEW i \in 1..Len(new)
      PROVE  k[new[i][2]].state # "none"
  <2>1. i + 1 \in 1..Len(old)
    BY <1>3
  <2> QED BY <2>1, <1>1, <1>3
<1>5. c \in Conns /\ k[c].state # "none"
  <2>1. old[1] = <<h, c>> /\ <<h, c>> \in Handlers /\ 1 \in 1..Len(old)
    BY <1>2, <1>3
  <2>2. c \in Conns
    BY <2>1 DEF Handlers
  <2>3. old[1][2] = c
    BY <2>1
  <2> QED BY <2>1, <2>2, <2>3, <1>1
<1>6. TodoOK(k, [t EXCEPT ![l] = new])
  BY <1>3, <1>4 DEF TodoOK
<1> QED BY <1>2, <1>5, <1>6

-----------------------------------------------------------------------------
(* Every step keeps the streams *)

\* One connection moves: a created one, or one that stays uncreated.
LEMMA OneStep ==
    ASSUME StreamsInv, NEW c \in Conns, NEW r, Moves(conn[c], r),
           conn[c].state # "none" \/ r.state = "none"
    PROVE  LET k == [conn EXCEPT ![c] = r]
           IN  AllMove(conn, k) /\ Holds(k) /\ k[c] = r
<1> DEFINE k == [conn EXCEPT ![c] = r]
<1>1. AllMove(conn, k)
  BY OneMoves DEF StreamsInv, Holds
<1>2. k[c] = r
  BY DEF StreamsInv, Holds, ConnsOK
<1>3. BacklogOK(k, backlog)
  BY DEF StreamsInv, Holds, ConnsOK, BacklogOK
<1> HIDE DEF k
<1>4. Holds(k)
  BY <1>1, <1>3, ConnsMove, QueueMoves, ActiveMoves, TodoMoves, CallsMove
     DEF StreamsInv, Holds
<1> QED BY <1>1, <1>2, <1>4 DEF k

LEMMA FunctorType ==
    ASSUME NEW op \in FunctorOps, NEW c \in Conns
    PROVE  Functor(op, c) \in Functors /\ Functor(op, c).op = op /\ Functor(op, c).c = c
BY DEF Functor, Functors

\* handleClose and removeConnection
LEMMA CloseKeeps ==
    ASSUME StreamsInv, NEW l, NEW c \in Conns, conn[c].state # "none", Close(l, c)
    PROVE  AllMove(conn, conn') /\ Holds(conn') /\ QueueOK(conn', pending')
<1>1. ConnInv(conn[c])
  BY DEF StreamsInv, Holds, ConnsOK
<1>2. Moves(conn[c], HandleClose(conn[c])) /\ HandleClose(conn[c]).closes > 0
  BY <1>1, CloseMoves
<1>3. conn' = [conn EXCEPT ![c] = HandleClose(conn[c])]
  BY DEF Close
<1>4. AllMove(conn, conn') /\ Holds(conn') /\ conn'[c] = HandleClose(conn[c])
  BY <1>2, <1>3, OneStep
<1>5. conn'[c].state # "none" /\ conn'[c].closes > 0
  BY <1>2, <1>4 DEF Moves
<1>6. ASSUME NEW op \in {"removeConnectionInLoop", "connectDestroyed"}
      PROVE  Functor(op, c) \in Functors /\ FunctorOK(conn', Functor(op, c))
  <2>1. op \in FunctorOps
    BY DEF FunctorOps
  <2> QED BY <2>1, <1>5, FunctorType DEF FunctorOK
<1>7. QueueOK(conn', pending)
  BY <1>4 DEF Holds
<1>8. CASE l = Base
  <2>1. pending' = [pending EXCEPT ![loopOf[c]] = @ \o <<Functor("connectDestroyed", c)>>]
    BY <1>8 DEF Close, Queue
  <2> QED BY <2>1, <1>4, <1>6, <1>7, QueueGetsOne
<1>9. CASE l # Base
  <2>1. pending' = [pending EXCEPT ![Base] = @ \o <<Functor("removeConnectionInLoop", c)>>]
    BY <1>9 DEF Close, Queue
  <2> QED BY <2>1, <1>4, <1>6, <1>7, QueueGetsOne
<1> QED BY <1>4, <1>8, <1>9

\* sendInLoop
LEMMA SendInLoopKeeps ==
    ASSUME StreamsInv, NEW l, NEW c \in Conns, conn[c].state # "none", NEW m \in Msgs,
           SendInLoop(l, c, m)
    PROVE  AllMove(conn, conn') /\ Holds(conn') /\ QueueOK(conn', pending')
<1>1. ConnInv(conn[c])
  BY DEF StreamsInv, Holds, ConnsOK
<1> DEFINE fs(n) == [i \in DOMAIN SendQueues(conn[c], n) |->
                       Functor(SendQueues(conn[c], n)[i], c)]
<1>2. PICK n \in SendSizes(conn[c], m) :
        /\ conn' = [conn EXCEPT ![c] = AfterSend(conn[c], m, n)]
        /\ pending' = [pending EXCEPT ![l] = @ \o fs(n)]
  BY DEF SendInLoop, Queue
<1>3. Moves(conn[c], AfterSend(conn[c], m, n))
  BY <1>1, SendMoves
<1>4. AllMove(conn, conn') /\ Holds(conn') /\ conn'[c] = AfterSend(conn[c], m, n)
  BY <1>2, <1>3, OneStep
<1>5. conn'[c].state # "none"
  BY <1>3, <1>4 DEF Moves
<1>6. ASSUME NEW op \in {"writeComplete", "highWaterMark"}
      PROVE  Functor(op, c) \in Functors /\ FunctorOK(conn', Functor(op, c))
  <2>1. op \in FunctorOps
    BY DEF FunctorOps
  <2> QED BY <2>1, <1>5, FunctorType DEF FunctorOK
<1>7. SendQueues(conn[c], n) \in {<<"writeComplete">>, <<"highWaterMark">>, << >>}
  BY DEF SendQueues
<1>8. fs(n) \in Seq(Functors) /\ \A i \in 1..Len(fs(n)) : FunctorOK(conn', fs(n)[i])
  <2>1. ASSUME NEW op \in {"writeComplete", "highWaterMark"},
               SendQueues(conn[c], n) = <<op>>
        PROVE  fs(n) = <<Functor(op, c)>>
    BY <2>1
  <2>2. SendQueues(conn[c], n) = << >> => fs(n) = << >>
    OBVIOUS
  <2> HIDE DEF fs
  <2>3. ASSUME NEW f \in Functors, FunctorOK(conn', f), fs(n) = <<f>>
        PROVE  fs(n) \in Seq(Functors) /\ \A i \in 1..Len(fs(n)) : FunctorOK(conn', fs(n)[i])
    BY <2>3
  <2>4. CASE \E op \in {"writeComplete", "highWaterMark"} : SendQueues(conn[c], n) = <<op>>
    <3>1. PICK op \in {"writeComplete", "highWaterMark"} : SendQueues(conn[c], n) = <<op>>
      BY <2>4
    <3>2. fs(n) = <<Functor(op, c)>> /\ Functor(op, c) \in Functors
          /\ FunctorOK(conn', Functor(op, c))
      BY <3>1, <2>1, <1>6
    <3> QED BY <3>2, <2>3
  <2>5. CASE SendQueues(conn[c], n) = << >>
    <3>1. fs(n) = << >>
      BY <2>5, <2>2
    <3> QED BY <3>1, EmptySeq
  <2> QED BY <2>4, <2>5, <1>7
<1> HIDE DEF fs
<1>9. QueueOK(conn', pending)
  BY <1>4 DEF Holds
<1> QED BY <1>2, <1>4, <1>8, <1>9, QueueGets

\* Callbacks of a connection's channel
LEMMA HandlerSteps ==
    ASSUME StreamsInv, NEW l \in Loops, NEW c,
           \/ HandleHangup(l, c) \/ HandleSocketError(l, c)
           \/ HandleReadMessage(l, c) \/ HandleReadEof(l, c) \/ HandleReadError(l, c)
           \/ HandleWrite(l, c)
    PROVE  AllMove(conn, conn') /\ StreamsInv'
<1>1. PICK h : NextHandler(l, h, c)
  BY DEF HandleHangup, HandleSocketError, HandleReadMessage, HandleReadEof,
         HandleReadError, HandleWrite
<1>2. /\ todo[l] # << >> /\ Head(todo[l]) = <<h, c>>
      /\ todo' = [todo EXCEPT ![l] = Tail(@)]
      /\ UNCHANGED <<backlog, active, batch, upc>>
  BY <1>1 DEF NextHandler, user
<1>3. TodoOK(conn, todo)
  BY DEF StreamsInv, Holds
<1>4. c \in Conns /\ conn[c].state # "none"
  BY <1>2, <1>3, TodoTail
<1>5. ConnInv(conn[c]) /\ DOMAIN conn[c] = Fields
  BY <1>4 DEF StreamsInv, Holds, ConnsOK, ConnInv, StreamInv
<1>6. ASSUME AllMove(conn, conn'), Holds(conn'), QueueOK(conn', pending')
      PROVE  AllMove(conn, conn') /\ StreamsInv'
  <2>1. TodoOK(conn', todo')
    BY <1>2, <1>6, TodoTail DEF Holds
  <2> QED BY <2>1, <1>2, <1>6 DEF StreamsInv, Holds
<1>7. ASSUME NEW r, Moves(conn[c], r), conn' = [conn EXCEPT ![c] = r], pending' = pending
      PROVE  AllMove(conn, conn') /\ StreamsInv'
  <2>1. AllMove(conn, conn') /\ Holds(conn')
    BY <1>4, <1>7, OneStep
  <2> QED BY <2>1, <1>6, <1>7 DEF Holds
<1>8. CASE HandleHangup(l, c) \/ HandleReadEof(l, c)
  <2>1. Close(l, c)
    BY <1>8 DEF HandleHangup, HandleReadEof
  <2> QED BY <2>1, <1>4, <1>6, CloseKeeps
<1>9. CASE HandleSocketError(l, c) \/ HandleReadError(l, c)
  <2>1. conn' = [conn EXCEPT ![c] = HandleError(conn[c])] /\ pending' = pending
    BY <1>9 DEF HandleSocketError, HandleReadError
  <2> QED BY <2>1, <1>5, <1>7, ErrorMoves
<1>10. CASE HandleReadMessage(l, c)
  <2> DEFINE r == [conn[c] EXCEPT !.input = 0]
  <2>1. conn' = [conn EXCEPT ![c] = r] /\ pending' = pending
    BY <1>10 DEF HandleReadMessage
  <2>2. Same(conn[c], r, {"state", "revents", "peer", "input", "sndFull"})
        /\ r.state = conn[c].state
    BY <1>5 DEF Same, Fields
  <2> HIDE DEF r
  <2> QED BY <2>1, <2>2, <1>5, <1>7, OtherFieldsMove
<1>11. CASE HandleWrite(l, c)
  <2> DEFINE f == Functor("writeComplete", c)
  <2>1. PICK n \in WriteSizes(conn[c], conn[c].out) :
          /\ conn' = IF n > 0 /\ IsWriting(conn[c])
                     THEN [conn EXCEPT ![c] = AfterWrite(conn[c], n)] ELSE conn
          /\ \/ pending' = [pending EXCEPT ![l] = @ \o <<f>>]
             \/ pending' = [pending EXCEPT ![l] = @ \o << >>]
    BY <1>11 DEF HandleWrite, Queue
  <2>2. AllMove(conn, conn') /\ Holds(conn')
    <3>1. CASE n > 0 /\ IsWriting(conn[c])
      <4>1. n \in 1..Len(conn[c].out)
        BY <3>1 DEF WriteSizes
      <4>2. Moves(conn[c], AfterWrite(conn[c], n))
        BY <4>1, <1>4, <1>5, WriteMoves
      <4> QED BY <2>1, <3>1, <4>2, <1>4, OneStep
    <3>2. CASE ~(n > 0 /\ IsWriting(conn[c]))
      BY <2>1, <3>2, AllStay DEF StreamsInv, Holds
    <3> QED BY <3>1, <3>2
  <2>3. conn'[c].state # "none" /\ QueueOK(conn', pending)
    BY <2>2, <1>4 DEF AllMove, Moves, Holds
  <2>4. f \in Functors /\ FunctorOK(conn', f)
    <3>1. "writeComplete" \in FunctorOps
      BY DEF FunctorOps
    <3> QED BY <3>1, <2>3, <1>4, FunctorType DEF FunctorOK
  <2> HIDE DEF f
  <2>5. << >> \in Seq(Functors) /\ \A i \in 1..Len(<< >>) : FunctorOK(conn', << >>[i])
    OBVIOUS
  <2>6. QueueOK(conn', pending')
    <3>1. CASE pending' = [pending EXCEPT ![l] = @ \o <<f>>]
      BY <3>1, <2>3, <2>4, QueueGetsOne
    <3>2. CASE pending' = [pending EXCEPT ![l] = @ \o << >>]
      BY <3>2, <2>3, <2>5, QueueGets
    <3> QED BY <2>1, <3>1, <3>2
  <2> QED BY <2>2, <2>6, <1>6
<1> QED BY <1>8, <1>9, <1>10, <1>11

\* Functors
LEMMA FunctorSteps ==
    ASSUME StreamsInv, NEW l \in Loops, NEW c,
           \/ RunConnectEstablished(l, c) \/ RunRemoveConnection(l, c)
           \/ RunConnectDestroyed(l, c) \/ RunShutdown(l, c) \/ RunForceClose(l, c)
           \/ RunWriteComplete(l, c) \/ RunHighWaterMark(l, c)
           \/ \E m \in Msgs : RunSend(l, c, m)
    PROVE  AllMove(conn, conn') /\ StreamsInv'
<1>1. PICK op, m : NextFunctor(l, op, c, m)
  BY DEF RunConnectEstablished, RunRemoveConnection, RunConnectDestroyed, RunShutdown,
         RunForceClose, RunWriteComplete, RunHighWaterMark, RunSend
<1>2. /\ batch[l] # << >>
      /\ batch' = [batch EXCEPT ![l] = Tail(@)]
      /\ UNCHANGED <<backlog, active, todo, upc>>
  BY <1>1 DEF NextFunctor
<1>3. QueueOK(conn, batch)
  BY DEF StreamsInv, Holds
<1>4. c \in Conns /\ conn[c].state # "none"
  <2>1. Head(batch[l]) \in Functors /\ FunctorOK(conn, Head(batch[l]))
    BY <1>2, <1>3, QueueTail
  <2>2. Head(batch[l]).c = c
    BY <1>1 DEF NextFunctor
  <2> QED BY <2>1, <2>2 DEF Functors, FunctorOK
<1>5. ConnInv(conn[c]) /\ DOMAIN conn[c] = Fields
  BY <1>4 DEF StreamsInv, Holds, ConnsOK, ConnInv, StreamInv
<1>6. ASSUME AllMove(conn, conn'), Holds(conn'), QueueOK(conn', pending')
      PROVE  AllMove(conn, conn') /\ StreamsInv'
  <2>1. QueueOK(conn', batch')
    BY <1>2, <1>6, QueueTail DEF Holds
  <2> QED BY <2>1, <1>2, <1>6 DEF StreamsInv, Holds
<1>7. ASSUME NEW r, Moves(conn[c], r), conn' = [conn EXCEPT ![c] = r], pending' = pending
      PROVE  AllMove(conn, conn') /\ StreamsInv'
  <2>1. AllMove(conn, conn') /\ Holds(conn')
    BY <1>4, <1>7, OneStep
  <2> QED BY <2>1, <1>6, <1>7 DEF Holds
<1>8. AllMove(conn, conn) /\ Holds(conn) /\ QueueOK(conn, pending)
  BY AllStay DEF StreamsInv, Holds
\* what the functor knows of handleClose
<1>9. ASSUME NEW op2 \in {"removeConnectionInLoop", "connectDestroyed"},
             NextFunctor(l, op2, c, None)
      PROVE  conn[c].closes > 0
  <2>1. FunctorOK(conn, Head(batch[l]))
    BY <1>2, <1>3, QueueTail
  <2>2. Head(batch[l]).op = op2 /\ Head(batch[l]).c = c
    BY <1>9 DEF NextFunctor
  <2> QED BY <2>1, <2>2 DEF FunctorOK
<1>10. CASE RunConnectEstablished(l, c)
  <2>1. conn' = [conn EXCEPT ![c] = ConnectEstablished(conn[c])] /\ pending' = pending
    BY <1>10 DEF RunConnectEstablished
  <2> QED BY <2>1, <1>5, <1>7, EstablishedMoves
<1>11. CASE RunRemoveConnection(l, c)
  <2> DEFINE f == Functor("connectDestroyed", c)
  <2>1. /\ conn' = conn /\ pending' = [pending EXCEPT ![loopOf[c]] = @ \o <<f>>]
        /\ NextFunctor(l, "removeConnectionInLoop", c, None)
    BY <1>11 DEF RunRemoveConnection, Queue
  <2>2. f \in Functors /\ FunctorOK(conn, f)
    <3>1. "connectDestroyed" \in FunctorOps /\ conn[c].closes > 0
      BY <2>1, <1>9 DEF FunctorOps
    <3> QED BY <3>1, <1>4, FunctorType DEF FunctorOK
  <2> HIDE DEF f
  <2>3. QueueOK(conn, [pending EXCEPT ![loopOf[c]] = @ \o <<f>>])
    BY <2>2, <1>8, QueueGetsOne
  <2> QED BY <2>1, <2>3, <1>6, <1>8
<1>12. CASE RunConnectDestroyed(l, c)
  <2>1. /\ conn' = [conn EXCEPT ![c] = ConnectDestroyed(conn[c])] /\ pending' = pending
        /\ NextFunctor(l, "connectDestroyed", c, None)
    BY <1>12 DEF RunConnectDestroyed
  <2>2. conn[c].closes > 0
    BY <2>1, <1>9
  <2> QED BY <2>1, <2>2, <1>5, <1>7, DestroyedMoves
<1>13. CASE RunShutdown(l, c)
  <2>1. conn' = [conn EXCEPT ![c] = ShutdownInLoop(conn[c])] /\ pending' = pending
    BY <1>13 DEF RunShutdown
  <2> QED BY <2>1, <1>5, <1>7, ShutdownMoves
<1>14. CASE RunForceClose(l, c)
  <2>1. Close(l, c) \/ (conn' = conn /\ pending' = pending)
    BY <1>14 DEF RunForceClose
  <2>2. CASE Close(l, c)
    BY <2>2, <1>4, <1>6, CloseKeeps
  <2>3. CASE conn' = conn /\ pending' = pending
    BY <2>3, <1>6, <1>8
  <2> QED BY <2>1, <2>2, <2>3
<1>15. CASE RunWriteComplete(l, c) \/ RunHighWaterMark(l, c)
  <2>1. conn' = conn /\ pending' = pending
    BY <1>15 DEF RunWriteComplete, RunHighWaterMark
  <2> QED BY <2>1, <1>6, <1>8
<1>16. ASSUME NEW m2 \in Msgs, RunSend(l, c, m2)
       PROVE  AllMove(conn, conn') /\ StreamsInv'
  <2>1. SendInLoop(l, c, m2)
    BY <1>16 DEF RunSend
  <2> QED BY <2>1, <1>4, <1>6, SendInLoopKeeps
<1> QED BY <1>10, <1>11, <1>12, <1>13, <1>14, <1>15, <1>16

\* Calls of a user callback in the loop thread
LEMMA CallSteps ==
    ASSUME StreamsInv, NEW l \in Loops, CallStep(l)
    PROVE  AllMove(conn, conn') /\ StreamsInv'
<1>1. PICK c \in Conns : \/ CallShutdown(l, c) \/ CallForceClose(l, c)
                         \/ \E m \in Msgs : CallSend(l, c, m)
  BY DEF CallStep
<1>2. PICK op : InCallback(l, c, op)
  BY <1>1 DEF CallShutdown, CallForceClose, CallSend
<1>3. conn[c].state # "none" /\ UNCHANGED <<backlog, active, todo, batch, upc>>
  BY <1>2 DEF InCallback, StateAllows, server, inLoop
<1>4. ConnInv(conn[c]) /\ DOMAIN conn[c] = Fields
  BY DEF StreamsInv, Holds, ConnsOK, ConnInv, StreamInv
<1>5. ASSUME AllMove(conn, conn'), Holds(conn'), QueueOK(conn', pending')
      PROVE  AllMove(conn, conn') /\ StreamsInv'
  BY <1>3, <1>5 DEF StreamsInv, Holds
<1> DEFINE d == [conn[c] EXCEPT !.state = "kDisconnecting"]
<1>6. d.state = "kDisconnecting" /\ d.shutWr = conn[c].shutWr
      /\ Same(conn[c], d, {"state", "revents", "peer", "input", "sndFull"})
      /\ d.closes = conn[c].closes
  BY <1>4 DEF Same, Fields
<1>7. Moves(conn[c], d)
  <2> HIDE DEF d
  <2> QED BY <1>4, <1>6, OtherFieldsMove
<1>8. CASE CallShutdown(l, c)
  <2>1. conn' = [conn EXCEPT ![c] = ShutdownInLoop(d)] /\ pending' = pending
    BY <1>8 DEF CallShutdown
  <2> HIDE DEF d
  <2>2. Moves(d, ShutdownInLoop(d))
    BY <1>7, ShutdownMoves DEF Moves
  <2>3. Moves(conn[c], ShutdownInLoop(d))
    BY <1>6, <1>7, <2>2 DEF Moves
  <2>4. AllMove(conn, conn') /\ Holds(conn')
    BY <2>1, <2>3, <1>3, OneStep
  <2> QED BY <2>1, <2>4, <1>5 DEF Holds
<1>9. CASE CallForceClose(l, c)
  <2> DEFINE f == Functor("forceCloseInLoop", c)
  <2>1. conn' = [conn EXCEPT ![c] = d] /\ pending' = [pending EXCEPT ![l] = @ \o <<f>>]
    BY <1>9 DEF CallForceClose, Queue
  <2>2. AllMove(conn, conn') /\ Holds(conn') /\ conn'[c] = d
    <3> HIDE DEF d
    <3> QED BY <2>1, <1>3, <1>7, OneStep
  <2>3. f \in Functors /\ FunctorOK(conn', f)
    <3>1. "forceCloseInLoop" \in FunctorOps
      BY DEF FunctorOps
    <3> QED BY <3>1, <2>2, <1>6, FunctorType DEF FunctorOK
  <2> HIDE DEF f
  <2>4. QueueOK(conn', pending')
    BY <2>1, <2>2, <2>3, QueueGetsOne DEF Holds
  <2> QED BY <2>2, <2>4, <1>5
<1>10. ASSUME NEW m \in Msgs, CallSend(l, c, m)
       PROVE  AllMove(conn, conn') /\ StreamsInv'
  <2>1. SendInLoop(l, c, m)
    BY <1>10 DEF CallSend
  <2> QED BY <2>1, <1>3, <1>5, SendInLoopKeeps
<1> QED BY <1>1, <1>8, <1>9, <1>10

\* Calls of other threads
LEMMA ThreadSteps ==
    ASSUME StreamsInv, unsent \subseteq Msgs, NEW u \in Users, ThreadStep(u)
    PROVE  AllMove(conn, conn') /\ StreamsInv'
<1>1. AllMove(conn, conn) /\ CallsOK(conn, upc) /\ QueueOK(conn, pending)
  BY AllStay DEF StreamsInv, Holds
<1>2. ASSUME upc[u].step \in {"set", "queue"}
      PROVE  upc[u] \in Calls /\ upc[u].c \in Conns /\ conn[upc[u].c].state # "none"
  <2>1. Idle.step = "none"
    BY DEF Idle, None
  <2>2. upc[u] # Idle
    BY <1>2, <2>1
  <2> QED BY <2>2, <1>1 DEF CallsOK, Calls
<1>3. CASE ThreadSetState(u)
  <2> DEFINE c == upc[u].c
             d == [conn[c] EXCEPT !.state = "kDisconnecting"]
  <2>1. /\ upc[u].step = "set" /\ conn' = [conn EXCEPT ![c] = d]
        /\ upc' = [upc EXCEPT ![u].step = "queue"]
        /\ UNCHANGED <<backlog, active, todo, pending, batch>>
    BY <1>3 DEF ThreadSetState, server, inLoop, queues
  <2>2. upc[u] \in Calls /\ c \in Conns /\ conn[c].state # "none"
    BY <2>1, <1>2
  <2>3. ConnInv(conn[c]) /\ DOMAIN conn[c] = Fields
    BY <2>2 DEF StreamsInv, Holds, ConnsOK, ConnInv, StreamInv
  <2>4. d.state = "kDisconnecting"
        /\ Same(conn[c], d, {"state", "revents", "peer", "input", "sndFull"})
    BY <2>3 DEF Same, Fields
  <2> HIDE DEF d
  <2>5. Moves(conn[c], d)
    BY <2>3, <2>4, OtherFieldsMove
  <2>6. AllMove(conn, conn') /\ Holds(conn') /\ conn'[c] = d
    BY <2>1, <2>2, <2>5, OneStep
  <2>7. CallsOK(conn', upc')
    <3>1. CallsOK(conn', upc)
      BY <2>6 DEF Holds
    <3>2. upc'[u] \in Calls /\ upc'[u].c = c
      BY <2>1, <2>2, <3>1 DEF CallsOK, Calls
    <3>3. ASSUME NEW v \in Users, upc'[v] # Idle
          PROVE  conn'[upc'[v].c].state # "none"
      <4>1. CASE v = u
        BY <4>1, <3>2, <2>4, <2>6
      <4>2. CASE v # u
        BY <4>2, <3>1, <3>3, <2>1 DEF CallsOK
      <4> QED BY <4>1, <4>2
    <3> QED BY <3>1, <3>2, <3>3, <2>1 DEF CallsOK
  <2> QED BY <2>1, <2>6, <2>7 DEF StreamsInv, Holds
<1>4. CASE ThreadQueue(u)
  <2> DEFINE call == upc[u]
             f == CASE call.op = "send" -> SendFunctor(call.c, call.m)
                    [] call.op = "shutdown" -> Functor("shutdownInLoop", call.c)
                    [] call.op = "forceClose" -> Functor("forceCloseInLoop", call.c)
  <2>1. /\ call.step = "queue" /\ pending' = [pending EXCEPT ![loopOf[call.c]] = @ \o <<f>>]
        /\ upc' = [upc EXCEPT ![u] = Idle] /\ conn' = conn
        /\ UNCHANGED <<backlog, active, todo, batch>>
    BY <1>4 DEF ThreadQueue, Queue, server, inLoop
  <2>2. call \in Calls /\ call.c \in Conns /\ conn[call.c].state # "none"
    BY <2>1, <1>2
  <2>3. call.op \in {"send", "shutdown", "forceClose"} /\ call.m \in Msgs \cup {None}
    BY <2>2 DEF Calls, Ops
  <2>4. f \in Functors /\ f.c = call.c
        /\ f.op \in {"sendInLoop", "shutdownInLoop", "forceCloseInLoop"}
    <3> HIDE DEF call
    <3>1. CASE call.op = "send"
      BY <3>1, <2>2, <2>3 DEF SendFunctor, Functors, FunctorOps
    <3>2. CASE call.op = "shutdown"
      BY <3>2, <2>2, <2>3 DEF Functor, Functors, FunctorOps
    <3>3. CASE call.op = "forceClose"
      BY <3>3, <2>2, <2>3 DEF Functor, Functors, FunctorOps
    <3> QED BY <3>1, <3>2, <3>3, <2>3
  <2> HIDE DEF f
  <2>5. FunctorOK(conn, f)
    BY <2>2, <2>4 DEF FunctorOK
  <2>6. QueueOK(conn, [pending EXCEPT ![loopOf[call.c]] = @ \o <<f>>])
    BY <2>4, <2>5, <1>1, QueueGetsOne
  <2>7. CallsOK(conn, upc')
    BY <2>1, <1>1 DEF CallsOK
  <2> QED BY <2>1, <2>6, <2>7, <1>1 DEF StreamsInv, Holds
<1>5. ASSUME NEW c \in Conns, NEW op \in Ops, ThreadTest(u, c, op)
      PROVE  AllMove(conn, conn') /\ StreamsInv'
  <2>1. conn[c].state # "none" /\ conn' = conn
        /\ UNCHANGED <<backlog, active, todo, pending, batch>>
    BY <1>5 DEF ThreadTest, StateAllows, server, inLoop, queues
  <2>2. PICK call \in Calls : upc' = [upc EXCEPT ![u] = call] /\ call.c = c
    <3>1. CASE op = "send"
      <4>1. PICK m \in unsent :
              upc' = [upc EXCEPT ![u] = [op |-> op, c |-> c, m |-> m, step |-> "queue"]]
        BY <1>5, <3>1 DEF ThreadTest
      <4> DEFINE call == [op |-> op, c |-> c, m |-> m, step |-> "queue"]
      <4>2. call \in Calls /\ call.c = c
        BY DEF Calls
      <4> QED BY <4>1, <4>2
    <3>2. CASE op # "send"
      <4>1. upc' = [upc EXCEPT ![u] = [op |-> op, c |-> c, m |-> None, step |-> "set"]]
        BY <1>5, <3>2 DEF ThreadTest
      <4> DEFINE call == [op |-> op, c |-> c, m |-> None, step |-> "set"]
      <4>2. call \in Calls /\ call.c = c
        BY DEF Calls
      <4> QED BY <4>1, <4>2
    <3> QED BY <3>1, <3>2
  <2>3. CallsOK(conn, upc')
    BY <2>1, <2>2, <1>1 DEF CallsOK
  <2> QED BY <2>1, <2>3, <1>1 DEF StreamsInv, Holds
<1> QED BY <1>3, <1>4, <1>5 DEF ThreadStep

\* The peers
LEMMA PeerSteps ==
    ASSUME StreamsInv, PeerStep
    PROVE  AllMove(conn, conn') /\ StreamsInv'
<1>1. PICK c \in Conns :
        Arrive(c) \/ PeerSends(c) \/ PeerReads(c) \/ PeerCloses(c) \/ PeerResets(c)
  BY DEF PeerStep
<1>2. ConnInv(conn[c]) /\ DOMAIN conn[c] = Fields /\ AllMove(conn, conn)
  BY AllStay DEF StreamsInv, Holds, ConnsOK, ConnInv, StreamInv
<1>3. CASE Arrive(c)
  <2>1. /\ conn' = conn /\ backlog' = backlog \cup {c} /\ conn[c].state = "none"
        /\ UNCHANGED <<active, todo, pending, batch, upc>>
    BY <1>3 DEF Arrive, inLoop, queues, user
  <2>2. BacklogOK(conn, backlog')
    BY <2>1 DEF StreamsInv, Holds, BacklogOK
  <2> QED BY <2>1, <2>2, <1>2 DEF StreamsInv, Holds
<1>4. ASSUME NEW r, PeerActs(c, r), r.state = conn[c].state,
             Same(conn[c], r, {"state", "revents", "peer", "input", "sndFull"})
      PROVE  AllMove(conn, conn') /\ StreamsInv'
  <2>1. /\ conn' = [conn EXCEPT ![c] = r]
        /\ UNCHANGED <<backlog, active, todo, pending, batch, upc>>
    BY <1>4 DEF PeerActs, server, inLoop, queues, user
  <2>2. Moves(conn[c], r)
    BY <1>2, <1>4, OtherFieldsMove
  <2>3. AllMove(conn, conn') /\ Holds(conn')
    BY <2>1, <2>2, <1>4, OneStep
  <2> QED BY <2>1, <2>3 DEF StreamsInv, Holds
<1>5. CASE PeerSends(c)
  <2> DEFINE r == [conn[c] EXCEPT !.input = 1]
  <2>1. PeerActs(c, r) /\ r.state = conn[c].state
        /\ Same(conn[c], r, {"state", "revents", "peer", "input", "sndFull"})
    BY <1>2, <1>5 DEF PeerSends, Same, Fields
  <2> HIDE DEF r
  <2> QED BY <2>1, <1>4
<1>6. CASE PeerReads(c)
  <2> DEFINE r == [conn[c] EXCEPT !.sndFull = FALSE]
  <2>1. PeerActs(c, r) /\ r.state = conn[c].state
        /\ Same(conn[c], r, {"state", "revents", "peer", "input", "sndFull"})
    BY <1>2, <1>6 DEF PeerReads, Same, Fields
  <2> HIDE DEF r
  <2> QED BY <2>1, <1>4
<1>7. CASE PeerCloses(c)
  <2> DEFINE r == [conn[c] EXCEPT !.peer = "fin"]
  <2>1. PeerActs(c, r) /\ r.state = conn[c].state
        /\ Same(conn[c], r, {"state", "revents", "peer", "input", "sndFull"})
    BY <1>2, <1>7 DEF PeerCloses, Same, Fields
  <2> HIDE DEF r
  <2> QED BY <2>1, <1>4
<1>8. CASE PeerResets(c)
  <2> DEFINE r == [conn[c] EXCEPT !.peer = "rst", !.input = 0]
  <2>1. PeerActs(c, r) /\ r.state = conn[c].state
        /\ Same(conn[c], r, {"state", "revents", "peer", "input", "sndFull"})
    BY <1>2, <1>8 DEF PeerResets, Same, Fields
  <2> HIDE DEF r
  <2> QED BY <2>1, <1>4
<1> QED BY <1>1, <1>3, <1>5, <1>6, <1>7, <1>8

\* newConnection and the refusal of a connection
LEMMA AcceptSteps ==
    ASSUME StreamsInv, NEW c \in Conns, AcceptOne(c) \/ RefuseOne(c)
    PROVE  AllMove(conn, conn') /\ StreamsInv'
<1>1. c \in backlog /\ backlog' = backlog \ {c}
  BY DEF AcceptOne, RefuseOne
<1>2. /\ ConnInv(conn[c]) /\ DOMAIN conn[c] = Fields /\ conn[c].state = "none"
      /\ ConnsOK(conn) /\ BacklogOK(conn, backlog)
  BY <1>1 DEF StreamsInv, Holds, ConnsOK, BacklogOK, ConnInv, StreamInv
<1>3. ASSUME NEW r, Moves(conn[c], r), conn' = [conn EXCEPT ![c] = r],
             UNCHANGED <<active, todo, batch, upc>>,
             pending' = pending \/ QueueOK(conn', pending')
      PROVE  AllMove(conn, conn') /\ StreamsInv'
  <2>1. AllMove(conn, conn')
    BY <1>2, <1>3, OneMoves
  <2>2. BacklogOK(conn', backlog')
    BY <1>1, <1>2, <1>3 DEF BacklogOK, ConnsOK
  <2>3. /\ ConnsOK(conn') /\ QueueOK(conn', pending) /\ QueueOK(conn', batch)
        /\ ActiveOK(conn', active) /\ TodoOK(conn', todo) /\ CallsOK(conn', upc)
    BY <2>1, ConnsMove, QueueMoves, ActiveMoves, TodoMoves, CallsMove
       DEF StreamsInv, Holds
  <2> QED BY <2>1, <2>2, <2>3, <1>3 DEF StreamsInv, Holds
<1>4. CASE RefuseOne(c)
  <2>1. Moves(conn[c], Unborn)
    BY <1>2, UnbornInv DEF Moves, Unborn, ConnInv, StreamInv
  <2> QED BY <2>1, <1>3, <1>4 DEF RefuseOne, inLoop, queues, user
<1>5. CASE AcceptOne(c) /\ NextLoop = Base
  <2>1. /\ conn' = [conn EXCEPT ![c] = ConnectEstablished(conn[c])]
        /\ UNCHANGED <<active, todo, batch, upc, pending>>
    BY <1>5 DEF AcceptOne, NewConnection
  <2> QED BY <2>1, <1>2, <1>3, EstablishedMoves
<1>6. CASE AcceptOne(c) /\ NextLoop # Base
  <2> DEFINE r == [conn[c] EXCEPT !.state = "kConnecting"]
             f == Functor("connectEstablished", c)
  <2>1. /\ conn' = [conn EXCEPT ![c] = r]
        /\ pending' = [pending EXCEPT ![NextLoop] = @ \o <<f>>]
        /\ UNCHANGED <<active, todo, batch, upc>>
    BY <1>6 DEF AcceptOne, NewConnection, Queue
  <2>2. r.state = "kConnecting"
        /\ Same(conn[c], r, {"state", "revents", "peer", "input", "sndFull"})
    BY <1>2 DEF Same, Fields
  <2> HIDE DEF r
  <2>3. Moves(conn[c], r)
    BY <2>2, <1>2, OtherFieldsMove
  <2>4. AllMove(conn, conn') /\ conn'[c] = r
    BY <2>1, <2>3, <1>2, OneMoves DEF ConnsOK
  <2>5. QueueOK(conn', pending)
    BY <2>4, QueueMoves DEF StreamsInv, Holds
  <2>6. f \in Functors /\ FunctorOK(conn', f)
    <3>1. "connectEstablished" \in FunctorOps
      BY DEF FunctorOps
    <3> QED BY <3>1, <2>2, <2>4, FunctorType DEF FunctorOK
  <2> HIDE DEF f
  <2>7. QueueOK(conn', pending')
    BY <2>1, <2>5, <2>6, QueueGetsOne
  <2> QED BY <2>1, <2>3, <2>7, <1>3
<1> QED BY <1>4, <1>5, <1>6

\* poll
LEMMA PollKeeps ==
    ASSUME StreamsInv, NEW l \in Loops, Poll(l)
    PROVE  AllMove(conn, conn') /\ StreamsInv'
<1>1. /\ active' = [active EXCEPT ![l] = ReadyConns(l) \cup ReadyListener(l)]
      /\ conn' = [c \in Conns |-> IF c \in ReadyConns(l)
                                  THEN [conn[c] EXCEPT !.revents = Revents(conn[c])]
                                  ELSE conn[c]]
      /\ UNCHANGED <<backlog, todo, pending, batch, upc>>
  BY DEF Poll, server, queues, user
<1>2. ASSUME NEW c \in Conns
      PROVE  Moves(conn[c], conn'[c]) /\ conn'[c].state = conn[c].state
  <2>1. ConnInv(conn[c]) /\ DOMAIN conn[c] = Fields
    BY DEF StreamsInv, Holds, ConnsOK, ConnInv, StreamInv
  <2> DEFINE r == [conn[c] EXCEPT !.revents = Revents(conn[c])]
  <2>2. r.state = conn[c].state
        /\ Same(conn[c], r, {"state", "revents", "peer", "input", "sndFull"})
    BY <2>1 DEF Same, Fields
  <2>3. conn'[c] = r \/ conn'[c] = conn[c]
    BY <1>1
  <2> HIDE DEF r
  <2>4. Moves(conn[c], r)
    BY <2>1, <2>2, OtherFieldsMove
  <2> QED BY <2>1, <2>2, <2>3, <2>4, Stays
<1>3. AllMove(conn, conn')
  BY <1>1, <1>2 DEF AllMove
<1>4. BacklogOK(conn', backlog)
  BY <1>2 DEF StreamsInv, Holds, BacklogOK
<1>5. /\ ConnsOK(conn') /\ QueueOK(conn', pending) /\ QueueOK(conn', batch)
      /\ ActiveOK(conn', active) /\ TodoOK(conn', todo) /\ CallsOK(conn', upc)
  BY <1>3, ConnsMove, QueueMoves, ActiveMoves, TodoMoves, CallsMove
     DEF StreamsInv, Holds
<1>6. ActiveOK(conn', active')
  <2>1. \A c \in ReadyConns(l) : c \in Conns /\ conn'[c].state # "none"
    <3>1. ASSUME NEW c \in ReadyConns(l)
          PROVE  c \in Conns /\ conn'[c].state # "none"
      <4>1. c \in Conns /\ conn[c].index = "kAdded"
        BY DEF ReadyConns, Revents
      <4>2. conn[c].state # "none"
        BY <4>1 DEF StreamsInv, Holds, ConnsOK, ConnInv
      <4> QED BY <4>1, <4>2, <1>2
    <3> QED BY <3>1
  <2>2. ReadyListener(l) \subseteq {Listener}
    BY DEF ReadyListener
  <2> QED BY <2>1, <2>2, <1>1, <1>5 DEF ActiveOK
<1> QED BY <1>1, <1>3, <1>4, <1>5, <1>6 DEF StreamsInv, Holds

LEMMA HandlersType ==
    ASSUME NEW ev
    PROVE  HandlersOf(ev) \in Seq({"close", "error", "read", "write"})
<1> DEFINE H == {"close", "error", "read", "write"}
           a == IF "HUP" \in ev /\ "IN" \notin ev THEN <<"close">> ELSE << >>
           b == IF "ERR" \in ev THEN <<"error">> ELSE << >>
           d == IF "IN" \in ev THEN <<"read">> ELSE << >>
           e == IF "OUT" \in ev THEN <<"write">> ELSE << >>
<1>0. /\ << >> \in Seq(H) /\ <<"close">> \in Seq(H) /\ <<"error">> \in Seq(H)
      /\ <<"read">> \in Seq(H) /\ <<"write">> \in Seq(H)
  OBVIOUS
<1>1. a \in Seq(H) /\ b \in Seq(H) /\ d \in Seq(H) /\ e \in Seq(H)
  <2> HIDE DEF H
  <2> QED BY <1>0
<1>2. HandlersOf(ev) = ((a \o b) \o d) \o e
  BY DEF HandlersOf
<1> HIDE DEF H, a, b, d, e
<1>3. ((a \o b) \o d) \o e \in Seq(H)
  BY <1>1, ConcatProperties
<1> QED BY <1>2, <1>3 DEF H

\* handleEvent of a connection's channel
LEMMA HandleEventKeeps ==
    ASSUME StreamsInv, NEW l \in Loops, NEW c \in Conns, HandleEvent(l, c)
    PROVE  AllMove(conn, conn') /\ StreamsInv'
<1> USE ServerAssumption
<1> DEFINE hs == HandlersOf(conn[c].revents)
           r == [conn[c] EXCEPT !.revents = {}]
           new == [i \in DOMAIN hs |-> <<hs[i], c>>]
<1>1. /\ c \in active[l] /\ active' = [active EXCEPT ![l] = @ \ {c}]
      /\ todo' = [todo EXCEPT ![l] = new] /\ conn' = [conn EXCEPT ![c] = r]
      /\ UNCHANGED <<backlog, pending, batch, upc>>
  BY DEF HandleEvent, server, queues, user
<1>2. ConnInv(conn[c]) /\ DOMAIN conn[c] = Fields /\ conn[c].state # "none"
  BY <1>1 DEF StreamsInv, Holds, ConnsOK, ConnInv, StreamInv, ActiveOK
<1>3. r.state = conn[c].state
      /\ Same(conn[c], r, {"state", "revents", "peer", "input", "sndFull"})
  BY <1>2 DEF Same, Fields
<1>4. hs \in Seq({"close", "error", "read", "write"})
  BY HandlersType
<1> HIDE DEF r, hs
<1>5. Moves(conn[c], r)
  BY <1>2, <1>3, OtherFieldsMove
<1>6. AllMove(conn, conn') /\ Holds(conn') /\ conn'[c] = r
  BY <1>1, <1>2, <1>5, OneStep
<1>7. ActiveOK(conn', active')
  BY <1>1, <1>6 DEF Holds, ActiveOK
<1>8. new \in Seq(Handlers) /\ \A i \in 1..Len(new) : new[i][2] = c
  <2>1. DOMAIN hs = 1..Len(hs) /\ Len(hs) \in Nat
        /\ \A i \in 1..Len(hs) : hs[i] \in {"close", "error", "read", "write"}
    BY <1>4, LenProperties, ElementOfSeq
  <2>2. \A i \in 1..Len(hs) : <<hs[i], c>> \in Handlers
    BY <2>1 DEF Handlers
  <2>3. new = [i \in 1..Len(hs) |-> <<hs[i], c>>]
    BY <2>1
  <2>4. new \in Seq(Handlers)
    BY <2>1, <2>2, <2>3, IsASeq
  <2>5. Len(new) = Len(hs)
    BY <2>1, <2>3, <2>4, LenProperties
  <2> QED BY <2>3, <2>4, <2>5
<1> HIDE DEF new
<1>9. TodoOK(conn', todo')
  BY <1>1, <1>2, <1>3, <1>6, <1>8 DEF Holds, TodoOK
<1> QED BY <1>1, <1>6, <1>7, <1>9 DEF StreamsInv, Holds

\* The other steps of a loop
LEMMA LoopSteps ==
    ASSUME StreamsInv, NEW l \in Loops, LoopStep(l)
    PROVE  AllMove(conn, conn') /\ StreamsInv'
<1>1. AllMove(conn, conn)
  BY AllStay DEF StreamsInv, Holds
<1>2. CASE TakeFunctors(l)
  <2>1. /\ conn' = conn /\ batch' = [batch EXCEPT ![l] = pending[l]]
        /\ pending' = [pending EXCEPT ![l] = << >>]
        /\ UNCHANGED <<backlog, active, todo, upc>>
    BY <1>2 DEF TakeFunctors, server, user
  <2>2. QueueOK(conn, pending) /\ QueueOK(conn, batch)
    BY DEF StreamsInv, Holds
  <2>3. << >> \in Seq(Functors) /\ 1..Len(<< >>) = {}
    OBVIOUS
  <2>4. QueueOK(conn, [batch EXCEPT ![l] = pending[l]])
    BY <2>2 DEF QueueOK
  <2>5. QueueOK(conn, [pending EXCEPT ![l] = << >>])
    BY <2>2, <2>3 DEF QueueOK
  <2> QED BY <2>1, <2>4, <2>5, <1>1 DEF StreamsInv, Holds
<1>3. CASE FunctorsDone(l) \/ CallbackReturns(l)
  <2>1. UNCHANGED <<conn, backlog, pending, batch, active, todo, upc>>
    BY <1>3 DEF FunctorsDone, CallbackReturns, server, queues, user
  <2> QED BY <2>1, <1>1 DEF StreamsInv, Holds
<1>4. CASE AcceptDone
  <2>1. /\ UNCHANGED <<conn, backlog, pending, batch, todo, upc>>
        /\ active' = [active EXCEPT ![Base] = @ \ {Listener}]
    BY <1>4 DEF AcceptDone, server, queues, user
  <2>2. ActiveOK(conn, active')
    BY <2>1 DEF StreamsInv, Holds, ActiveOK
  <2> QED BY <2>1, <2>2, <1>1 DEF StreamsInv, Holds
<1> QED BY <1>2, <1>3, <1>4, PollKeeps, HandleEventKeeps, AcceptSteps, HandlerSteps,
           FunctorSteps DEF LoopStep

\* Start, a dropped pointer and no step at all
LEMMA QuietSteps ==
    ASSUME StreamsInv, \/ Start \/ (\E c \in Conns : DropPtr(c)) \/ UNCHANGED vars
    PROVE  AllMove(conn, conn') /\ StreamsInv'
<1>1. UNCHANGED <<conn, backlog, pending, batch, active, todo, upc>>
  BY DEF Start, DropPtr, vars, server, inLoop, queues, user
<1> QED BY <1>1, AllStay DEF StreamsInv, Holds

LEMMA UnsentStep ==
    ASSUME unsent \subseteq Msgs, [Next]_vars
    PROVE  unsent' \subseteq Msgs
<1>1. ASSUME NEW l \in Loops, LoopStep(l)
      PROVE  unsent' = unsent
  BY <1>1 DEF LoopStep, Poll, TakeFunctors, FunctorsDone, CallbackReturns, AcceptDone,
       AcceptOne, RefuseOne, HandleEvent, HandleHangup, HandleSocketError,
       HandleReadMessage, HandleReadEof, HandleReadError, HandleWrite, NextHandler,
       RunConnectEstablished, RunRemoveConnection, RunConnectDestroyed, RunShutdown,
       RunForceClose, RunWriteComplete, RunHighWaterMark, RunSend, NextFunctor, user
<1>2. ASSUME NEW l \in Loops, CallStep(l)
      PROVE  unsent' \subseteq Msgs
  BY <1>2 DEF CallStep, CallShutdown, CallForceClose, CallSend
<1>3. ASSUME NEW u \in Users, ThreadStep(u)
      PROVE  unsent' \subseteq Msgs
  BY <1>3 DEF ThreadStep, ThreadSetState, ThreadQueue, ThreadTest
<1>4. CASE Start \/ (\E c \in Conns : DropPtr(c)) \/ UNCHANGED vars
  BY <1>4 DEF Start, DropPtr, vars, user
<1>5. CASE PeerStep
  BY <1>5 DEF PeerStep, Arrive, PeerSends, PeerReads, PeerCloses, PeerResets, PeerActs, user
<1> QED BY <1>1, <1>2, <1>3, <1>4, <1>5 DEF Next

LEMMA StreamsStep ==
    ASSUME StreamsInv, unsent \subseteq Msgs, [Next]_vars
    PROVE  AllMove(conn, conn') /\ StreamsInv'
BY LoopSteps, CallSteps, ThreadSteps, PeerSteps, QuietSteps DEF Next

LEMMA StreamsInit ==
    ASSUME Init
    PROVE  StreamsInv /\ unsent \subseteq Msgs
<1>1. ConnsOK(conn) /\ BacklogOK(conn, backlog)
  BY UnbornInv DEF Init, ConnsOK, BacklogOK
<1>2. << >> \in Seq(Functors) /\ << >> \in Seq(Handlers) /\ 1..Len(<< >>) = {}
  OBVIOUS
<1>3. QueueOK(conn, pending) /\ QueueOK(conn, batch)
  BY <1>2 DEF Init, QueueOK
<1>4. ActiveOK(conn, active) /\ TodoOK(conn, todo)
  BY <1>2 DEF Init, ActiveOK, TodoOK
<1>5. CallsOK(conn, upc)
  BY DEF Init, CallsOK
<1> QED BY <1>1, <1>3, <1>4, <1>5 DEF Init, StreamsInv, Holds

-----------------------------------------------------------------------------
(* The theorems about the bytes *)

\* sendInLoop and handleWrite lose, double and reorder nothing: whatever loops,
\* threads and peers do, the bytes the kernel took and those in outputBuffer_ are
\* the bytes given to the connection, in order.
THEOREM StreamsAreIntact == Spec => []StreamIntact
<1>1. Init => StreamsInv /\ unsent \subseteq Msgs
  BY StreamsInit
<1>2. StreamsInv /\ unsent \subseteq Msgs /\ [Next]_vars
        => StreamsInv' /\ (unsent \subseteq Msgs)'
  BY StreamsStep, UnsentStep
<1>3. StreamsInv => StreamIntact
  BY DEF StreamsInv, Holds, ConnsOK, ConnInv, StreamInv, StreamIntact
<1> QED BY <1>1, <1>2, <1>3, PTL DEF Spec

\* shutdown and the SHUT_WR of handleWrite: unless handleClose has run, SHUT_WR is
\* done only with outputBuffer_ empty.
THEOREM ShutdownIsLast == Spec => ShutdownAfterOutput
<1> DEFINE Waits == \A c \in Conns : conn'[c].shutWr /\ ~conn[c].shutWr /\ conn[c].closes = 0
                                       => conn'[c].out = << >>
<1>1. Init => StreamsInv /\ unsent \subseteq Msgs
  BY StreamsInit
<1>2. StreamsInv /\ unsent \subseteq Msgs /\ [Next]_vars
        => StreamsInv' /\ (unsent \subseteq Msgs)'
  BY StreamsStep, UnsentStep
<1>3. StreamsInv /\ unsent \subseteq Msgs /\ [Next]_vars => [Waits]_vars
  BY StreamsStep DEF AllMove, Moves
<1> QED BY <1>1, <1>2, <1>3, PTL DEF Spec, ShutdownAfterOutput

-----------------------------------------------------------------------------
(* The life of a connection *)

\* The calls under which the assertions hold (TcpConnection.cc:230,291: sendInLoop
\* does not look at state_, and handleClose does not change it): other threads and
\* writeCompleteCallback_ only shut a connection down, connectionCallback_ does not
\* close it by force,
Limits ==
    /\ "send" \notin ThreadOps \cup WriteCompleteOps
    /\ "forceClose" \notin ThreadOps \cup WriteCompleteOps \cup ConnectionOps

\* The stage of connection r, which is in connections_ or not.
Stage(r, in) ==
    IF r.state = "none" THEN "unborn"
    ELSE IF r.state = "kConnecting" THEN "connecting"
    ELSE IF r.destroyed # 0 THEN "destroyed"
    ELSE IF r.closes = 0 THEN "established"
    ELSE IF in THEN "closed" ELSE "removed"

\* What is true of a connection in its stage, of which n is the number of removals.
StageOK(r, in, n) ==
    LET t == Stage(r, in) IN
    /\ t \in {"unborn", "connecting"} =>
         /\ r.closes = 0 /\ r.destroyed = 0 /\ r.events = {} /\ r.index = "kNew" /\ n = 0
         /\ in <=> t = "connecting"
    /\ t = "established" =>
         r.state # "kDisconnected" /\ "r" \in r.events /\ r.index = "kAdded" /\ n = 0 /\ in
    /\ t \in {"closed", "removed"} =>
         /\ r.closes = 1 /\ r.state # "kDisconnected" /\ r.events = {} /\ r.index = "kDeleted"
         /\ n = IF in THEN 0 ELSE 1
    /\ t = "destroyed" =>
         /\ r.closes = 1 /\ r.destroyed = 1 /\ r.state # "kConnected"
         /\ r.events = {} /\ r.index = "kNew" /\ n = 1 /\ ~in

Alive(r, in, n) == IsConnection(r) /\ StageOK(r, in, n)

\* The functors that take a connection from one stage to the next, the stage in
\* which each may be queued, and the loop it is queued in.
KeyOps == {"connectEstablished", "forceCloseInLoop", "removeConnectionInLoop",
           "connectDestroyed"}

KeyStage(op) ==
    IF op = "connectEstablished" THEN "connecting"
    ELSE IF op = "forceCloseInLoop" THEN "established"
    ELSE IF op = "removeConnectionInLoop" THEN "closed" ELSE "removed"

KeyLoop(op, l) == IF op = "removeConnectionInLoop" THEN Base ELSE l

IsKey(f, c) == f.c = c /\ f.op \in KeyOps

\* In the queues q, the functors of connection c, in stage t and of loop lo, are
\* queued where and when they may be,
KeysPlaced(q, c, t, lo) ==
    \A l \in Loops : \A i \in 1..Len(q[l]) :
        IsKey(q[l][i], c) => t = KeyStage(q[l][i].op) /\ l = KeyLoop(q[l][i].op, lo)

\* one at a time,
KeysUnique(q, c) ==
    \A k, l \in Loops : \A i \in 1..Len(q[k]), j \in 1..Len(q[l]) :
        IsKey(q[k][i], c) /\ IsKey(q[l][j], c) => k = l /\ i = j

\* and a removed connection is kept by the functor that destroys it.
DestroyQueued(q, c) ==
    \E l \in Loops : \E i \in 1..Len(q[l]) :
        q[l][i].op = "connectDestroyed" /\ q[l][i].c = c

KeysOK(q, c, t, lo) ==
    /\ KeysPlaced(q, c, t, lo) /\ KeysUnique(q, c)
    /\ t = "removed" => DestroyQueued(q, c)

NoKey(q, c) == \A l \in Loops : \A i \in 1..Len(q[l]) : ~IsKey(q[l][i], c)

NoOp(q, op) == \A l \in Loops : \A i \in 1..Len(q[l]) : q[l][i].op # op

\* What the loops are still to run, with pendingFunctors_ p: the rest of the batch
\* b, then the pending ones.
Ahead(p, b) == [l \in Loops |-> b[l] \o p[l]]

\* The connections whose forced close waits in pendingFunctors_ p of a loop
Forced(p) == {p[i].c : i \in {j \in 1..Len(p) : p[j].op = "forceCloseInLoop"}}

Closing == {"close", "read"}
Open == {"established", "closed", "removed"}

\* No callback that may close connection c waits in td.
NoClosing(td, c) == \A i \in 1..Len(td) : td[i][2] = c => td[i][1] \notin Closing

\* What loop l is doing, with stages t and loops lo: phase ph, events a, handlers
\* td, callback cx, forced closes f.
LoopOK(l, t, lo, ph, a, td, cx, f) ==
    /\ \A c \in a \ {Listener} : t[c] = "established" /\ lo[c] = l
    /\ \A i \in 1..Len(td) :
        /\ lo[td[i][2]] = l /\ td[i][2] \notin a /\ t[td[i][2]] \in Open
        /\ td[i][1] \in Closing => t[td[i][2]] = "established"
    /\ \A i, j \in 1..Len(td) : td[i][1] \in Closing /\ td[j][1] \in Closing => i = j
    /\ cx # << >> => ph # "poll"
    /\ cx # << >> /\ cx[1] \in {"connection", "message"} =>
        t[cx[2]] = "established" /\ lo[cx[2]] = l
    /\ cx # << >> /\ cx[1] = "message" =>
        ph = "dispatch" /\ cx[2] \notin a /\ NoClosing(td, cx[2])
    /\ \A c \in f : ph = "dispatch" /\ c \notin a /\ NoClosing(td, c)
    /\ td # << >> \/ a # {} => ph = "dispatch"

\* and messageCallback_ does so only if no forced close of the connection waits.
ClosesOnce ==
    \A l \in Loops, c \in Conns : CallForceClose(l, c) => c \notin Forced(pending[l])

\* Calls of other threads are calls of shutdown, on connections that were
\* established.
CallsShutDown(t, p) ==
    \A u \in Users : p[u] # Idle =>
        p[u].op = "shutdown" /\ t[p[u].c] \notin {"unborn", "connecting"}

\* The thread pool, and the loops it gives to connections
PoolType ==
    /\ listening \in BOOLEAN /\ loopOf \in [Conns -> Loops]
    /\ numThreads \in Nat /\ 0..numThreads \subseteq Loops
    /\ next \in Nat /\ (numThreads > 0 => next < numThreads)
    /\ ~listening => numThreads = 0
    /\ numThreads = 0 => next = 0

MapType ==
    /\ connections \subseteq Conns /\ removals \in [Conns -> Nat]
    /\ held \subseteq Conns /\ unsent \subseteq Msgs /\ forces \in 0..MaxForce

PhaseType ==
    /\ lpc \in [Loops -> {"poll", "dispatch", "run"}]
    /\ ctx \in [Loops -> {<< >>} \cup ({"connection", "message", "writeComplete"} \X Conns)]
    /\ \A l \in Loops : batch[l] # << >> => lpc[l] = "run"

Stages == [c \in Conns |-> Stage(conn[c], c \in connections)]

QueuesOK(t, lo, q, n) ==
    /\ \A c \in Conns : KeysOK(q, c, t[c], lo[c])
    /\ NoOp(q, "sendInLoop")
    /\ n = 0 => NoOp(q, "forceCloseInLoop")

AllAlive == \A c \in Conns : Alive(conn[c], c \in connections, removals[c])

LoopsOK(t, lo) ==
    \A l \in Loops : LoopOK(l, t, lo, lpc[l], active[l], todo[l], ctx[l], Forced(pending[l]))

\* The inductive invariant
LifeInv ==
    /\ StreamsInv /\ PoolType /\ MapType /\ PhaseType /\ AllAlive
    /\ QueuesOK(Stages, loopOf, Ahead(pending, batch), forces)
    /\ CallsShutDown(Stages, upc) /\ LoopsOK(Stages, loopOf)

-----------------------------------------------------------------------------
(* What the operations do to the stage of a connection *)

LEMMA AliveFields ==
    ASSUME NEW r, NEW in, NEW n, Alive(r, in, n)
    PROVE  /\ DOMAIN r = Fields /\ r.events \subseteq {"r", "w"} /\ r.closes \in Nat
           /\ r.destroyed \in Nat
BY UnbornFields DEF Alive, IsConnection

\* s is still a connection, and it differs from r in what no stage depends on: the
\* write event may be turned on and off while the channel reads, and state_ become
\* kDisconnecting.
Keeps(r, s) ==
    /\ IsConnection(s) /\ s.closes = r.closes /\ s.destroyed = r.destroyed
    /\ \/ s.state = r.state
       \/ s.state = "kDisconnecting" /\ r.state \notin {"none", "kConnecting"}
    /\ \/ s.events = r.events /\ s.index = r.index
       \/ "r" \in r.events /\ "r" \in s.events /\ s.index = "kAdded"

LEMMA StageKept ==
    ASSUME NEW r, NEW s, NEW in \in BOOLEAN, NEW n, Alive(r, in, n), Keeps(r, s)
    PROVE  Alive(s, in, n) /\ Stage(s, in) = Stage(r, in)
<1>1. Stage(s, in) = Stage(r, in)
  BY DEF Keeps, Stage
<1>2. StageOK(s, in, n)
  <2>1. CASE Stage(r, in) \in {"unborn", "connecting"}
    BY <2>1, <1>1 DEF Keeps, Alive, StageOK, Stage
  <2>2. CASE Stage(r, in) = "established"
    BY <2>2, <1>1 DEF Keeps, Alive, StageOK, Stage
  <2>3. CASE Stage(r, in) \in {"closed", "removed"}
    BY <2>3, <1>1 DEF Keeps, Alive, StageOK, Stage
  <2>4. CASE Stage(r, in) = "destroyed"
    BY <2>4, <1>1 DEF Keeps, Alive, StageOK, Stage
  <2> QED BY <2>1, <2>2, <2>3, <2>4 DEF Stage
<1> QED BY <1>1, <1>2 DEF Alive, Keeps

LEMMA KeepsAll ==
    ASSUME NEW r, IsConnection(r)
    PROVE  Keeps(r, r)
BY DEF Keeps

\* The peer, poll and handleError
LEMMA SocketKeeps ==
    ASSUME NEW r, NEW s, IsConnection(r), Same(r, s, {"revents", "peer", "input", "sndFull"}),
           s.revents \subseteq {"IN", "OUT", "HUP", "ERR"}, s.peer \in Peers,
           s.input \in Nat, s.sndFull \in BOOLEAN
    PROVE  Keeps(r, s)
BY UnbornFields DEF Keeps, IsConnection, Same, Fields

LEMMA ErrorKeeps ==
    ASSUME NEW r, IsConnection(r)
    PROVE  Keeps(r, HandleError(r))
<1> DEFINE s == HandleError(r)
<1>1. Same(r, s, {"peer"}) /\ s.peer \in {r.peer, "dead"}
  BY UnbornFields, ErrorFields DEF IsConnection
<1> HIDE DEF s
<1>2. Keeps(r, s)
  BY <1>1, UnbornFields DEF Keeps, IsConnection, Same, Fields, Peers
<1> QED BY <1>2 DEF s

\* shutdown and forceClose, in the loop and in other threads
LEMMA SetStateKeeps ==
    ASSUME NEW r, IsConnection(r), r.state \notin {"none", "kConnecting"}
    PROVE  Keeps(r, [r EXCEPT !.state = "kDisconnecting"])
<1> DEFINE s == [r EXCEPT !.state = "kDisconnecting"]
<1>1. Same(r, s, {"state"}) /\ s.state = "kDisconnecting"
  BY UnbornFields DEF IsConnection, Same, Fields
<1> HIDE DEF s
<1>2. Keeps(r, s)
  BY <1>1, UnbornFields DEF Keeps, IsConnection, Same, Fields, States
<1> QED BY <1>2 DEF s

LEMMA ShutdownKeeps ==
    ASSUME NEW r, IsConnection(r)
    PROVE  Keeps(r, ShutdownInLoop(r))
<1> DEFINE s == ShutdownInLoop(r)
<1>1. Same(r, s, {"shutWr"}) /\ s.shutWr \in {r.shutWr, TRUE}
  BY UnbornFields, ShutdownFields DEF IsConnection
<1> HIDE DEF s
<1>2. s.shutWr \in BOOLEAN
  BY <1>1, Zenon DEF IsConnection
<1>3. Keeps(r, s)
  BY <1>1, <1>2, UnbornFields DEF Keeps, IsConnection, Same, Fields
<1> QED BY <1>3 DEF s

LEMMA KeepsTrans ==
    ASSUME NEW r, NEW s, NEW v, Keeps(r, s), Keeps(s, v)
    PROVE  Keeps(r, v)
BY DEF Keeps

\* sendInLoop and handleWrite, while the channel reads
LEMMA UpdateKeeps ==
    ASSUME NEW r, IsConnection(r), "r" \in r.events, NEW ev,
           ev \subseteq {"r", "w"}, "r" \in ev
    PROVE  Keeps(r, UpdateChannel(r, ev))
<1> DEFINE s == UpdateChannel(r, ev)
<1>1. Same(r, s, {"events", "index"}) /\ s.events = ev /\ s.index = "kAdded"
  BY UnbornFields, UpdateChannelFields DEF IsConnection
<1> HIDE DEF s
<1>2. Keeps(r, s)
  BY <1>1, UnbornFields DEF Keeps, IsConnection, Same, Fields
<1> QED BY <1>2 DEF s

LEMMA WriteKeeps ==
    ASSUME NEW r, IsConnection(r), NEW data, NEW n, NEW s,
           Same(Write(r, data, n), s, {"given", "out"})
    PROVE  Keeps(r, s)
<1> DEFINE w == Write(r, data, n)
<1>1. Same(r, w, {"wire", "sndFull"})
      /\ w.sndFull = (r.sndFull \/ (0 < n /\ n < Len(data)))
  BY UnbornFields, WriteFields DEF IsConnection
<1> HIDE DEF w
<1>2. w.sndFull \in BOOLEAN
  BY <1>1, Zenon DEF IsConnection
<1>3. Same(w, s, {"given", "out"})
  BY DEF w
<1>4. Same(r, s, {"wire", "sndFull", "given", "out"}) /\ s.sndFull = w.sndFull
  BY <1>1, <1>3 DEF Same, Fields
<1> QED BY <1>2, <1>4, UnbornFields DEF Keeps, IsConnection, Same, Fields

LEMMA SendKeeps ==
    ASSUME NEW r, IsConnection(r), "r" \in r.events, NEW m, NEW n
    PROVE  Keeps(r, AfterSend(r, m, n))
<1> DEFINE data == Bytes(m)
           rest == SubSeq(data, n + 1, MsgLen)
           w == Write(r, data, n)
           sent == [w EXCEPT !.given = @ \o data, !.out = @ \o rest]
<1>1. DOMAIN w = Fields
  BY UnbornFields, WriteFields DEF IsConnection, Same
<1>2. Same(w, sent, {"given", "out"})
  <2> HIDE DEF w, data, rest
  <2> QED BY <1>1 DEF Same, Fields
<1>3. AfterSend(r, m, n) = IF rest # << >> /\ ~IsWriting(r)
                           THEN UpdateChannel(sent, sent.events \cup {"w"}) ELSE sent
  BY DEF AfterSend, EnableWriting
<1> HIDE DEF sent, rest
<1>4. Keeps(r, sent)
  BY <1>2, WriteKeeps
<1>5. IsConnection(sent) /\ "r" \in sent.events /\ sent.events \subseteq {"r", "w"}
  BY <1>4 DEF Keeps, IsConnection
<1>6. Keeps(sent, UpdateChannel(sent, sent.events \cup {"w"}))
  <2>1. sent.events \cup {"w"} \subseteq {"r", "w"} /\ "r" \in sent.events \cup {"w"}
    BY <1>5
  <2> QED BY <2>1, <1>5, UpdateKeeps
<1> QED BY <1>3, <1>4, <1>6, KeepsTrans

LEMMA AfterWriteKeeps ==
    ASSUME NEW r, IsConnection(r), "r" \in r.events, NEW n
    PROVE  Keeps(r, AfterWrite(r, n))
<1> DEFINE left == SubSeq(r.out, n + 1, Len(r.out))
           w == Write(r, r.out, n)
           wrote == [w EXCEPT !.out = left]
           idle == UpdateChannel(wrote, wrote.events \ {"w"})
<1>1. DOMAIN w = Fields
  BY UnbornFields, WriteFields DEF IsConnection, Same
<1>2. Same(w, wrote, {"given", "out"})
  <2> HIDE DEF w, left
  <2> QED BY <1>1 DEF Same, Fields
<1>3. AfterWrite(r, n) = IF left # << >> THEN wrote
        ELSE IF r.state = "kDisconnecting" THEN ShutdownInLoop(idle) ELSE idle
  BY DEF AfterWrite, DisableWriting
<1> HIDE DEF wrote, left
<1>4. Keeps(r, wrote)
  BY <1>2, WriteKeeps
<1>5. IsConnection(wrote) /\ "r" \in wrote.events /\ wrote.events \subseteq {"r", "w"}
  BY <1>4 DEF Keeps, IsConnection
<1>6. Keeps(wrote, idle)
  <2>1. wrote.events \ {"w"} \subseteq {"r", "w"} /\ "r" \in wrote.events \ {"w"}
    BY <1>5
  <2> QED BY <2>1, <1>5, UpdateKeeps
<1> HIDE DEF idle
<1>7. Keeps(idle, ShutdownInLoop(idle))
  BY <1>6, ShutdownKeeps DEF Keeps
<1> QED BY <1>3, <1>4, <1>6, <1>7, KeepsTrans

\* connectEstablished, at once or after kConnecting
LEMMA EstablishedStage ==
    ASSUME NEW r, NEW in \in BOOLEAN, Alive(r, in, 0), Stage(r, in) \in {"unborn", "connecting"}
    PROVE  LET s == ConnectEstablished(r)
           IN  Alive(s, TRUE, 0) /\ Stage(s, TRUE) = "established"
<1> DEFINE s == ConnectEstablished(r)
<1>0. DOMAIN r = Fields
  BY AliveFields
<1>1. /\ Same(r, s, {"state", "events", "index"})
      /\ s.state = "kConnected" /\ s.index = "kAdded" /\ s.events = r.events \cup {"r"}
  BY <1>0, EstablishedFields
<1>2. r.closes = 0 /\ r.destroyed = 0 /\ r.events = {} /\ IsConnection(r)
  BY DEF Alive, StageOK
<1> HIDE DEF s
<1>3. IsConnection(s)
  BY <1>1, <1>2, UnbornFields DEF IsConnection, Same, Fields, States
<1>4. s.closes = 0 /\ s.destroyed = 0 /\ s.events = {"r"}
  BY <1>1, <1>2 DEF Same, Fields
<1>5. Stage(s, TRUE) = "established"
  BY <1>1, <1>4 DEF Stage
<1>6. StageOK(s, TRUE, 0)
  BY <1>1, <1>4, <1>5 DEF StageOK
<1> QED BY <1>3, <1>5, <1>6 DEF Alive, s

LEMMA ConnectingStage ==
    ASSUME NEW r, NEW in \in BOOLEAN, Alive(r, in, 0), Stage(r, in) = "unborn"
    PROVE  LET s == [r EXCEPT !.state = "kConnecting"]
           IN  Alive(s, TRUE, 0) /\ Stage(s, TRUE) = "connecting"
<1> DEFINE s == [r EXCEPT !.state = "kConnecting"]
<1>0. DOMAIN r = Fields
  BY AliveFields
<1>1. Same(r, s, {"state"}) /\ s.state = "kConnecting"
  BY <1>0 DEF Same, Fields
<1>2. r.closes = 0 /\ r.destroyed = 0 /\ r.events = {} /\ r.index = "kNew" /\ IsConnection(r)
  BY DEF Alive, StageOK
<1> HIDE DEF s
<1>3. IsConnection(s)
  BY <1>1, <1>2, UnbornFields DEF IsConnection, Same, Fields, States
<1>4. s.closes = 0 /\ s.destroyed = 0 /\ s.events = {} /\ s.index = "kNew"
  BY <1>1, <1>2 DEF Same, Fields
<1>5. Stage(s, TRUE) = "connecting"
  BY <1>1 DEF Stage
<1>6. StageOK(s, TRUE, 0)
  BY <1>1, <1>4, <1>5 DEF StageOK
<1> QED BY <1>3, <1>5, <1>6 DEF Alive, s

\* handleClose
LEMMA CloseStage ==
    ASSUME NEW r, NEW in \in BOOLEAN, NEW n, Alive(r, in, n), Stage(r, in) = "established"
    PROVE  LET s == HandleClose(r)
           IN  /\ Alive(s, TRUE, 0) /\ Stage(s, TRUE) = "closed"
               /\ Alive(s, FALSE, 1) /\ Stage(s, FALSE) = "removed"
               /\ in = TRUE /\ n = 0
<1> DEFINE s == HandleClose(r)
<1>0. DOMAIN r = Fields
  BY AliveFields
<1>1. /\ Same(r, s, {"closes", "events", "index"})
      /\ s.closes = r.closes + 1 /\ s.events = {}
      /\ s.index = IF r.index = "kAdded" THEN "kDeleted" ELSE "kAdded"
  BY <1>0, CloseFields
<1>2. /\ r.index = "kAdded" /\ IsConnection(r) /\ n = 0 /\ in
      /\ r.state # "kDisconnected"
  BY DEF Alive, StageOK
<1>3. r.closes = 0 /\ r.destroyed = 0 /\ r.state \notin {"none", "kConnecting"}
  BY DEF Stage
<1> HIDE DEF s
<1>4. IsConnection(s)
  BY <1>1, <1>2, <1>3, UnbornFields DEF IsConnection, Same, Fields
<1>5. s.closes = 1 /\ s.destroyed = 0 /\ s.events = {} /\ s.index = "kDeleted"
      /\ s.state \notin {"none", "kConnecting", "kDisconnected"}
  BY <1>1, <1>2, <1>3 DEF Same, Fields
<1>6. Stage(s, TRUE) = "closed" /\ Stage(s, FALSE) = "removed"
  BY <1>5 DEF Stage
<1>7. StageOK(s, TRUE, 0) /\ StageOK(s, FALSE, 1)
  BY <1>5, <1>6 DEF StageOK
<1> QED BY <1>2, <1>4, <1>6, <1>7 DEF Alive, s

\* removeConnectionInLoop
LEMMA RemovedStage ==
    ASSUME NEW r, NEW in \in BOOLEAN, NEW n, Alive(r, in, n), Stage(r, in) = "closed",
           NEW out \in BOOLEAN, ~out
    PROVE  n = 0 /\ Alive(r, out, 1) /\ Stage(r, out) = "removed"
<1>1. in /\ Stage(r, out) = "removed"
  BY DEF Stage
<1>2. n = 0 /\ StageOK(r, out, 1)
  BY <1>1 DEF Alive, StageOK
<1> QED BY <1>1, <1>2 DEF Alive

\* connectDestroyed
LEMMA DestroyedStage ==
    ASSUME NEW r, NEW in \in BOOLEAN, NEW n, Alive(r, in, n), Stage(r, in) = "removed"
    PROVE  LET s == ConnectDestroyed(r)
           IN  /\ Alive(s, in, n) /\ Stage(s, in) = "destroyed"
<1> DEFINE s == ConnectDestroyed(r)
<1>0. DOMAIN r = Fields
  BY AliveFields
<1>1. /\ Same(r, s, {"state", "destroyed", "events", "index"})
      /\ s.state = "kDisconnected" /\ s.destroyed = r.destroyed + 1
      /\ s.events = {} /\ s.index = "kNew"
  BY <1>0, DestroyedFields
<1>2. IsConnection(r) /\ n = 1 /\ r.closes = 1 /\ in = FALSE
  BY DEF Alive, StageOK, Stage
<1>3. r.destroyed = 0
  BY DEF Stage
<1> HIDE DEF s
<1>4. IsConnection(s)
  BY <1>1, <1>2, <1>3, UnbornFields DEF IsConnection, Same, Fields, States
<1>5. s.closes = 1 /\ s.destroyed = 1
  BY <1>1, <1>2, <1>3 DEF Same, Fields
<1>6. Stage(s, in) = "destroyed"
  BY <1>1, <1>5 DEF Stage
<1>7. StageOK(s, in, n)
  BY <1>1, <1>2, <1>5, <1>6 DEF StageOK
<1> QED BY <1>4, <1>6, <1>7 DEF Alive, s

\* A refused connection is one that never was.
LEMMA UnbornKeeps ==
    ASSUME NEW r, NEW in \in BOOLEAN, NEW n, Alive(r, in, n), r.state = "none"
    PROVE  Keeps(r, Unborn)
<1>1. r.closes = 0 /\ r.destroyed = 0 /\ r.events = {} /\ r.index = "kNew"
  BY DEF Alive, StageOK, Stage
<1> QED BY <1>1 DEF Keeps, Unborn, IsConnection, States, Peers

-----------------------------------------------------------------------------
(* Queues *)

Queues == [Loops -> Seq(Functors)]

Gets(q, l, fs) == [q EXCEPT ![l] = @ \o fs]
Runs(q, l) == [q EXCEPT ![l] = Tail(@)]

\* q2 is q with fs behind the functors of loop l.
Grown(q, q2, l, fs) ==
    /\ \A k \in Loops : \A i \in 1..Len(q[k]) : i \in 1..Len(q2[k]) /\ q2[k][i] = q[k][i]
    /\ \A k \in Loops : \A i \in 1..Len(q2[k]) :
         \/ i \in 1..Len(q[k]) /\ q2[k][i] = q[k][i]
         \/ k = l /\ \E j \in 1..Len(fs) : i = Len(q[k]) + j /\ q2[k][i] = fs[j]

LEMMA GetsShape ==
    ASSUME NEW q \in Queues, NEW l \in Loops, NEW fs \in Seq(Functors)
    PROVE  Gets(q, l, fs) \in Queues /\ Grown(q, Gets(q, l, fs), l, fs)
<1> DEFINE q2 == Gets(q, l, fs)
           old == q[l]
           new == old \o fs
<1>1. old \in Seq(Functors) /\ q2 = [q EXCEPT ![l] = new]
  BY DEF Queues, Gets
<1> HIDE DEF old
<1>2. /\ new \in Seq(Functors) /\ Len(new) = Len(old) + Len(fs)
      /\ \A i \in 1..Len(old) + Len(fs) :
           new[i] = IF i <= Len(old) THEN old[i] ELSE fs[i - Len(old)]
  BY <1>1, ConcatProperties
<1>3. Len(old) \in Nat /\ Len(fs) \in Nat
  BY <1>1, LenProperties
<1> HIDE DEF new, q2
<1>4. q2 \in Queues /\ q2[l] = new /\ \A k \in Loops : k # l => q2[k] = q[k]
  BY <1>1, <1>2 DEF Queues
<1>5. ASSUME NEW i \in 1..Len(old)
      PROVE  i \in 1..Len(new) /\ new[i] = old[i]
  BY <1>2, <1>3
<1>6. ASSUME NEW i \in 1..Len(new)
      PROVE  \/ i \in 1..Len(old) /\ new[i] = old[i]
             \/ \E j \in 1..Len(fs) : i = Len(old) + j /\ new[i] = fs[j]
  <2>1. CASE i <= Len(old)
    BY <2>1, <1>2, <1>3
  <2>2. CASE ~(i <= Len(old))
    <3>1. i - Len(old) \in 1..Len(fs) /\ new[i] = fs[i - Len(old)]
          /\ i = Len(old) + (i - Len(old))
      BY <2>2, <1>2, <1>3
    <3> QED BY <3>1
  <2> QED BY <2>1, <2>2
<1>7. ASSUME NEW k \in Loops, NEW i \in 1..Len(q[k])
      PROVE  i \in 1..Len(q2[k]) /\ q2[k][i] = q[k][i]
  <2>1. CASE k = l
    BY <2>1, <1>4, <1>5 DEF old
  <2>2. CASE k # l
    BY <2>2, <1>4
  <2> QED BY <2>1, <2>2
<1>8. ASSUME NEW k \in Loops, NEW i \in 1..Len(q2[k])
      PROVE  \/ i \in 1..Len(q[k]) /\ q2[k][i] = q[k][i]
             \/ k = l /\ \E j \in 1..Len(fs) : i = Len(q[k]) + j /\ q2[k][i] = fs[j]
  <2>1. CASE k = l
    BY <2>1, <1>4, <1>6 DEF old
  <2>2. CASE k # l
    BY <2>2, <1>4
  <2> QED BY <2>1, <2>2
<1>9. Grown(q, q2, l, fs)
  BY <1>7, <1>8 DEF Grown
<1> QED BY <1>4, <1>9 DEF q2

LEMMA RunsShape ==
    ASSUME NEW q \in Queues, NEW l \in Loops, q[l] # << >>
    PROVE  LET q2 == Runs(q, l)
           IN  /\ q2 \in Queues /\ 1 \in 1..Len(q[l]) /\ Head(q[l]) = q[l][1]
               /\ Head(q[l]) \in Functors
               /\ \A k \in Loops : k # l => q2[k] = q[k]
               /\ \A i \in 1..Len(q2[l]) : i + 1 \in 1..Len(q[l]) /\ q2[l][i] = q[l][i + 1]
               /\ \A i \in 1..Len(q[l]) : i # 1 =>
                    i - 1 \in 1..Len(q2[l]) /\ q2[l][i - 1] = q[l][i]
<1> DEFINE q2 == Runs(q, l)
           old == q[l]
           new == Tail(old)
<1>1. old \in Seq(Functors) /\ old # << >> /\ q2 = [q EXCEPT ![l] = new]
  BY DEF Queues, Runs
<1> HIDE DEF old
<1>2. /\ new \in Seq(Functors) /\ Len(new) = Len(old) - 1 /\ Head(old) = old[1]
      /\ Head(old) \in Functors /\ Len(old) \in Nat /\ Len(old) > 0
      /\ \A i \in 1..Len(new) : new[i] = old[i + 1]
  BY <1>1, HeadTailProperties, LenProperties, EmptySeq
<1> HIDE DEF new, q2
<1>3. q2 \in Queues /\ q2[l] = new /\ \A k \in Loops : k # l => q2[k] = q[k]
  BY <1>1, <1>2 DEF Queues
<1>4. ASSUME NEW i \in 1..Len(new)
      PROVE  i + 1 \in 1..Len(old) /\ new[i] = old[i + 1]
  BY <1>2
<1>5. ASSUME NEW i \in 1..Len(old), i # 1
      PROVE  i - 1 \in 1..Len(new) /\ new[i - 1] = old[i]
  <2>1. i - 1 \in 1..Len(new) /\ (i - 1) + 1 = i
    BY <1>2, <1>5
  <2> QED BY <2>1, <1>2
<1> QED BY <1>2, <1>3, <1>4, <1>5 DEF q2, old

\* Functors that take no connection further may be queued at any time.
LEMMA GetsOther ==
    ASSUME NEW q \in Queues, NEW l \in Loops, NEW fs \in Seq(Functors), NEW c, NEW t, NEW lo,
           KeysOK(q, c, t, lo), \A j \in 1..Len(fs) : ~IsKey(fs[j], c)
    PROVE  KeysOK(Gets(q, l, fs), c, t, lo)
<1> DEFINE q2 == Gets(q, l, fs)
<1>1. Grown(q, q2, l, fs)
  BY GetsShape
<1> HIDE DEF q2
<1>2. ASSUME NEW k \in Loops, NEW i \in 1..Len(q2[k]), IsKey(q2[k][i], c)
      PROVE  i \in 1..Len(q[k]) /\ q2[k][i] = q[k][i]
  BY <1>1, <1>2 DEF Grown
<1>3. KeysPlaced(q2, c, t, lo)
  BY <1>2 DEF KeysOK, KeysPlaced
<1>4. KeysUnique(q2, c)
  BY <1>2 DEF KeysOK, KeysUnique
<1>5. t = "removed" => DestroyQueued(q2, c)
  BY <1>1 DEF KeysOK, DestroyQueued, Grown
<1> QED BY <1>3, <1>4, <1>5 DEF KeysOK, q2

\* A functor that takes connection c further is queued when there is no other.
LEMMA GetsKey ==
    ASSUME NEW q \in Queues, NEW f \in Functors, NEW c, NEW t, NEW lo,
           NoKey(q, c), IsKey(f, c), t = KeyStage(f.op), KeyLoop(f.op, lo) \in Loops
    PROVE  KeysOK(Gets(q, KeyLoop(f.op, lo), <<f>>), c, t, lo)
<1> DEFINE l == KeyLoop(f.op, lo)
           fs == <<f>>
           q2 == Gets(q, l, fs)
<1>1. fs \in Seq(Functors) /\ Len(fs) = 1 /\ fs[1] = f
  OBVIOUS
<1>2. Grown(q, q2, l, fs)
  <2> HIDE DEF fs, l
  <2> QED BY <1>1, GetsShape DEF l
<1>3. Len(q[l]) + 1 \in 1..Len(q2[l]) /\ q2[l][Len(q[l]) + 1] = f
  <2> DEFINE old == q[l]
  <2>1. old \in Seq(Functors) /\ q2[l] = old \o fs
    BY DEF Queues, Gets
  <2> HIDE DEF old, q2, fs
  <2>2. Len(old) \in Nat /\ Len(old \o fs) = Len(old) + 1 /\ (old \o fs)[Len(old) + 1] = f
    <3>1. Len(old) \in Nat
      BY <2>1, LenProperties
    <3>2. /\ Len(old \o fs) = Len(old) + Len(fs)
          /\ \A i \in 1..Len(old) + Len(fs) :
               (old \o fs)[i] = IF i <= Len(old) THEN old[i] ELSE fs[i - Len(old)]
      BY <1>1, <2>1, ConcatProperties
    <3>3. Len(old) + 1 \in 1..Len(old) + Len(fs) /\ ~(Len(old) + 1 <= Len(old))
          /\ (Len(old) + 1) - Len(old) = 1
      BY <1>1, <3>1
    <3>4. (old \o fs)[Len(old) + 1] = fs[(Len(old) + 1) - Len(old)]
      BY <3>2, <3>3
    <3> QED BY <1>1, <3>1, <3>2, <3>3, <3>4
  <2> QED BY <2>1, <2>2 DEF old
<1> HIDE DEF q2
<1>4. ASSUME NEW k \in Loops, NEW i \in 1..Len(q2[k]), IsKey(q2[k][i], c)
      PROVE  k = l /\ i = Len(q[l]) + 1 /\ q2[k][i] = f
  <2>1. ~(i \in 1..Len(q[k]) /\ q2[k][i] = q[k][i])
    BY <1>4 DEF NoKey
  <2>2. k = l /\ \E j \in 1..Len(fs) : i = Len(q[k]) + j /\ q2[k][i] = fs[j]
    BY <2>1, <1>2 DEF Grown
  <2> QED BY <2>2, <1>1
<1>5. KeysPlaced(q2, c, t, lo)
  BY <1>4 DEF KeysPlaced
<1>6. KeysUnique(q2, c)
  BY <1>4 DEF KeysUnique
<1>7. t = "removed" => DestroyQueued(q2, c)
  <2>1. ASSUME t = "removed"
        PROVE  f.op = "connectDestroyed" /\ f.c = c
    BY <2>1 DEF IsKey, KeyOps, KeyStage
  <2> QED BY <2>1, <1>3 DEF DestroyQueued
<1> QED BY <1>5, <1>6, <1>7 DEF KeysOK, q2

LEMMA GetsNoOp ==
    ASSUME NEW q \in Queues, NEW l \in Loops, NEW fs \in Seq(Functors), NEW op,
           NoOp(q, op), \A j \in 1..Len(fs) : fs[j].op # op
    PROVE  NoOp(Gets(q, l, fs), op)
<1> DEFINE q2 == Gets(q, l, fs)
<1>1. Grown(q, q2, l, fs)
  BY GetsShape
<1> HIDE DEF q2
<1>2. ASSUME NEW k \in Loops, NEW i \in 1..Len(q2[k])
      PROVE  q2[k][i].op # op
  <2>1. CASE i \in 1..Len(q[k]) /\ q2[k][i] = q[k][i]
    BY <2>1 DEF NoOp
  <2>2. CASE \E j \in 1..Len(fs) : q2[k][i] = fs[j]
    BY <2>2
  <2> QED BY <1>1, <2>1, <2>2 DEF Grown
<1> QED BY <1>2 DEF NoOp, q2

\* A functor is run that is not about taking connection c further.
LEMMA RunsOther ==
    ASSUME NEW q \in Queues, NEW l \in Loops, q[l] # << >>, NEW c, NEW t, NEW lo,
           KeysOK(q, c, t, lo), ~IsKey(Head(q[l]), c)
    PROVE  KeysOK(Runs(q, l), c, t, lo)
<1> DEFINE q2 == Runs(q, l)
<1>1. /\ 1 \in 1..Len(q[l]) /\ Head(q[l]) = q[l][1]
      /\ \A k \in Loops : k # l => q2[k] = q[k]
      /\ \A i \in 1..Len(q2[l]) : i + 1 \in 1..Len(q[l]) /\ q2[l][i] = q[l][i + 1]
      /\ \A i \in 1..Len(q[l]) : i # 1 => i - 1 \in 1..Len(q2[l]) /\ q2[l][i - 1] = q[l][i]
  BY RunsShape
<1> HIDE DEF q2
<1>2. KeysPlaced(q2, c, t, lo)
  <2>1. ASSUME NEW k \in Loops, NEW i \in 1..Len(q2[k]), IsKey(q2[k][i], c)
        PROVE  t = KeyStage(q2[k][i].op) /\ k = KeyLoop(q2[k][i].op, lo)
    <3>1. CASE k = l
      <4>1. i + 1 \in 1..Len(q[k]) /\ q2[k][i] = q[k][i + 1]
        BY <3>1, <1>1
      <4> QED BY <4>1, <2>1 DEF KeysOK, KeysPlaced
    <3>2. CASE k # l
      <4>1. q2[k] = q[k]
        BY <3>2, <1>1
      <4> QED BY <4>1, <2>1 DEF KeysOK, KeysPlaced
    <3> QED BY <3>1, <3>2
  <2> QED BY <2>1 DEF KeysPlaced
<1>3. KeysUnique(q2, c)
  <2>1. ASSUME NEW k \in Loops, NEW i \in 1..Len(q2[k]), IsKey(q2[k][i], c)
        PROVE  /\ k = l => i + 1 \in 1..Len(q[k]) /\ IsKey(q[k][i + 1], c)
               /\ k # l => i \in 1..Len(q[k]) /\ IsKey(q[k][i], c)
    BY <2>1, <1>1
  <2>2. ASSUME NEW k \in Loops, NEW m \in Loops, NEW i \in 1..Len(q2[k]), NEW j \in 1..Len(q2[m]),
               IsKey(q2[k][i], c), IsKey(q2[m][j], c)
        PROVE  k = m /\ i = j
    <3>1. CASE k = l /\ m = l
      <4>1. i + 1 = j + 1
        BY <2>1, <2>2, <3>1 DEF KeysOK, KeysUnique
      <4>2. i \in Int /\ j \in Int
        OBVIOUS
      <4> QED BY <3>1, <4>1, <4>2
    <3>2. CASE k # l /\ m # l
      BY <2>1, <2>2, <3>2 DEF KeysOK, KeysUnique
    <3>3. CASE k = l /\ m # l
      BY <2>1, <2>2, <3>3 DEF KeysOK, KeysUnique
    <3>4. CASE k # l /\ m = l
      BY <2>1, <2>2, <3>4 DEF KeysOK, KeysUnique
    <3> QED BY <3>1, <3>2, <3>3, <3>4
  <2> QED BY <2>2 DEF KeysUnique
<1>4. t = "removed" => DestroyQueued(q2, c)
  <2> HAVE t = "removed"
  <2>1. PICK k \in Loops : \E i \in 1..Len(q[k]) : q[k][i].op = "connectDestroyed" /\ q[k][i].c = c
    BY DEF KeysOK, DestroyQueued
  <2>2. PICK i \in 1..Len(q[k]) : q[k][i].op = "connectDestroyed" /\ q[k][i].c = c
    BY <2>1
  <2>3. IsKey(q[k][i], c)
    BY <2>2 DEF IsKey, KeyOps
  <2>4. CASE k = l
    <3>1. i # 1
      BY <2>3, <2>4, <1>1
    <3>2. i - 1 \in 1..Len(q2[k]) /\ q2[k][i - 1] = q[k][i]
      BY <3>1, <2>4, <1>1
    <3> QED BY <3>2, <2>2 DEF DestroyQueued
  <2>5. CASE k # l
    BY <2>2, <2>5, <1>1 DEF DestroyQueued
  <2> QED BY <2>4, <2>5
<1> QED BY <1>2, <1>3, <1>4 DEF KeysOK, q2

\* The functor that takes connection c further is run: there is no other.
LEMMA RunsKey ==
    ASSUME NEW q \in Queues, NEW l \in Loops, q[l] # << >>, NEW c,
           KeysUnique(q, c), IsKey(Head(q[l]), c)
    PROVE  NoKey(Runs(q, l), c)
<1> DEFINE q2 == Runs(q, l)
<1>1. /\ 1 \in 1..Len(q[l]) /\ Head(q[l]) = q[l][1]
      /\ \A k \in Loops : k # l => q2[k] = q[k]
      /\ \A i \in 1..Len(q2[l]) : i + 1 \in 1..Len(q[l]) /\ q2[l][i] = q[l][i + 1]
  BY RunsShape
<1> HIDE DEF q2
<1>2. ASSUME NEW k \in Loops, NEW i \in 1..Len(q2[k]), IsKey(q2[k][i], c)
      PROVE  FALSE
  <2>1. CASE k = l
    <3>1. i + 1 \in 1..Len(q[l]) /\ IsKey(q[l][i + 1], c) /\ IsKey(q[l][1], c)
      BY <2>1, <1>1, <1>2
    <3>2. i + 1 = 1
      BY <3>1, <1>1 DEF KeysUnique
    <3> QED BY <3>2
  <2>2. CASE k # l
    <3>1. i \in 1..Len(q[k]) /\ IsKey(q[k][i], c) /\ IsKey(q[l][1], c)
      BY <2>2, <1>1, <1>2
    <3> QED BY <3>1, <2>2, <1>1 DEF KeysUnique
  <2> QED BY <2>1, <2>2
<1> QED BY <1>2 DEF NoKey, q2

LEMMA RunsNoOp ==
    ASSUME NEW q \in Queues, NEW l \in Loops, q[l] # << >>, NEW op, NoOp(q, op)
    PROVE  NoOp(Runs(q, l), op) /\ Head(q[l]).op # op
<1> DEFINE q2 == Runs(q, l)
<1>1. /\ 1 \in 1..Len(q[l]) /\ Head(q[l]) = q[l][1]
      /\ \A k \in Loops : k # l => q2[k] = q[k]
      /\ \A i \in 1..Len(q2[l]) : i + 1 \in 1..Len(q[l]) /\ q2[l][i] = q[l][i + 1]
  BY RunsShape
<1> HIDE DEF q2
<1>2. ASSUME NEW k \in Loops, NEW i \in 1..Len(q2[k])
      PROVE  q2[k][i].op # op
  <2>1. CASE k = l
    BY <2>1, <1>1 DEF NoOp
  <2>2. CASE k # l
    BY <2>2, <1>1 DEF NoOp
  <2> QED BY <2>1, <2>2
<1>3. Head(q[l]).op # op
  BY <1>1 DEF NoOp
<1> QED BY <1>2, <1>3 DEF NoOp, q2

LEMMA NoKeyOK ==
    ASSUME NEW q, NEW c, NEW t, NEW lo, NoKey(q, c), t # "removed"
    PROVE  KeysOK(q, c, t, lo)
BY DEF NoKey, KeysOK, KeysPlaced, KeysUnique

\* Nothing is queued that takes a connection further before it is accepted, and
\* after it is destroyed.
LEMMA StageNoKey ==
    ASSUME NEW q, NEW c, NEW t, NEW lo, KeysOK(q, c, t, lo), t \in {"unborn", "destroyed"}
    PROVE  NoKey(q, c)
<1>1. ASSUME NEW l \in Loops, NEW i \in 1..Len(q[l]), IsKey(q[l][i], c)
      PROVE  FALSE
  <2>1. t = KeyStage(q[l][i].op)
    BY <1>1 DEF KeysOK, KeysPlaced
  <2> QED BY <2>1 DEF KeyStage
<1> QED BY <1>1 DEF NoKey

-----------------------------------------------------------------------------
(* The functors a loop is still to run *)

LEMMA AheadType ==
    ASSUME NEW p \in Queues, NEW b \in Queues
    PROVE  Ahead(p, b) \in Queues
<1>1. ASSUME NEW l \in Loops
      PROVE  b[l] \o p[l] \in Seq(Functors)
  BY ConcatProperties DEF Queues
<1> QED BY <1>1 DEF Ahead, Queues

LEMMA AheadGets ==
    ASSUME NEW p \in Queues, NEW b \in Queues, NEW l \in Loops, NEW fs \in Seq(Functors)
    PROVE  Gets(p, l, fs) \in Queues /\ Ahead(Gets(p, l, fs), b) = Gets(Ahead(p, b), l, fs)
<1> DEFINE x == b[l]
           y == p[l]
<1>1. x \in Seq(Functors) /\ y \in Seq(Functors)
  BY DEF Queues
<1>2. x \o (y \o fs) = (x \o y) \o fs
  <2> HIDE DEF x, y
  <2> QED BY <1>1, ConcatAssociative
<1>3. Gets(p, l, fs) \in Queues
  BY GetsShape
<1>4. ASSUME NEW k \in Loops
      PROVE  Ahead(Gets(p, l, fs), b)[k] = Gets(Ahead(p, b), l, fs)[k]
  <2>1. CASE k = l
    <3>1. Gets(p, l, fs)[l] = y \o fs /\ Gets(Ahead(p, b), l, fs)[l] = (x \o y) \o fs
      BY DEF Gets, Ahead, Queues
    <3>2. Ahead(Gets(p, l, fs), b)[l] = x \o (y \o fs)
      BY <3>1 DEF Ahead
    <3> QED BY <2>1, <3>1, <3>2, <1>2, Zenon
  <2>2. CASE k # l
    BY <2>2 DEF Gets, Ahead, Queues
  <2> QED BY <2>1, <2>2
<1>5. Ahead(Gets(p, l, fs), b) = [k \in Loops |-> Ahead(Gets(p, l, fs), b)[k]]
  BY DEF Ahead
<1>6. Gets(Ahead(p, b), l, fs) = [k \in Loops |-> Gets(Ahead(p, b), l, fs)[k]]
  BY DEF Ahead, Gets
<1> QED BY <1>3, <1>4, <1>5, <1>6

LEMMA AheadRuns ==
    ASSUME NEW p \in Queues, NEW b \in Queues, NEW l \in Loops, b[l] # << >>
    PROVE  /\ Runs(b, l) \in Queues /\ Ahead(p, Runs(b, l)) = Runs(Ahead(p, b), l)
           /\ Ahead(p, b)[l] # << >> /\ Head(Ahead(p, b)[l]) = Head(b[l])
<1> DEFINE x == b[l]
           y == p[l]
<1>1. x \in Seq(Functors) /\ y \in Seq(Functors) /\ x # << >>
  BY DEF Queues
<1>2. Tail(x) \o y = Tail(x \o y) /\ x \o y # << >> /\ Head(x \o y) = Head(x)
  <2> HIDE DEF x, y
  <2>1. /\ x \o y \in Seq(Functors) /\ Len(x \o y) = Len(x) + Len(y)
        /\ \A i \in 1..Len(x) + Len(y) : (x \o y)[i] = IF i <= Len(x) THEN x[i] ELSE y[i - Len(x)]
    BY <1>1, ConcatProperties
  <2>2. /\ Tail(x) \in Seq(Functors) /\ Len(Tail(x)) = Len(x) - 1 /\ Head(x) = x[1]
        /\ Len(x) \in Nat /\ Len(y) \in Nat /\ Len(x) > 0
        /\ \A i \in 1..Len(Tail(x)) : Tail(x)[i] = x[i + 1]
    BY <1>1, HeadTailProperties, LenProperties, EmptySeq
  <2>3. x \o y # << >>
    BY <2>1, <2>2
  <2>4. /\ Tail(x \o y) \in Seq(Functors) /\ Len(Tail(x \o y)) = Len(x \o y) - 1
        /\ Head(x \o y) = (x \o y)[1]
        /\ \A i \in 1..Len(Tail(x \o y)) : Tail(x \o y)[i] = (x \o y)[i + 1]
    BY <2>1, <2>3, HeadTailProperties
  <2>5. /\ Tail(x) \o y \in Seq(Functors) /\ Len(Tail(x) \o y) = Len(Tail(x)) + Len(y)
        /\ \A i \in 1..Len(Tail(x)) + Len(y) :
             (Tail(x) \o y)[i] = IF i <= Len(Tail(x)) THEN Tail(x)[i] ELSE y[i - Len(Tail(x))]
    BY <1>1, <2>2, ConcatProperties
  <2> DEFINE u == Tail(x) \o y
             v == Tail(x \o y)
             w == x \o y
             z == Tail(x)
  <2> HIDE DEF u, v, w, z
  <2>6. Len(u) = Len(v) /\ Len(u) = Len(x) + Len(y) - 1
    BY <2>1, <2>2, <2>4, <2>5 DEF u, v
  <2>7. ASSUME NEW i \in 1..Len(u)
        PROVE  u[i] = v[i]
    <3>1. v[i] = w[i + 1] /\ w[i + 1] = IF i + 1 <= Len(x) THEN x[i + 1] ELSE y[(i + 1) - Len(x)]
      <4>1. i \in 1..Len(v) /\ i + 1 \in 1..Len(x) + Len(y)
        BY <2>2, <2>6
      <4> QED BY <4>1, <2>1, <2>4 DEF v, w
    <3>2. u[i] = IF i <= Len(z) THEN z[i] ELSE y[i - Len(z)]
      <4>1. i \in 1..Len(z) + Len(y)
        BY <2>2, <2>6 DEF z
      <4> QED BY <4>1, <2>5 DEF u, z
    <3>3. Len(z) = Len(x) - 1 /\ \A j \in 1..Len(z) : z[j] = x[j + 1]
      BY <2>2 DEF z
    <3>4. CASE i <= Len(z)
      <4>1. i \in 1..Len(z) /\ i + 1 <= Len(x)
        BY <3>3, <3>4, <2>2
      <4> QED BY <4>1, <3>1, <3>2, <3>3
    <3>5. CASE ~(i <= Len(z))
      <4>1. ~(i + 1 <= Len(x)) /\ i - Len(z) = (i + 1) - Len(x)
        BY <3>3, <3>5, <2>2
      <4> QED BY <4>1, <3>1, <3>2, <3>5
    <3> QED BY <3>4, <3>5
  <2>8. u = v
    BY <2>4, <2>5, <2>6, <2>7, SeqEqual DEF u, v
  <2>9. (x \o y)[1] = x[1]
    <3>1. 1 \in 1..Len(x) + Len(y) /\ 1 <= Len(x)
      BY <2>2
    <3> QED BY <3>1, <2>1
  <2> QED BY <2>2, <2>3, <2>4, <2>8, <2>9 DEF u, v
<1>3. Runs(b, l) \in Queues
  BY RunsShape
<1>4. Ahead(p, b)[l] = x \o y
  BY DEF Ahead
<1>5. ASSUME NEW k \in Loops
      PROVE  Ahead(p, Runs(b, l))[k] = Runs(Ahead(p, b), l)[k]
  <2>1. CASE k = l
    <3>1. Runs(b, l)[l] = Tail(x) /\ Runs(Ahead(p, b), l)[l] = Tail(x \o y)
      BY DEF Runs, Ahead, Queues
    <3>2. Ahead(p, Runs(b, l))[l] = Tail(x) \o y
      BY <3>1 DEF Ahead
    <3> QED BY <2>1, <3>1, <3>2, <1>2, Zenon
  <2>2. CASE k # l
    BY <2>2 DEF Runs, Ahead, Queues
  <2> QED BY <2>1, <2>2
<1>6. Ahead(p, Runs(b, l)) = [k \in Loops |-> Ahead(p, Runs(b, l))[k]]
  BY DEF Ahead
<1>7. Runs(Ahead(p, b), l) = [k \in Loops |-> Runs(Ahead(p, b), l)[k]]
  BY DEF Ahead, Runs
<1>8. Ahead(p, Runs(b, l)) = Runs(Ahead(p, b), l)
  BY <1>5, <1>6, <1>7
<1>9. Ahead(p, b)[l] # << >> /\ Head(Ahead(p, b)[l]) = Head(b[l])
  BY <1>2, <1>4
<1> QED BY <1>3, <1>8, <1>9

\* The swap of doPendingFunctors
LEMMA AheadTake ==
    ASSUME NEW p \in Queues, NEW b \in Queues, NEW l \in Loops, b[l] = << >>
    PROVE  Ahead([p EXCEPT ![l] = << >>], [b EXCEPT ![l] = p[l]]) = Ahead(p, b)
<1> DEFINE p2 == [p EXCEPT ![l] = << >>]
           b2 == [b EXCEPT ![l] = p[l]]
<1>1. ASSUME NEW k \in Loops
      PROVE  b2[k] \o p2[k] = b[k] \o p[k]
  <2>1. CASE k = l
    <3>1. b2[k] = p[l] /\ p2[k] = << >> /\ p[l] \in Seq(Functors)
      BY <2>1 DEF Queues
    <3>2. p[l] \o << >> = p[l] /\ << >> \o p[l] = p[l]
      BY <3>1, ConcatEmptySeq
    <3> QED BY <2>1, <3>1, <3>2
  <2>2. CASE k # l
    BY <2>2 DEF Queues
  <2> QED BY <2>1, <2>2
<1> HIDE DEF p2, b2
<1>2. Ahead(p2, b2) = Ahead(p, b)
  BY <1>1 DEF Ahead
<1> QED BY <1>2 DEF p2, b2

-----------------------------------------------------------------------------
(* What a loop is doing *)

\* t2 and lo2 are stages and loops like t and lo, but for connection c.
But(c, t, t2, lo, lo2) == \A d \in Conns : d # c => t2[d] = t[d] /\ lo2[d] = lo[d]

\* The events a, handlers td and callback cx are of connections.
OfConns(a, td, cx) ==
    /\ a \ {Listener} \subseteq Conns
    /\ \A i \in 1..Len(td) : td[i][2] \in Conns
    /\ cx # << >> => cx[2] \in Conns

\* A loop is not concerned when a connection of another loop, or one that no loop
\* serves yet, goes on to its next stage.
LEMMA LoopOther ==
    ASSUME NEW l, NEW t, NEW lo, NEW ph, NEW a, NEW td, NEW cx, NEW f,
           LoopOK(l, t, lo, ph, a, td, cx, f), OfConns(a, td, cx),
           NEW c, NEW t2, NEW lo2, But(c, t, t2, lo, lo2),
           t[c] \notin Open \/ lo[c] # l, c # Listener
    PROVE  LoopOK(l, t2, lo2, ph, a, td, cx, f)
<1>1. \A d \in a \ {Listener} : d # c /\ t2[d] = "established" /\ lo2[d] = l
  BY DEF LoopOK, But, Open, OfConns
<1>2. \A i \in 1..Len(td) :
        /\ lo2[td[i][2]] = l /\ td[i][2] \notin a /\ t2[td[i][2]] \in Open
        /\ td[i][1] \in Closing => t2[td[i][2]] = "established"
  BY DEF LoopOK, But, OfConns
<1>3. cx # << >> /\ cx[1] \in {"connection", "message"} =>
        t2[cx[2]] = "established" /\ lo2[cx[2]] = l
  BY DEF LoopOK, But, Open, OfConns
<1> QED BY <1>1, <1>2, <1>3 DEF LoopOK

\* removeConnectionInLoop does not concern the loop of the connection.
LEMMA LoopClosed ==
    ASSUME NEW l, NEW t, NEW lo, NEW ph, NEW a, NEW td, NEW cx, NEW f,
           LoopOK(l, t, lo, ph, a, td, cx, f), OfConns(a, td, cx),
           NEW c, NEW t2, But(c, t, t2, lo, lo), t[c] = "closed", t2[c] = "removed"
    PROVE  LoopOK(l, t2, lo, ph, a, td, cx, f)
<1>1. \A d \in a \ {Listener} : t2[d] = "established"
  BY DEF LoopOK, But, OfConns
<1>2. \A i \in 1..Len(td) : t2[td[i][2]] \in Open
        /\ (td[i][1] \in Closing => t2[td[i][2]] = "established")
  <2>1. ASSUME NEW i \in 1..Len(td)
        PROVE  t2[td[i][2]] \in Open /\ (td[i][1] \in Closing => t2[td[i][2]] = "established")
    <3>1. CASE td[i][2] = c
      BY <3>1 DEF LoopOK, Open
    <3>2. CASE td[i][2] # c
      BY <3>2 DEF LoopOK, But, OfConns
    <3> QED BY <3>1, <3>2
  <2> QED BY <2>1
<1>3. cx # << >> /\ cx[1] \in {"connection", "message"} => t2[cx[2]] = "established"
  BY DEF LoopOK, But, OfConns
<1> QED BY <1>1, <1>2, <1>3 DEF LoopOK

\* Functors other than forced closes may be queued at any time.
LEMMA LoopForced ==
    ASSUME NEW l, NEW t, NEW lo, NEW ph, NEW a, NEW td, NEW cx, NEW f,
           LoopOK(l, t, lo, ph, a, td, cx, f), NEW g, g \subseteq f
    PROVE  LoopOK(l, t, lo, ph, a, td, cx, g)
BY DEF LoopOK

\* A loop that runs functors has neither events nor forced closes.
LEMMA LoopRunning ==
    ASSUME NEW l, NEW t, NEW lo, NEW a, NEW td, NEW cx, NEW f,
           LoopOK(l, t, lo, "run", a, td, cx, f)
    PROVE  a = {} /\ td = << >> /\ f = {}
BY DEF LoopOK

LEMMA LoopRuns ==
    ASSUME NEW l, NEW t, NEW lo, NEW cx,
           \/ cx = << >>
           \/ \E c : cx = <<"connection", c>> /\ t[c] = "established" /\ lo[c] = l
           \/ \E c : cx = <<"writeComplete", c>>
    PROVE  LoopOK(l, t, lo, "run", {}, << >>, cx, {})
<1>1. 1..Len(<< >>) = {}
  OBVIOUS
<1>2. cx # << >> /\ cx[1] \in {"connection", "message"} =>
        t[cx[2]] = "established" /\ lo[cx[2]] = l
  OBVIOUS
<1>3. ~(cx # << >> /\ cx[1] = "message")
  OBVIOUS
<1> QED BY <1>1, <1>2, <1>3 DEF LoopOK

\* A callback of the event being handled is called: after close and read no other
\* callback of the event can close the connection, and no forced close waits.
LEMMA LoopHandler ==
    ASSUME NEW l, NEW t, NEW lo, NEW ph, NEW a, NEW td \in Seq(Handlers), NEW f,
           LoopOK(l, t, lo, ph, a, td, << >>, f), td # << >>,
           NEW h, NEW c, Head(td) = <<h, c>>
    PROVE  /\ LoopOK(l, t, lo, ph, a, Tail(td), << >>, f)
           /\ lo[c] = l /\ c \notin a /\ t[c] \in Open /\ ph = "dispatch"
           /\ h \in Closing => t[c] = "established" /\ c \notin f /\ NoClosing(Tail(td), c)
<1> DEFINE new == Tail(td)
<1>1. /\ new \in Seq(Handlers) /\ Len(new) = Len(td) - 1 /\ td[1] = <<h, c>>
      /\ Len(td) \in Nat /\ Len(td) > 0 /\ \A i \in 1..Len(new) : new[i] = td[i + 1]
  BY HeadTailProperties, LenProperties, EmptySeq
<1>2. \A i \in 1..Len(new) : i + 1 \in 1..Len(td) /\ new[i] = td[i + 1] /\ i + 1 # 1
  BY <1>1
<1>3. 1 \in 1..Len(td) /\ td[1][1] = h /\ td[1][2] = c
  BY <1>1
<1> HIDE DEF new
<1>4. ph = "dispatch" /\ lo[c] = l /\ c \notin a /\ t[c] \in Open
      /\ (h \in Closing => t[c] = "established")
  BY <1>3 DEF LoopOK
<1>5. /\ \A i \in 1..Len(new) :
           /\ lo[new[i][2]] = l /\ new[i][2] \notin a /\ t[new[i][2]] \in Open
           /\ new[i][1] \in Closing => t[new[i][2]] = "established"
      /\ \A d \in f : NoClosing(new, d)
  <2>1. ASSUME NEW i \in 1..Len(new)
        PROVE  /\ lo[new[i][2]] = l /\ new[i][2] \notin a /\ t[new[i][2]] \in Open
               /\ new[i][1] \in Closing => t[new[i][2]] = "established"
    BY <1>2 DEF LoopOK
  <2>2. ASSUME NEW d \in f
        PROVE  NoClosing(new, d)
    <3>1. NoClosing(td, d)
      BY DEF LoopOK
    <3> QED BY <3>1, <1>2 DEF NoClosing
  <2> QED BY <2>1, <2>2
<1>6. \A i, j \in 1..Len(new) : new[i][1] \in Closing /\ new[j][1] \in Closing => i = j
  <2>1. ASSUME NEW i \in 1..Len(new), NEW j \in 1..Len(new),
               new[i][1] \in Closing, new[j][1] \in Closing
        PROVE  i = j
    <3>1. i + 1 \in 1..Len(td) /\ j + 1 \in 1..Len(td) /\ td[i + 1][1] \in Closing
          /\ td[j + 1][1] \in Closing
      BY <1>2, <2>1
    <3>2. i + 1 = j + 1
      BY <3>1 DEF LoopOK
    <3> QED BY <3>2
  <2> QED BY <2>1
<1>7. h \in Closing => NoClosing(new, c) /\ c \notin f
  <2> HAVE h \in Closing
  <2>1. ASSUME NEW i \in 1..Len(new), new[i][1] \in Closing
        PROVE  FALSE
    <3>1. i + 1 \in 1..Len(td) /\ td[i + 1][1] \in Closing /\ i + 1 # 1
      BY <1>2, <2>1
    <3> QED BY <3>1, <1>3 DEF LoopOK
  <2>2. c \notin f
    BY <1>3 DEF LoopOK, NoClosing
  <2> QED BY <2>1, <2>2 DEF NoClosing
<1>8. LoopOK(l, t, lo, ph, a, new, << >>, f)
  BY <1>4, <1>5, <1>6 DEF LoopOK
<1> QED BY <1>4, <1>7, <1>8 DEF new

\* handleClose: the connection that is closed has no events and no callbacks left
\* that would close it again.
LEMMA LoopCloses ==
    ASSUME NEW l, NEW t, NEW lo, NEW ph, NEW a, NEW td, NEW f,
           LoopOK(l, t, lo, ph, a, td, << >>, f), OfConns(a, td, << >>),
           NEW c, NEW t2, But(c, t, t2, lo, lo), t2[c] \in {"closed", "removed"},
           c \notin a, NoClosing(td, c)
    PROVE  LoopOK(l, t2, lo, ph, a, td, << >>, f)
<1>1. \A d \in a \ {Listener} : t2[d] = "established" /\ lo[d] = l
  BY DEF LoopOK, But, OfConns
<1>2. \A i \in 1..Len(td) : t2[td[i][2]] \in Open
        /\ (td[i][1] \in Closing => t2[td[i][2]] = "established")
  <2>1. ASSUME NEW i \in 1..Len(td)
        PROVE  t2[td[i][2]] \in Open /\ (td[i][1] \in Closing => t2[td[i][2]] = "established")
    <3>1. CASE td[i][2] = c
      BY <3>1 DEF LoopOK, Open, NoClosing
    <3>2. CASE td[i][2] # c
      BY <3>2 DEF LoopOK, But, OfConns
    <3> QED BY <3>1, <3>2
  <2> QED BY <2>1
<1> QED BY <1>1, <1>2 DEF LoopOK

\* messageCallback_
LEMMA LoopMessage ==
    ASSUME NEW l, NEW t, NEW lo, NEW a, NEW td, NEW f,
           LoopOK(l, t, lo, "dispatch", a, td, << >>, f),
           NEW c, t[c] = "established", lo[c] = l, c \notin a, NoClosing(td, c)
    PROVE  LoopOK(l, t, lo, "dispatch", a, td, <<"message", c>>, f)
BY DEF LoopOK

\* forceClose called by messageCallback_
LEMMA LoopForces ==
    ASSUME NEW l, NEW t, NEW lo, NEW ph, NEW a, NEW td, NEW f, NEW g, NEW cx,
           LoopOK(l, t, lo, ph, a, td, cx, f), cx # << >>, cx[1] = "message",
           g \subseteq f \cup {cx[2]}
    PROVE  LoopOK(l, t, lo, ph, a, td, cx, g)
<1>1. \A c \in g : ph = "dispatch" /\ c \notin a /\ NoClosing(td, c)
  BY DEF LoopOK
<1> QED BY <1>1 DEF LoopOK

\* connectionCallback_ of a connection the base loop serves itself
LEMMA LoopAccepts ==
    ASSUME NEW l, NEW t, NEW lo, NEW ph, NEW a, NEW td, NEW f,
           LoopOK(l, t, lo, ph, a, td, << >>, f), ph # "poll",
           NEW c, t[c] = "established", lo[c] = l
    PROVE  LoopOK(l, t, lo, ph, a, td, <<"connection", c>>, f)
<1>1. <<"connection", c>>[1] = "connection" /\ <<"connection", c>>[2] = c
  OBVIOUS
<1> QED BY <1>1 DEF LoopOK

LEMMA LoopReturns ==
    ASSUME NEW l, NEW t, NEW lo, NEW ph, NEW a, NEW td, NEW cx, NEW f,
           LoopOK(l, t, lo, ph, a, td, cx, f)
    PROVE  LoopOK(l, t, lo, ph, a, td, << >>, f)
BY DEF LoopOK

\* poll
LEMMA LoopPolls ==
    ASSUME NEW l, NEW t, NEW lo, NEW a, NEW td, NEW cx, NEW f,
           LoopOK(l, t, lo, "poll", a, td, cx, f),
           NEW b, \A c \in b \ {Listener} : t[c] = "established" /\ lo[c] = l
    PROVE  LoopOK(l, t, lo, "dispatch", b, td, cx, f)
<1>1. a = {} /\ td = << >> /\ cx = << >> /\ f = {}
  BY DEF LoopOK
<1>2. 1..Len(<< >>) = {}
  OBVIOUS
<1> QED BY <1>1, <1>2 DEF LoopOK

\* The swap of doPendingFunctors, and its end
LEMMA LoopIdle ==
    ASSUME NEW l, NEW t, NEW lo, NEW ph
    PROVE  LoopOK(l, t, lo, ph, {}, << >>, << >>, {})
<1>1. 1..Len(<< >>) = {}
  OBVIOUS
<1> QED BY <1>1 DEF LoopOK

\* The loop of Acceptor::handleRead ends.
LEMMA LoopAccepted ==
    ASSUME NEW l, NEW t, NEW lo, NEW ph, NEW a, NEW td, NEW cx, NEW f,
           LoopOK(l, t, lo, ph, a, td, cx, f), NEW b, b \subseteq a
    PROVE  LoopOK(l, t, lo, ph, b, td, cx, f)
<1>1. a # {} => ph = "dispatch"
  BY DEF LoopOK
<1>2. b # {} => a # {}
  OBVIOUS
<1> QED BY <1>1, <1>2 DEF LoopOK

\* handleEvent: an event closes the connection once at most.
Once(s) == \A i, j \in 1..Len(s) : s[i] \in Closing /\ s[j] \in Closing => i = j
Never(s) == \A i \in 1..Len(s) : s[i] \notin Closing

LEMMA OnceConcat ==
    ASSUME NEW H, NEW s \in Seq(H), NEW x \in Seq(H)
    PROVE  /\ s \o x \in Seq(H)
           /\ Once(s) /\ Never(x) => Once(s \o x)
           /\ Never(s) /\ Once(x) => Once(s \o x)
           /\ Never(s) /\ Never(x) => Never(s \o x)
<1> DEFINE y == s \o x
<1>1. /\ y \in Seq(H) /\ Len(y) = Len(s) + Len(x)
      /\ \A i \in 1..Len(s) + Len(x) : y[i] = IF i <= Len(s) THEN s[i] ELSE x[i - Len(s)]
  BY ConcatProperties
<1>2. Len(s) \in Nat /\ Len(x) \in Nat
  BY LenProperties
<1> HIDE DEF y
<1>3. ASSUME NEW i \in 1..Len(y)
      PROVE  \/ i \in 1..Len(s) /\ y[i] = s[i]
             \/ i - Len(s) \in 1..Len(x) /\ y[i] = x[i - Len(s)]
  BY <1>1, <1>2
<1>4. ASSUME Once(s), Never(x)
      PROVE  Once(y)
  BY <1>3, <1>4 DEF Once, Never
<1>5. ASSUME Never(s), Once(x)
      PROVE  Once(y)
  <2>1. ASSUME NEW i \in 1..Len(y), NEW j \in 1..Len(y), y[i] \in Closing, y[j] \in Closing
        PROVE  i = j
    <3>1. i - Len(s) \in 1..Len(x) /\ x[i - Len(s)] \in Closing
      BY <1>3, <1>5, <2>1 DEF Never
    <3>2. j - Len(s) \in 1..Len(x) /\ x[j - Len(s)] \in Closing
      BY <1>3, <1>5, <2>1 DEF Never
    <3>3. i - Len(s) = j - Len(s)
      BY <3>1, <3>2, <1>5 DEF Once
    <3> QED BY <3>3, <1>2
  <2> QED BY <2>1 DEF Once
<1>6. ASSUME Never(s), Never(x)
      PROVE  Never(y)
  BY <1>3, <1>6 DEF Never
<1> QED BY <1>1, <1>4, <1>5, <1>6 DEF y

LEMMA HandlersOnce ==
    ASSUME NEW ev
    PROVE  Once(HandlersOf(ev))
<1> DEFINE H == {"close", "error", "read", "write"}
           a == IF "HUP" \in ev /\ "IN" \notin ev THEN <<"close">> ELSE << >>
           b == IF "ERR" \in ev THEN <<"error">> ELSE << >>
           d == IF "IN" \in ev THEN <<"read">> ELSE << >>
           e == IF "OUT" \in ev THEN <<"write">> ELSE << >>
<1>0. /\ << >> \in Seq(H) /\ <<"close">> \in Seq(H) /\ <<"error">> \in Seq(H)
      /\ <<"read">> \in Seq(H) /\ <<"write">> \in Seq(H)
  OBVIOUS
<1>1. a \in Seq(H) /\ b \in Seq(H) /\ d \in Seq(H) /\ e \in Seq(H)
  <2> HIDE DEF H
  <2> QED BY <1>0
<1>2. HandlersOf(ev) = ((a \o b) \o d) \o e
  BY DEF HandlersOf
<1>3. /\ Never(<< >>) /\ Never(<<"error">>) /\ Never(<<"write">>)
      /\ Once(<<"close">>) /\ Once(<<"read">>) /\ Once(<< >>)
  BY DEF Never, Once, Closing
<1>4. Never(b) /\ Never(e) /\ (("IN" \in ev /\ Never(a) /\ Once(d)) \/ (Once(a) /\ Never(d)))
  BY <1>3
<1> HIDE DEF H, a, b, d, e
<1>5. a \o b \in Seq(H) /\ (Never(a) => Never(a \o b)) /\ (Once(a) => Once(a \o b))
  BY <1>1, <1>4, OnceConcat
<1>6. (a \o b) \o d \in Seq(H) /\ Once((a \o b) \o d)
  BY <1>1, <1>4, <1>5, OnceConcat
<1>7. Once(((a \o b) \o d) \o e)
  BY <1>1, <1>4, <1>6, OnceConcat
<1> QED BY <1>2, <1>7

LEMMA LoopEvent ==
    ASSUME NEW l, NEW t, NEW lo, NEW ph, NEW a, NEW f,
           LoopOK(l, t, lo, ph, a, << >>, << >>, f),
           NEW c \in a, c # Listener, NEW ev
    PROVE  LoopOK(l, t, lo, ph, a \ {c},
                  [i \in DOMAIN HandlersOf(ev) |-> <<HandlersOf(ev)[i], c>>], << >>, f)
<1> DEFINE hs == HandlersOf(ev)
           td == [i \in DOMAIN hs |-> <<hs[i], c>>]
           H == {"close", "error", "read", "write"}
<1>1. hs \in Seq(H) /\ Once(hs)
  BY HandlersType, HandlersOnce
<1> HIDE DEF hs, H
<1>2. DOMAIN hs = 1..Len(hs) /\ Len(hs) \in Nat /\ \A i \in 1..Len(hs) : hs[i] \in H
  BY <1>1, LenProperties, ElementOfSeq
<1>3. td \in Seq(H \X {c}) /\ Len(td) = Len(hs)
  <2>1. td = [i \in 1..Len(hs) |-> <<hs[i], c>>]
    BY <1>2
  <2>2. \A i \in 1..Len(hs) : <<hs[i], c>> \in H \X {c}
    BY <1>2
  <2>3. td \in Seq(H \X {c})
    BY <1>2, <2>1, <2>2, IsASeq
  <2> QED BY <1>2, <2>1, <2>3, LenProperties
<1>4. \A i \in 1..Len(td) : td[i][1] = hs[i] /\ td[i][2] = c
  BY <1>2, <1>3
<1> HIDE DEF td
<1>5. t[c] = "established" /\ lo[c] = l /\ ph = "dispatch"
  BY DEF LoopOK
<1>6. \A i, j \in 1..Len(td) : td[i][1] \in Closing /\ td[j][1] \in Closing => i = j
  BY <1>1, <1>3, <1>4 DEF Once
<1>7. \A d \in f : d # c /\ NoClosing(td, d)
  <2>1. ASSUME NEW d \in f
        PROVE  d # c
    BY DEF LoopOK
  <2> QED BY <2>1, <1>4 DEF NoClosing
<1>8. \A i \in 1..Len(td) :
        /\ lo[td[i][2]] = l /\ td[i][2] \notin a \ {c} /\ t[td[i][2]] \in Open
        /\ td[i][1] \in Closing => t[td[i][2]] = "established"
  BY <1>4, <1>5 DEF Open
<1>9. LoopOK(l, t, lo, ph, a \ {c}, td, << >>, f)
  BY <1>5, <1>6, <1>7, <1>8 DEF LoopOK
<1> QED BY <1>9 DEF td, hs

\* The forced closes among the functors
LEMMA ForcedGets ==
    ASSUME NEW p \in Seq(Functors), NEW fs \in Seq(Functors)
    PROVE  Forced(p \o fs) \subseteq Forced(p) \cup Forced(fs)
<1> DEFINE y == p \o fs
<1>1. /\ y \in Seq(Functors) /\ Len(y) = Len(p) + Len(fs)
      /\ \A i \in 1..Len(p) + Len(fs) : y[i] = IF i <= Len(p) THEN p[i] ELSE fs[i - Len(p)]
  BY ConcatProperties
<1>2. Len(p) \in Nat /\ Len(fs) \in Nat
  BY LenProperties
<1> HIDE DEF y
<1>3. ASSUME NEW i \in 1..Len(y), y[i].op = "forceCloseInLoop"
      PROVE  y[i].c \in Forced(p) \cup Forced(fs)
  <2>1. CASE i \in 1..Len(p) /\ y[i] = p[i]
    BY <1>3, <2>1 DEF Forced
  <2>2. CASE i - Len(p) \in 1..Len(fs) /\ y[i] = fs[i - Len(p)]
    BY <1>3, <2>2 DEF Forced
  <2> QED BY <1>1, <1>2, <2>1, <2>2
<1>4. Forced(y) \subseteq Forced(p) \cup Forced(fs)
  BY <1>3 DEF Forced
<1> QED BY <1>4 DEF y

LEMMA ForcedOne ==
    ASSUME NEW f
    PROVE  /\ Forced(<< >>) = {}
           /\ Forced(<<f>>) \subseteq {f.c}
           /\ f.op # "forceCloseInLoop" => Forced(<<f>>) = {}
BY DEF Forced

LEMMA ForcedNone ==
    ASSUME NEW fs, \A j \in 1..Len(fs) : fs[j].op # "forceCloseInLoop"
    PROVE  Forced(fs) = {}
BY DEF Forced

-----------------------------------------------------------------------------
(* The server's own variables *)

LEMMA BaseLoop == Base \in Loops
<1> USE ServerAssumption
<1>1. PICK n \in ThreadCounts : n \in Nat
  OBVIOUS
<1>2. 0 \in 0..n
  BY <1>1
<1> QED BY <1>2 DEF Base, Loops

LEMMA NextLoopType ==
    ASSUME PoolType
    PROVE  NextLoop \in Loops
<1>1. NextLoop \in 0..numThreads
  BY DEF NextLoop, PoolType, Base
<1> QED BY <1>1 DEF PoolType

LEMMA PoolStep ==
    ASSUME PoolType, [Next]_vars
    PROVE  PoolType'
<1>1. ASSUME UNCHANGED <<listening, loopOf, numThreads, next>>
      PROVE  PoolType'
  BY <1>1 DEF PoolType
<1>2. CASE Start
  <2> USE ServerAssumption
  <2>1. /\ numThreads' \in ThreadCounts /\ listening' = TRUE /\ loopOf' = loopOf
        /\ next' = next /\ ~listening
    BY <1>2 DEF Start
  <2>2. numThreads' \in Nat /\ 0..numThreads' \subseteq Loops
    BY <2>1 DEF Loops
  <2>3. next = 0
    BY <2>1 DEF PoolType
  <2> QED BY <2>1, <2>2, <2>3 DEF PoolType
<1>3. ASSUME NEW c \in Conns, AcceptOne(c)
      PROVE  PoolType'
  <2>1. /\ loopOf' = [loopOf EXCEPT ![c] = NextLoop]
        /\ next' = IF numThreads = 0 THEN next ELSE (next + 1) % numThreads
        /\ UNCHANGED <<listening, numThreads>>
    BY <1>3 DEF AcceptOne, NewConnection
  <2>2. loopOf' \in [Conns -> Loops]
    BY <2>1, NextLoopType DEF PoolType
  <2>3. next' \in Nat /\ (numThreads > 0 => next' < numThreads) /\ (numThreads = 0 => next' = 0)
    BY <2>1 DEF PoolType
  <2> QED BY <2>1, <2>2, <2>3 DEF PoolType
<1>4. ASSUME NEW l \in Loops, LoopStep(l), ~ \E c \in Conns : AcceptOne(c)
      PROVE  UNCHANGED <<listening, loopOf, numThreads, next>>
  BY <1>4 DEF LoopStep, Poll, TakeFunctors, FunctorsDone, CallbackReturns, AcceptDone,
       RefuseOne, HandleEvent, HandleHangup, HandleSocketError,
       HandleReadMessage, HandleReadEof, HandleReadError, HandleWrite, NextHandler,
       RunConnectEstablished, RunRemoveConnection, RunConnectDestroyed, RunShutdown,
       RunForceClose, RunWriteComplete, RunHighWaterMark, RunSend, NextFunctor, server
<1>5. ASSUME NEW l \in Loops, CallStep(l)
      PROVE  UNCHANGED <<listening, loopOf, numThreads, next>>
  BY <1>5 DEF CallStep, CallShutdown, CallForceClose, CallSend, InCallback, server
<1>6. ASSUME NEW u \in Users, ThreadStep(u)
      PROVE  UNCHANGED <<listening, loopOf, numThreads, next>>
  BY <1>6 DEF ThreadStep, ThreadSetState, ThreadQueue, ThreadTest, server
<1>7. CASE PeerStep \/ (\E c \in Conns : DropPtr(c)) \/ UNCHANGED vars
  <2>1. UNCHANGED <<listening, loopOf, numThreads, next>>
    BY <1>7 DEF PeerStep, Arrive, PeerSends, PeerReads, PeerCloses, PeerResets, PeerActs,
         DropPtr, vars, server
  <2> QED BY <2>1, <1>1
<1> QED BY <1>1, <1>2, <1>3, <1>4, <1>5, <1>6, <1>7 DEF Next

LEMMA MapStep ==
    ASSUME MapType, [Next]_vars
    PROVE  MapType'
<1>1. unsent' \subseteq Msgs
  BY UnsentStep DEF MapType
<1>2. forces' \in 0..MaxForce
  <2>1. forces' = forces \/ (forces < MaxForce /\ forces' = forces + 1)
    <3>1. ASSUME NEW l \in Loops, LoopStep(l)
          PROVE  forces' = forces
      BY <3>1 DEF LoopStep, Poll, TakeFunctors, FunctorsDone, CallbackReturns, AcceptDone,
           AcceptOne, RefuseOne, HandleEvent, HandleHangup, HandleSocketError,
           HandleReadMessage, HandleReadEof, HandleReadError, HandleWrite, NextHandler,
           RunConnectEstablished, RunRemoveConnection, RunConnectDestroyed, RunShutdown,
           RunForceClose, RunWriteComplete, RunHighWaterMark, RunSend, NextFunctor, user
    <3>2. ASSUME NEW l \in Loops, CallStep(l)
          PROVE  forces' = forces \/ (forces < MaxForce /\ forces' = forces + 1)
      BY <3>2 DEF CallStep, CallShutdown, CallForceClose, CallSend
    <3>3. ASSUME NEW u \in Users, ThreadStep(u)
          PROVE  forces' = forces \/ (forces < MaxForce /\ forces' = forces + 1)
      BY <3>3 DEF ThreadStep, ThreadSetState, ThreadQueue, ThreadTest
    <3>4. CASE Start \/ PeerStep \/ (\E c \in Conns : DropPtr(c)) \/ UNCHANGED vars
      BY <3>4 DEF Start, PeerStep, Arrive, PeerSends, PeerReads, PeerCloses, PeerResets,
           PeerActs, DropPtr, vars, user
    <3> QED BY <3>1, <3>2, <3>3, <3>4 DEF Next
  <2> USE ServerAssumption
  <2> QED BY <2>1 DEF MapType
<1>3. /\ held' \subseteq Conns /\ connections' \subseteq Conns
      /\ \/ removals' = removals
         \/ \E c \in Conns : removals' = [removals EXCEPT ![c] = @ + 1]
  <2>1. ASSUME NEW l \in Loops, NEW c \in Conns,
               \/ HandleHangup(l, c) \/ HandleReadEof(l, c) \/ RunForceClose(l, c)
               \/ RunRemoveConnection(l, c)
        PROVE  /\ held' = held /\ connections' \in {connections, connections \ {c}}
               /\ \/ removals' = removals
                  \/ removals' = [removals EXCEPT ![c] = @ + 1]
    BY <2>1 DEF HandleHangup, HandleReadEof, RunForceClose, RunRemoveConnection, Close,
         Remove, NextHandler, NextFunctor, user
  <2>2. ASSUME NEW c \in Conns, AcceptOne(c)
        PROVE  /\ held' \in {held, held \cup {c}} /\ connections' = connections \cup {c}
               /\ removals' = removals
    BY <2>2 DEF AcceptOne, NewConnection
  <2>3. ASSUME NEW l \in Loops, NEW c \in Conns, RunConnectEstablished(l, c)
        PROVE  /\ held' = held \cup {c} /\ connections' = connections
               /\ removals' = removals
    BY <2>3 DEF RunConnectEstablished
  <2>4. ASSUME NEW l \in Loops,
               \/ Poll(l) \/ TakeFunctors(l) \/ FunctorsDone(l) \/ CallbackReturns(l)
               \/ AcceptDone \/ CallStep(l)
               \/ \E c \in Conns :
                    \/ RefuseOne(c) \/ HandleEvent(l, c) \/ HandleSocketError(l, c)
                    \/ HandleReadMessage(l, c) \/ HandleReadError(l, c) \/ HandleWrite(l, c)
                    \/ RunConnectDestroyed(l, c) \/ RunShutdown(l, c)
                    \/ RunWriteComplete(l, c) \/ RunHighWaterMark(l, c)
                    \/ \E m \in Msgs : RunSend(l, c, m)
        PROVE  UNCHANGED <<held, connections, removals>>
    BY <2>4 DEF Poll, TakeFunctors, FunctorsDone, CallbackReturns, AcceptDone,
         RefuseOne, HandleEvent, HandleSocketError, HandleReadMessage, HandleReadError,
         HandleWrite, NextHandler, RunConnectDestroyed, RunShutdown,
         RunWriteComplete, RunHighWaterMark, RunSend, NextFunctor, server, user,
         CallStep, CallShutdown, CallForceClose, CallSend, InCallback
  <2>5. CASE Start \/ PeerStep \/ (\E c \in Conns : DropPtr(c)) \/ UNCHANGED vars
             \/ \E u \in Users : ThreadStep(u)
    <3>1. /\ UNCHANGED <<connections, removals>>
          /\ held' = held \/ \E c \in Conns : held' = held \ {c}
      BY <2>5 DEF Start, PeerStep, Arrive, PeerSends, PeerReads, PeerCloses, PeerResets,
           PeerActs, DropPtr, vars, user, server, ThreadStep, ThreadSetState, ThreadQueue,
           ThreadTest
    <3> QED BY <3>1 DEF MapType
  <2>6. ASSUME NEW l \in Loops, LoopStep(l) \/ CallStep(l)
        PROVE  /\ held' \subseteq Conns /\ connections' \subseteq Conns
               /\ \/ removals' = removals
                  \/ \E c \in Conns : removals' = [removals EXCEPT ![c] = @ + 1]
    <3>1. CASE \E c \in Conns : \/ HandleHangup(l, c) \/ HandleReadEof(l, c)
                                \/ RunForceClose(l, c) \/ RunRemoveConnection(l, c)
      BY <3>1, <2>1 DEF MapType
    <3>2. CASE \E c \in Conns : AcceptOne(c) \/ RunConnectEstablished(l, c)
      BY <3>2, <2>2, <2>3 DEF MapType
    <3>3. CASE UNCHANGED <<held, connections, removals>>
      BY <3>3 DEF MapType
    <3> QED BY <3>1, <3>2, <3>3, <2>4, <2>6 DEF LoopStep
  <2> QED BY <2>5, <2>6 DEF Next
<1>4. removals' \in [Conns -> Nat]
  BY <1>3 DEF MapType
<1> QED BY <1>1, <1>2, <1>3, <1>4 DEF MapType

LEMMA PhaseStep ==
    ASSUME PhaseType, StreamsInv, [Next]_vars
    PROVE  PhaseType'
<1> DEFINE Kinds == {"connection", "message", "writeComplete"}
<1>0. batch \in [Loops -> Seq(Functors)]
  BY DEF StreamsInv, Holds, QueueOK
<1>1. ctx' \in [Loops -> {<< >>} \cup (Kinds \X Conns)]
  <2>1. \/ ctx' = ctx
        \/ \E l \in Loops : ctx' = [ctx EXCEPT ![l] = << >>]
        \/ \E l \in Loops, h \in Kinds, c \in Conns : ctx' = [ctx EXCEPT ![l] = <<h, c>>]
    <3>1. ASSUME NEW l \in Loops, NEW c \in Conns,
                 \/ AcceptOne(c)
                 \/ HandleReadMessage(l, c) \/ RunConnectEstablished(l, c)
                 \/ RunWriteComplete(l, c)
          PROVE  \/ ctx' = ctx
                 \/ \E k \in Loops, h \in Kinds : ctx' = [ctx EXCEPT ![k] = <<h, c>>]
      BY <3>1, BaseLoop DEF AcceptOne, NewConnection, HandleReadMessage,
           RunConnectEstablished, RunWriteComplete
    <3>2. ASSUME NEW l \in Loops,
                 \/ Poll(l) \/ TakeFunctors(l) \/ FunctorsDone(l)
                 \/ AcceptDone \/ CallStep(l)
                 \/ \E c \in Conns :
                      \/ RefuseOne(c) \/ HandleEvent(l, c) \/ HandleSocketError(l, c)
                      \/ HandleHangup(l, c) \/ HandleReadEof(l, c)
                      \/ HandleReadError(l, c) \/ HandleWrite(l, c)
                      \/ RunConnectDestroyed(l, c) \/ RunShutdown(l, c)
                      \/ RunForceClose(l, c) \/ RunRemoveConnection(l, c)
                      \/ RunHighWaterMark(l, c)
                      \/ \E m \in Msgs : RunSend(l, c, m)
          PROVE  ctx' = ctx
      BY <3>2 DEF Poll, TakeFunctors, FunctorsDone, AcceptDone,
           RefuseOne, HandleEvent, HandleSocketError, HandleHangup, HandleReadEof,
           HandleReadError, HandleWrite, RunConnectDestroyed, RunShutdown, RunForceClose,
           RunRemoveConnection, RunHighWaterMark, RunSend, inLoop,
           CallStep, CallShutdown, CallForceClose, CallSend, InCallback
    <3>3. CASE Start \/ PeerStep \/ (\E c \in Conns : DropPtr(c)) \/ UNCHANGED vars
               \/ \E u \in Users : ThreadStep(u)
      BY <3>3 DEF Start, PeerStep, Arrive, PeerSends, PeerReads, PeerCloses, PeerResets,
           PeerActs, DropPtr, vars, inLoop, ThreadStep, ThreadSetState, ThreadQueue,
           ThreadTest
    <3>4. ASSUME NEW l \in Loops, CallbackReturns(l)
          PROVE  ctx' = [ctx EXCEPT ![l] = << >>]
      BY <3>4 DEF CallbackReturns
    <3> QED BY <3>1, <3>2, <3>3, <3>4 DEF Next, LoopStep
  <2>2. \A h \in Kinds, c \in Conns : <<h, c>> \in Kinds \X Conns
    OBVIOUS
  <2> HIDE DEF Kinds
  <2>3. ctx \in [Loops -> {<< >>} \cup (Kinds \X Conns)]
    BY DEF PhaseType, Kinds
  <2> QED BY <2>1, <2>2, <2>3
<1>2. /\ lpc' \in [Loops -> {"poll", "dispatch", "run"}]
      /\ \A l \in Loops : batch'[l] # << >> => lpc'[l] = "run"
  <2>1. \/ UNCHANGED <<lpc, batch>>
        \/ \E l \in Loops : Poll(l) \/ TakeFunctors(l) \/ FunctorsDone(l)
        \/ \E l \in Loops : /\ lpc' = lpc /\ lpc[l] = "run"
                            /\ batch' = [batch EXCEPT ![l] = Tail(@)]
    <3>1. ASSUME NEW l \in Loops, NEW c \in Conns, NEW m \in Msgs \cup {None},
                 \/ RunConnectEstablished(l, c) \/ RunRemoveConnection(l, c)
                 \/ RunConnectDestroyed(l, c) \/ RunShutdown(l, c) \/ RunForceClose(l, c)
                 \/ RunWriteComplete(l, c) \/ RunHighWaterMark(l, c) \/ RunSend(l, c, m)
          PROVE  /\ lpc' = lpc /\ lpc[l] = "run"
                 /\ batch' = [batch EXCEPT ![l] = Tail(@)]
      BY <3>1 DEF RunConnectEstablished, RunRemoveConnection, RunConnectDestroyed,
           RunShutdown, RunForceClose, RunWriteComplete, RunHighWaterMark, RunSend,
           NextFunctor
    <3>2. ASSUME NEW l \in Loops,
                 \/ AcceptDone \/ CallStep(l) \/ CallbackReturns(l)
                 \/ \E c \in Conns :
                      \/ AcceptOne(c) \/ RefuseOne(c) \/ HandleEvent(l, c)
                      \/ HandleSocketError(l, c)
                      \/ HandleHangup(l, c) \/ HandleReadEof(l, c) \/ HandleReadMessage(l, c)
                      \/ HandleReadError(l, c) \/ HandleWrite(l, c)
          PROVE  UNCHANGED <<lpc, batch>>
      BY <3>2 DEF AcceptDone, CallbackReturns, AcceptOne, RefuseOne, HandleEvent,
           HandleSocketError, HandleHangup, HandleReadEof, HandleReadMessage,
           HandleReadError, HandleWrite, NextHandler, inLoop, queues,
           CallStep, CallShutdown, CallForceClose, CallSend, InCallback
    <3>3. CASE Start \/ PeerStep \/ (\E c \in Conns : DropPtr(c)) \/ UNCHANGED vars
               \/ \E u \in Users : ThreadStep(u)
      BY <3>3 DEF Start, PeerStep, Arrive, PeerSends, PeerReads, PeerCloses, PeerResets,
           PeerActs, DropPtr, vars, inLoop, queues, ThreadStep, ThreadSetState,
           ThreadQueue, ThreadTest
    <3> QED BY <3>1, <3>2, <3>3 DEF Next, LoopStep
  <2>2. ASSUME NEW l \in Loops, Poll(l) \/ TakeFunctors(l) \/ FunctorsDone(l)
        PROVE  /\ lpc' \in [Loops -> {"poll", "dispatch", "run"}]
               /\ \A k \in Loops : batch'[k] # << >> => lpc'[k] = "run"
    <3>1. CASE Poll(l)
      BY <3>1 DEF Poll, queues, PhaseType
    <3>2. CASE TakeFunctors(l)
      BY <3>2, <1>0 DEF TakeFunctors, PhaseType
    <3>3. CASE FunctorsDone(l)
      BY <3>3 DEF FunctorsDone, queues, PhaseType
    <3> QED BY <2>2, <3>1, <3>2, <3>3
  <2>3. ASSUME NEW l \in Loops, lpc' = lpc, lpc[l] = "run",
               batch' = [batch EXCEPT ![l] = Tail(@)]
        PROVE  /\ lpc' \in [Loops -> {"poll", "dispatch", "run"}]
               /\ \A k \in Loops : batch'[k] # << >> => lpc'[k] = "run"
    BY <2>3, <1>0 DEF PhaseType
  <2>4. CASE UNCHANGED <<lpc, batch>>
    BY <2>4 DEF PhaseType
  <2> QED BY <2>1, <2>2, <2>3, <2>4
<1> QED BY <1>1, <1>2 DEF PhaseType

-----------------------------------------------------------------------------
(* A step of a connection, seen by the queues, the calls and the loops *)

\* Nothing queued takes connection c further; the other connections are as before.
Cleared(t, lo, q, c, n) ==
    /\ NoKey(q, c) /\ \A d \in Conns : d # c => KeysOK(q, d, t[d], lo[d])
    /\ NoOp(q, "sendInLoop") /\ (n = 0 => NoOp(q, "forceCloseInLoop"))

LEMMA ClearedRuns ==
    ASSUME NEW t, NEW lo, NEW q \in Queues, NEW n, QueuesOK(t, lo, q, n),
           NEW l \in Loops, q[l] # << >>, NEW c \in Conns, IsKey(Head(q[l]), c)
    PROVE  Cleared(t, lo, Runs(q, l), c, n)
<1>1. NoKey(Runs(q, l), c)
  BY RunsKey DEF QueuesOK, KeysOK
<1>2. ASSUME NEW d \in Conns, d # c
      PROVE  KeysOK(Runs(q, l), d, t[d], lo[d])
  <2>1. ~IsKey(Head(q[l]), d) /\ KeysOK(q, d, t[d], lo[d])
    BY <1>2 DEF IsKey, QueuesOK
  <2> QED BY <2>1, RunsOther
<1>3. NoOp(Runs(q, l), "sendInLoop") /\ (n = 0 => NoOp(Runs(q, l), "forceCloseInLoop"))
  BY RunsNoOp DEF QueuesOK
<1> QED BY <1>1, <1>2, <1>3 DEF Cleared

LEMMA ClearedStage ==
    ASSUME NEW t, NEW lo, NEW q \in Queues, NEW n, QueuesOK(t, lo, q, n),
           NEW c \in Conns, NoKey(q, c)
    PROVE  Cleared(t, lo, q, c, n)
BY DEF Cleared, QueuesOK

LEMMA ClearedDone ==
    ASSUME NEW t, NEW lo, NEW q \in Queues, NEW n, NEW c \in Conns, Cleared(t, lo, q, c, n),
           NEW t2, NEW lo2, But(c, t, t2, lo, lo2), t2[c] # "removed"
    PROVE  QueuesOK(t2, lo2, q, n)
<1>1. KeysOK(q, c, t2[c], lo2[c])
  BY NoKeyOK DEF Cleared
<1>2. ASSUME NEW d \in Conns, d # c
      PROVE  KeysOK(q, d, t2[d], lo2[d])
  <2>1. t2[d] = t[d] /\ lo2[d] = lo[d] /\ KeysOK(q, d, t[d], lo[d])
    BY <1>2 DEF But, Cleared
  <2> QED BY <2>1
<1> QED BY <1>1, <1>2 DEF QueuesOK, Cleared

LEMMA ClearedGets ==
    ASSUME NEW t, NEW lo, NEW q \in Queues, NEW n, NEW c \in Conns, Cleared(t, lo, q, c, n),
           NEW t2, NEW lo2, But(c, t, t2, lo, lo2), NEW op \in KeyOps,
           t2[c] = KeyStage(op), KeyLoop(op, lo2[c]) \in Loops, NEW n2,
           n2 = 0 => n = 0 /\ op # "forceCloseInLoop"
    PROVE  QueuesOK(t2, lo2, Gets(q, KeyLoop(op, lo2[c]), <<Functor(op, c)>>), n2)
<1> DEFINE l == KeyLoop(op, lo2[c])
           f == Functor(op, c)
           fs == <<f>>
           q2 == Gets(q, l, fs)
<1>1. op \in FunctorOps /\ op # "sendInLoop"
  BY DEF KeyOps, FunctorOps
<1>2. f \in Functors /\ f.op = op /\ f.c = c /\ IsKey(f, c)
  BY <1>1, FunctorType DEF IsKey
<1> HIDE DEF f
<1>3. KeysOK(q2, c, t2[c], lo2[c])
  BY <1>2, GetsKey DEF Cleared
<1>4. fs \in Seq(Functors) /\ \A j \in 1..Len(fs) : fs[j] = f
  BY <1>2
<1> HIDE DEF fs, l
<1>5. ASSUME NEW d \in Conns, d # c
      PROVE  KeysOK(q2, d, t2[d], lo2[d])
  <2>1. t2[d] = t[d] /\ lo2[d] = lo[d] /\ KeysOK(q, d, t[d], lo[d])
    BY <1>5 DEF But, Cleared
  <2>2. \A j \in 1..Len(fs) : ~IsKey(fs[j], d)
    BY <1>2, <1>4, <1>5 DEF IsKey
  <2>3. KeysOK(q2, d, t[d], lo[d])
    BY <2>1, <2>2, <1>4, GetsOther DEF l
  <2> QED BY <2>1, <2>3
<1>6. NoOp(q2, "sendInLoop")
  <2>1. \A j \in 1..Len(fs) : fs[j].op # "sendInLoop"
    BY <1>1, <1>2, <1>4
  <2> QED BY <2>1, <1>4, GetsNoOp DEF Cleared, l
<1>7. n2 = 0 => NoOp(q2, "forceCloseInLoop")
  <2> HAVE n2 = 0
  <2>1. \A j \in 1..Len(fs) : fs[j].op # "forceCloseInLoop"
    BY <1>2, <1>4
  <2> QED BY <2>1, <1>4, GetsNoOp DEF Cleared, l
<1> QED BY <1>3, <1>5, <1>6, <1>7 DEF QueuesOK, q2, l, fs, f

\* Functors that leave the stage alone
QuietOps == {"writeComplete", "highWaterMark", "shutdownInLoop"}

LEMMA QueuesGet ==
    ASSUME NEW t, NEW lo, NEW q \in Queues, NEW n, QueuesOK(t, lo, q, n), NEW l \in Loops,
           NEW fs \in Seq(Functors), \A j \in 1..Len(fs) : fs[j].op \in QuietOps
    PROVE  QueuesOK(t, lo, Gets(q, l, fs), n)
<1>1. \A j \in 1..Len(fs) : /\ fs[j].op \notin KeyOps
                            /\ fs[j].op # "sendInLoop" /\ fs[j].op # "forceCloseInLoop"
  BY DEF QuietOps, KeyOps
<1>2. ASSUME NEW d \in Conns
      PROVE  KeysOK(Gets(q, l, fs), d, t[d], lo[d])
  <2>1. \A j \in 1..Len(fs) : ~IsKey(fs[j], d)
    BY <1>1 DEF IsKey
  <2>2. KeysOK(q, d, t[d], lo[d])
    BY DEF QueuesOK
  <2> QED BY <2>1, <2>2, GetsOther
<1>3. NoOp(Gets(q, l, fs), "sendInLoop")
  BY <1>1, GetsNoOp DEF QueuesOK
<1>4. n = 0 => NoOp(Gets(q, l, fs), "forceCloseInLoop")
  BY <1>1, GetsNoOp DEF QueuesOK
<1> QED BY <1>2, <1>3, <1>4 DEF QueuesOK

LEMMA QueuesRun ==
    ASSUME NEW t, NEW lo, NEW q \in Queues, NEW n, QueuesOK(t, lo, q, n), NEW l \in Loops,
           q[l] # << >>, Head(q[l]).op \notin KeyOps
    PROVE  QueuesOK(t, lo, Runs(q, l), n)
<1>1. ASSUME NEW d \in Conns
      PROVE  KeysOK(Runs(q, l), d, t[d], lo[d])
  BY RunsOther DEF IsKey, QueuesOK
<1> QED BY <1>1, RunsNoOp DEF QueuesOK

\* The functor that is run takes its connection further: this is the stage, and
\* the loop, in which it may be queued.
LEMMA HeadPlaced ==
    ASSUME NEW t, NEW lo, NEW q \in Queues, NEW n, QueuesOK(t, lo, q, n), NEW l \in Loops,
           q[l] # << >>, NEW c \in Conns, IsKey(Head(q[l]), c)
    PROVE  t[c] = KeyStage(Head(q[l]).op) /\ l = KeyLoop(Head(q[l]).op, lo[c])
<1>1. 1 \in 1..Len(q[l]) /\ Head(q[l]) = q[l][1]
  BY RunsShape
<1> QED BY <1>1 DEF QueuesOK, KeysOK, KeysPlaced

LEMMA CallsAdvance ==
    ASSUME NEW t, NEW p \in [Users -> Calls \cup {Idle}], CallsShutDown(t, p),
           NEW c, NEW t2, NEW lo, NEW lo2, But(c, t, t2, lo, lo2),
           t[c] \in {"unborn", "connecting"} \/ t2[c] \notin {"unborn", "connecting"}
    PROVE  CallsShutDown(t2, p)
<1>1. ASSUME NEW u \in Users, p[u] # Idle
      PROVE  p[u].op = "shutdown" /\ t2[p[u].c] \notin {"unborn", "connecting"}
  <2>1. p[u].op = "shutdown" /\ t[p[u].c] \notin {"unborn", "connecting"}
    BY <1>1 DEF CallsShutDown
  <2>2. p[u].c \in Conns
    BY <1>1 DEF Calls
  <2>3. CASE p[u].c = c
    BY <2>1, <2>3
  <2>4. CASE p[u].c # c
    BY <2>1, <2>2, <2>4 DEF But
  <2> QED BY <2>1, <2>3, <2>4
<1> QED BY <1>1 DEF CallsShutDown

-----------------------------------------------------------------------------
(* Frames: what is left to show of a step *)

Life ==
    /\ AllAlive /\ QueuesOK(Stages, loopOf, Ahead(pending, batch), forces)
    /\ CallsShutDown(Stages, upc) /\ LoopsOK(Stages, loopOf)

LEMMA Basics ==
    ASSUME LifeInv
    PROVE  /\ pending \in Queues /\ batch \in Queues /\ Ahead(pending, batch) \in Queues
           /\ loopOf \in [Conns -> Loops] /\ todo \in [Loops -> Seq(Handlers)]
           /\ active \in [Loops -> SUBSET (Conns \cup {Listener})]
           /\ upc \in [Users -> Calls \cup {Idle}]
           /\ lpc \in [Loops -> {"poll", "dispatch", "run"}]
           /\ ctx \in [Loops -> {<< >>} \cup
                                ({"connection", "message", "writeComplete"} \X Conns)]
           /\ removals \in [Conns -> Nat]
           /\ conn = [c \in Conns |-> conn[c]]
<1>1. pending \in Queues /\ batch \in Queues
  BY DEF LifeInv, StreamsInv, Holds, QueueOK, Queues
<1>2. Ahead(pending, batch) \in Queues
  BY <1>1, AheadType
<1> QED BY <1>1, <1>2 DEF LifeInv, StreamsInv, Holds, ConnsOK, ActiveOK, TodoOK, CallsOK,
                          PoolType, PhaseType, MapType

LEMMA AliveOf ==
    ASSUME LifeInv, NEW c \in Conns
    PROVE  /\ Alive(conn[c], c \in connections, removals[c]) /\ IsConnection(conn[c])
           /\ Stages[c] = Stage(conn[c], c \in connections) /\ (c \in connections) \in BOOLEAN
BY DEF LifeInv, AllAlive, Alive, Stages

LEMMA LoopConns ==
    ASSUME LifeInv, NEW l \in Loops
    PROVE  /\ OfConns(active[l], todo[l], ctx[l]) /\ OfConns(active[l], todo[l], << >>)
           /\ todo[l] # << >> => OfConns(active[l], Tail(todo[l]), << >>)
<1>1. active[l] \ {Listener} \subseteq Conns
  BY Basics
<1>2. ctx[l] # << >> => ctx[l][2] \in Conns
  BY Basics
<1>3. todo[l] \in Seq(Handlers)
  BY Basics
<1>4. ASSUME NEW td \in Seq(Handlers), NEW i \in 1..Len(td)
      PROVE  td[i][2] \in Conns
  <2>1. td[i] \in Handlers
    BY ElementOfSeq
  <2> QED BY <2>1 DEF Handlers
<1>5. todo[l] # << >> => Tail(todo[l]) \in Seq(Handlers)
  BY <1>3, HeadTailProperties
<1> QED BY <1>1, <1>2, <1>3, <1>4, <1>5 DEF OfConns

\* Steps that leave the stages alone
LEMMA QuietLife ==
    ASSUME LifeInv, UNCHANGED <<connections, removals, loopOf>>,
           \A c \in Conns : conn'[c] = conn[c] \/ Keeps(conn[c], conn'[c]),
           QueuesOK(Stages, loopOf, Ahead(pending', batch'), forces'),
           CallsShutDown(Stages, upc'),
           \A l \in Loops : LoopOK(l, Stages, loopOf, lpc'[l], active'[l], todo'[l], ctx'[l],
                                   Forced(pending'[l]))
    PROVE  Life'
<1>1. ASSUME NEW c \in Conns
      PROVE  /\ Alive(conn'[c], c \in connections', removals'[c])
             /\ Stage(conn'[c], c \in connections') = Stage(conn[c], c \in connections)
  <2>1. Alive(conn[c], c \in connections, removals[c]) /\ (c \in connections) \in BOOLEAN
    BY AliveOf
  <2>2. CASE conn'[c] = conn[c]
    BY <2>1, <2>2
  <2>3. CASE Keeps(conn[c], conn'[c])
    BY <2>1, <2>3, StageKept
  <2> QED BY <2>2, <2>3
<1>2. AllAlive'
  BY <1>1 DEF AllAlive
<1>3. Stages' = Stages
  BY <1>1 DEF Stages
<1>4. LoopsOK(Stages, loopOf)'
  BY <1>3 DEF LoopsOK
<1> QED BY <1>2, <1>3, <1>4 DEF Life

\* Only loop l does anything; the others may get functors that force no close.
LEMMA OneLoop ==
    ASSUME LifeInv, NEW l \in Loops,
           \A k \in Loops : k # l =>
             /\ lpc'[k] = lpc[k] /\ active'[k] = active[k] /\ todo'[k] = todo[k]
             /\ ctx'[k] = ctx[k] /\ Forced(pending'[k]) \subseteq Forced(pending[k]),
           LoopOK(l, Stages, loopOf, lpc'[l], active'[l], todo'[l], ctx'[l],
                  Forced(pending'[l]))
    PROVE  \A k \in Loops : LoopOK(k, Stages, loopOf, lpc'[k], active'[k], todo'[k], ctx'[k],
                                   Forced(pending'[k]))
<1>1. ASSUME NEW k \in Loops, k # l
      PROVE  LoopOK(k, Stages, loopOf, lpc'[k], active'[k], todo'[k], ctx'[k],
                    Forced(pending'[k]))
  <2>1. LoopOK(k, Stages, loopOf, lpc[k], active[k], todo[k], ctx[k], Forced(pending[k]))
    BY DEF LifeInv, LoopsOK
  <2>2. LoopOK(k, Stages, loopOf, lpc[k], active[k], todo[k], ctx[k], Forced(pending'[k]))
    BY <2>1, <1>1, LoopForced
  <2> QED BY <2>2, <1>1
<1> QED BY <1>1

\* Steps that take connection c to another stage
LEMMA StageStep ==
    ASSUME LifeInv, NEW c \in Conns, NEW s, conn' = [conn EXCEPT ![c] = s],
           \A d \in Conns : d # c =>
             /\ d \in connections' <=> d \in connections
             /\ removals'[d] = removals[d] /\ loopOf'[d] = loopOf[d],
           Alive(s, c \in connections', removals'[c])
    PROVE  /\ AllAlive' /\ But(c, Stages, Stages', loopOf, loopOf')
           /\ Stages'[c] = Stage(s, c \in connections')
<1>1. conn'[c] = s /\ \A d \in Conns : d # c => conn'[d] = conn[d]
  BY Basics
<1>2. ASSUME NEW d \in Conns, d # c
      PROVE  /\ Alive(conn'[d], d \in connections', removals'[d])
             /\ Stages'[d] = Stages[d] /\ loopOf'[d] = loopOf[d]
  <2>1. (d \in connections') = (d \in connections)
    BY <1>2
  <2>2. /\ Stages'[d] = Stage(conn'[d], d \in connections')
        /\ Stages[d] = Stage(conn[d], d \in connections)
    BY DEF Stages
  <2> QED BY <1>1, <1>2, <2>1, <2>2, AliveOf
<1>3. Stages'[c] = Stage(s, c \in connections')
  BY <1>1 DEF Stages
<1> QED BY <1>1, <1>2, <1>3 DEF AllAlive, But

-----------------------------------------------------------------------------
(* Steps that leave the stages alone *)

\* Nothing changes for the loops, the queues and the calls.
LEMMA StillLife ==
    ASSUME LifeInv,
           UNCHANGED <<connections, removals, loopOf, inLoop, queues, forces, upc>>,
           \A c \in Conns : conn'[c] = conn[c] \/ Keeps(conn[c], conn'[c])
    PROVE  Life'
<1>1. UNCHANGED <<lpc, active, todo, ctx, pending, batch>>
  BY DEF inLoop, queues
<1>2. QueuesOK(Stages, loopOf, Ahead(pending', batch'), forces') /\ CallsShutDown(Stages, upc')
  BY <1>1 DEF LifeInv
<1>3. \A l \in Loops : LoopOK(l, Stages, loopOf, lpc'[l], active'[l], todo'[l], ctx'[l],
                              Forced(pending'[l]))
  BY <1>1 DEF LifeInv, LoopsOK
<1> QED BY <1>2, <1>3, QuietLife

LEMMA OneKeeps ==
    ASSUME LifeInv, NEW c \in Conns, NEW s, Keeps(conn[c], s), conn' = [conn EXCEPT ![c] = s]
    PROVE  \A d \in Conns : conn'[d] = conn[d] \/ Keeps(conn[d], conn'[d])
BY Basics

LEMMA PeerLife ==
    ASSUME LifeInv, PeerStep
    PROVE  Life'
<1>1. PICK c \in Conns :
        Arrive(c) \/ PeerSends(c) \/ PeerReads(c) \/ PeerCloses(c) \/ PeerResets(c)
  BY DEF PeerStep
<1>2. IsConnection(conn[c]) /\ DOMAIN conn[c] = Fields
  BY AliveOf, AliveFields
<1>3. CASE Arrive(c)
  BY <1>3, StillLife DEF Arrive, user
<1>4. ASSUME NEW r, PeerActs(c, r), Keeps(conn[c], r)
      PROVE  Life'
  <2>1. conn' = [conn EXCEPT ![c] = r]
        /\ UNCHANGED <<connections, removals, loopOf, inLoop, queues, forces, upc>>
    BY <1>4 DEF PeerActs, server, user
  <2> QED BY <2>1, <1>4, OneKeeps, StillLife
<1>5. CASE PeerSends(c)
  <2> DEFINE r == [conn[c] EXCEPT !.input = 1]
  <2>1. /\ PeerActs(c, r) /\ Same(conn[c], r, {"revents", "peer", "input", "sndFull"})
        /\ r.revents = conn[c].revents /\ r.peer = conn[c].peer /\ r.input = 1
        /\ r.sndFull = conn[c].sndFull
    BY <1>2, <1>5 DEF PeerSends, Same, Fields
  <2> HIDE DEF r
  <2>2. Keeps(conn[c], r)
    BY <2>1, <1>2, SocketKeeps DEF IsConnection
  <2> QED BY <2>1, <2>2, <1>4
<1>6. CASE PeerReads(c)
  <2> DEFINE r == [conn[c] EXCEPT !.sndFull = FALSE]
  <2>1. /\ PeerActs(c, r) /\ Same(conn[c], r, {"revents", "peer", "input", "sndFull"})
        /\ r.revents = conn[c].revents /\ r.peer = conn[c].peer /\ r.input = conn[c].input
        /\ r.sndFull = FALSE
    BY <1>2, <1>6 DEF PeerReads, Same, Fields
  <2> HIDE DEF r
  <2>2. Keeps(conn[c], r)
    BY <2>1, <1>2, SocketKeeps DEF IsConnection
  <2> QED BY <2>1, <2>2, <1>4
<1>7. CASE PeerCloses(c)
  <2> DEFINE r == [conn[c] EXCEPT !.peer = "fin"]
  <2>1. /\ PeerActs(c, r) /\ Same(conn[c], r, {"revents", "peer", "input", "sndFull"})
        /\ r.revents = conn[c].revents /\ r.peer = "fin" /\ r.input = conn[c].input
        /\ r.sndFull = conn[c].sndFull
    BY <1>2, <1>7 DEF PeerCloses, Same, Fields
  <2> HIDE DEF r
  <2>2. Keeps(conn[c], r)
    BY <2>1, <1>2, SocketKeeps DEF IsConnection, Peers
  <2> QED BY <2>1, <2>2, <1>4
<1>8. CASE PeerResets(c)
  <2> DEFINE r == [conn[c] EXCEPT !.peer = "rst", !.input = 0]
  <2>1. /\ PeerActs(c, r) /\ Same(conn[c], r, {"revents", "peer", "input", "sndFull"})
        /\ r.revents = conn[c].revents /\ r.peer = "rst" /\ r.input = 0
        /\ r.sndFull = conn[c].sndFull
    BY <1>2, <1>8 DEF PeerResets, Same, Fields
  <2> HIDE DEF r
  <2>2. Keeps(conn[c], r)
    BY <2>1, <1>2, SocketKeeps DEF IsConnection, Peers
  <2> QED BY <2>1, <2>2, <1>4
<1> QED BY <1>1, <1>3, <1>5, <1>6, <1>7, <1>8

\* Start, a dropped pointer, a refused connection and no step at all
LEMMA StillSteps ==
    ASSUME LifeInv, \/ Start \/ (\E c \in Conns : DropPtr(c) \/ RefuseOne(c)) \/ UNCHANGED vars
    PROVE  Life'
<1>1. CASE Start \/ (\E c \in Conns : DropPtr(c)) \/ UNCHANGED vars
  <2>1. UNCHANGED <<conn, connections, removals, loopOf, inLoop, queues, forces, upc>>
    BY <1>1 DEF Start, DropPtr, vars, server, user
  <2> QED BY <2>1, StillLife
<1>2. ASSUME NEW c \in Conns, RefuseOne(c)
      PROVE  Life'
  <2>1. /\ c \in backlog /\ conn' = [conn EXCEPT ![c] = Unborn]
        /\ UNCHANGED <<connections, removals, loopOf, inLoop, queues, forces, upc>>
    BY <1>2 DEF RefuseOne, user
  <2>2. conn[c].state = "none"
    BY <2>1 DEF LifeInv, StreamsInv, Holds, BacklogOK
  <2>3. Keeps(conn[c], Unborn)
    BY <2>2, AliveOf, UnbornKeeps
  <2> QED BY <2>1, <2>3, OneKeeps, StillLife
<1> QED BY <1>1, <1>2

\* A step of loop l that leaves the queues alone
LEMMA LoopLife ==
    ASSUME LifeInv, NEW l \in Loops,
           UNCHANGED <<connections, removals, loopOf, queues, forces, upc>>,
           \A c \in Conns : conn'[c] = conn[c] \/ Keeps(conn[c], conn'[c]),
           \A k \in Loops : k # l =>
             /\ lpc'[k] = lpc[k] /\ active'[k] = active[k] /\ todo'[k] = todo[k]
             /\ ctx'[k] = ctx[k],
           LoopOK(l, Stages, loopOf, lpc'[l], active'[l], todo'[l], ctx'[l],
                  Forced(pending[l]))
    PROVE  Life'
<1>1. UNCHANGED <<pending, batch>>
  BY DEF queues
<1>2. QueuesOK(Stages, loopOf, Ahead(pending', batch'), forces') /\ CallsShutDown(Stages, upc')
  BY <1>1 DEF LifeInv
<1>3. \A k \in Loops : LoopOK(k, Stages, loopOf, lpc'[k], active'[k], todo'[k], ctx'[k],
                              Forced(pending'[k]))
  BY <1>1, OneLoop
<1> QED BY <1>2, <1>3, QuietLife

LEMMA LoopOf ==
    ASSUME LifeInv, NEW l \in Loops
    PROVE  LoopOK(l, Stages, loopOf, lpc[l], active[l], todo[l], ctx[l], Forced(pending[l]))
BY DEF LifeInv, LoopsOK

\* poll: only the channels of established connections are in the epoll set.
LEMMA PollLife ==
    ASSUME LifeInv, NEW l \in Loops, Poll(l)
    PROVE  Life'
<1> DEFINE b == ReadyConns(l) \cup ReadyListener(l)
<1>1. /\ lpc[l] = "poll" /\ active' = [active EXCEPT ![l] = b]
      /\ conn' = [c \in Conns |-> IF c \in ReadyConns(l)
                                  THEN [conn[c] EXCEPT !.revents = Revents(conn[c])]
                                  ELSE conn[c]]
      /\ lpc' = [lpc EXCEPT ![l] = "dispatch"]
      /\ UNCHANGED <<connections, removals, loopOf, todo, ctx, queues, forces, upc>>
  BY DEF Poll, server, user
<1>2. ASSUME NEW c \in Conns
      PROVE  conn'[c] = conn[c] \/ Keeps(conn[c], conn'[c])
  <2> DEFINE r == [conn[c] EXCEPT !.revents = Revents(conn[c])]
             ev == Revents(conn[c])
  <2>0. conn'[c] = r \/ conn'[c] = conn[c]
    BY <1>1
  <2>1. IsConnection(conn[c]) /\ DOMAIN conn[c] = Fields
    BY AliveOf, AliveFields
  <2>2. ev \subseteq {"IN", "OUT", "HUP", "ERR"}
    BY DEF Revents
  <2>3. r = [conn[c] EXCEPT !.revents = ev]
    OBVIOUS
  <2> HIDE DEF ev
  <2>4. /\ Same(conn[c], r, {"revents", "peer", "input", "sndFull"})
        /\ r.revents = ev /\ r.peer = conn[c].peer /\ r.input = conn[c].input
        /\ r.sndFull = conn[c].sndFull
    BY <2>1, <2>3 DEF Same, Fields
  <2> HIDE DEF r
  <2>5. Keeps(conn[c], r)
    BY <2>1, <2>2, <2>4, SocketKeeps DEF IsConnection
  <2> QED BY <2>0, <2>5
<1>3. \A c \in b \ {Listener} : Stages[c] = "established" /\ loopOf[c] = l
  <2>1. ASSUME NEW c \in b \ {Listener}
        PROVE  Stages[c] = "established" /\ loopOf[c] = l
    <3>1. c \in Conns /\ loopOf[c] = l /\ conn[c].index = "kAdded"
      BY DEF ReadyConns, ReadyListener, Revents
    <3>2. Alive(conn[c], c \in connections, removals[c])
          /\ Stages[c] = Stage(conn[c], c \in connections)
      BY <3>1, AliveOf
    <3>3. StageOK(conn[c], c \in connections, removals[c])
      BY <3>2 DEF Alive
    <3>4. Stage(conn[c], c \in connections)
            \in {"unborn", "connecting", "established", "closed", "removed", "destroyed"}
      BY DEF Stage
    <3>5. Stage(conn[c], c \in connections) = "established"
      BY <3>1, <3>3, <3>4 DEF StageOK
    <3> QED BY <3>1, <3>2, <3>5
  <2> QED BY <2>1
<1> HIDE DEF b
<1>4. LoopOK(l, Stages, loopOf, "dispatch", b, todo[l], ctx[l], Forced(pending[l]))
  <2>1. LoopOK(l, Stages, loopOf, "poll", active[l], todo[l], ctx[l], Forced(pending[l]))
    BY <1>1, LoopOf
  <2> QED BY <2>1, <1>3, LoopPolls
<1>5. lpc'[l] = "dispatch" /\ active'[l] = b
  BY <1>1, Basics
<1>6. \A k \in Loops : k # l => lpc'[k] = lpc[k] /\ active'[k] = active[k] /\ todo'[k] = todo[k]
                                /\ ctx'[k] = ctx[k]
  BY <1>1, Basics
<1>7. LoopOK(l, Stages, loopOf, lpc'[l], active'[l], todo'[l], ctx'[l], Forced(pending[l]))
  BY <1>1, <1>4, <1>5
<1> QED BY <1>1, <1>2, <1>6, <1>7, LoopLife

\* handleEvent
LEMMA EventLife ==
    ASSUME LifeInv, NEW l \in Loops, NEW c \in Conns, HandleEvent(l, c)
    PROVE  Life'
<1> DEFINE ev == conn[c].revents
           td == [i \in DOMAIN HandlersOf(ev) |-> <<HandlersOf(ev)[i], c>>]
           r == [conn[c] EXCEPT !.revents = {}]
<1>1. /\ c \in active[l] /\ todo[l] = << >> /\ ctx[l] = << >>
      /\ active' = [active EXCEPT ![l] = @ \ {c}]
      /\ todo' = [todo EXCEPT ![l] = td] /\ conn' = [conn EXCEPT ![c] = r]
      /\ UNCHANGED <<connections, removals, loopOf, lpc, ctx, queues, forces, upc>>
  BY DEF HandleEvent, Free, server, user
<1>2. IsConnection(conn[c]) /\ DOMAIN conn[c] = Fields
  BY AliveOf, AliveFields
<1>3. Keeps(conn[c], r)
  <2>1. /\ Same(conn[c], r, {"revents", "peer", "input", "sndFull"})
        /\ r.revents = {} /\ r.peer = conn[c].peer /\ r.input = conn[c].input
        /\ r.sndFull = conn[c].sndFull
    BY <1>2 DEF Same, Fields
  <2> HIDE DEF r
  <2> QED BY <1>2, <2>1, SocketKeeps DEF IsConnection
<1> HIDE DEF r
<1>4. \A d \in Conns : conn'[d] = conn[d] \/ Keeps(conn[d], conn'[d])
  BY <1>1, <1>3, OneKeeps
<1>5. LoopOK(l, Stages, loopOf, lpc[l], active[l], << >>, << >>, Forced(pending[l]))
  BY <1>1, LoopOf
<1>6. c # Listener
  BY ServerAssumption
<1>7. LoopOK(l, Stages, loopOf, lpc[l], active[l] \ {c}, td, << >>, Forced(pending[l]))
  <2> HIDE DEF ev
  <2> QED BY <1>1, <1>5, <1>6, LoopEvent
<1> HIDE DEF td
<1>8. active'[l] = active[l] \ {c} /\ todo'[l] = td
  BY <1>1, Basics
<1>9. \A k \in Loops : k # l => active'[k] = active[k] /\ todo'[k] = todo[k]
  BY <1>1, Basics
<1>10. LoopOK(l, Stages, loopOf, lpc'[l], active'[l], todo'[l], ctx'[l], Forced(pending[l]))
  BY <1>1, <1>7, <1>8
<1> QED BY <1>1, <1>4, <1>9, <1>10, LoopLife

\* A turn of the loop ends, a callback returns, accept finds nothing more
LEMMA TurnLife ==
    ASSUME LifeInv, NEW l \in Loops,
           FunctorsDone(l) \/ CallbackReturns(l) \/ (l = Base /\ AcceptDone)
    PROVE  Life'
<1>1. /\ UNCHANGED <<conn, connections, removals, loopOf, todo, queues, forces, upc>>
  BY DEF FunctorsDone, CallbackReturns, AcceptDone, server, user
<1>2. LoopOK(l, Stages, loopOf, lpc[l], active[l], todo[l], ctx[l], Forced(pending[l]))
  BY LoopOf
<1>3. CASE FunctorsDone(l)
  <2>1. /\ lpc[l] = "run" /\ todo[l] = << >> /\ ctx[l] = << >>
        /\ lpc' = [lpc EXCEPT ![l] = "poll"] /\ UNCHANGED <<active, ctx>>
    BY <1>3 DEF FunctorsDone, Free
  <2>2. active[l] = {} /\ Forced(pending[l]) = {}
    BY <1>2, <2>1, LoopRunning
  <2>3. LoopOK(l, Stages, loopOf, "poll", {}, << >>, << >>, {})
    BY LoopIdle
  <2>4. lpc'[l] = "poll" /\ \A k \in Loops : k # l => lpc'[k] = lpc[k]
    BY <2>1, Basics
  <2>5. LoopOK(l, Stages, loopOf, lpc'[l], active'[l], todo'[l], ctx'[l], Forced(pending[l]))
    BY <1>1, <2>1, <2>2, <2>3, <2>4
  <2> QED BY <1>1, <2>1, <2>4, <2>5, LoopLife
<1>4. CASE CallbackReturns(l)
  <2>1. ctx' = [ctx EXCEPT ![l] = << >>] /\ UNCHANGED <<lpc, active>>
    BY <1>4 DEF CallbackReturns
  <2>2. LoopOK(l, Stages, loopOf, lpc[l], active[l], todo[l], << >>, Forced(pending[l]))
    BY <1>2, LoopReturns
  <2>3. ctx'[l] = << >> /\ \A k \in Loops : k # l => ctx'[k] = ctx[k]
    BY <2>1, Basics
  <2>4. LoopOK(l, Stages, loopOf, lpc'[l], active'[l], todo'[l], ctx'[l], Forced(pending[l]))
    BY <1>1, <2>1, <2>2, <2>3
  <2> QED BY <1>1, <2>1, <2>3, <2>4, LoopLife
<1>5. CASE l = Base /\ AcceptDone
  <2>1. active' = [active EXCEPT ![l] = @ \ {Listener}] /\ UNCHANGED <<lpc, ctx>>
    BY <1>5 DEF AcceptDone
  <2>2. active'[l] \subseteq active[l] /\ \A k \in Loops : k # l => active'[k] = active[k]
    BY <2>1, Basics
  <2>3. LoopOK(l, Stages, loopOf, lpc[l], active'[l], todo[l], ctx[l], Forced(pending[l]))
    BY <1>2, <2>2, LoopAccepted
  <2>4. LoopOK(l, Stages, loopOf, lpc'[l], active'[l], todo'[l], ctx'[l], Forced(pending[l]))
    BY <1>1, <2>1, <2>3
  <2> QED BY <1>1, <2>1, <2>2, <2>4, LoopLife
<1> QED BY <1>3, <1>4, <1>5

\* doPendingFunctors up to the swap: all events have been handled, so that a forced
\* close finds no callback waiting.
LEMMA TakeLife ==
    ASSUME LifeInv, NEW l \in Loops, TakeFunctors(l)
    PROVE  Life'
<1>1. /\ lpc[l] = "dispatch" /\ active[l] = {} /\ todo[l] = << >> /\ ctx[l] = << >>
      /\ batch' = [batch EXCEPT ![l] = pending[l]]
      /\ pending' = [pending EXCEPT ![l] = << >>]
      /\ lpc' = [lpc EXCEPT ![l] = "run"]
      /\ UNCHANGED <<conn, connections, removals, loopOf, active, todo, ctx, forces, upc>>
  BY DEF TakeFunctors, Free, server, user
<1>2. batch[l] = << >>
  BY <1>1 DEF LifeInv, PhaseType
<1>3. Ahead(pending', batch') = Ahead(pending, batch)
  BY <1>1, <1>2, Basics, AheadTake
<1>4. QueuesOK(Stages, loopOf, Ahead(pending', batch'), forces') /\ CallsShutDown(Stages, upc')
  BY <1>1, <1>3 DEF LifeInv
<1>5. /\ lpc'[l] = "run" /\ pending'[l] = << >>
      /\ \A k \in Loops : k # l => lpc'[k] = lpc[k] /\ pending'[k] = pending[k]
  BY <1>1, Basics DEF Queues
<1>6. Forced(<< >>) = {}
  BY ForcedOne
<1>7. LoopOK(l, Stages, loopOf, "run", {}, << >>, << >>, {})
  BY LoopIdle
<1>8. LoopOK(l, Stages, loopOf, lpc'[l], active'[l], todo'[l], ctx'[l], Forced(pending'[l]))
  BY <1>1, <1>5, <1>6, <1>7
<1>9. \A k \in Loops : LoopOK(k, Stages, loopOf, lpc'[k], active'[k], todo'[k], ctx'[k],
                              Forced(pending'[k]))
  BY <1>1, <1>5, <1>8, OneLoop
<1> QED BY <1>1, <1>4, <1>9, QuietLife

\* Functors are queued that leave the stage alone.
LEMMA QuietGets ==
    ASSUME LifeInv, NEW l \in Loops, NEW fs \in Seq(Functors),
           \A j \in 1..Len(fs) : fs[j].op \in QuietOps, pending' = Gets(pending, l, fs)
    PROVE  /\ QueuesOK(Stages, loopOf, Ahead(pending', batch), forces)
           /\ \A k \in Loops : Forced(pending'[k]) \subseteq Forced(pending[k])
<1>1. Ahead(pending', batch) = Gets(Ahead(pending, batch), l, fs)
  BY Basics, AheadGets
<1>2. QueuesOK(Stages, loopOf, Gets(Ahead(pending, batch), l, fs), forces)
  <2>1. Ahead(pending, batch) \in Queues /\ QueuesOK(Stages, loopOf, Ahead(pending, batch), forces)
    BY Basics DEF LifeInv
  <2> QED BY <2>1, QueuesGet
<1>3. ASSUME NEW k \in Loops
      PROVE  Forced(pending'[k]) \subseteq Forced(pending[k])
  <2>1. pending[k] \in Seq(Functors) /\ pending \in Queues
    BY Basics DEF Queues
  <2>2. CASE k = l
    <3>1. pending'[k] = pending[k] \o fs
      BY <2>1, <2>2 DEF Gets, Queues
    <3>2. Forced(fs) = {}
      BY ForcedNone DEF QuietOps
    <3> QED BY <2>1, <3>1, <3>2, ForcedGets
  <2>3. CASE k # l
    BY <2>1, <2>3 DEF Gets, Queues
  <2> QED BY <2>2, <2>3
<1> QED BY <1>1, <1>2, <1>3

\* The functors of sendInLoop and handleWrite
LEMMA QuietFunctor ==
    ASSUME NEW op \in QuietOps, NEW c \in Conns
    PROVE  /\ <<Functor(op, c)>> \in Seq(Functors)
           /\ \A j \in 1..Len(<<Functor(op, c)>>) : <<Functor(op, c)>>[j].op \in QuietOps
<1>1. op \in FunctorOps
  BY DEF QuietOps, FunctorOps
<1>2. Functor(op, c) \in Functors /\ Functor(op, c).op = op
  BY <1>1, FunctorType
<1> QED BY <1>2

LEMMA QuietNone ==
    /\ << >> \in Seq(Functors)
    /\ \A j \in 1..Len(<< >>) : << >>[j].op \in QuietOps
OBVIOUS

LEMMA SendFunctors ==
    ASSUME NEW r, NEW n, NEW c \in Conns
    PROVE  LET fs == [i \in DOMAIN SendQueues(r, n) |-> Functor(SendQueues(r, n)[i], c)]
           IN  fs \in Seq(Functors) /\ \A j \in 1..Len(fs) : fs[j].op \in QuietOps
<1> DEFINE sq == SendQueues(r, n)
           fs == [i \in DOMAIN sq |-> Functor(sq[i], c)]
<1>1. sq \in {<<"writeComplete">>, <<"highWaterMark">>, << >>}
  BY DEF SendQueues
<1> HIDE DEF sq
<1>2. ASSUME NEW op \in QuietOps, sq = <<op>>
      PROVE  fs = <<Functor(op, c)>>
  BY <1>2
<1>3. sq = << >> => fs = << >>
  OBVIOUS
<1> HIDE DEF fs
<1>4. "writeComplete" \in QuietOps /\ "highWaterMark" \in QuietOps
  BY DEF QuietOps
<1>5. fs \in Seq(Functors) /\ \A j \in 1..Len(fs) : fs[j].op \in QuietOps
  <2>1. CASE sq = <<"writeComplete">>
    <3>1. fs = <<Functor("writeComplete", c)>>
      BY <2>1, <1>2, <1>4
    <3> QED BY <3>1, <1>4, QuietFunctor
  <2>2. CASE sq = <<"highWaterMark">>
    <3>1. fs = <<Functor("highWaterMark", c)>>
      BY <2>2, <1>2, <1>4
    <3> QED BY <3>1, <1>4, QuietFunctor
  <2>3. CASE sq = << >>
    BY <2>3, <1>3, QuietNone
  <2> QED BY <1>1, <2>1, <2>2, <2>3
<1> QED BY <1>5 DEF fs, sq

\* The stage in which a connection reads
LEMMA Reading ==
    ASSUME LifeInv, NEW c \in Conns, Stages[c] = "established"
    PROVE  "r" \in conn[c].events
BY AliveOf DEF Alive, StageOK

\* sendInLoop of an established connection
LEMMA SendLife ==
    ASSUME LifeInv, NEW l \in Loops, NEW c \in Conns, Stages[c] = "established", NEW m,
           SendInLoop(l, c, m),
           UNCHANGED <<connections, removals, loopOf, inLoop, batch, forces, upc>>
    PROVE  Life'
<1> DEFINE fs(n) == [i \in DOMAIN SendQueues(conn[c], n) |->
                       Functor(SendQueues(conn[c], n)[i], c)]
<1>1. PICK n \in SendSizes(conn[c], m) :
        /\ conn' = [conn EXCEPT ![c] = AfterSend(conn[c], m, n)]
        /\ pending' = Gets(pending, l, fs(n))
  BY DEF SendInLoop, Queue, Gets
<1>2. fs(n) \in Seq(Functors) /\ \A j \in 1..Len(fs(n)) : fs(n)[j].op \in QuietOps
  BY SendFunctors
<1> HIDE DEF fs
<1>3. Keeps(conn[c], AfterSend(conn[c], m, n))
  BY AliveOf, Reading, SendKeeps
<1>4. \A d \in Conns : conn'[d] = conn[d] \/ Keeps(conn[d], conn'[d])
  BY <1>1, <1>3, OneKeeps
<1>5. /\ QueuesOK(Stages, loopOf, Ahead(pending', batch), forces)
      /\ \A k \in Loops : Forced(pending'[k]) \subseteq Forced(pending[k])
  BY <1>1, <1>2, QuietGets
<1>6. QueuesOK(Stages, loopOf, Ahead(pending', batch'), forces') /\ CallsShutDown(Stages, upc')
  BY <1>5 DEF LifeInv
<1>7. UNCHANGED <<lpc, active, todo, ctx>>
  BY DEF inLoop
<1>8. ASSUME NEW k \in Loops
      PROVE  LoopOK(k, Stages, loopOf, lpc'[k], active'[k], todo'[k], ctx'[k], Forced(pending'[k]))
  <2>1. LoopOK(k, Stages, loopOf, lpc[k], active[k], todo[k], ctx[k], Forced(pending'[k]))
    BY <1>5, LoopOf, LoopForced
  <2> QED BY <2>1, <1>7
<1> QED BY <1>4, <1>6, <1>8, QuietLife

\* What holds when a callback of the event is called
LEMMA HandlerFacts ==
    ASSUME LifeInv, NEW l \in Loops, NEW h, NEW c \in Conns, NextHandler(l, h, c)
    PROVE  /\ LoopOK(l, Stages, loopOf, lpc[l], active[l], Tail(todo[l]), << >>,
                     Forced(pending[l]))
           /\ loopOf[c] = l /\ c \notin active[l] /\ Stages[c] \in Open /\ lpc[l] = "dispatch"
           /\ h \in Closing => /\ Stages[c] = "established" /\ c \notin Forced(pending[l])
                               /\ NoClosing(Tail(todo[l]), c)
           /\ ctx[l] = << >> /\ todo[l] # << >> /\ todo'[l] = Tail(todo[l])
           /\ \A k \in Loops : k # l => todo'[k] = todo[k]
           /\ UNCHANGED <<loopOf, lpc, active, batch, forces, upc>>
<1>1. /\ todo[l] # << >> /\ ctx[l] = << >> /\ Head(todo[l]) = <<h, c>>
      /\ todo' = [todo EXCEPT ![l] = Tail(@)]
      /\ UNCHANGED <<loopOf, lpc, active, batch, forces, upc>>
  BY DEF NextHandler, user
<1>2. todo[l] \in Seq(Handlers)
  BY Basics
<1>3. LoopOK(l, Stages, loopOf, lpc[l], active[l], todo[l], << >>, Forced(pending[l]))
  BY <1>1, LoopOf
<1>4. todo'[l] = Tail(todo[l]) /\ \A k \in Loops : k # l => todo'[k] = todo[k]
  BY <1>1, Basics
<1> DEFINE td == todo[l]
<1>5. td \in Seq(Handlers) /\ td # << >> /\ Head(td) = <<h, c>>
      /\ LoopOK(l, Stages, loopOf, lpc[l], active[l], td, << >>, Forced(pending[l]))
  BY <1>1, <1>2, <1>3
<1> HIDE DEF td
<1>6. /\ LoopOK(l, Stages, loopOf, lpc[l], active[l], Tail(td), << >>, Forced(pending[l]))
      /\ loopOf[c] = l /\ c \notin active[l] /\ Stages[c] \in Open /\ lpc[l] = "dispatch"
      /\ h \in Closing => /\ Stages[c] = "established" /\ c \notin Forced(pending[l])
                          /\ NoClosing(Tail(td), c)
  BY <1>5, LoopHandler
<1> QED BY <1>1, <1>4, <1>6 DEF td

\* Callbacks that do not close the connection
LEMMA HandlerLife ==
    ASSUME LifeInv, NEW l \in Loops, NEW c \in Conns,
           \/ HandleSocketError(l, c) \/ HandleReadMessage(l, c) \/ HandleReadError(l, c)
           \/ HandleWrite(l, c)
    PROVE  Life'
<1>1. IsConnection(conn[c]) /\ DOMAIN conn[c] = Fields
  BY AliveOf, AliveFields
<1>2. UNCHANGED <<connections, removals>>
  BY DEF HandleSocketError, HandleReadMessage, HandleReadError, HandleWrite
<1>3. CASE HandleSocketError(l, c) \/ HandleReadError(l, c)
  <2>1. PICK h : NextHandler(l, h, c)
    BY <1>3 DEF HandleSocketError, HandleReadError
  <2>2. conn' = [conn EXCEPT ![c] = HandleError(conn[c])] /\ UNCHANGED <<ctx, pending>>
    BY <1>3 DEF HandleSocketError, HandleReadError
  <2>3. \A d \in Conns : conn'[d] = conn[d] \/ Keeps(conn[d], conn'[d])
    BY <2>2, <1>1, ErrorKeeps, OneKeeps
  <2>4. /\ LoopOK(l, Stages, loopOf, lpc[l], active[l], Tail(todo[l]), << >>, Forced(pending[l]))
        /\ ctx[l] = << >> /\ todo'[l] = Tail(todo[l])
        /\ \A k \in Loops : k # l => todo'[k] = todo[k]
        /\ UNCHANGED <<loopOf, lpc, active, batch, forces, upc>>
    BY <2>1, HandlerFacts
  <2>5. LoopOK(l, Stages, loopOf, lpc'[l], active'[l], todo'[l], ctx'[l], Forced(pending[l]))
    BY <2>2, <2>4
  <2> QED BY <1>2, <2>2, <2>3, <2>4, <2>5, LoopLife DEF queues
<1>4. CASE HandleReadMessage(l, c)
  <2> DEFINE r == [conn[c] EXCEPT !.input = 0]
  <2>1. /\ NextHandler(l, "read", c) /\ conn' = [conn EXCEPT ![c] = r]
        /\ ctx' = [ctx EXCEPT ![l] = <<"message", c>>] /\ UNCHANGED pending
    BY <1>4 DEF HandleReadMessage
  <2>2. Keeps(conn[c], r)
    <3>1. /\ Same(conn[c], r, {"revents", "peer", "input", "sndFull"})
          /\ r.revents = conn[c].revents /\ r.peer = conn[c].peer /\ r.input = 0
          /\ r.sndFull = conn[c].sndFull
      BY <1>1 DEF Same, Fields
    <3> HIDE DEF r
    <3> QED BY <1>1, <3>1, SocketKeeps DEF IsConnection
  <2> HIDE DEF r
  <2>3. \A d \in Conns : conn'[d] = conn[d] \/ Keeps(conn[d], conn'[d])
    BY <2>1, <2>2, OneKeeps
  <2>4. "read" \in Closing
    BY DEF Closing
  <2>5. /\ LoopOK(l, Stages, loopOf, lpc[l], active[l], Tail(todo[l]), << >>, Forced(pending[l]))
        /\ loopOf[c] = l /\ c \notin active[l] /\ lpc[l] = "dispatch"
        /\ Stages[c] = "established" /\ NoClosing(Tail(todo[l]), c)
        /\ todo'[l] = Tail(todo[l])
        /\ \A k \in Loops : k # l => todo'[k] = todo[k]
        /\ UNCHANGED <<loopOf, lpc, active, batch, forces, upc>>
    BY <2>1, <2>4, HandlerFacts
  <2>6. LoopOK(l, Stages, loopOf, "dispatch", active[l], Tail(todo[l]), <<"message", c>>,
               Forced(pending[l]))
    BY <2>5, LoopMessage
  <2>7. ctx'[l] = <<"message", c>> /\ \A k \in Loops : k # l => ctx'[k] = ctx[k]
    BY <2>1, Basics
  <2>8. LoopOK(l, Stages, loopOf, lpc'[l], active'[l], todo'[l], ctx'[l], Forced(pending[l]))
    BY <2>5, <2>6, <2>7
  <2> QED BY <1>2, <2>1, <2>3, <2>5, <2>7, <2>8, LoopLife DEF queues
<1>5. CASE HandleWrite(l, c)
  <2>1. NextHandler(l, "write", c) /\ UNCHANGED ctx
    BY <1>5 DEF HandleWrite
  <2> DEFINE sent(n) == n > 0 /\ IsWriting(conn[c])
             fs(n) == IF sent(n) /\ n = Len(conn[c].out)
                      THEN <<Functor("writeComplete", c)>> ELSE << >>
  <2>2. PICK n \in WriteSizes(conn[c], conn[c].out) :
          /\ conn' = IF sent(n) THEN [conn EXCEPT ![c] = AfterWrite(conn[c], n)] ELSE conn
          /\ pending' = Gets(pending, l, fs(n))
    BY <1>5 DEF HandleWrite, Queue, Gets
  <2>3. fs(n) \in Seq(Functors) /\ \A j \in 1..Len(fs(n)) : fs(n)[j].op \in QuietOps
    <3>1. "writeComplete" \in QuietOps
      BY DEF QuietOps
    <3>2. fs(n) = <<Functor("writeComplete", c)>> \/ fs(n) = << >>
      OBVIOUS
    <3> HIDE DEF fs
    <3> QED BY <3>1, <3>2, QuietFunctor, QuietNone
  <2> HIDE DEF fs
  <2>4. /\ LoopOK(l, Stages, loopOf, lpc[l], active[l], Tail(todo[l]), << >>, Forced(pending[l]))
        /\ ctx[l] = << >> /\ todo'[l] = Tail(todo[l]) /\ Stages[c] \in Open
        /\ \A k \in Loops : k # l => todo'[k] = todo[k]
        /\ UNCHANGED <<loopOf, lpc, active, batch, forces, upc>>
    BY <2>1, HandlerFacts
  <2>5. IsWriting(conn[c]) => Stages[c] = "established"
    BY <2>4, AliveOf DEF Alive, StageOK, IsWriting, Open
  <2>6. \A d \in Conns : conn'[d] = conn[d] \/ Keeps(conn[d], conn'[d])
    <3>1. CASE sent(n)
      <4>1. Keeps(conn[c], AfterWrite(conn[c], n))
        BY <3>1, <2>5, <1>1, Reading, AfterWriteKeeps
      <4> QED BY <4>1, <3>1, <2>2, OneKeeps
    <3>2. CASE ~sent(n)
      BY <3>2, <2>2
    <3> QED BY <3>1, <3>2
  <2>7. /\ QueuesOK(Stages, loopOf, Ahead(pending', batch), forces)
        /\ \A k \in Loops : Forced(pending'[k]) \subseteq Forced(pending[k])
    BY <2>2, <2>3, QuietGets
  <2>8. QueuesOK(Stages, loopOf, Ahead(pending', batch'), forces') /\ CallsShutDown(Stages, upc')
    BY <2>4, <2>7 DEF LifeInv
  <2>9. LoopOK(l, Stages, loopOf, lpc'[l], active'[l], todo'[l], ctx'[l], Forced(pending'[l]))
    <3>1. LoopOK(l, Stages, loopOf, lpc[l], active[l], Tail(todo[l]), << >>, Forced(pending'[l]))
      BY <2>4, <2>7, LoopForced
    <3> QED BY <3>1, <2>1, <2>4
  <2>10. \A k \in Loops : LoopOK(k, Stages, loopOf, lpc'[k], active'[k], todo'[k], ctx'[k],
                                 Forced(pending'[k]))
    BY <2>1, <2>4, <2>7, <2>9, OneLoop
  <2> QED BY <1>2, <2>4, <2>6, <2>8, <2>10, QuietLife
<1> QED BY <1>3, <1>4, <1>5

\* What holds when a functor is run
LEMMA FunctorFacts ==
    ASSUME LifeInv, NEW l \in Loops, NEW op, NEW c, NEW m, NextFunctor(l, op, c, m)
    PROVE  /\ lpc[l] = "run" /\ active[l] = {} /\ todo[l] = << >> /\ ctx[l] = << >>
           /\ Forced(pending[l]) = {}
           /\ UNCHANGED <<loopOf, lpc, active, todo, upc, forces>>
           /\ batch' \in Queues /\ Ahead(pending, batch') = Runs(Ahead(pending, batch), l)
           /\ Ahead(pending, batch)[l] # << >> /\ Ahead(pending, batch') \in Queues
           /\ Head(Ahead(pending, batch)[l]).op = op /\ Head(Ahead(pending, batch)[l]).c = c
<1>1. /\ lpc[l] = "run" /\ todo[l] = << >> /\ ctx[l] = << >> /\ batch[l] # << >>
      /\ Head(batch[l]) = [op |-> op, c |-> c, m |-> m] /\ batch' = Runs(batch, l)
      /\ UNCHANGED <<loopOf, lpc, active, todo, upc, forces>>
  BY DEF NextFunctor, Free, Runs
<1>2. LoopOK(l, Stages, loopOf, "run", active[l], todo[l], ctx[l], Forced(pending[l]))
  BY <1>1, LoopOf
<1>3. active[l] = {} /\ Forced(pending[l]) = {}
  BY <1>2, LoopRunning
<1>4. /\ batch' \in Queues /\ Ahead(pending, batch') = Runs(Ahead(pending, batch), l)
      /\ Ahead(pending, batch)[l] # << >> /\ Head(Ahead(pending, batch)[l]) = Head(batch[l])
  BY <1>1, Basics, AheadRuns
<1>5. Ahead(pending, batch') \in Queues
  BY <1>4, Basics, AheadType
<1>6. Head(batch[l]).op = op /\ Head(batch[l]).c = c
  BY <1>1
<1> QED BY <1>1, <1>3, <1>4, <1>5, <1>6

\* Functors that leave the stage alone; sendInLoop is not among them
LEMMA QuietFunctorLife ==
    ASSUME LifeInv, NEW l \in Loops, NEW c \in Conns,
           \/ RunShutdown(l, c) \/ RunWriteComplete(l, c) \/ RunHighWaterMark(l, c)
           \/ \E m \in Msgs : RunSend(l, c, m)
    PROVE  Life'
<1>1. PICK op \in QuietOps \cup {"sendInLoop"}, m \in Msgs \cup {None} : NextFunctor(l, op, c, m)
  BY DEF RunShutdown, RunWriteComplete, RunHighWaterMark, RunSend, QuietOps
<1>2. /\ lpc[l] = "run" /\ active[l] = {} /\ todo[l] = << >> /\ ctx[l] = << >>
      /\ Forced(pending[l]) = {}
      /\ UNCHANGED <<loopOf, lpc, active, todo, upc, forces>>
      /\ Ahead(pending, batch') = Runs(Ahead(pending, batch), l)
      /\ Ahead(pending, batch)[l] # << >> /\ Ahead(pending, batch) \in Queues
      /\ Head(Ahead(pending, batch)[l]).op = op
  BY <1>1, Basics, FunctorFacts
<1>3. QueuesOK(Stages, loopOf, Ahead(pending, batch), forces)
  BY DEF LifeInv
<1>4. op # "sendInLoop"
  BY <1>2, <1>3, RunsNoOp DEF QueuesOK
<1>5. op \notin KeyOps
  BY <1>1, <1>4 DEF QuietOps, KeyOps
<1>6. QueuesOK(Stages, loopOf, Ahead(pending, batch'), forces)
  BY <1>2, <1>3, <1>5, QueuesRun
<1>7. ~ \E k \in Msgs : RunSend(l, c, k)
  <2>1. ASSUME NEW k \in Msgs, RunSend(l, c, k)
        PROVE  FALSE
    <3>1. NextFunctor(l, "sendInLoop", c, k)
      BY <2>1 DEF RunSend
    <3>2. Head(Ahead(pending, batch)[l]).op = "sendInLoop"
      BY <3>1, FunctorFacts
    <3> QED BY <3>2, <1>2, <1>4
  <2> QED BY <2>1
<1>8. UNCHANGED <<connections, removals, pending>>
  BY <1>7 DEF RunShutdown, RunWriteComplete, RunHighWaterMark
<1>9. \A d \in Conns : conn'[d] = conn[d] \/ Keeps(conn[d], conn'[d])
  <2>1. CASE RunShutdown(l, c)
    <3>1. conn' = [conn EXCEPT ![c] = ShutdownInLoop(conn[c])]
      BY <2>1 DEF RunShutdown
    <3> QED BY <3>1, AliveOf, ShutdownKeeps, OneKeeps
  <2>2. CASE RunWriteComplete(l, c) \/ RunHighWaterMark(l, c)
    BY <2>2 DEF RunWriteComplete, RunHighWaterMark
  <2> QED BY <2>1, <2>2, <1>7
<1>10. ctx' = ctx \/ ctx' = [ctx EXCEPT ![l] = <<"writeComplete", c>>]
  BY <1>7 DEF RunShutdown, RunWriteComplete, RunHighWaterMark
<1>11. /\ ctx'[l] = << >> \/ ctx'[l] = <<"writeComplete", c>>
       /\ \A k \in Loops : k # l => ctx'[k] = ctx[k]
  BY <1>2, <1>10, Basics
<1>12. LoopOK(l, Stages, loopOf, "run", {}, << >>, ctx'[l], {})
  BY <1>11, LoopRuns
<1>13. LoopOK(l, Stages, loopOf, lpc'[l], active'[l], todo'[l], ctx'[l], Forced(pending'[l]))
  BY <1>2, <1>8, <1>12
<1>14. \A k \in Loops : LoopOK(k, Stages, loopOf, lpc'[k], active'[k], todo'[k], ctx'[k],
                               Forced(pending'[k]))
  BY <1>2, <1>8, <1>11, <1>13, OneLoop
<1>15. QueuesOK(Stages, loopOf, Ahead(pending', batch'), forces') /\ CallsShutDown(Stages, upc')
  BY <1>2, <1>6, <1>8 DEF LifeInv
<1> QED BY <1>2, <1>8, <1>9, <1>14, <1>15, QuietLife

-----------------------------------------------------------------------------
(* Calls *)

\* What holds when a callback calls op
LEMMA CallbackFacts ==
    ASSUME LifeInv, Limits, NEW l \in Loops, NEW c \in Conns, NEW op, InCallback(l, c, op)
    PROVE  /\ ctx[l] # << >> /\ ctx[l][2] = c
           /\ op \in {"send", "forceClose"} => Stages[c] = "established"
           /\ op = "forceClose" => /\ ctx[l][1] = "message" /\ loopOf[c] = l
                                   /\ "forceClose" \in MessageOps
           /\ conn[c].state \notin {"none", "kConnecting"}
           /\ UNCHANGED <<connections, removals, loopOf, inLoop, batch, upc>>
<1>1. /\ ctx[l] # << >> /\ ctx[l][2] = c /\ op \in OpsOf(ctx[l][1])
      /\ StateAllows(op, conn[c].state)
      /\ UNCHANGED <<connections, removals, loopOf, inLoop, batch, upc>>
  BY DEF InCallback, server
<1> DEFINE kind == ctx[l][1]
<1>2. kind \in {"connection", "message", "writeComplete"}
  BY <1>1, Basics
<1>3. LoopOK(l, Stages, loopOf, lpc[l], active[l], todo[l], ctx[l], Forced(pending[l]))
  BY LoopOf
<1>4. kind \in {"connection", "message"} => Stages[c] = "established" /\ loopOf[c] = l
  BY <1>1, <1>3 DEF LoopOK
<1> HIDE DEF kind
<1>5. op \in OpsOf(kind)
  BY <1>1 DEF kind
<1>6. op = "send" => kind \in {"connection", "message"}
  BY <1>2, <1>5 DEF OpsOf, Limits
<1>7. op = "forceClose" => kind = "message" /\ op \in MessageOps
  BY <1>2, <1>5 DEF OpsOf, Limits
<1>8. conn[c].state \notin {"none", "kConnecting"}
  BY <1>1 DEF StateAllows
<1> QED BY <1>1, <1>4, <1>6, <1>7, <1>8 DEF kind

\* While a loop handles events, what would close a connection of it waits in
\* pendingFunctors_.
LEMMA NoForcedClose ==
    ASSUME LifeInv, NEW c \in Conns, NEW l \in Loops, l = loopOf[c], lpc[l] = "dispatch",
           Stages[c] = "established", c \notin Forced(pending[l])
    PROVE  Cleared(Stages, loopOf, Ahead(pending, batch), c, forces)
<1> DEFINE q == Ahead(pending, batch)
<1>1. QueuesOK(Stages, loopOf, q, forces) /\ q \in Queues
  BY Basics DEF LifeInv
<1>2. q[l] = pending[l]
  <2>1. batch[l] = << >>
    BY DEF LifeInv, PhaseType
  <2>2. pending[l] \in Seq(Functors) /\ q[l] = batch[l] \o pending[l]
    BY Basics DEF Queues, Ahead
  <2> QED BY <2>1, <2>2, ConcatEmptySeq
<1> HIDE DEF q
<1>3. ASSUME NEW k \in Loops, NEW i \in 1..Len(q[k]), IsKey(q[k][i], c)
      PROVE  FALSE
  <2>1. KeysPlaced(q, c, Stages[c], loopOf[c])
    BY <1>1 DEF QueuesOK, KeysOK
  <2>2. "established" = KeyStage(q[k][i].op) /\ k = KeyLoop(q[k][i].op, loopOf[c])
    BY <1>3, <2>1 DEF KeysPlaced
  <2>3. q[k][i].op = "forceCloseInLoop" /\ q[k][i].c = c
    BY <1>3, <2>2 DEF IsKey, KeyOps, KeyStage
  <2>4. k = l
    BY <2>2, <2>3 DEF KeyLoop
  <2>5. c \in Forced(q[l])
    BY <1>3, <2>3, <2>4 DEF Forced
  <2> QED BY <2>5, <1>2
<1>4. NoKey(q, c)
  BY <1>3 DEF NoKey
<1>5. Cleared(Stages, loopOf, q, c, forces)
  BY <1>1, <1>4, ClearedStage
<1> QED BY <1>5 DEF q

LEMMA CallLife ==
    ASSUME LifeInv, Limits, ClosesOnce, NEW l \in Loops, CallStep(l)
    PROVE  Life'
<1>1. PICK c \in Conns :
        \/ CallShutdown(l, c) \/ CallForceClose(l, c) \/ \E m \in Msgs : CallSend(l, c, m)
  BY DEF CallStep
<1>2. CASE CallShutdown(l, c)
  <2> DEFINE r == [conn[c] EXCEPT !.state = "kDisconnecting"]
  <2>1. /\ InCallback(l, c, "shutdown") /\ conn' = [conn EXCEPT ![c] = ShutdownInLoop(r)]
        /\ UNCHANGED <<pending, forces>>
    BY <1>2 DEF CallShutdown
  <2>2. /\ conn[c].state \notin {"none", "kConnecting"}
        /\ UNCHANGED <<connections, removals, loopOf, inLoop, batch, upc>>
    BY <2>1, CallbackFacts
  <2>3. Keeps(conn[c], r)
    BY <2>2, AliveOf, SetStateKeeps
  <2> HIDE DEF r
  <2>4. Keeps(r, ShutdownInLoop(r))
    BY <2>3, ShutdownKeeps DEF Keeps
  <2>5. Keeps(conn[c], ShutdownInLoop(r))
    BY <2>3, <2>4, KeepsTrans
  <2>6. \A d \in Conns : conn'[d] = conn[d] \/ Keeps(conn[d], conn'[d])
    BY <2>1, <2>5, OneKeeps
  <2> QED BY <2>1, <2>2, <2>6, StillLife DEF queues
<1>3. ASSUME NEW m \in Msgs, CallSend(l, c, m)
      PROVE  Life'
  <2>1. InCallback(l, c, "send") /\ SendInLoop(l, c, m) /\ UNCHANGED forces
    BY <1>3 DEF CallSend
  <2>2. /\ Stages[c] = "established"
        /\ UNCHANGED <<connections, removals, loopOf, inLoop, batch, upc>>
    BY <2>1, CallbackFacts
  <2> QED BY <2>1, <2>2, SendLife
<1>4. CASE CallForceClose(l, c)
  <2> DEFINE r == [conn[c] EXCEPT !.state = "kDisconnecting"]
             f == Functor("forceCloseInLoop", c)
  <2>1. /\ InCallback(l, c, "forceClose") /\ forces < MaxForce /\ forces' = forces + 1
        /\ conn' = [conn EXCEPT ![c] = r] /\ pending' = Gets(pending, l, <<f>>)
    BY <1>4 DEF CallForceClose, Queue, Gets
  <2>2. /\ ctx[l] # << >> /\ ctx[l][2] = c /\ ctx[l][1] = "message"
        /\ Stages[c] = "established" /\ loopOf[c] = l /\ "forceClose" \in MessageOps
        /\ conn[c].state \notin {"none", "kConnecting"}
        /\ UNCHANGED <<connections, removals, loopOf, inLoop, batch, upc>>
    BY <2>1, CallbackFacts
  <2>3. forces' # 0
    <3>1. forces \in Nat
      BY ServerAssumption DEF LifeInv, MapType
    <3> QED BY <3>1, <2>1
  <2>4. Keeps(conn[c], r)
    BY <2>2, AliveOf, SetStateKeeps
  <2>5. \A d \in Conns : conn'[d] = conn[d] \/ Keeps(conn[d], conn'[d])
    BY <2>1, <2>4, OneKeeps
  <2> HIDE DEF r
  <2>6. f \in Functors /\ f.c = c
    <3>1. "forceCloseInLoop" \in FunctorOps
      BY DEF FunctorOps
    <3> QED BY <3>1, FunctorType
  <2>7. Ahead(pending', batch') = Gets(Ahead(pending, batch), l, <<f>>)
    <3> DEFINE fs == <<f>>
    <3>1. fs \in Seq(Functors) /\ pending' = Gets(pending, l, fs) /\ batch' = batch
      BY <2>1, <2>2, <2>6
    <3> HIDE DEF fs
    <3>2. Ahead(pending', batch') = Gets(Ahead(pending, batch), l, fs)
      BY <3>1, Basics, AheadGets
    <3> QED BY <3>2 DEF fs
  <2>8. QueuesOK(Stages, loopOf, Ahead(pending', batch'), forces')
    <3> DEFINE q == Ahead(pending, batch)
    <3>1. q \in Queues
      BY Basics
    <3>2. lpc[l] = "dispatch"
      BY <2>2, LoopOf DEF LoopOK
    <3>3. c \notin Forced(pending[l])
      BY <1>4 DEF ClosesOnce
    <3>4. Cleared(Stages, loopOf, q, c, forces)
      BY <3>2, <3>3, <2>2, NoForcedClose
    <3> HIDE DEF q
    <3>5. But(c, Stages, Stages, loopOf, loopOf)
      BY DEF But
    <3>6. /\ "forceCloseInLoop" \in KeyOps /\ KeyStage("forceCloseInLoop") = "established"
          /\ KeyLoop("forceCloseInLoop", loopOf[c]) = l
      BY <2>2 DEF KeyOps, KeyStage, KeyLoop
    <3>7. QueuesOK(Stages, loopOf,
                   Gets(q, KeyLoop("forceCloseInLoop", loopOf[c]), <<f>>), forces')
      BY <3>1, <3>4, <3>5, <3>6, <2>2, <2>3, ClearedGets
    <3> QED BY <3>6, <3>7, <2>7 DEF q
  <2>9. /\ Forced(pending'[l]) \subseteq Forced(pending[l]) \cup {c}
        /\ \A k \in Loops : k # l => pending'[k] = pending[k]
    <3>1. pending'[l] = pending[l] \o <<f>> /\ pending[l] \in Seq(Functors)
          /\ \A k \in Loops : k # l => pending'[k] = pending[k]
      BY <2>1, Basics DEF Gets, Queues
    <3>2. Forced(<<f>>) \subseteq {c}
      BY <2>6, ForcedOne
    <3>3. <<f>> \in Seq(Functors)
      BY <2>6
    <3> HIDE DEF f
    <3> QED BY <3>1, <3>2, <3>3, ForcedGets
  <2>10. UNCHANGED <<lpc, active, todo, ctx>>
    BY <2>2 DEF inLoop
  <2>11. LoopOK(l, Stages, loopOf, lpc'[l], active'[l], todo'[l], ctx'[l], Forced(pending'[l]))
    <3>1. LoopOK(l, Stages, loopOf, lpc[l], active[l], todo[l], ctx[l], Forced(pending[l]))
      BY LoopOf
    <3>2. LoopOK(l, Stages, loopOf, lpc[l], active[l], todo[l], ctx[l], Forced(pending'[l]))
      BY <3>1, <2>2, <2>9, LoopForces
    <3> QED BY <3>2, <2>10
  <2>12. \A k \in Loops : LoopOK(k, Stages, loopOf, lpc'[k], active'[k], todo'[k], ctx'[k],
                                 Forced(pending'[k]))
    BY <2>9, <2>10, <2>11, OneLoop
  <2>13. CallsShutDown(Stages, upc')
    BY <2>2 DEF LifeInv
  <2> QED BY <2>2, <2>5, <2>8, <2>12, <2>13, QuietLife
<1> QED BY <1>1, <1>2, <1>3, <1>4

\* Other threads
LEMMA ThreadLife ==
    ASSUME LifeInv, Limits, NEW u \in Users, ThreadStep(u)
    PROVE  Life'
<1>0. CallsShutDown(Stages, upc) /\ upc \in [Users -> Calls \cup {Idle}]
  BY Basics DEF LifeInv
<1>1. ASSUME NEW c \in Conns, NEW op \in Ops, ThreadTest(u, c, op)
      PROVE  Life'
  <2>1. op = "shutdown" /\ StateAllows(op, conn[c].state)
    BY <1>1 DEF ThreadTest, Limits, Ops
  <2> DEFINE call == [op |-> op, c |-> c, m |-> None, step |-> "set"]
  <2>2. /\ upc' = [upc EXCEPT ![u] = call] /\ UNCHANGED forces
        /\ UNCHANGED <<conn, connections, removals, loopOf, inLoop, queues>>
    BY <1>1, <2>1 DEF ThreadTest, server
  <2>3. call.op = "shutdown" /\ call.c = c
    BY <2>1
  <2> HIDE DEF call
  <2>4. Stages[c] \notin {"unborn", "connecting"}
    BY <2>1, AliveOf DEF StateAllows, Stage
  <2>5. CallsShutDown(Stages, upc')
    BY <1>0, <2>2, <2>3, <2>4 DEF CallsShutDown
  <2>6. UNCHANGED <<lpc, active, todo, ctx, pending, batch>>
    BY <2>2 DEF inLoop, queues
  <2>7. QueuesOK(Stages, loopOf, Ahead(pending', batch'), forces')
    BY <2>2, <2>6 DEF LifeInv
  <2>8. \A l \in Loops : LoopOK(l, Stages, loopOf, lpc'[l], active'[l], todo'[l], ctx'[l],
                                Forced(pending'[l]))
    BY <2>6, LoopOf
  <2> QED BY <2>2, <2>5, <2>7, <2>8, QuietLife
<1>2. ASSUME upc[u] # Idle
      PROVE  /\ upc[u] \in Calls /\ upc[u].c \in Conns /\ upc[u].op = "shutdown"
             /\ Stages[upc[u].c] \notin {"unborn", "connecting"}
  BY <1>0, <1>2 DEF CallsShutDown, Calls
<1>3. CASE ThreadSetState(u)
  <2> DEFINE c == upc[u].c
             r == [conn[c] EXCEPT !.state = "kDisconnecting"]
             call == [upc[u] EXCEPT !.step = "queue"]
  <2>1. /\ upc[u].step = "set" /\ conn' = [conn EXCEPT ![c] = r]
        /\ upc' = [upc EXCEPT ![u] = call]
        /\ UNCHANGED <<connections, removals, loopOf, inLoop, queues, forces>>
    BY <1>3 DEF ThreadSetState, server
  <2>2. upc[u] # Idle
    BY <2>1 DEF Idle, None
  <2>3. c \in Conns /\ Stages[c] \notin {"unborn", "connecting"}
    BY <2>2, <1>2
  <2>4. call.op = "shutdown" /\ call.c = c
    BY <2>2, <1>2 DEF Calls
  <2> HIDE DEF c, call
  <2>5. conn[c].state \notin {"none", "kConnecting"}
    BY <2>3, AliveOf DEF Stage
  <2>6. Keeps(conn[c], r)
    BY <2>3, <2>5, AliveOf, SetStateKeeps
  <2> HIDE DEF r
  <2>7. \A d \in Conns : conn'[d] = conn[d] \/ Keeps(conn[d], conn'[d])
    BY <2>1, <2>3, <2>6, OneKeeps
  <2>8. CallsShutDown(Stages, upc')
    BY <1>0, <2>1, <2>3, <2>4 DEF CallsShutDown
  <2>9. UNCHANGED <<lpc, active, todo, ctx, pending, batch>>
    BY <2>1 DEF inLoop, queues
  <2>10. QueuesOK(Stages, loopOf, Ahead(pending', batch'), forces')
    BY <2>1, <2>9 DEF LifeInv
  <2>11. \A l \in Loops : LoopOK(l, Stages, loopOf, lpc'[l], active'[l], todo'[l], ctx'[l],
                                 Forced(pending'[l]))
    BY <2>9, LoopOf
  <2> QED BY <2>1, <2>7, <2>8, <2>10, <2>11, QuietLife
<1>4. CASE ThreadQueue(u)
  <2> DEFINE c == upc[u].c
             f == CASE upc[u].op = "send" -> SendFunctor(upc[u].c, upc[u].m)
                    [] upc[u].op = "shutdown" -> Functor("shutdownInLoop", upc[u].c)
                    [] upc[u].op = "forceClose" -> Functor("forceCloseInLoop", upc[u].c)
  <2>1. /\ upc[u].step = "queue" /\ pending' = Gets(pending, loopOf[c], <<f>>)
        /\ upc' = [upc EXCEPT ![u] = Idle]
        /\ UNCHANGED <<conn, connections, removals, loopOf, inLoop, batch, forces>>
    BY <1>4 DEF ThreadQueue, Queue, Gets, server
  <2>2. upc[u] # Idle
    BY <2>1 DEF Idle, None
  <2>3. c \in Conns /\ upc[u].op = "shutdown"
    BY <2>2, <1>2
  <2>4. f = Functor("shutdownInLoop", c)
    BY <2>3
  <2> HIDE DEF f, c
  <2>5. <<f>> \in Seq(Functors) /\ \A j \in 1..Len(<<f>>) : <<f>>[j].op \in QuietOps
    <3>1. "shutdownInLoop" \in QuietOps
      BY DEF QuietOps
    <3> QED BY <3>1, <2>3, <2>4, QuietFunctor
  <2>6. loopOf[c] \in Loops
    BY <2>3, Basics
  <2>7. /\ QueuesOK(Stages, loopOf, Ahead(pending', batch), forces)
        /\ \A k \in Loops : Forced(pending'[k]) \subseteq Forced(pending[k])
    BY <2>1, <2>5, <2>6, QuietGets
  <2>8. CallsShutDown(Stages, upc')
    BY <1>0, <2>1 DEF CallsShutDown
  <2>9. UNCHANGED <<lpc, active, todo, ctx>>
    BY <2>1 DEF inLoop
  <2>10. ASSUME NEW k \in Loops
         PROVE  LoopOK(k, Stages, loopOf, lpc'[k], active'[k], todo'[k], ctx'[k],
                       Forced(pending'[k]))
    <3>1. LoopOK(k, Stages, loopOf, lpc[k], active[k], todo[k], ctx[k], Forced(pending'[k]))
      BY <2>7, LoopOf, LoopForced
    <3> QED BY <3>1, <2>9
  <2>11. QueuesOK(Stages, loopOf, Ahead(pending', batch'), forces')
    BY <2>1, <2>7
  <2> QED BY <2>1, <2>8, <2>10, <2>11, QuietLife
<1> QED BY <1>1, <1>3, <1>4 DEF ThreadStep

-----------------------------------------------------------------------------
(* Steps from one stage to the next *)

\* The loops that are not concerned, when connection c goes on
LEMMA OtherLoop ==
    ASSUME LifeInv, NEW k \in Loops, NEW c \in Conns,
           But(c, Stages, Stages', loopOf, loopOf'), Stages[c] \notin Open \/ loopOf[c] # k,
           lpc'[k] = lpc[k], active'[k] = active[k], todo'[k] = todo[k], ctx'[k] = ctx[k],
           Forced(pending'[k]) \subseteq Forced(pending[k])
    PROVE  LoopOK(k, Stages', loopOf', lpc'[k], active'[k], todo'[k], ctx'[k],
                  Forced(pending'[k]))
<1>1. LoopOK(k, Stages, loopOf, lpc[k], active[k], todo[k], ctx[k], Forced(pending'[k]))
  BY LoopOf, LoopForced
<1>2. c # Listener
  BY ServerAssumption
<1>3. LoopOK(k, Stages', loopOf', lpc[k], active[k], todo[k], ctx[k], Forced(pending'[k]))
  BY <1>1, <1>2, LoopConns, LoopOther
<1> QED BY <1>3

\* A functor that forces no close is queued.
LEMMA ForcedKept ==
    ASSUME LifeInv, NEW l \in Loops, NEW op \in FunctorOps \ {"forceCloseInLoop"}, NEW c \in Conns,
           pending' = Gets(pending, l, <<Functor(op, c)>>)
    PROVE  /\ <<Functor(op, c)>> \in Seq(Functors)
           /\ \A k \in Loops : Forced(pending'[k]) \subseteq Forced(pending[k])
<1> DEFINE f == Functor(op, c)
           fs == <<f>>
<1>1. f \in Functors /\ f.op # "forceCloseInLoop"
  BY FunctorType
<1> HIDE DEF f
<1>2. fs \in Seq(Functors) /\ Forced(fs) = {}
  BY <1>1, ForcedOne
<1>3. pending' = Gets(pending, l, fs)
  BY DEF f
<1> HIDE DEF fs
<1>4. ASSUME NEW k \in Loops
      PROVE  Forced(pending'[k]) \subseteq Forced(pending[k])
  <2>1. pending[k] \in Seq(Functors)
    BY Basics DEF Queues
  <2>2. pending'[k] = pending[k] \/ pending'[k] = pending[k] \o fs
    BY <1>3, Basics DEF Gets, Queues
  <2> QED BY <1>2, <2>1, <2>2, ForcedGets
<1> QED BY <1>2, <1>4 DEF fs, f

LEMMA AheadAfter ==
    ASSUME LifeInv, NEW l \in Loops, NEW fs \in Seq(Functors), batch' \in Queues,
           pending' = Gets(pending, l, fs)
    PROVE  Ahead(pending', batch') = Gets(Ahead(pending, batch'), l, fs)
BY Basics, AheadGets

LEMMA StageLife ==
    ASSUME AllAlive', QueuesOK(Stages', loopOf', Ahead(pending', batch'), forces'),
           CallsShutDown(Stages', upc'),
           \A l \in Loops : LoopOK(l, Stages', loopOf', lpc'[l], active'[l], todo'[l], ctx'[l],
                                   Forced(pending'[l]))
    PROVE  Life'
BY DEF Life, LoopsOK

\* newConnection
LEMMA AcceptLife ==
    ASSUME LifeInv, NEW c \in Conns, AcceptOne(c)
    PROVE  Life'
<1>1. /\ Listener \in active[Base] /\ todo[Base] = << >> /\ ctx[Base] = << >> /\ c \in backlog
      /\ loopOf' = [loopOf EXCEPT ![c] = NextLoop] /\ connections' = connections \cup {c}
      /\ UNCHANGED <<removals, lpc, active, todo, batch, upc, forces>>
  BY DEF AcceptOne, NewConnection, Free
<1>2. NextLoop \in Loops /\ Base \in Loops
  BY NextLoopType, BaseLoop DEF LifeInv
<1>3. /\ loopOf'[c] = NextLoop
      /\ \A d \in Conns : d # c => /\ d \in connections' <=> d \in connections
                                   /\ removals'[d] = removals[d] /\ loopOf'[d] = loopOf[d]
  BY <1>1, Basics
<1>4. conn[c].state = "none"
  BY <1>1 DEF LifeInv, StreamsInv, Holds, BacklogOK
<1>5. /\ Stages[c] = "unborn" /\ Stage(conn[c], c \in connections) = "unborn"
      /\ removals[c] = 0 /\ Alive(conn[c], c \in connections, 0)
      /\ (c \in connections) \in BOOLEAN
  <2>1. /\ Alive(conn[c], c \in connections, removals[c]) /\ (c \in connections) \in BOOLEAN
        /\ Stages[c] = Stage(conn[c], c \in connections)
    BY AliveOf
  <2>2. Stage(conn[c], c \in connections) = "unborn"
    BY <1>4 DEF Stage
  <2>3. removals[c] = 0
    BY <2>1, <2>2 DEF Alive, StageOK
  <2> QED BY <2>1, <2>2, <2>3
<1>6. (c \in connections') = TRUE /\ removals'[c] = 0
  BY <1>1, <1>5
<1> DEFINE q == Ahead(pending, batch)
<1>7. q \in Queues /\ Cleared(Stages, loopOf, q, c, forces)
  <2>1. QueuesOK(Stages, loopOf, q, forces) /\ q \in Queues
    BY Basics DEF LifeInv
  <2> HIDE DEF q
  <2>2. KeysOK(q, c, Stages[c], loopOf[c])
    BY <2>1 DEF QueuesOK
  <2>3. NoKey(q, c)
    BY <2>2, <1>5, StageNoKey
  <2> QED BY <2>1, <2>3, ClearedStage
<1>8. lpc[Base] = "dispatch"
  <2>1. LoopOK(Base, Stages, loopOf, lpc[Base], active[Base], todo[Base], ctx[Base],
               Forced(pending[Base]))
    BY <1>2, LoopOf
  <2> QED BY <2>1, <1>1 DEF LoopOK
<1>9. Stages[c] \notin Open
  BY <1>5 DEF Open
<1>10. CallsShutDown(Stages, upc) /\ upc \in [Users -> Calls \cup {Idle}]
  BY Basics DEF LifeInv
<1>11. CASE NextLoop = Base
  <2> DEFINE s == ConnectEstablished(conn[c])
  <2>1. /\ conn' = [conn EXCEPT ![c] = s] /\ ctx' = [ctx EXCEPT ![Base] = <<"connection", c>>]
        /\ UNCHANGED pending
    BY <1>11 DEF AcceptOne, NewConnection
  <2>2. Alive(s, TRUE, 0) /\ Stage(s, TRUE) = "established"
    BY <1>5, EstablishedStage
  <2> HIDE DEF s
  <2>3. /\ AllAlive' /\ But(c, Stages, Stages', loopOf, loopOf')
        /\ Stages'[c] = "established"
    BY <1>3, <1>6, <2>1, <2>2, StageStep
  <2>4. QueuesOK(Stages', loopOf', Ahead(pending', batch'), forces')
    <3> HIDE DEF q
    <3>1. QueuesOK(Stages', loopOf', q, forces)
      BY <1>7, <2>3, ClearedDone
    <3> QED BY <3>1, <1>1, <2>1 DEF q
  <2>5. CallsShutDown(Stages', upc')
    BY <1>1, <1>5, <1>10, <2>3, CallsAdvance
  <2>6. ctx'[Base] = <<"connection", c>> /\ \A k \in Loops : k # Base => ctx'[k] = ctx[k]
    BY <2>1, <1>2, Basics
  <2>7. ASSUME NEW k \in Loops, k # Base
        PROVE  LoopOK(k, Stages', loopOf', lpc'[k], active'[k], todo'[k], ctx'[k],
                      Forced(pending'[k]))
    BY <1>1, <1>9, <2>1, <2>3, <2>6, <2>7, OtherLoop
  <2>8. LoopOK(Base, Stages', loopOf', lpc'[Base], active'[Base], todo'[Base], ctx'[Base],
               Forced(pending'[Base]))
    <3>1. LoopOK(Base, Stages, loopOf, lpc[Base], active[Base], todo[Base], << >>,
                 Forced(pending[Base]))
      BY <1>1, <1>2, LoopOf
    <3>2. OfConns(active[Base], todo[Base], << >>) /\ c # Listener
      BY <1>2, LoopConns, ServerAssumption
    <3>3. LoopOK(Base, Stages', loopOf', lpc[Base], active[Base], todo[Base], << >>,
                 Forced(pending[Base]))
      BY <3>1, <3>2, <2>3, <1>9, LoopOther
    <3>4. LoopOK(Base, Stages', loopOf', lpc[Base], active[Base], todo[Base],
                 <<"connection", c>>, Forced(pending[Base]))
      BY <3>3, <1>3, <1>8, <1>11, <2>3, LoopAccepts
    <3> QED BY <3>4, <1>1, <2>1, <2>6
  <2> QED BY <2>3, <2>4, <2>5, <2>7, <2>8, StageLife
<1>12. CASE NextLoop # Base
  <2> DEFINE s == [conn[c] EXCEPT !.state = "kConnecting"]
             fs == <<Functor("connectEstablished", c)>>
  <2>1. /\ conn' = [conn EXCEPT ![c] = s] /\ pending' = Gets(pending, NextLoop, fs)
        /\ UNCHANGED ctx
    BY <1>12 DEF AcceptOne, NewConnection, Queue, Gets
  <2>2. Alive(s, TRUE, 0) /\ Stage(s, TRUE) = "connecting"
    BY <1>5, ConnectingStage
  <2> HIDE DEF s
  <2>3. /\ AllAlive' /\ But(c, Stages, Stages', loopOf, loopOf')
        /\ Stages'[c] = "connecting"
    BY <1>3, <1>6, <2>1, <2>2, StageStep
  <2>4. "connectEstablished" \in FunctorOps \ {"forceCloseInLoop"}
        /\ "connectEstablished" \in KeyOps /\ KeyStage("connectEstablished") = "connecting"
        /\ KeyLoop("connectEstablished", loopOf'[c]) = NextLoop
    BY <1>3 DEF FunctorOps, KeyOps, KeyStage, KeyLoop
  <2>5. fs \in Seq(Functors) /\ \A k \in Loops : Forced(pending'[k]) \subseteq Forced(pending[k])
    BY <1>2, <2>1, <2>4, ForcedKept
  <2>6. QueuesOK(Stages', loopOf', Ahead(pending', batch'), forces')
    <3> HIDE DEF q
    <3>1. QueuesOK(Stages', loopOf',
                   Gets(q, KeyLoop("connectEstablished", loopOf'[c]), fs), forces)
      BY <1>2, <1>7, <2>3, <2>4, ClearedGets
    <3> HIDE DEF fs
    <3>2. Ahead(pending', batch') = Gets(q, NextLoop, fs)
      BY <1>1, <1>2, <2>1, <2>5, Basics, AheadGets DEF q
    <3> QED BY <3>1, <3>2, <1>1, <2>4
  <2>7. CallsShutDown(Stages', upc')
    BY <1>1, <1>5, <1>10, <2>3, CallsAdvance
  <2>8. ASSUME NEW k \in Loops
        PROVE  LoopOK(k, Stages', loopOf', lpc'[k], active'[k], todo'[k], ctx'[k],
                      Forced(pending'[k]))
    BY <1>1, <1>9, <2>1, <2>3, <2>5, OtherLoop
  <2> QED BY <2>3, <2>6, <2>7, <2>8, StageLife
<1> QED BY <1>11, <1>12

\* What holds when a functor is run that takes connection c further
LEMMA KeyFacts ==
    ASSUME LifeInv, NEW l \in Loops, NEW op \in KeyOps, NEW c \in Conns, NEW m,
           NextFunctor(l, op, c, m)
    PROVE  /\ Stages[c] = KeyStage(op) /\ l = KeyLoop(op, loopOf[c])
           /\ Cleared(Stages, loopOf, Ahead(pending, batch'), c, forces)
           /\ Ahead(pending, batch') \in Queues
<1> DEFINE q == Ahead(pending, batch)
<1>1. /\ Ahead(pending, batch') = Runs(q, l) /\ q[l] # << >> /\ Head(q[l]).op = op
      /\ Head(q[l]).c = c /\ Ahead(pending, batch') \in Queues
  BY FunctorFacts
<1>2. QueuesOK(Stages, loopOf, q, forces) /\ q \in Queues
  BY Basics DEF LifeInv
<1> HIDE DEF q
<1>3. IsKey(Head(q[l]), c)
  BY <1>1 DEF IsKey
<1>4. Stages[c] = KeyStage(Head(q[l]).op) /\ l = KeyLoop(Head(q[l]).op, loopOf[c])
  BY <1>1, <1>2, <1>3, HeadPlaced
<1>5. Cleared(Stages, loopOf, Runs(q, l), c, forces)
  BY <1>1, <1>2, <1>3, ClearedRuns
<1> QED BY <1>1, <1>4, <1>5

\* connectEstablished
LEMMA EstablishedLife ==
    ASSUME LifeInv, NEW l \in Loops, NEW c \in Conns, RunConnectEstablished(l, c)
    PROVE  Life'
<1> DEFINE s == ConnectEstablished(conn[c])
<1>1. /\ NextFunctor(l, "connectEstablished", c, None) /\ conn' = [conn EXCEPT ![c] = s]
      /\ ctx' = [ctx EXCEPT ![l] = <<"connection", c>>]
      /\ UNCHANGED <<connections, removals, pending>>
  BY DEF RunConnectEstablished
<1>2. "connectEstablished" \in KeyOps /\ KeyStage("connectEstablished") = "connecting"
      /\ KeyLoop("connectEstablished", loopOf[c]) = loopOf[c]
  BY DEF KeyOps, KeyStage, KeyLoop
<1>3. /\ Stages[c] = "connecting" /\ l = loopOf[c]
      /\ Cleared(Stages, loopOf, Ahead(pending, batch'), c, forces)
      /\ Ahead(pending, batch') \in Queues
  BY <1>1, <1>2, KeyFacts
<1>4. /\ lpc[l] = "run" /\ active[l] = {} /\ todo[l] = << >> /\ ctx[l] = << >>
      /\ Forced(pending[l]) = {}
      /\ UNCHANGED <<loopOf, lpc, active, todo, upc, forces>>
  BY <1>1, FunctorFacts
<1>5. /\ Alive(conn[c], c \in connections, 0) /\ (c \in connections) \in BOOLEAN
      /\ Stage(conn[c], c \in connections) = "connecting"
      /\ (c \in connections') = TRUE /\ removals'[c] = 0
  <2>1. /\ Alive(conn[c], c \in connections, removals[c])
        /\ Stage(conn[c], c \in connections) = "connecting"
    BY <1>3, AliveOf
  <2>2. c \in connections /\ removals[c] = 0
    BY <2>1 DEF Alive, StageOK
  <2> QED BY <2>1, <2>2, <1>1
<1>6. Alive(s, TRUE, 0) /\ Stage(s, TRUE) = "established"
  BY <1>5, EstablishedStage
<1> HIDE DEF s
<1>7. /\ AllAlive' /\ But(c, Stages, Stages', loopOf, loopOf') /\ Stages'[c] = "established"
  BY <1>1, <1>4, <1>5, <1>6, StageStep
<1>8. QueuesOK(Stages', loopOf', Ahead(pending', batch'), forces')
  <2>1. QueuesOK(Stages', loopOf', Ahead(pending, batch'), forces)
    BY <1>3, <1>7, ClearedDone
  <2> QED BY <2>1, <1>1, <1>4
<1>9. CallsShutDown(Stages', upc')
  <2>1. CallsShutDown(Stages, upc) /\ upc \in [Users -> Calls \cup {Idle}]
    BY Basics DEF LifeInv
  <2> QED BY <2>1, <1>3, <1>4, <1>7, CallsAdvance
<1>10. ctx'[l] = <<"connection", c>> /\ \A k \in Loops : k # l => ctx'[k] = ctx[k]
  BY <1>1, Basics
<1>11. ASSUME NEW k \in Loops
       PROVE  LoopOK(k, Stages', loopOf', lpc'[k], active'[k], todo'[k], ctx'[k],
                     Forced(pending'[k]))
  <2>1. CASE k # l
    <3>1. Stages[c] \notin Open
      BY <1>3 DEF Open
    <3> QED BY <2>1, <3>1, <1>1, <1>4, <1>7, <1>10, OtherLoop
  <2>2. CASE k = l
    <3>1. loopOf'[c] = l
      BY <1>3, <1>4
    <3>2. LoopOK(l, Stages', loopOf', "run", {}, << >>, ctx'[l], {})
      BY <3>1, <1>7, <1>10, LoopRuns
    <3> QED BY <2>2, <3>2, <1>1, <1>4
  <2> QED BY <2>1, <2>2
<1> QED BY <1>7, <1>8, <1>9, <1>11, StageLife

\* connectDestroyed
LEMMA DestroyedLife ==
    ASSUME LifeInv, NEW l \in Loops, NEW c \in Conns, RunConnectDestroyed(l, c)
    PROVE  Life'
<1> DEFINE s == ConnectDestroyed(conn[c])
<1>1. /\ NextFunctor(l, "connectDestroyed", c, None) /\ conn' = [conn EXCEPT ![c] = s]
      /\ UNCHANGED <<connections, removals, pending, ctx>>
  BY DEF RunConnectDestroyed
<1>2. "connectDestroyed" \in KeyOps /\ KeyStage("connectDestroyed") = "removed"
      /\ KeyLoop("connectDestroyed", loopOf[c]) = loopOf[c]
  BY DEF KeyOps, KeyStage, KeyLoop
<1>3. /\ Stages[c] = "removed" /\ l = loopOf[c]
      /\ Cleared(Stages, loopOf, Ahead(pending, batch'), c, forces)
      /\ Ahead(pending, batch') \in Queues
  BY <1>1, <1>2, KeyFacts
<1>4. /\ lpc[l] = "run" /\ active[l] = {} /\ todo[l] = << >> /\ ctx[l] = << >>
      /\ Forced(pending[l]) = {}
      /\ UNCHANGED <<loopOf, lpc, active, todo, upc, forces>>
  BY <1>1, FunctorFacts
<1>5. /\ Alive(conn[c], c \in connections, removals[c]) /\ (c \in connections) \in BOOLEAN
      /\ Stage(conn[c], c \in connections) = "removed"
  BY <1>3, AliveOf
<1>6. Alive(s, c \in connections, removals[c]) /\ Stage(s, c \in connections) = "destroyed"
  BY <1>5, DestroyedStage
<1> HIDE DEF s
<1>7. /\ AllAlive' /\ But(c, Stages, Stages', loopOf, loopOf') /\ Stages'[c] = "destroyed"
  BY <1>1, <1>4, <1>6, StageStep
<1>8. QueuesOK(Stages', loopOf', Ahead(pending', batch'), forces')
  <2>1. QueuesOK(Stages', loopOf', Ahead(pending, batch'), forces)
    BY <1>3, <1>7, ClearedDone
  <2> QED BY <2>1, <1>1, <1>4
<1>9. CallsShutDown(Stages', upc')
  <2>1. CallsShutDown(Stages, upc) /\ upc \in [Users -> Calls \cup {Idle}]
    BY Basics DEF LifeInv
  <2> QED BY <2>1, <1>4, <1>7, CallsAdvance
<1>10. ASSUME NEW k \in Loops
       PROVE  LoopOK(k, Stages', loopOf', lpc'[k], active'[k], todo'[k], ctx'[k],
                     Forced(pending'[k]))
  <2>1. CASE k # l
    BY <2>1, <1>1, <1>3, <1>4, <1>7, OtherLoop
  <2>2. CASE k = l
    <3>1. LoopOK(l, Stages', loopOf', "run", {}, << >>, << >>, {})
      BY LoopRuns
    <3> QED BY <2>2, <3>1, <1>1, <1>4
  <2> QED BY <2>1, <2>2
<1> QED BY <1>7, <1>8, <1>9, <1>10, StageLife

\* The functor of the next stage is queued.
LEMMA NextQueued ==
    ASSUME LifeInv, NEW c \in Conns, NEW op \in KeyOps \ {"forceCloseInLoop"}, NEW k \in Loops,
           Cleared(Stages, loopOf, Ahead(pending, batch'), c, forces), batch' \in Queues,
           But(c, Stages, Stages', loopOf, loopOf'), Stages'[c] = KeyStage(op),
           k = KeyLoop(op, loopOf'[c]), UNCHANGED forces,
           pending' = Gets(pending, k, <<Functor(op, c)>>)
    PROVE  /\ QueuesOK(Stages', loopOf', Ahead(pending', batch'), forces')
           /\ \A l \in Loops : Forced(pending'[l]) \subseteq Forced(pending[l])
<1> DEFINE fs == <<Functor(op, c)>>
           q == Ahead(pending, batch')
<1>1. op \in FunctorOps \ {"forceCloseInLoop"} /\ op \in KeyOps
  BY DEF KeyOps, FunctorOps
<1>2. fs \in Seq(Functors) /\ \A l \in Loops : Forced(pending'[l]) \subseteq Forced(pending[l])
  BY <1>1, ForcedKept
<1>3. q \in Queues
  BY Basics, AheadType
<1>4. QueuesOK(Stages', loopOf', Gets(q, KeyLoop(op, loopOf'[c]), fs), forces)
  <2> HIDE DEF q
  <2>1. Cleared(Stages, loopOf, q, c, forces)
    BY DEF q
  <2> QED BY <1>1, <1>3, <2>1, ClearedGets
<1> HIDE DEF fs
<1>5. Ahead(pending', batch') = Gets(q, k, fs)
  BY <1>2, AheadAfter DEF fs
<1> QED BY <1>2, <1>4, <1>5

\* removeConnectionInLoop, as a functor
LEMMA RemovedLife ==
    ASSUME LifeInv, NEW l \in Loops, NEW c \in Conns, RunRemoveConnection(l, c)
    PROVE  Life'
<1>1. /\ NextFunctor(l, "removeConnectionInLoop", c, None)
      /\ connections' = connections \ {c} /\ removals' = [removals EXCEPT ![c] = @ + 1]
      /\ pending' = Gets(pending, loopOf[c], <<Functor("connectDestroyed", c)>>)
      /\ UNCHANGED <<conn, ctx>>
  BY DEF RunRemoveConnection, Remove, Queue, Gets
<1>2. "removeConnectionInLoop" \in KeyOps /\ KeyStage("removeConnectionInLoop") = "closed"
  BY DEF KeyOps, KeyStage
<1>3. /\ Stages[c] = "closed"
      /\ Cleared(Stages, loopOf, Ahead(pending, batch'), c, forces)
  BY <1>1, <1>2, KeyFacts
<1>4. UNCHANGED <<loopOf, lpc, active, todo, upc, forces>> /\ batch' \in Queues
  BY <1>1, FunctorFacts
<1>5. /\ Alive(conn[c], c \in connections, removals[c]) /\ (c \in connections) \in BOOLEAN
      /\ Stage(conn[c], c \in connections) = "closed"
  BY <1>3, AliveOf
<1>6. (c \in connections') \in BOOLEAN /\ ~(c \in connections')
  BY <1>1
<1>7. /\ Alive(conn[c], c \in connections', removals'[c])
      /\ Stage(conn[c], c \in connections') = "removed"
  <2>1. removals[c] = 0
    BY <1>5, <1>6, RemovedStage
  <2>2. Alive(conn[c], c \in connections', 1)
    BY <1>5, <1>6, RemovedStage
  <2>3. Stage(conn[c], c \in connections') = "removed"
    BY <1>5, <1>6, RemovedStage
  <2>4. removals'[c] = 1
    BY <2>1, <1>1, Basics
  <2> QED BY <2>2, <2>3, <2>4
<1>8. conn' = [conn EXCEPT ![c] = conn[c]]
  BY <1>1, Basics
<1>9. /\ AllAlive' /\ But(c, Stages, Stages', loopOf, loopOf') /\ Stages'[c] = "removed"
  <2>1. \A d \in Conns : d # c => /\ d \in connections' <=> d \in connections
                                  /\ removals'[d] = removals[d] /\ loopOf'[d] = loopOf[d]
    BY <1>1, <1>4, Basics
  <2> QED BY <2>1, <1>7, <1>8, StageStep
<1>10. /\ "connectDestroyed" \in KeyOps \ {"forceCloseInLoop"}
       /\ KeyStage("connectDestroyed") = "removed"
       /\ KeyLoop("connectDestroyed", loopOf'[c]) = loopOf[c] /\ loopOf[c] \in Loops
  BY <1>4, Basics DEF KeyOps, KeyStage, KeyLoop
<1>11. /\ QueuesOK(Stages', loopOf', Ahead(pending', batch'), forces')
       /\ \A k \in Loops : Forced(pending'[k]) \subseteq Forced(pending[k])
  BY <1>1, <1>3, <1>4, <1>9, <1>10, NextQueued
<1>12. CallsShutDown(Stages', upc')
  <2>1. CallsShutDown(Stages, upc) /\ upc \in [Users -> Calls \cup {Idle}]
    BY Basics DEF LifeInv
  <2> QED BY <2>1, <1>4, <1>9, CallsAdvance
<1>13. ASSUME NEW k \in Loops
       PROVE  LoopOK(k, Stages', loopOf', lpc'[k], active'[k], todo'[k], ctx'[k],
                     Forced(pending'[k]))
  <2>1. LoopOK(k, Stages, loopOf, lpc[k], active[k], todo[k], ctx[k], Forced(pending'[k]))
    BY <1>11, LoopOf, LoopForced
  <2>2. But(c, Stages, Stages', loopOf, loopOf)
    BY <1>4, <1>9
  <2>3. LoopOK(k, Stages', loopOf, lpc[k], active[k], todo[k], ctx[k], Forced(pending'[k]))
    BY <2>1, <2>2, <1>3, <1>9, LoopConns, LoopClosed
  <2> QED BY <2>3, <1>1, <1>4
<1> QED BY <1>9, <1>11, <1>12, <1>13, StageLife

\* handleClose, in a handler or a functor of loop l: no other callback of the event
\* and no functor closes the connection again.
LEMMA CloseLife ==
    ASSUME LifeInv, NEW l \in Loops, NEW c \in Conns, Close(l, c), l = loopOf[c],
           Stages[c] = "established", batch' \in Queues,
           Cleared(Stages, loopOf, Ahead(pending, batch'), c, forces),
           UNCHANGED <<loopOf, forces, upc, lpc, active, ctx>>, ctx[l] = << >>,
           \A k \in Loops : k # l => todo'[k] = todo[k],
           LoopOK(l, Stages, loopOf, lpc[l], active[l], todo'[l], << >>, Forced(pending[l])),
           OfConns(active[l], todo'[l], << >>), c \notin active[l], NoClosing(todo'[l], c)
    PROVE  Life'
<1> DEFINE s == HandleClose(conn[c])
<1>1. conn' = [conn EXCEPT ![c] = s]
  BY DEF Close
<1>2. /\ Alive(conn[c], c \in connections, removals[c]) /\ (c \in connections) \in BOOLEAN
      /\ Stage(conn[c], c \in connections) = "established"
  BY AliveOf
<1>3. /\ Alive(s, TRUE, 0) /\ Stage(s, TRUE) = "closed"
      /\ Alive(s, FALSE, 1) /\ Stage(s, FALSE) = "removed"
      /\ (c \in connections) = TRUE /\ removals[c] = 0
  BY <1>2, CloseStage
<1> HIDE DEF s
<1>4. /\ AllAlive' /\ But(c, Stages, Stages', loopOf, loopOf')
      /\ Stages'[c] \in {"closed", "removed"}
      /\ QueuesOK(Stages', loopOf', Ahead(pending', batch'), forces')
      /\ \A k \in Loops : Forced(pending'[k]) \subseteq Forced(pending[k])
  <2>1. CASE l = Base
    <3>1. /\ connections' = connections \ {c} /\ removals' = [removals EXCEPT ![c] = @ + 1]
          /\ pending' = Gets(pending, loopOf[c], <<Functor("connectDestroyed", c)>>)
      BY <2>1 DEF Close, Remove, Queue, Gets
    <3>2. /\ (c \in connections') = FALSE /\ removals'[c] = 1
          /\ \A d \in Conns : d # c => /\ d \in connections' <=> d \in connections
                                       /\ removals'[d] = removals[d] /\ loopOf'[d] = loopOf[d]
      BY <3>1, <1>3, Basics
    <3>3. /\ AllAlive' /\ But(c, Stages, Stages', loopOf, loopOf') /\ Stages'[c] = "removed"
      <4>1. Alive(s, c \in connections', removals'[c])
            /\ Stage(s, c \in connections') = "removed"
        BY <1>3, <3>2
      <4> QED BY <1>1, <3>2, <4>1, StageStep
    <3>4. /\ "connectDestroyed" \in KeyOps \ {"forceCloseInLoop"}
          /\ KeyStage("connectDestroyed") = "removed"
          /\ KeyLoop("connectDestroyed", loopOf'[c]) = loopOf[c] /\ loopOf[c] \in Loops
      BY Basics DEF KeyOps, KeyStage, KeyLoop
    <3> QED BY <3>1, <3>3, <3>4, NextQueued
  <2>2. CASE l # Base
    <3>1. /\ UNCHANGED <<connections, removals>>
          /\ pending' = Gets(pending, Base, <<Functor("removeConnectionInLoop", c)>>)
      BY <2>2 DEF Close, Queue, Gets
    <3>2. /\ (c \in connections') = TRUE /\ removals'[c] = 0
          /\ \A d \in Conns : d # c => /\ d \in connections' <=> d \in connections
                                       /\ removals'[d] = removals[d] /\ loopOf'[d] = loopOf[d]
      BY <3>1, <1>3
    <3>3. /\ AllAlive' /\ But(c, Stages, Stages', loopOf, loopOf') /\ Stages'[c] = "closed"
      BY <1>1, <1>3, <3>2, StageStep
    <3>4. /\ "removeConnectionInLoop" \in KeyOps \ {"forceCloseInLoop"}
          /\ KeyStage("removeConnectionInLoop") = "closed"
          /\ KeyLoop("removeConnectionInLoop", loopOf'[c]) = Base /\ Base \in Loops
      BY BaseLoop DEF KeyOps, KeyStage, KeyLoop
    <3> QED BY <3>1, <3>3, <3>4, NextQueued
  <2> QED BY <2>1, <2>2
<1>5. CallsShutDown(Stages', upc')
  <2>1. CallsShutDown(Stages, upc) /\ upc \in [Users -> Calls \cup {Idle}]
    BY Basics DEF LifeInv
  <2>2. Stages'[c] \notin {"unborn", "connecting"}
    BY <1>4
  <2> QED BY <2>1, <2>2, <1>4, CallsAdvance
<1>6. ASSUME NEW k \in Loops
      PROVE  LoopOK(k, Stages', loopOf', lpc'[k], active'[k], todo'[k], ctx'[k],
                    Forced(pending'[k]))
  <2>1. CASE k # l
    BY <2>1, <1>4, OtherLoop
  <2>2. CASE k = l
    <3>1. LoopOK(l, Stages, loopOf, lpc[l], active[l], todo'[l], << >>, Forced(pending'[l]))
      BY <1>4, LoopForced
    <3>2. But(c, Stages, Stages', loopOf, loopOf)
      BY <1>4
    <3>3. LoopOK(l, Stages', loopOf, lpc[l], active[l], todo'[l], << >>, Forced(pending'[l]))
      BY <3>1, <3>2, <1>4, LoopCloses
    <3> QED BY <2>2, <3>3
  <2> QED BY <2>1, <2>2
<1> QED BY <1>4, <1>5, <1>6, StageLife

\* closeCallback_, and handleRead at the end of the stream
LEMMA HangupLife ==
    ASSUME LifeInv, NEW l \in Loops, NEW c \in Conns, HandleHangup(l, c) \/ HandleReadEof(l, c)
    PROVE  Life'
<1>1. PICK h \in Closing : NextHandler(l, h, c) /\ Close(l, c) /\ UNCHANGED ctx
  BY DEF HandleHangup, HandleReadEof, Closing
<1>2. /\ LoopOK(l, Stages, loopOf, lpc[l], active[l], Tail(todo[l]), << >>,
                Forced(pending[l]))
      /\ loopOf[c] = l /\ c \notin active[l] /\ lpc[l] = "dispatch"
      /\ Stages[c] = "established" /\ c \notin Forced(pending[l])
      /\ NoClosing(Tail(todo[l]), c)
      /\ ctx[l] = << >> /\ todo[l] # << >> /\ todo'[l] = Tail(todo[l])
      /\ \A k \in Loops : k # l => todo'[k] = todo[k]
      /\ UNCHANGED <<loopOf, lpc, active, batch, forces, upc>>
  BY <1>1, HandlerFacts
<1>3. Cleared(Stages, loopOf, Ahead(pending, batch'), c, forces) /\ batch' \in Queues
  BY <1>2, Basics, NoForcedClose
<1>4. OfConns(active[l], todo'[l], << >>)
  BY <1>2, LoopConns
<1>5. /\ LoopOK(l, Stages, loopOf, lpc[l], active[l], todo'[l], << >>, Forced(pending[l]))
      /\ NoClosing(todo'[l], c)
  BY <1>2
<1> QED BY <1>1, <1>2, <1>3, <1>4, <1>5, CloseLife

\* forceCloseInLoop
LEMMA ForceCloseLife ==
    ASSUME LifeInv, NEW l \in Loops, NEW c \in Conns, RunForceClose(l, c)
    PROVE  Life'
<1>1. NextFunctor(l, "forceCloseInLoop", c, None) /\ UNCHANGED ctx
  BY DEF RunForceClose
<1>2. "forceCloseInLoop" \in KeyOps /\ KeyStage("forceCloseInLoop") = "established"
      /\ KeyLoop("forceCloseInLoop", loopOf[c]) = loopOf[c]
  BY DEF KeyOps, KeyStage, KeyLoop
<1>3. /\ Stages[c] = "established" /\ l = loopOf[c]
      /\ Cleared(Stages, loopOf, Ahead(pending, batch'), c, forces)
  BY <1>1, <1>2, KeyFacts
<1>4. /\ lpc[l] = "run" /\ active[l] = {} /\ todo[l] = << >> /\ ctx[l] = << >>
      /\ Forced(pending[l]) = {} /\ batch' \in Queues
      /\ UNCHANGED <<loopOf, lpc, active, todo, upc, forces>>
  BY <1>1, FunctorFacts
<1>5. conn[c].state \in {"kConnected", "kDisconnecting"}
  <2>1. Alive(conn[c], c \in connections, removals[c])
        /\ Stage(conn[c], c \in connections) = "established"
    BY <1>3, AliveOf
  <2>2. conn[c].state \in States /\ conn[c].state # "kDisconnected"
    BY <2>1 DEF Alive, StageOK, IsConnection
  <2>3. conn[c].state \notin {"none", "kConnecting"}
    BY <2>1 DEF Stage
  <2> QED BY <2>2, <2>3 DEF States
<1>6. Close(l, c)
  BY <1>5 DEF RunForceClose
<1>7. LoopOK(l, Stages, loopOf, lpc[l], active[l], todo'[l], << >>, Forced(pending[l]))
  BY <1>4, LoopIdle
<1>8. OfConns(active[l], todo'[l], << >>) /\ NoClosing(todo'[l], c) /\ c \notin active[l]
  <2>1. 1..Len(<< >>) = {}
    OBVIOUS
  <2>2. todo'[l] = << >>
    BY <1>4
  <2>3. NoClosing(todo'[l], c)
    BY <2>1, <2>2 DEF NoClosing
  <2> QED BY <2>2, <2>3, <1>4, LoopConns
<1> QED BY <1>1, <1>3, <1>4, <1>6, <1>7, <1>8, CloseLife

-----------------------------------------------------------------------------
(* The invariant is inductive *)

LEMMA LoopStepLife ==
    ASSUME LifeInv, NEW l \in Loops, LoopStep(l)
    PROVE  Life'
<1>1. CASE Poll(l) \/ TakeFunctors(l) \/ FunctorsDone(l) \/ CallbackReturns(l)
           \/ (l = Base /\ AcceptDone)
  BY <1>1, PollLife, TakeLife, TurnLife
<1>2. ASSUME NEW c \in Conns, AcceptOne(c) \/ RefuseOne(c)
      PROVE  Life'
  BY <1>2, AcceptLife, StillSteps
<1>3. ASSUME NEW c \in Conns,
             \/ HandleEvent(l, c)
             \/ HandleHangup(l, c) \/ HandleSocketError(l, c)
             \/ HandleReadMessage(l, c) \/ HandleReadEof(l, c) \/ HandleReadError(l, c)
             \/ HandleWrite(l, c)
      PROVE  Life'
  BY <1>3, EventLife, HangupLife, HandlerLife
<1>4. ASSUME NEW c \in Conns,
             \/ RunConnectEstablished(l, c) \/ RunRemoveConnection(l, c)
             \/ RunConnectDestroyed(l, c) \/ RunShutdown(l, c) \/ RunForceClose(l, c)
             \/ RunWriteComplete(l, c) \/ RunHighWaterMark(l, c)
             \/ \E m \in Msgs : RunSend(l, c, m)
      PROVE  Life'
  BY <1>4, EstablishedLife, RemovedLife, DestroyedLife, ForceCloseLife, QuietFunctorLife
<1> QED BY <1>1, <1>2, <1>3, <1>4 DEF LoopStep

LEMMA LifeStep ==
    ASSUME LifeInv, Limits, [ClosesOnce]_vars, [Next]_vars
    PROVE  LifeInv'
<1>1. StreamsInv /\ PoolType /\ MapType /\ PhaseType /\ unsent \subseteq Msgs
  BY DEF LifeInv, MapType
<1>2. StreamsInv' /\ PoolType' /\ MapType' /\ PhaseType'
  BY <1>1, StreamsStep, PoolStep, MapStep, PhaseStep
<1>3. Life'
  <2>1. ASSUME NEW l \in Loops, LoopStep(l) \/ (CallStep(l) /\ ClosesOnce)
        PROVE  Life'
    BY <2>1, LoopStepLife, CallLife
  <2>2. ASSUME NEW u \in Users, ThreadStep(u)
        PROVE  Life'
    BY <2>2, ThreadLife
  <2>3. CASE Start \/ (\E c \in Conns : DropPtr(c)) \/ UNCHANGED vars
    BY <2>3, StillSteps
  <2>4. CASE PeerStep
    BY <2>4, PeerLife
  <2> QED BY <2>1, <2>2, <2>3, <2>4 DEF Next
<1> QED BY <1>2, <1>3 DEF LifeInv, Life

LEMMA LifeInit ==
    ASSUME Init
    PROVE  LifeInv
<1>1. StreamsInv /\ unsent \subseteq Msgs
  BY StreamsInit
<1>2. PoolType
  <2>1. Base \in Loops /\ 0..0 = {0}
    BY BaseLoop
  <2> QED BY <2>1 DEF Init, PoolType, Base
<1>3. MapType
  BY ServerAssumption, <1>1 DEF Init, MapType
<1>4. PhaseType
  BY DEF Init, PhaseType
<1>5. ASSUME NEW c \in Conns
      PROVE  /\ Alive(conn[c], c \in connections, removals[c])
             /\ Stages[c] = "unborn"
  <2>1. conn[c] = Unborn /\ (c \in connections) = FALSE /\ removals[c] = 0
    BY DEF Init
  <2>2. Stage(Unborn, c \in connections) = "unborn"
    BY DEF Stage, Unborn
  <2>3. StageOK(Unborn, c \in connections, 0)
    BY <2>1, <2>2 DEF StageOK, Unborn
  <2>4. IsConnection(Unborn)
    BY DEF IsConnection, Unborn, States, Peers
  <2> QED BY <2>1, <2>2, <2>3, <2>4 DEF Alive, Stages
<1> DEFINE q == Ahead(pending, batch)
<1>6. \A l \in Loops : q[l] = << >>
  <2>1. << >> \o << >> = << >>
    OBVIOUS
  <2> QED BY <2>1 DEF Init, Ahead
<1> HIDE DEF q
<1>7. \A l \in Loops : 1..Len(q[l]) = {}
  BY <1>6
<1>8. QueuesOK(Stages, loopOf, q, forces)
  <2>1. ASSUME NEW c \in Conns
        PROVE  KeysOK(q, c, Stages[c], loopOf[c])
    <3>1. NoKey(q, c) /\ Stages[c] # "removed"
      BY <1>5, <1>7 DEF NoKey
    <3> QED BY <3>1, NoKeyOK
  <2> QED BY <2>1, <1>7 DEF QueuesOK, NoOp
<1>9. CallsShutDown(Stages, upc)
  BY DEF Init, CallsShutDown
<1>10. LoopsOK(Stages, loopOf)
  <2>1. ASSUME NEW l \in Loops
        PROVE  LoopOK(l, Stages, loopOf, lpc[l], active[l], todo[l], ctx[l], Forced(pending[l]))
    <3>1. /\ active[l] = {} /\ todo[l] = << >> /\ ctx[l] = << >>
          /\ pending[l] = << >>
      BY DEF Init
    <3>2. Forced(pending[l]) = {}
      BY <3>1, ForcedOne
    <3> QED BY <3>1, <3>2, LoopIdle
  <2> QED BY <2>1 DEF LoopsOK
<1>11. AllAlive
  BY <1>5 DEF AllAlive
<1> QED BY <1>1, <1>2, <1>3, <1>4, <1>8, <1>9, <1>10, <1>11 DEF LifeInv, q

-----------------------------------------------------------------------------
(* What it gives *)

LEMMA LifeType ==
    ASSUME LifeInv
    PROVE  TypeOK
<1>1. numThreads \in Loops /\ next \in Loops
  <2>1. numThreads \in 0..numThreads /\ next \in 0..numThreads /\ 0..numThreads \subseteq Loops
    BY DEF LifeInv, PoolType
  <2> QED BY <2>1
<1>2. ASSUME NEW S, NEW s \in Seq(S)
      PROVE  Elements(s) \subseteq S
  BY ElementOfSeq DEF Elements
<1>3. ASSUME NEW l \in Loops
      PROVE  /\ lpc[l] \in {"poll", "dispatch", "run"}
             /\ active[l] \subseteq Conns \cup {Listener}
             /\ Elements(pending[l]) \cup Elements(batch[l]) \subseteq Functors
             /\ Elements(todo[l]) \subseteq {"close", "error", "read", "write"} \X Conns
             /\ ctx[l] \in {<< >>} \cup
                     ({"connection", "message", "writeComplete"} \X Conns)
             /\ batch[l] # << >> => lpc[l] = "run"
             /\ active[l] # {} \/ todo[l] # << >> => lpc[l] = "dispatch"
  <2>1. /\ pending[l] \in Seq(Functors) /\ batch[l] \in Seq(Functors)
        /\ todo[l] \in Seq(Handlers)
    BY Basics DEF Queues
  <2>2. Elements(pending[l]) \cup Elements(batch[l]) \subseteq Functors
    BY <1>2, <2>1
  <2>3. Elements(todo[l]) \subseteq {"close", "error", "read", "write"} \X Conns
    BY <1>2, <2>1 DEF Handlers
  <2>4. active[l] # {} \/ todo[l] # << >> => lpc[l] = "dispatch"
    BY LoopOf DEF LoopOK
  <2>5. batch[l] # << >> => lpc[l] = "run"
    BY DEF LifeInv, PhaseType
  <2>6. /\ lpc[l] \in {"poll", "dispatch", "run"} /\ active[l] \subseteq Conns \cup {Listener}
        /\ ctx[l] \in {<< >>} \cup ({"connection", "message", "writeComplete"} \X Conns)
    BY Basics
  <2> QED BY <2>2, <2>3, <2>4, <2>5, <2>6
<1>4. /\ \A c \in Conns : IsConnection(conn[c])
      /\ backlog \subseteq Conns
  BY AliveOf DEF LifeInv, StreamsInv, Holds, BacklogOK
<1>5. /\ loopOf \in [Conns -> Loops] /\ connections \subseteq Conns /\ held \subseteq Conns
      /\ unsent \subseteq Msgs /\ listening \in BOOLEAN /\ forces \in 0..MaxForce
  BY DEF LifeInv, PoolType, MapType
<1> QED BY <1>1, <1>3, <1>4, <1>5 DEF TypeOK

\* The states in which the code runs the asserting functions
LEMMA StageStates ==
    ASSUME LifeInv, NEW c \in Conns
    PROVE  /\ Stages[c] = "connecting" => conn[c].state = "kConnecting"
           /\ Stages[c] \in Open => conn[c].state \in {"kConnected", "kDisconnecting"}
           /\ Stages[c] \in {"connecting", "established", "closed"} => c \in connections
           /\ Stages[c] = "unborn" => conn[c].state = "none"
           /\ Stages[c] = "destroyed" => conn[c].index = "kNew"
           /\ Stages[c] \in {"unborn", "connecting", "destroyed"} \cup Open
           /\ removals[c] <= 1 /\ conn[c].destroyed <= 1
<1> DEFINE r == conn[c]
           in == c \in connections
           n == removals[c]
           t == Stage(r, in)
<1>1. Alive(r, in, n) /\ in \in BOOLEAN /\ Stages[c] = t
  BY AliveOf
<1> HIDE DEF r, in, n
<1>2. /\ t = "connecting" => r.state = "kConnecting"
      /\ t = "unborn" => r.state = "none"
      /\ t \in Open => r.state \notin {"none", "kConnecting"} /\ r.destroyed = 0
      /\ t \in {"unborn", "connecting", "destroyed"} \cup Open
  BY DEF Stage, Open
<1>3. t \in Open => r.state \in {"kConnected", "kDisconnecting"}
  BY <1>1, <1>2 DEF Alive, StageOK, Open, IsConnection, States
<1>4. t \in {"connecting", "established", "closed"} => in
  BY <1>1 DEF Alive, StageOK, Stage
<1>5. t = "destroyed" => r.index = "kNew"
  BY <1>1 DEF Alive, StageOK
<1>6. n <= 1 /\ r.destroyed <= 1
  <2>1. CASE t \in Open
    BY <2>1, <1>1, <1>2 DEF Alive, StageOK, Open
  <2>2. CASE t \in {"unborn", "connecting", "destroyed"}
    BY <2>2, <1>1 DEF Alive, StageOK
  <2> QED BY <2>1, <2>2, <1>2
<1> QED BY <1>1, <1>2, <1>3, <1>4, <1>5, <1>6 DEF r, in, n

LEMMA LifeAsserts ==
    ASSUME LifeInv
    PROVE  AssertsHold
<1>1. TypeOK /\ RemovedOnce
  BY LifeType, StageStates DEF RemovedOnce
<1>2. ASSUME NEW l \in Loops, lpc[l] = "run", batch[l] # << >>
      PROVE  LET f == Head(batch[l]) IN
             /\ f.op = "connectEstablished" => conn[f.c].state = "kConnecting"
             /\ f.op = "connectDestroyed" =>
                  conn[f.c].state \in {"kConnected", "kDisconnecting"}
             /\ f.op = "removeConnectionInLoop" => f.c \in connections
  <2> DEFINE q == Ahead(pending, batch)
             f == Head(batch[l])
  <2>1. q \in Queues /\ QueuesOK(Stages, loopOf, q, forces)
    BY Basics DEF LifeInv
  <2>2. q[l] # << >> /\ Head(q[l]) = f
    BY <1>2, Basics, AheadRuns
  <2>3. f \in Functors
    <3>1. batch[l] \in Seq(Functors)
      BY Basics DEF Queues
    <3> QED BY <1>2, <3>1, HeadTailProperties
  <2> HIDE DEF q, f
  <2>4. f.c \in Conns
    BY <2>3 DEF Functors
  <2>5. f.op \in KeyOps => Stages[f.c] = KeyStage(f.op)
    <3> HAVE f.op \in KeyOps
    <3> DEFINE d == f.c
    <3>1. IsKey(Head(q[l]), d) /\ d \in Conns
      BY <2>2, <2>4 DEF IsKey
    <3> HIDE DEF d
    <3>2. Stages[d] = KeyStage(Head(q[l]).op) /\ l = KeyLoop(Head(q[l]).op, loopOf[d])
      BY <2>1, <2>2, <3>1, HeadPlaced
    <3> QED BY <2>2, <3>2 DEF d
  <2>6. /\ f.op = "connectEstablished" => Stages[f.c] = "connecting"
        /\ f.op = "connectDestroyed" => Stages[f.c] = "removed"
        /\ f.op = "removeConnectionInLoop" => Stages[f.c] = "closed"
    BY <2>5 DEF KeyOps, KeyStage
  <2>7. "removed" \in Open
    BY DEF Open
  <2>8. /\ f.op = "connectEstablished" => conn[f.c].state = "kConnecting"
        /\ f.op = "connectDestroyed" =>
             conn[f.c].state \in {"kConnected", "kDisconnecting"}
        /\ f.op = "removeConnectionInLoop" => f.c \in connections
    BY <2>4, <2>6, <2>7, StageStates
  <2> QED BY <2>8 DEF f
<1>3. ASSUME NEW l \in Loops, todo[l] # << >>, Head(todo[l])[1] = "close"
      PROVE  conn[Head(todo[l])[2]].state \in {"kConnected", "kDisconnecting"}
  <2> DEFINE td == todo[l]
             h == Head(td)
  <2>1. td \in Seq(Handlers) /\ td # << >>
    BY <1>3, Basics
  <2>2. LoopOK(l, Stages, loopOf, lpc[l], active[l], td, ctx[l], Forced(pending[l]))
    BY LoopOf
  <2> HIDE DEF td
  <2>3. h \in Handlers /\ h = td[1] /\ 1 \in 1..Len(td)
    BY <2>1, HeadTailProperties, EmptySeq, LenProperties
  <2>4. h[2] \in Conns
    BY <2>3 DEF Handlers
  <2>5. Stages[h[2]] \in Open
    BY <2>2, <2>3 DEF LoopOK
  <2>6. conn[h[2]].state \in {"kConnected", "kDisconnecting"}
    BY <2>4, <2>5, StageStates
  <2> QED BY <2>6 DEF td
<1> QED BY <1>1, <1>2, <1>3 DEF AssertsHold

LEMMA LifeOutlived ==
    ASSUME LifeInv
    PROVE  ChannelOutlived
<1>1. ASSUME NEW c \in Conns, Created(c), ~Referenced(c)
      PROVE  Stages[c] = "destroyed"
  <2>1. Stages[c] \notin {"unborn", "connecting", "established", "closed"}
    BY <1>1, StageStates DEF Created, Referenced
  <2>2. Stages[c] # "removed"
    <3>1. SUFFICES ASSUME Stages[c] = "removed"
                   PROVE  FALSE
      OBVIOUS
    <3> DEFINE q == Ahead(pending, batch)
    <3>2. KeysOK(q, c, Stages[c], loopOf[c])
      BY DEF LifeInv, QueuesOK
    <3>3. PICK l \in Loops : \E i \in 1..Len(q[l]) : q[l][i].c = c
      BY <3>1, <3>2 DEF KeysOK, DestroyQueued
    <3>4. PICK i \in 1..Len(q[l]) : q[l][i].c = c
      BY <3>3
    <3> DEFINE x == batch[l]
               y == pending[l]
    <3>5. x \in Seq(Functors) /\ y \in Seq(Functors) /\ q[l] = x \o y
      BY Basics DEF Queues, Ahead
    <3> HIDE DEF q, x, y
    <3>6. /\ Len(x \o y) = Len(x) + Len(y) /\ Len(x) \in Nat /\ Len(y) \in Nat
          /\ \A j \in 1..Len(x) + Len(y) :
               (x \o y)[j] = IF j <= Len(x) THEN x[j] ELSE y[j - Len(x)]
      BY <3>5, ConcatProperties, LenProperties
    <3>7. \/ \E j \in 1..Len(x) : x[j].c = c
          \/ \E j \in 1..Len(y) : y[j].c = c
      <4> DEFINE z == x \o y
      <4>1. /\ Len(z) = Len(x) + Len(y) /\ i \in 1..Len(z) /\ z[i].c = c
            /\ \A j \in 1..Len(x) + Len(y) :
                 z[j] = IF j <= Len(x) THEN x[j] ELSE y[j - Len(x)]
        BY <3>4, <3>5, <3>6
      <4> HIDE DEF z
      <4>2. CASE i <= Len(x)
        <5>1. i \in 1..Len(x) /\ z[i] = x[i]
          BY <4>1, <4>2, <3>6
        <5> QED BY <5>1, <4>1
      <4>3. CASE i > Len(x)
        <5>1. i - Len(x) \in 1..Len(y) /\ z[i] = y[i - Len(x)]
          BY <4>1, <4>3, <3>6
        <5> QED BY <5>1, <4>1
      <4> QED BY <4>1, <4>2, <4>3, <3>6
    <3>8. \E f \in Elements(y) \cup Elements(x) : f.c = c
      <4>1. DOMAIN x = 1..Len(x) /\ DOMAIN y = 1..Len(y)
        BY <3>5, LenProperties
      <4> QED BY <3>7, <4>1 DEF Elements
    <3> QED BY <3>8, <1>1 DEF Referenced, x, y
  <2> QED BY <2>1, <2>2, StageStates DEF Open
<1>2. ASSUME NEW c \in Conns, Stages[c] = "destroyed", NEW l \in Loops
      PROVE  c \notin active[l] /\ \A h \in Elements(todo[l]) : h[2] # c
  <2>1. LoopOK(l, Stages, loopOf, lpc[l], active[l], todo[l], ctx[l], Forced(pending[l]))
    BY LoopOf
  <2>2. c # Listener
    BY ServerAssumption
  <2>3. c \notin active[l]
    BY <1>2, <2>1, <2>2 DEF LoopOK
  <2>4. \A i \in 1..Len(todo[l]) : todo[l][i][2] # c
    BY <1>2, <2>1 DEF LoopOK, Open
  <2>5. DOMAIN todo[l] = 1..Len(todo[l])
    BY Basics, LenProperties
  <2> QED BY <2>3, <2>4, <2>5 DEF Elements
<1> QED BY <1>1, <1>2, StageStates DEF ChannelOutlived

\* With one call of forceClose at most, none waits when it is called.
LEMMA OneForce ==
    ASSUME LifeInv, MaxForce <= 1
    PROVE  ClosesOnce
<1>1. ASSUME NEW l \in Loops, NEW c \in Conns, CallForceClose(l, c)
      PROVE  c \notin Forced(pending[l])
  <2>1. forces = 0
    <3>1. forces < MaxForce /\ forces \in Nat /\ MaxForce \in Nat
      BY <1>1, ServerAssumption DEF CallForceClose, LifeInv, MapType
    <3> QED BY <3>1
  <2> DEFINE q == Ahead(pending, batch)
             x == batch[l]
             y == pending[l]
             z == x \o y
  <2>2. NoOp(q, "forceCloseInLoop")
    BY <2>1 DEF LifeInv, QueuesOK
  <2>3. q[l] = z
    BY DEF Ahead
  <2>4. x \in Seq(Functors) /\ y \in Seq(Functors)
    BY Basics DEF Queues
  <2> HIDE DEF q, x, y
  <2>5. /\ Len(z) = Len(x) + Len(y) /\ Len(x) \in Nat /\ Len(y) \in Nat
        /\ \A j \in 1..Len(x) + Len(y) : z[j] = IF j <= Len(x) THEN x[j] ELSE y[j - Len(x)]
    BY <2>4, ConcatProperties, LenProperties
  <2>6. \A i \in 1..Len(z) : z[i].op # "forceCloseInLoop"
    BY <2>2, <2>3 DEF NoOp
  <2> HIDE DEF z
  <2>7. ASSUME NEW j \in 1..Len(y)
        PROVE  y[j].op # "forceCloseInLoop"
    <3>1. Len(x) + j \in 1..Len(z) /\ z[Len(x) + j] = y[(Len(x) + j) - Len(x)]
      BY <2>5
    <3>2. (Len(x) + j) - Len(x) = j
      BY <2>5
    <3> QED BY <3>1, <3>2, <2>6
  <2>8. Forced(y) = {}
    BY <2>7, ForcedNone
  <2> QED BY <2>8 DEF y
<1> QED BY <1>1 DEF ClosesOnce

\* The assertions of connectEstablished, connectDestroyed, handleClose and
\* removeConnectionInLoop hold whenever control reaches them, and a connection is
\* removed and destroyed once, however many connections, loops, threads and calls
\* there are, provided the user keeps to Limits and ClosesOnce.
THEOREM AssertionsHold ==
    ASSUME Limits
    PROVE  Spec /\ [][ClosesOnce]_vars => []AssertsHold
<1>1. Init => LifeInv
  BY LifeInit
<1>2. LifeInv /\ [ClosesOnce]_vars /\ [Next]_vars => LifeInv'
  BY LifeStep
<1>3. LifeInv => AssertsHold
  BY LifeAsserts
<1> QED BY <1>1, <1>2, <1>3, PTL DEF Spec

\* Under the same limits, a connection's channel is out of every poller, and no
\* loop has it among the events or callbacks still to handle, when the last
\* TcpConnectionPtr goes: ~TcpConnection and ~Channel find nothing that points to
\* them.
THEOREM ChannelsAreOutlived ==
    ASSUME Limits
    PROVE  Spec /\ [][ClosesOnce]_vars => []ChannelOutlived
<1>1. Init => LifeInv
  BY LifeInit
<1>2. LifeInv /\ [ClosesOnce]_vars /\ [Next]_vars => LifeInv'
  BY LifeStep
<1>3. LifeInv => ChannelOutlived
  BY LifeOutlived
<1> QED BY <1>1, <1>2, <1>3, PTL DEF Spec

\* With at most one call of forceClose in all, as TcpServerIo.cfg has it, nothing
\* else is asked of messageCallback_.
COROLLARY OneForcedClose ==
    ASSUME Limits, MaxForce <= 1
    PROVE  Spec => [](AssertsHold /\ ChannelOutlived)
<1>1. Init => LifeInv
  BY LifeInit
<1>2. LifeInv /\ [Next]_vars => LifeInv'
  BY OneForce, LifeStep
<1>3. LifeInv => AssertsHold /\ ChannelOutlived
  BY LifeAsserts, LifeOutlived
<1> QED BY <1>1, <1>2, <1>3, PTL DEF Spec
=============================================================================
