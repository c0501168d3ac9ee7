----------------------- MODULE ProtocolServersProofs -----------------------
(***************************************************************************)
(* The theorems about the time wheel of HttpServer: for any number of      *)
(* buckets, and however timer and messages interleave, an idle connection  *)
(* is shut down in time and no other is.  Then about the input of a        *)
(* connection, for any sizes of the buffer: Buffer hands on the stream as  *)
(* it arrived, to the loop of the parser and to that of the codec.         *)
(***************************************************************************)
EXTENDS ProtocolServers, SequenceTheorems, WellFoundedInduction, TLAPS

-----------------------------------------------------------------------------
(* Slots *)

\* Quotient and remainder are unique.
LEMMA Euclid ==
    ASSUME NEW n \in Nat \ {0}, NEW a \in Int, NEW b \in Int,
           NEW r \in 0..(n - 1), NEW s \in 0..(n - 1), a * n + r = b * n + s
    PROVE  r = s /\ a = b
OBVIOUS

\* A slot is the remainder of a tick.
LEMMA SlotOf ==
    ASSUME NEW n \in Nat \ {0}, NEW t \in Nat
    PROVE  t % n \in 0..(n - 1) /\ t \div n \in Int /\ t = (t \div n) * n + (t % n)
OBVIOUS

\* After n ticks the slots come round again.
LEMMA SlotAgain ==
    ASSUME NEW n \in Nat \ {0}, NEW t \in Nat
    PROVE  (t + n) % n = t % n
<1> DEFINE a == t \div n
           r == t % n
           b == (t + n) \div n
           s == (t + n) % n
<1>1. r \in 0..(n - 1) /\ a \in Int /\ t = a * n + r
  BY SlotOf
<1>2. s \in 0..(n - 1) /\ b \in Int /\ t + n = b * n + s
  <2>1. t + n \in Nat
    OBVIOUS
  <2> QED BY <2>1, SlotOf
<1> HIDE DEF a, r, b, s
<1>3. (a + 1) * n + r = b * n + s /\ a + 1 \in Int
  BY <1>1, <1>2
<1>4. r = s
  BY <1>1, <1>2, <1>3, Euclid
<1> QED BY <1>4 DEF r, s

\* Not before.
LEMMA SlotsDiffer ==
    ASSUME NEW n \in Nat \ {0}, NEW t \in Nat, NEW k \in 1..(n - 1)
    PROVE  (t + k) % n # t % n
<1> DEFINE a == t \div n
           r == t % n
           b == (t + k) \div n
           s == (t + k) % n
<1> SUFFICES ASSUME r = s PROVE FALSE
  OBVIOUS
<1>1. r \in 0..(n - 1) /\ a \in Int /\ t = a * n + r
  BY SlotOf
<1>2. s \in 0..(n - 1) /\ b \in Int /\ t + k = b * n + s
  <2>1. t + k \in Nat
    OBVIOUS
  <2> QED BY <2>1, SlotOf
<1>0. r = s
  OBVIOUS
<1> HIDE DEF a, r, b, s
<1>3. a * n + k = b * n + 0 /\ k \in 0..(n - 1) /\ 0 \in 0..(n - 1)
  BY <1>0, <1>1, <1>2
<1>4. k = 0
  BY <1>1, <1>2, <1>3, Euclid
<1> QED BY <1>4

-----------------------------------------------------------------------------
(* The wheel *)

WheelType ==
    /\ ticks \in Nat /\ quiet \in 0..WheelSize
    /\ connected \in BOOLEAN /\ ptr \in BOOLEAN /\ skipped \in BOOLEAN

\* The Entry is in the wheel before and while the connection is open, unless
\* onMessage holds it.
EntryInv ==
    /\ pc = "new" => wheel = {} /\ quiet = 0 /\ ~ptr
    /\ pc # "new" => ticks > 0
    /\ ptr => pc = "message"
    /\ pc = "message" /\ ~ptr => ~connected
    /\ pc # "new" /\ connected /\ ~ptr => wheel # {}

\* Whatever bucket holds the Entry is at most as new as the last message, and
\* not older than the wheel.
BucketInv ==
    \A s \in wheel :
        \E t \in Nat : t + quiet < ticks /\ ticks <= t + WheelSize /\ t % WheelSize = s

\* The bucket that was the last at the time of the last message holds it.
TouchedInv ==
    pc # "new" /\ connected /\ ~skipped /\ quiet < WheelSize =>
        \E t \in Nat : t + quiet + 1 = ticks /\ t % WheelSize \in wheel

WheelInv ==
    /\ WheelType
    /\ server = "http" => EntryInv /\ BucketInv /\ TouchedInv

\* No connection yet.
LEMMA InitWheelInv == Init => WheelInv
<1> SUFFICES ASSUME Init PROVE WheelInv
  OBVIOUS
<1>1. /\ ticks = 0 /\ quiet = 0 /\ connected = TRUE /\ ptr = FALSE /\ skipped = FALSE
      /\ pc = "new" /\ wheel = {}
  BY DEF Init
<1>2. 0 \in 0..WheelSize
  BY ServersAssumption
<1> QED BY <1>1, <1>2 DEF WheelInv, WheelType, EntryInv, BucketInv, TouchedInv

\* The slot of the last bucket.
LEMMA BackSlot ==
    ASSUME ticks \in Nat, ticks > 0
    PROVE  \E t \in Nat : t + 1 = ticks /\ t % WheelSize = Back
<1>1. ticks - 1 \in Nat /\ ticks - 1 + 1 = ticks
  OBVIOUS
<1> QED BY <1>1 DEF Back

\* onTimer takes a bucket away.
LEMMA TimerWheel ==
    ASSUME WheelInv, OnTimer
    PROVE  /\ WheelInv'
           /\ connected /\ ~connected' => quiet' >= WheelSize \/ skipped
<1>0. /\ server = "http" /\ EntryInv /\ BucketInv /\ TouchedInv /\ WheelType
      /\ WheelSize \in Nat \ {0}
  BY ServersAssumption DEF OnTimer, WheelInv
<1> DEFINE s0 == ticks % WheelSize
<1>1. /\ ticks' = ticks + 1 /\ wheel' = wheel \ {s0}
      /\ connected' = (connected /\ (wheel = {} \/ wheel' # {} \/ ptr))
      /\ quiet' = IF pc # "new" /\ quiet < WheelSize THEN quiet + 1 ELSE quiet
      /\ UNCHANGED <<server, pc, ptr, skipped>>
  BY DEF OnTimer
<1> HIDE DEF s0
<1>2. WheelType'
  BY <1>0, <1>1 DEF WheelType
<1>3. EntryInv'
  BY <1>0, <1>1 DEF EntryInv, WheelType
<1>4. BucketInv'
  <2> SUFFICES ASSUME NEW s \in wheel'
               PROVE  \E t \in Nat : /\ t + quiet' < ticks' /\ ticks' <= t + WheelSize
                                     /\ t % WheelSize = s
    BY DEF BucketInv
  <2>1. s \in wheel /\ s # s0 /\ pc # "new"
    BY <1>0, <1>1 DEF EntryInv
  <2>2. PICK t \in Nat : t + quiet < ticks /\ ticks <= t + WheelSize /\ t % WheelSize = s
    BY <1>0, <2>1 DEF BucketInv
  <2>3. ticks # t + WheelSize
    <3> SUFFICES ASSUME ticks = t + WheelSize PROVE FALSE
      OBVIOUS
    <3>1. (t + WheelSize) % WheelSize = t % WheelSize
      BY <1>0, SlotAgain
    <3> QED BY <2>1, <2>2, <3>1 DEF s0
  <2>4. t + quiet' < ticks' /\ ticks' <= t + WheelSize
    BY <1>0, <1>1, <2>1, <2>2, <2>3 DEF WheelType
  <2> QED BY <2>2, <2>4
<1>5. ASSUME NEW t \in Nat, t + quiet + 1 = ticks, quiet + 1 < WheelSize
      PROVE  t % WheelSize # s0
  <2> DEFINE k == quiet + 1
  <2>1. k \in 1..(WheelSize - 1) /\ t + k = ticks
    BY <1>0, <1>5 DEF WheelType
  <2> HIDE DEF k
  <2>2. (t + k) % WheelSize # t % WheelSize
    BY <1>0, <2>1, SlotsDiffer
  <2> QED BY <2>1, <2>2 DEF s0
<1>6. TouchedInv'
  <2> SUFFICES ASSUME pc' # "new", connected', ~skipped', quiet' < WheelSize
               PROVE  \E t \in Nat : t + quiet' + 1 = ticks' /\ t % WheelSize \in wheel'
    BY DEF TouchedInv
  <2>1. /\ pc # "new" /\ connected /\ ~skipped /\ quiet < WheelSize
        /\ quiet' = quiet + 1 /\ quiet + 1 < WheelSize
    BY <1>0, <1>1 DEF WheelType
  <2>2. PICK t \in Nat : t + quiet + 1 = ticks /\ t % WheelSize \in wheel
    BY <1>0, <2>1 DEF TouchedInv
  <2>3. t % WheelSize \in wheel'
    BY <1>1, <1>5, <2>1, <2>2
  <2>4. t + quiet' + 1 = ticks'
    BY <1>0, <1>1, <2>1, <2>2 DEF WheelType
  <2> QED BY <2>3, <2>4
<1>7. ASSUME connected, ~connected', ~skipped PROVE quiet' >= WheelSize
  <2>1. wheel # {} /\ wheel' = {} /\ ~ptr /\ pc # "new"
    BY <1>0, <1>1, <1>7 DEF EntryInv
  <2>2. CASE quiet < WheelSize
    <3>1. PICK t \in Nat : t + quiet + 1 = ticks /\ t % WheelSize \in wheel
      BY <1>0, <1>7, <2>1, <2>2 DEF TouchedInv
    <3>2. t % WheelSize = s0
      BY <1>1, <2>1, <3>1
    <3>3. ~(quiet + 1 < WheelSize)
      BY <1>5, <3>1, <3>2
    <3> QED BY <1>0, <1>1, <2>1, <2>2, <3>3 DEF WheelType
  <2>3. CASE ~(quiet < WheelSize)
    BY <1>0, <1>1, <2>3 DEF WheelType
  <2> QED BY <2>2, <2>3
<1> QED BY <1>1, <1>2, <1>3, <1>4, <1>6, <1>7 DEF WheelInv

\* onConnection puts the Entry into the last bucket.
LEMMA ConnectionWheel ==
    ASSUME WheelInv, OnConnection
    PROVE  WheelInv'
<1>0. WheelType /\ WheelSize \in Nat \ {0}
  BY ServersAssumption DEF WheelInv
<1>1. UNCHANGED <<server, connected, ptr, ticks, quiet, skipped>> /\ pc = "new" /\ pc' = "idle"
  BY DEF OnConnection, session
<1>2. WheelType'
  BY <1>0, <1>1 DEF WheelType
<1>3. ASSUME server = "http" PROVE EntryInv' /\ BucketInv' /\ TouchedInv'
  <2>1. ticks > 0 /\ wheel' = {Back} /\ quiet = 0 /\ ~ptr
    BY <1>1, <1>3 DEF OnConnection, WheelInv, EntryInv
  <2>2. PICK t \in Nat : t + 1 = ticks /\ t % WheelSize = Back
    BY <1>0, <2>1, BackSlot DEF WheelType
  <2>3. EntryInv'
    BY <1>1, <2>1 DEF EntryInv
  <2>4. BucketInv'
    <3>1. t + quiet' < ticks' /\ ticks' <= t + WheelSize
      BY <1>0, <1>1, <2>1, <2>2
    <3> QED BY <2>1, <2>2, <3>1 DEF BucketInv
  <2>5. TouchedInv'
    <3>1. t + quiet' + 1 = ticks'
      BY <1>1, <2>1, <2>2
    <3> QED BY <2>1, <2>2, <3>1 DEF TouchedInv
  <2> QED BY <2>3, <2>4, <2>5
<1> QED BY <1>1, <1>2, <1>3 DEF WheelInv

\* handleRead leaves the wheel alone; onMessage holds the Entry if it is there.
LEMMA ReceiveWheel ==
    ASSUME WheelInv, Receive
    PROVE  WheelInv'
<1>1. /\ UNCHANGED <<server, connected, ticks, wheel, quiet, skipped>>
      /\ pc = "idle" /\ pc' = "message" /\ ptr' = (wheel # {})
  BY DEF Receive
<1>2. WheelType'
  BY <1>1 DEF WheelInv, WheelType
<1>3. ASSUME server = "http" PROVE EntryInv' /\ BucketInv' /\ TouchedInv'
  <2>1. EntryInv /\ BucketInv /\ TouchedInv
    BY <1>3 DEF WheelInv
  <2>2. EntryInv'
    BY <1>1, <2>1 DEF EntryInv
  <2>3. BucketInv'
    BY <1>1, <2>1 DEF BucketInv
  <2>4. TouchedInv'
    BY <1>1, <2>1 DEF TouchedInv
  <2> QED BY <2>2, <2>3, <2>4
<1> QED BY <1>1, <1>2, <1>3 DEF WheelInv

\* onMessage puts the Entry into the last bucket, or records that it does not.
LEMMA MessageWheel ==
    ASSUME WheelInv, OnMessage
    PROVE  WheelInv'
<1>0. /\ server = "http" /\ EntryInv /\ BucketInv /\ TouchedInv /\ WheelType
      /\ WheelSize \in Nat \ {0}
  BY ServersAssumption DEF OnMessage, WheelInv
<1>1. /\ UNCHANGED <<server, ticks>> /\ pc = "message" /\ pc' = "idle" /\ ptr' = FALSE
      /\ quiet' = 0 /\ connected' \in BOOLEAN
      /\ wheel' = IF ptr /\ Back # tail THEN wheel \cup {Back} ELSE wheel
      /\ skipped' = (skipped \/ (ptr /\ Back = tail /\ Back \notin wheel))
  BY DEF OnMessage, Touch
<1>2. connected' => connected /\ ~(ptr /\ wheel' = {})
  BY Zenon DEF OnMessage
<1>3. ticks > 0 /\ (connected => ptr)
  BY <1>0, <1>1 DEF EntryInv
<1>4. PICK t \in Nat : t + 1 = ticks /\ t % WheelSize = Back
  BY <1>0, <1>3, BackSlot DEF WheelType
<1>5. WheelType'
  <2>1. ticks' \in Nat /\ quiet' \in 0..WheelSize
    BY <1>0, <1>1 DEF WheelType
  <2>2. skipped' \in BOOLEAN
    <3>1. skipped' = TRUE \/ skipped' = FALSE
      BY <1>1, Zenon
    <3> QED BY <3>1
  <2> QED BY <1>1, <2>1, <2>2 DEF WheelType
<1>6. EntryInv'
  BY <1>1, <1>2, <1>3 DEF EntryInv
<1>7. BucketInv'
  <2> SUFFICES ASSUME NEW s \in wheel'
               PROVE  \E x \in Nat : /\ x + quiet' < ticks' /\ ticks' <= x + WheelSize
                                     /\ x % WheelSize = s
    BY DEF BucketInv
  <2>1. CASE s \in wheel
    <3>1. PICK x \in Nat : x + quiet < ticks /\ ticks <= x + WheelSize /\ x % WheelSize = s
      BY <1>0, <2>1 DEF BucketInv
    <3>2. x + quiet' < ticks' /\ ticks' <= x + WheelSize
      BY <1>0, <1>1, <3>1 DEF WheelType
    <3> QED BY <3>1, <3>2
  <2>2. CASE s = Back
    <3>1. t + quiet' < ticks' /\ ticks' <= t + WheelSize
      BY <1>0, <1>1, <1>4
    <3> QED BY <1>4, <2>2, <3>1
  <2> QED BY <1>1, <2>1, <2>2
<1>8. TouchedInv'
  <2> SUFFICES ASSUME connected', ~skipped'
               PROVE  \E x \in Nat : x + quiet' + 1 = ticks' /\ x % WheelSize \in wheel'
    BY DEF TouchedInv
  <2>1. Back \in wheel'
    BY <1>1, <1>2, <1>3
  <2>2. t + quiet' + 1 = ticks'
    BY <1>1, <1>4
  <2> QED BY <1>4, <2>1, <2>2
<1> QED BY <1>5, <1>6, <1>7, <1>8 DEF WheelInv

\* The other server has no wheel.
LEMMA FramesWheel ==
    ASSUME WheelInv, OnFrames
    PROVE  WheelInv'
<1>1. /\ server = "addrbook" /\ server' = server /\ connected' \in BOOLEAN /\ ptr' = FALSE
      /\ UNCHANGED <<ticks, quiet, skipped>>
  BY DEF OnFrames
<1>2. server' # "http"
  BY <1>1
<1>3. WheelType'
  BY <1>1 DEF WheelInv, WheelType
<1> QED BY <1>2, <1>3 DEF WheelInv

\* Every step keeps the invariant of the wheel.
LEMMA StepWheelInv == WheelInv /\ [Next]_vars => WheelInv'
<1> SUFFICES ASSUME WheelInv, [Next]_vars PROVE WheelInv'
  OBVIOUS
<1>1. CASE UNCHANGED vars
  BY <1>1 DEF vars, session, wheelVars, WheelInv, WheelType, EntryInv, BucketInv, TouchedInv
<1>2. CASE Next
  BY <1>2, TimerWheel, ConnectionWheel, ReceiveWheel, MessageWheel, FramesWheel DEF Next
<1> QED BY <1>1, <1>2

\* The wheel holds what was put into it since the last turn.
LEMMA WheelCorrect == Spec => []WheelInv
BY InitWheelInv, StepWheelInv, PTL DEF Spec

\* A connection that was quiet while every bucket of the wheel was replaced is
\* shut down, for any number of buckets and however onTimer falls into onMessage.
THEOREM IdleIsClosed == Spec => []IdleClosed
<1>1. WheelInv => IdleClosed
  <2> SUFFICES ASSUME WheelInv, server = "http", pc = "idle", quiet >= WheelSize
               PROVE  ~connected
    BY DEF IdleClosed
  <2>1. EntryInv /\ BucketInv /\ WheelType /\ WheelSize \in Nat
    BY ServersAssumption DEF WheelInv
  <2>2. wheel = {}
    <3> SUFFICES ASSUME NEW s \in wheel PROVE FALSE
      OBVIOUS
    <3>1. PICK t \in Nat : t + quiet < ticks /\ ticks <= t + WheelSize
      BY <2>1 DEF BucketInv
    <3> QED BY <2>1, <3>1 DEF WheelType
  <2> QED BY <2>1, <2>2 DEF EntryInv
<1> QED BY <1>1, WheelCorrect, PTL

\* The wheel shuts down no connection that had a message in the meantime, unless
\* that message found the wheel in the slot that onConnection had stored.
THEOREM ActiveIsKept == Spec => ActiveKept
<1>1. WheelInv /\ [Next]_vars =>
        [connected /\ ~connected' /\ ticks' # ticks => quiet' >= WheelSize \/ skipped]_vars
  <2> SUFFICES ASSUME WheelInv, [Next]_vars, connected, ~connected', ticks' # ticks
               PROVE  quiet' >= WheelSize \/ skipped
    OBVIOUS
  <2>1. CASE OnTimer
    BY <2>1, TimerWheel
  <2>2. CASE OnConnection \/ Receive \/ OnMessage \/ OnFrames \/ UNCHANGED vars
    BY <2>2 DEF OnConnection, Receive, OnMessage, OnFrames, vars, wheelVars
  <2> QED BY <2>1, <2>2 DEF Next
<1> QED BY <1>1, WheelCorrect, PTL DEF Spec, ActiveKept

-----------------------------------------------------------------------------
(* Buffer *)

\* What the assertions of Buffer ask of the two indexes.
BufferOK(b, S) ==
    /\ b \in [cells : Seq(S), r : Nat, w : Nat]
    /\ CheapPrepend <= b.r /\ b.r <= b.w /\ b.w <= Len(b.cells)

\* The data are cells between the indexes.
LEMMA ReadableCells ==
    ASSUME NEW S, NEW b, BufferOK(b, S)
    PROVE  /\ Readable(b) \in Seq(S) /\ Len(Readable(b)) = b.w - b.r
           /\ ReadableBytes(b) = b.w - b.r /\ b.w - b.r \in Nat
           /\ \A k \in 1..(b.w - b.r) : Readable(b)[k] = b.cells[b.r + k]
<1> DEFINE n == b.w - b.r
           cells == b.cells
<1>1. /\ cells \in Seq(S) /\ b.r \in Nat /\ b.w \in Nat /\ n \in Nat
      /\ b.r + n <= Len(cells) /\ Len(cells) \in Nat
  BY BufferAssumption DEF BufferOK
<1>2. Readable(b) = [k \in 1..n |-> IF b.r + k <= Len(cells) THEN cells[b.r + k] ELSE Zero]
  BY DEF Readable
<1>3. ReadableBytes(b) = n
  BY DEF ReadableBytes
<1>4. \A k \in 1..n : b.r + k <= Len(cells) /\ b.r + k \in 1..Len(cells)
  BY <1>1
<1> HIDE DEF n, cells
<1>5. \A k \in 1..n : Readable(b)[k] = cells[b.r + k] /\ Readable(b)[k] \in S
  BY <1>1, <1>2, <1>4
<1>6. Readable(b) \in [1..n -> S]
  BY <1>2, <1>5
<1>7. Readable(b) \in Seq(S) /\ Len(Readable(b)) = n
  BY <1>1, <1>6, LenProperties, SeqDef
<1> QED BY <1>1, <1>3, <1>5, <1>7 DEF n, cells

\* What Overwrite writes, and what it leaves.
LEMMA OverwriteCells ==
    ASSUME NEW S, NEW c \in Seq(S), NEW i \in Nat, NEW v \in Seq(S), i + Len(v) <= Len(c)
    PROVE  /\ Overwrite(c, i, v) \in Seq(S) /\ Len(Overwrite(c, i, v)) = Len(c)
           /\ \A k \in 1..i : Overwrite(c, i, v)[k] = c[k]
           /\ \A k \in 1..Len(v) : Overwrite(c, i, v)[i + k] = v[k]
<1> DEFINE o == Overwrite(c, i, v)
<1>1. Len(c) \in Nat /\ Len(v) \in Nat
  OBVIOUS
<1>2. o = [k \in 1..Len(c) |-> IF k > i /\ k <= i + Len(v) THEN v[k - i] ELSE c[k]]
  BY DEF Overwrite
<1> HIDE DEF o
<1>3. \A k \in 1..Len(c) : o[k] \in S
  BY <1>1, <1>2
<1>4. o \in [1..Len(c) -> S]
  BY <1>2, <1>3
<1>5. o \in Seq(S) /\ Len(o) = Len(c)
  BY <1>1, <1>4, LenProperties, SeqDef
<1>6. \A k \in 1..i : o[k] = c[k]
  BY <1>1, <1>2
<1>7. \A k \in 1..Len(v) : o[i + k] = v[k]
  BY <1>1, <1>2
<1> QED BY <1>5, <1>6, <1>7 DEF o

\* A buffer with other cells and another writer index.
LEMMA Rewritten ==
    ASSUME NEW S, NEW b, BufferOK(b, S), NEW cells, NEW w
    PROVE  [b EXCEPT !.cells = cells, !.w = w] = [cells |-> cells, r |-> b.r, w |-> w]
<1>1. b \in [cells : Seq(S), r : Nat, w : Nat]
  BY DEF BufferOK
<1>2. b = [cells |-> b.cells, r |-> b.r, w |-> b.w]
  BY ONLY <1>1
<1> DEFINE x == b.cells
           y == b.r
           z == b.w
<1> HIDE DEF x, y, z
<1>3. b = [cells |-> x, r |-> y, w |-> z]
  BY <1>2 DEF x, y, z
<1>4. [b EXCEPT !.cells = cells, !.w = w] = [[b EXCEPT !.cells = cells] EXCEPT !.w = w]
  BY ONLY <1>1
<1>5. [b EXCEPT !.cells = cells] = [cells |-> cells, r |-> y, w |-> z]
  BY ONLY <1>3
<1>6. [[cells |-> cells, r |-> y, w |-> z] EXCEPT !.w = w] = [cells |-> cells, r |-> y, w |-> w]
  OBVIOUS
<1> QED BY <1>4, <1>5, <1>6, Zenon DEF y

\* Cells written at the writer index are appended to the data.
LEMMA WriteAppends ==
    ASSUME NEW S, NEW b, BufferOK(b, S), NEW v \in Seq(S), b.w + Len(v) <= Len(b.cells)
    PROVE  LET c == [b EXCEPT !.cells = Overwrite(@, b.w, v), !.w = @ + Len(v)]
           IN  /\ BufferOK(c, S) /\ Readable(c) = Readable(b) \o v
               /\ Len(c.cells) = Len(b.cells) /\ c.w = b.w + Len(v) /\ c.r = b.r
<1> DEFINE c == [b EXCEPT !.cells = Overwrite(@, b.w, v), !.w = @ + Len(v)]
           o == Overwrite(b.cells, b.w, v)
           n == b.w - b.r
<1>1. /\ b.cells \in Seq(S) /\ b.r \in Nat /\ b.w \in Nat /\ Len(v) \in Nat
      /\ CheapPrepend <= b.r /\ b.r <= b.w /\ CheapPrepend \in Nat
  BY BufferAssumption DEF BufferOK
<1>2. /\ o \in Seq(S) /\ Len(o) = Len(b.cells)
      /\ \A k \in 1..b.w : o[k] = b.cells[k]
      /\ \A k \in 1..Len(v) : o[b.w + k] = v[k]
  BY <1>1, OverwriteCells
<1>3. c = [cells |-> o, r |-> b.r, w |-> b.w + Len(v)]
  <2> HIDE DEF o
  <2>1. c = [b EXCEPT !.cells = o, !.w = b.w + Len(v)]
    BY DEF o
  <2> QED BY <2>1, Rewritten
<1> HIDE DEF c, o
<1>3a. c.cells = o /\ c.r = b.r /\ c.w = b.w + Len(v)
  BY <1>3
<1>4. BufferOK(c, S)
  BY <1>1, <1>2, <1>3, <1>3a DEF BufferOK
<1>5. /\ Readable(b) \in Seq(S) /\ Len(Readable(b)) = n /\ n \in Nat
      /\ \A k \in 1..n : Readable(b)[k] = b.cells[b.r + k]
  BY ReadableCells
<1>6. /\ Readable(c) \in Seq(S) /\ Len(Readable(c)) = n + Len(v)
      /\ \A k \in 1..(n + Len(v)) : Readable(c)[k] = o[b.r + k]
  <2>1. /\ Readable(c) \in Seq(S) /\ Len(Readable(c)) = c.w - c.r
        /\ \A k \in 1..(c.w - c.r) : Readable(c)[k] = c.cells[c.r + k]
    BY <1>4, ReadableCells
  <2>2. c.w - c.r = n + Len(v)
    BY <1>1, <1>3a
  <2> QED BY <1>3a, <2>1, <2>2
<1> HIDE DEF n
<1>7. /\ Readable(b) \o v \in Seq(S) /\ Len(Readable(b) \o v) = n + Len(v)
      /\ \A k \in 1..(n + Len(v)) :
            (Readable(b) \o v)[k] = IF k <= n THEN Readable(b)[k] ELSE v[k - n]
  BY <1>1, <1>5, ConcatProperties
<1>8. ASSUME NEW k \in 1..(n + Len(v)) PROVE Readable(c)[k] = (Readable(b) \o v)[k]
  <2>1. CASE k <= n
    <3>1. k \in 1..n /\ b.r + k \in 1..b.w
      BY <1>1, <1>5, <2>1 DEF n
    <3> QED BY <1>2, <1>5, <1>6, <1>7, <3>1
  <2>2. CASE ~(k <= n)
    <3>1. k - n \in 1..Len(v) /\ b.r + k = b.w + (k - n)
      BY <1>1, <1>5, <2>2 DEF n
    <3> QED BY <1>2, <1>6, <1>7, <2>2, <3>1
  <2> QED BY <2>1, <2>2
<1>9. Readable(c) = Readable(b) \o v
  BY <1>6, <1>7, <1>8, SeqEqual
<1> QED BY <1>2, <1>4, <1>9, <1>3a DEF c

\* makeSpace keeps the data and makes the room that was asked for.
LEMMA MakeSpaceKeeps ==
    ASSUME NEW S, Zero \in S, NEW b, BufferOK(b, S), NEW n \in Nat
    PROVE  LET c == MakeSpace(b, n)
           IN  BufferOK(c, S) /\ Readable(c) = Readable(b) /\ c.w + n <= Len(c.cells)
<1> DEFINE c == MakeSpace(b, n)
           m == b.w - b.r
<1>1. /\ b.cells \in Seq(S) /\ b.r \in Nat /\ b.w \in Nat /\ Len(b.cells) \in Nat
      /\ CheapPrepend <= b.r /\ b.r <= b.w /\ b.w <= Len(b.cells)
      /\ CheapPrepend \in Nat /\ m \in Nat
  BY BufferAssumption DEF BufferOK
<1>2. /\ Readable(b) \in Seq(S) /\ Len(Readable(b)) = m /\ ReadableBytes(b) = m
      /\ \A k \in 1..m : Readable(b)[k] = b.cells[b.r + k]
  BY ReadableCells
<1>3. CASE WritableBytes(b) + PrependableBytes(b) < n + CheapPrepend
  <2> DEFINE f == SubSeq(b.cells, 1, b.w)
             z == Zeros(n)
  <2>1. f \in Seq(S) /\ Len(f) = b.w /\ \A k \in 1..b.w : f[k] = b.cells[k]
    BY <1>1, SubSeqProperties
  <2>2. z \in Seq(S) /\ Len(z) = n
    <3>1. z = [k \in 1..n |-> Zero]
      BY DEF Zeros
    <3> HIDE DEF z
    <3>2. z \in [1..n -> S]
      BY <3>1
    <3> QED BY <3>2, LenProperties, SeqDef
  <2>3. c.cells = f \o z /\ c.r = b.r /\ c.w = b.w /\ c = [cells |-> f \o z, r |-> b.r, w |-> b.w]
    BY <1>3 DEF MakeSpace, BufferOK
  <2> HIDE DEF f, z, c
  <2>4. /\ f \o z \in Seq(S) /\ Len(f \o z) = b.w + n
        /\ \A k \in 1..b.w : (f \o z)[k] = b.cells[k]
    <3>1. /\ f \o z \in Seq(S) /\ Len(f \o z) = Len(f) + Len(z)
          /\ \A k \in 1..(Len(f) + Len(z)) :
                (f \o z)[k] = IF k <= Len(f) THEN f[k] ELSE z[k - Len(f)]
      BY <2>1, <2>2, ConcatProperties
    <3>2. \A k \in 1..b.w : k \in 1..(b.w + n) /\ k <= b.w
      BY <1>1
    <3> QED BY <2>1, <2>2, <3>1, <3>2
  <2>5. BufferOK(c, S) /\ c.w + n <= Len(c.cells)
    BY <1>1, <2>3, <2>4 DEF BufferOK
  <2>6. /\ Readable(c) \in Seq(S) /\ Len(Readable(c)) = m
        /\ \A k \in 1..m : Readable(c)[k] = c.cells[c.r + k]
    BY <2>3, <2>5, ReadableCells
  <2>7. ASSUME NEW k \in 1..m PROVE Readable(c)[k] = Readable(b)[k]
    <3>1. b.r + k \in 1..b.w
      BY <1>1
    <3> QED BY <1>2, <2>3, <2>4, <2>6, <3>1
  <2>8. Readable(c) = Readable(b)
    BY <1>2, <2>6, <2>7, SeqEqual
  <2> QED BY <2>5, <2>8 DEF c
<1>4. CASE ~(WritableBytes(b) + PrependableBytes(b) < n + CheapPrepend)
  <2> DEFINE d == Readable(b)
             o == Overwrite(b.cells, CheapPrepend, d)
  <2>1. c = [cells |-> o, r |-> CheapPrepend, w |-> CheapPrepend + m]
    BY <1>2, <1>4 DEF MakeSpace
  <2>2. CheapPrepend + m + n <= Len(b.cells)
    BY <1>1, <1>4 DEF WritableBytes, PrependableBytes
  <2>3. /\ o \in Seq(S) /\ Len(o) = Len(b.cells)
        /\ \A k \in 1..m : o[CheapPrepend + k] = d[k]
    <3> DEFINE l == b.cells
    <3>1. /\ d \in Seq(S) /\ Len(d) = m /\ l \in Seq(S) /\ CheapPrepend \in Nat
          /\ CheapPrepend + m <= Len(l)
      BY <1>1, <1>2, <2>2
    <3>2. o = Overwrite(l, CheapPrepend, d)
      OBVIOUS
    <3> HIDE DEF d, m, l, o
    <3>3. /\ o \in Seq(S) /\ Len(o) = Len(l)
          /\ \A k \in 1..Len(d) : o[CheapPrepend + k] = d[k]
      BY ONLY <3>1, <3>2, OverwriteCells
    <3> QED BY <3>1, <3>3 DEF l
  <2> HIDE DEF o, c
  <2>4. c.cells = o /\ c.r = CheapPrepend /\ c.w = CheapPrepend + m
    BY <2>1
  <2>5. BufferOK(c, S) /\ c.w + n <= Len(c.cells)
    BY <1>1, <2>1, <2>2, <2>3 DEF BufferOK
  <2>6. c.w - c.r = m
    BY <1>1, <2>4
  <2>7. /\ Readable(c) \in Seq(S) /\ Len(Readable(c)) = m
        /\ \A k \in 1..m : Readable(c)[k] = c.cells[c.r + k]
    BY <2>5, <2>6, ReadableCells
  <2>8. \A k \in 1..m : Readable(c)[k] = d[k]
    BY <2>3, <2>4, <2>7
  <2>9. Readable(c) = Readable(b)
    BY <1>2, <2>7, <2>8, SeqEqual
  <2> QED BY <2>5, <2>9 DEF c
<1> QED BY <1>3, <1>4

\* append puts its cells behind the data, wherever it has to make room.
LEMMA AppendAppends ==
    ASSUME NEW S, Zero \in S, NEW b, BufferOK(b, S), NEW v \in Seq(S)
    PROVE  BufferOK(AppendTo(b, v), S) /\ Readable(AppendTo(b, v)) = Readable(b) \o v
<1> DEFINE c == EnsureWritable(b, Len(v))
           a == [c EXCEPT !.cells = Overwrite(@, c.w, v), !.w = @ + Len(v)]
<1>1. /\ Len(v) \in Nat /\ b.w \in Nat /\ Len(b.cells) \in Nat
  BY DEF BufferOK
<1>2. BufferOK(c, S) /\ Readable(c) = Readable(b) /\ c.w + Len(v) <= Len(c.cells)
  <2>1. CASE WritableBytes(b) < Len(v)
    BY <1>1, <2>1, MakeSpaceKeeps DEF EnsureWritable
  <2>2. CASE ~(WritableBytes(b) < Len(v))
    BY <1>1, <2>2 DEF EnsureWritable, WritableBytes
  <2> QED BY <2>1, <2>2
<1>3. AppendTo(b, v) = a
  BY DEF AppendTo
<1> HIDE DEF c
<1>4. BufferOK(a, S) /\ Readable(a) = Readable(c) \o v
  <2>1. ASSUME NEW d, BufferOK(d, S), d.w + Len(v) <= Len(d.cells)
        PROVE  LET e == [d EXCEPT !.cells = Overwrite(@, d.w, v), !.w = @ + Len(v)]
               IN  BufferOK(e, S) /\ Readable(e) = Readable(d) \o v
    BY <2>1, WriteAppends
  <2> QED BY <1>2, <2>1, Zenon
<1> QED BY <1>2, <1>3, <1>4

\* readFd appends what was read, through extrabuf or not.
LEMMA ReadFdAppends ==
    ASSUME NEW S, Zero \in S, NEW b, BufferOK(b, S), NEW v \in Seq(S)
    PROVE  BufferOK(ReadFd(b, v), S) /\ Readable(ReadFd(b, v)) = Readable(b) \o v
<1> DEFINE n == WritableBytes(b)
<1>1. /\ n \in Nat /\ b.w + n = Len(b.cells) /\ b.w \in Nat /\ Len(v) \in Nat
      /\ Readable(b) \in Seq(S)
  BY ReadableCells DEF BufferOK, WritableBytes
<1>2. CASE Len(v) <= n
  <2> DEFINE c == [b EXCEPT !.cells = Overwrite(@, b.w, v), !.w = @ + Len(v)]
  <2>1. ReadFd(b, v) = c
    BY <1>2 DEF ReadFd
  <2>2. b.w + Len(v) <= Len(b.cells)
    BY <1>1, <1>2
  <2>3. BufferOK(c, S) /\ Readable(c) = Readable(b) \o v
    BY <2>2, WriteAppends
  <2> QED BY <2>1, <2>3
<1>3. CASE ~(Len(v) <= n)
  <2> DEFINE p == SubSeq(v, 1, n)
             q == SubSeq(v, n + 1, Len(v))
             c == [b EXCEPT !.cells = Overwrite(@, b.w, p), !.w = @ + Len(p)]
             d == [b EXCEPT !.cells = Overwrite(@, b.w, p), !.w = Len(b.cells)]
  <2>1. p \in Seq(S) /\ q \in Seq(S) /\ Len(p) = n /\ Len(q) = Len(v) - n
    BY <1>1, <1>3, SubSeqProperties
  <2>2. p \o q = v
    <3>1. /\ \A k \in 1..n : p[k] = v[k]
          /\ \A k \in 1..(Len(v) - n) : q[k] = v[n + k]
      BY <1>1, <1>3, SubSeqProperties
    <3> HIDE DEF n, p, q
    <3>2. /\ p \o q \in Seq(S) /\ Len(p \o q) = Len(v)
          /\ \A k \in 1..Len(v) : (p \o q)[k] = IF k <= n THEN p[k] ELSE q[k - n]
      <4>1. /\ p \o q \in Seq(S) /\ Len(p \o q) = Len(p) + Len(q)
            /\ \A k \in 1..(Len(p) + Len(q)) :
                  (p \o q)[k] = IF k <= Len(p) THEN p[k] ELSE q[k - Len(p)]
        BY <2>1, ConcatProperties
      <4>2. Len(p) + Len(q) = Len(v)
        BY <1>1, <2>1
      <4> QED BY <2>1, <4>1, <4>2
    <3>3. ASSUME NEW k \in 1..Len(v) PROVE (p \o q)[k] = v[k]
      <4>1. CASE k <= n
        BY <1>1, <3>1, <3>2, <4>1
      <4>2. CASE ~(k <= n)
        <5>1. k - n \in 1..(Len(v) - n) /\ n + (k - n) = k
          BY <1>1, <4>2
        <5>2. (p \o q)[k] = q[k - n]
          BY <3>2, <4>2
        <5> QED BY <3>1, <5>1, <5>2
      <4> QED BY <4>1, <4>2
    <3> QED BY <3>2, <3>3, SeqEqual
  <2>3. ReadFd(b, v) = AppendTo(d, q)
    BY <1>3 DEF ReadFd
  <2>4. b.w + Len(p) = Len(b.cells)
    BY <1>1, <2>1
  <2>5. c = d
    BY <2>4 DEF BufferOK
  <2> HIDE DEF p, q
  <2>6. BufferOK(c, S) /\ Readable(c) = Readable(b) \o p
    <3>1. b.w + Len(p) <= Len(b.cells)
      BY <1>1, <2>1, <2>4
    <3> QED BY <2>1, <3>1, WriteAppends
  <2> HIDE DEF c, d
  <2>7. BufferOK(AppendTo(d, q), S) /\ Readable(AppendTo(d, q)) = (Readable(b) \o p) \o q
    BY <2>1, <2>5, <2>6, AppendAppends
  <2>8. (Readable(b) \o p) \o q = Readable(b) \o (p \o q)
    <3> DEFINE d0 == Readable(b)
    <3> HIDE DEF d0
    <3>1. d0 \in Seq(S)
      BY <1>1 DEF d0
    <3>2. (d0 \o p) \o q = d0 \o (p \o q)
      BY ONLY <2>1, <3>1, ConcatAssociative
    <3> QED BY <3>2 DEF d0
  <2> QED BY <2>2, <2>3, <2>7, <2>8
<1> QED BY <1>2, <1>3

\* retrieve takes cells away from the front.
LEMMA RetrieveTakes ==
    ASSUME NEW S, NEW b, BufferOK(b, S), NEW n \in 0..ReadableBytes(b)
    PROVE  /\ BufferOK(Retrieve(b, n), S) /\ Retrieve(b, n).w = b.w
           /\ Retrieve(b, n).cells = b.cells /\ Retrieve(b, n).r = b.r + n
BY BufferAssumption DEF BufferOK, Retrieve, ReadableBytes

-----------------------------------------------------------------------------
(* The loop of parseRequest *)

\* A set of numbers has a least one.
LEMMA Least ==
    ASSUME NEW T, T \subseteq Nat, T # {}
    PROVE  \E x \in T : \A y \in T : x <= y
<1> DEFINE R == OpToRel(<, Nat)
<1>1. IsWellFoundedOn(R, Nat)
  BY NatLessThanWellFounded, Zenon
<1>2. \A x, y \in Nat : <<y, x>> \in R <=> y < x
  BY DEF OpToRel
<1> HIDE DEF R
<1>3. PICK x \in T : \A y \in T : ~ (<<y, x>> \in R)
  BY <1>1, WFMin
<1>4. ASSUME NEW y \in T
      PROVE  x <= y
  <2>1. x \in Nat /\ y \in Nat /\ ~(y < x)
    BY <1>2, <1>3
  <2> QED BY <2>1
<1> QED BY <1>4

\* Induction up to n, for a property given as a set of numbers.
LEMMA UpTo ==
    ASSUME NEW n \in Nat, NEW T, 0 \in T, \A k \in 1..n : k - 1 \in T => k \in T
    PROVE  \A k \in 0..n : k \in T
<1> DEFINE U == {k \in 0..n : k \notin T}
<1> SUFFICES ASSUME U # {} PROVE FALSE
  OBVIOUS
<1>1. U \subseteq Nat
  OBVIOUS
<1> HIDE DEF U
<1>2. PICK x \in U : \A y \in U : x <= y
  BY <1>1, Least
<1>3. x \in 1..n /\ x \notin T /\ x - 1 \in 0..n
  BY <1>2 DEF U
<1>4. x - 1 \notin T
  BY <1>3
<1>5. x - 1 \in U
  BY <1>3, <1>4 DEF U
<1> QED BY <1>2, <1>3, <1>5

\* A round that may be the last.
Round(p) == IF p.hasMore THEN ParseLine(p) ELSE p

\* What the loop begins with.
Begin(cx, b) ==
    [ok |-> TRUE, context |-> cx, buffer |-> b, fails |-> FALSE, hasMore |-> TRUE]

\* The results of the rounds exist, and parseRequest returns the last.
LEMMA ParseRounds ==
    ASSUME NEW cx, NEW b, ReadableBytes(b) \in Nat
    PROVE  \E g : /\ ParseRequest(cx, b) = g[ReadableBytes(b)]
                  /\ g[0] = Begin(cx, b)
                  /\ \A n \in 1..ReadableBytes(b) : g[n] = Round(g[n - 1])
<1> DEFINE N == ReadableBytes(b)
           Rounds(n, g) == g = [i \in 0..n |-> IF i = 0 THEN Begin(cx, b) ELSE Round(g[i - 1])]
           T == {n \in 0..N : \E g : Rounds(n, g)}
<1>1. 0 \in T
  <2> DEFINE g == [i \in 0..0 |-> Begin(cx, b)]
  <2>1. Rounds(0, g)
    <3>1. \A i \in 0..0 : i = 0
      OBVIOUS
    <3> QED BY <3>1
  <2>2. 0 \in 0..N
    OBVIOUS
  <2> QED BY <2>1, <2>2, Zenon
<1>2. ASSUME NEW k \in 1..N, k - 1 \in T PROVE k \in T
  <2>1. PICK h : Rounds(k - 1, h)
    BY <1>2
  <2> DEFINE g == [i \in 0..k |-> IF i = k THEN Round(h[k - 1]) ELSE h[i]]
             r == [i \in 0..k |-> IF i = 0 THEN Begin(cx, b) ELSE Round(g[i - 1])]
  <2>2. ASSUME NEW i \in 0..k PROVE g[i] = r[i]
    <3>1. CASE i = k
      <4>1. k - 1 \in 0..k /\ k - 1 # k /\ i # 0
        BY <3>1
      <4>2. g[k - 1] = h[k - 1] /\ g[i] = Round(h[k - 1])
        BY <3>1, <4>1
      <4> HIDE DEF g
      <4>3. r[i] = Round(g[k - 1])
        BY <3>1, <4>1
      <4> QED BY <4>2, <4>3
    <3>2. CASE i # k
      <4>1. i \in 0..(k - 1) /\ g[i] = h[i]
        BY <3>2
      <4>2. h[i] = IF i = 0 THEN Begin(cx, b) ELSE Round(h[i - 1])
        BY <2>1, <4>1
      <4>3. i # 0 => i - 1 \in 0..k /\ i - 1 # k /\ g[i - 1] = h[i - 1]
        BY <3>2
      <4> HIDE DEF g
      <4>4. r[i] = IF i = 0 THEN Begin(cx, b) ELSE Round(g[i - 1])
        OBVIOUS
      <4> QED BY <4>1, <4>2, <4>3, <4>4
    <3> QED BY <3>1, <3>2
  <2>3. g = [i \in 0..k |-> g[i]] /\ r = [i \in 0..k |-> r[i]]
    OBVIOUS
  <2>4. k \in 0..N
    OBVIOUS
  <2>5. g = r
    <3> HIDE DEF g, r
    <3> QED BY <2>2, <2>3
  <2>6. Rounds(k, g)
    BY <2>5, Zenon
  <2> QED BY <2>4, <2>6, Zenon
<1>3. N \in Nat /\ N \in 0..N /\ \A k \in 1..N : k - 1 \in T => k \in T
  <2> HIDE DEF T
  <2> QED BY <1>2
<1>4. N \in T
  <2> HIDE DEF T
  <2> QED BY <1>1, <1>3, UpTo
<1> DEFINE loop[n \in 0..N] ==
            IF n = 0
            THEN [ok |-> TRUE, context |-> cx, buffer |-> b, fails |-> FALSE,
                  hasMore |-> TRUE]
            ELSE LET p == loop[n - 1] IN IF p.hasMore THEN ParseLine(p) ELSE p
<1>5. ParseRequest(cx, b) = loop[N]
  BY Zenon DEF ParseRequest
<1>6. Rounds(N, loop)
  <2>1. PICK g : Rounds(N, g)
    BY <1>4
  <2>2. g = [n \in 0..N |->
               IF n = 0
               THEN [ok |-> TRUE, context |-> cx, buffer |-> b, fails |-> FALSE,
                     hasMore |-> TRUE]
               ELSE LET p == g[n - 1] IN IF p.hasMore THEN ParseLine(p) ELSE p]
    BY <2>1, Zenon DEF Round, Begin
  <2>3. loop = [n \in 0..N |->
               IF n = 0
               THEN [ok |-> TRUE, context |-> cx, buffer |-> b, fails |-> FALSE,
                     hasMore |-> TRUE]
               ELSE LET p == loop[n - 1] IN IF p.hasMore THEN ParseLine(p) ELSE p]
    BY <2>2, Zenon DEF loop
  <2> HIDE DEF loop
  <2> QED BY <2>3, Zenon DEF Round, Begin
<1> HIDE DEF loop
<1>7. loop[0] = Begin(cx, b)
  BY <1>3, <1>6
<1>8. ASSUME NEW n \in 1..N PROVE loop[n] = Round(loop[n - 1])
  <2>1. n \in 0..N /\ n # 0
    OBVIOUS
  <2> QED BY <1>6, <2>1
<1> QED BY <1>5, <1>7, <1>8

-----------------------------------------------------------------------------
(* What the parser does to the buffer *)

\* c is b after some of its data was retrieved.
Advanced(b, c, S) ==
    BufferOK(c, S) /\ c.cells = b.cells /\ c.w = b.w /\ b.r <= c.r

\* Nothing retrieved.
LEMMA AdvancedRefl == ASSUME NEW S, NEW b, BufferOK(b, S) PROVE Advanced(b, b, S)
BY DEF Advanced, BufferOK

\* retrieve of what is there, asserted in Buffer::retrieve.
LEMMA AdvancedRetrieve ==
    ASSUME NEW S, NEW b, NEW c, BufferOK(b, S), Advanced(b, c, S), NEW n \in 0..ReadableBytes(c)
    PROVE  Advanced(b, Retrieve(c, n), S)
<1>1. /\ BufferOK(Retrieve(c, n), S) /\ Retrieve(c, n).w = c.w
      /\ Retrieve(c, n).cells = c.cells /\ Retrieve(c, n).r = c.r + n
  BY RetrieveTakes DEF Advanced
<1>2. b.r \in Nat /\ c.r \in Nat /\ n \in Nat
  <2>1. b.r \in Nat /\ c.r \in Nat /\ c.w \in Nat
    BY DEF BufferOK, Advanced
  <2> QED BY <2>1
<1>3. b.r <= c.r + n
  BY <1>2 DEF Advanced
<1> QED BY <1>1, <1>3 DEF Advanced

\* A line end that was found lies in the data.
LEMMA FoundCRLF ==
    ASSUME NEW cells, Len(cells) \in Nat
    PROVE  FindCRLF(cells) = 0 \/ FindCRLF(cells) \in 1..(Len(cells) - 1)
<1> DEFINE found == {k \in 1..(Len(cells) - 1) : cells[k] = CR /\ cells[k + 1] = LF}
<1>1. FindCRLF(cells) = IF found = {} THEN 0 ELSE CHOOSE k \in found : \A j \in found : k <= j
  BY DEF FindCRLF
<1>2. found \subseteq Nat
  OBVIOUS
<1>3. found \subseteq 1..(Len(cells) - 1)
  OBVIOUS
<1> HIDE DEF found
<1>4. CASE found = {}
  BY <1>1, <1>4
<1>5. CASE found # {}
  <2>1. \E k \in found : \A j \in found : k <= j
    BY <1>2, <1>5, Least
  <2>2. (CHOOSE k \in found : \A j \in found : k <= j) \in found
    BY <2>1, Zenon
  <2> QED BY <1>1, <1>3, <1>5, <2>2
<1> QED BY <1>4, <1>5

\* The fields of what the loop has so far.
Parsing(p) == DOMAIN p = {"ok", "context", "buffer", "fails", "hasMore"}

\* A round takes a line that is there, or nothing.
LEMMA RoundAdvances ==
    ASSUME NEW S, NEW b, BufferOK(b, S), NEW p, Parsing(p), Advanced(b, p.buffer, S)
    PROVE  Parsing(Round(p)) /\ Advanced(b, Round(p).buffer, S)
<1> DEFINE cells == Readable(p.buffer)
           crlf == FindCRLF(cells)
           line == SubSeq(cells, 1, crlf - 1)
           rest == Retrieve(p.buffer, crlf + 1)
           cx == p.context
           first == ProcessRequestLine(cx.request, line)
           q == ParseLine(p)
<1>1. CASE ~p.hasMore
  BY <1>1 DEF Round
<1>2. CASE p.hasMore
  <2>1. Round(p) = q
    BY <1>2 DEF Round
  <2>2. crlf = 0 \/ Advanced(b, rest, S)
    <3>1. /\ Len(cells) = ReadableBytes(p.buffer) /\ ReadableBytes(p.buffer) \in Nat
      BY ReadableCells DEF Advanced
    <3>2. crlf = 0 \/ crlf \in 1..(Len(cells) - 1)
      BY <3>1, FoundCRLF
    <3> HIDE DEF crlf, cells
    <3>3. crlf = 0 \/ crlf + 1 \in 0..ReadableBytes(p.buffer)
      BY <3>1, <3>2
    <3> QED BY <3>3, AdvancedRetrieve
  <2>3. \/ crlf = 0 /\ q = [p EXCEPT !.hasMore = FALSE]
        \/ crlf # 0 /\ q = [p EXCEPT !.hasMore = FALSE, !.ok = FALSE, !.fails = TRUE]
        \/ q = [p EXCEPT !.hasMore = FALSE, !.ok = FALSE, !.context.request = first.request]
        \/ /\ crlf # 0
           /\ q = [p EXCEPT !.buffer = rest,
                            !.context = [state |-> "kExpectHeaders", request |-> first.request]]
        \/ /\ crlf # 0
           /\ q = [p EXCEPT !.buffer = rest, !.context.request = AddHeader(@, Head(line)[2])]
        \/ /\ crlf # 0
           /\ q = [p EXCEPT !.hasMore = FALSE, !.buffer = rest, !.context.state = "kGotAll"]
    BY DEF ParseLine
  <2> HIDE DEF crlf, line, rest, cx, first, q, cells
  <2>0. "buffer" \in DOMAIN p
    BY DEF Parsing
  <2>4. /\ Parsing(q)
        /\ q.buffer = p.buffer \/ (crlf # 0 /\ q.buffer = rest)
    <3>1. CASE q = [p EXCEPT !.hasMore = FALSE]
      <4>1. Parsing(q)
        BY <3>1 DEF Parsing
      <4>2. q.buffer = p.buffer
        BY <3>1, <2>0
      <4> QED BY <4>1, <4>2
    <3>2. CASE q = [p EXCEPT !.hasMore = FALSE, !.ok = FALSE, !.fails = TRUE]
      <4>1. Parsing(q)
        BY <3>2 DEF Parsing
      <4>2. q.buffer = p.buffer
        BY <3>2, <2>0
      <4> QED BY <4>1, <4>2
    <3>3. CASE q = [p EXCEPT !.hasMore = FALSE, !.ok = FALSE, !.context.request = first.request]
      <4>1. Parsing(q)
        BY <3>3 DEF Parsing
      <4>2. q.buffer = p.buffer
        BY <3>3, <2>0
      <4> QED BY <4>1, <4>2
    <3>4. CASE /\ crlf # 0
               /\ q = [p EXCEPT !.buffer = rest,
                                !.context = [state |-> "kExpectHeaders",
                                             request |-> first.request]]
      BY <3>4 DEF Parsing
    <3>5. CASE /\ crlf # 0
               /\ q = [p EXCEPT !.buffer = rest,
                                !.context.request = AddHeader(@, Head(line)[2])]
      BY <3>5 DEF Parsing
    <3>6. CASE /\ crlf # 0
               /\ q = [p EXCEPT !.hasMore = FALSE, !.buffer = rest,
                                !.context.state = "kGotAll"]
      BY <3>6 DEF Parsing
    <3> QED BY <2>3, <3>1, <3>2, <3>3, <3>4, <3>5, <3>6, Zenon
  <2> QED BY <2>1, <2>2, <2>4
<1> QED BY <1>1, <1>2

\* So does the whole loop: the assertion of retrieve holds in it.
LEMMA ParseAdvances ==
    ASSUME NEW S, NEW cx, NEW b, BufferOK(b, S)
    PROVE  Advanced(b, ParseRequest(cx, b).buffer, S)
<1> DEFINE N == ReadableBytes(b)
<1>1. N \in Nat
  BY ReadableCells
<1>2. PICK g : /\ ParseRequest(cx, b) = g[N] /\ g[0] = Begin(cx, b)
               /\ \A n \in 1..N : g[n] = Round(g[n - 1])
  BY <1>1, ParseRounds
<1> DEFINE T == {n \in 0..N : Parsing(g[n]) /\ Advanced(b, g[n].buffer, S)}
<1>3. 0 \in T
  <2>1. Parsing(g[0]) /\ g[0].buffer = b
    BY <1>2 DEF Begin, Parsing
  <2> QED BY <1>1, <2>1, AdvancedRefl
<1>4. ASSUME NEW k \in 1..N, k - 1 \in T PROVE k \in T
  <2>1. Parsing(g[k - 1]) /\ Advanced(b, g[k - 1].buffer, S)
    BY <1>4
  <2>2. Parsing(g[k]) /\ Advanced(b, g[k].buffer, S)
    BY <1>2, <2>1, RoundAdvances
  <2> QED BY <1>1, <2>2
<1> HIDE DEF T
<1>5. \A k \in 0..N : k \in T
  <2>1. \A k \in 1..N : k - 1 \in T => k \in T
    BY <1>4
  <2> QED BY <1>1, <1>3, <2>1, UpTo
<1>6. N \in T
  BY <1>1, <1>5
<1> QED BY <1>2, <1>6 DEF T

\* The elements of a piece of a stream.
LEMMA Piece ==
    ASSUME NEW S, NEW s, \A i \in Nat : s[i] \in S, NEW u \in Nat, NEW v \in Nat, u <= v
    PROVE  /\ SubSeq(s, u + 1, v) \in Seq(S) /\ Len(SubSeq(s, u + 1, v)) = v - u
           /\ \A l \in 1..(v - u) : SubSeq(s, u + 1, v)[l] = s[u + l]
<1> DEFINE t == SubSeq(s, u + 1, v)
<1>1. \A l \in (u + 1)..v : s[l] \in S
  OBVIOUS
<1>2. u + 1 \in Int /\ v \in Int /\ v - (u + 1) + 1 = v - u
  OBVIOUS
<1>3. /\ t \in Seq(S) /\ Len(t) = IF u + 1 <= v THEN v - (u + 1) + 1 ELSE 0
      /\ \A l \in 1..(v - (u + 1) + 1) : t[l] = s[(u + 1) + l - 1]
  BY <1>1, <1>2, SubSeqProperties
<1>4. \A l \in 1..(v - u) : (u + 1) + l - 1 = u + l
  OBVIOUS
<1>5. (IF u + 1 <= v THEN v - (u + 1) + 1 ELSE 0) = v - u
  OBVIOUS
<1> HIDE DEF t
<1>6. t \in Seq(S) /\ Len(t) = v - u /\ \A l \in 1..(v - u) : t[l] = s[u + l]
  BY <1>2, <1>3, <1>4, <1>5
<1> QED BY <1>6 DEF t

\* All cells of the stream are in S.
Over(s, S) == \A i \in Nat : s[i] \in S

\* The n cells of a stream that end at a.
Ending(s, a, n) == SubSeq(s, a - n + 1, a)

\* What remains of the data after a retrieve is their end.
LEMMA AdvancedEnd ==
    ASSUME NEW S, NEW b, NEW c, BufferOK(b, S), Advanced(b, c, S),
           NEW s, Over(s, S), NEW a \in Nat, ReadableBytes(b) <= a,
           Readable(b) = Ending(s, a, ReadableBytes(b))
    PROVE  /\ ReadableBytes(c) <= a
           /\ Readable(c) = Ending(s, a, ReadableBytes(c))
<1> DEFINE m == ReadableBytes(b)
           n == ReadableBytes(c)
           d == c.r - b.r
           x == Readable(b)
           y == Readable(c)
           z == SubSeq(s, a - n + 1, a)
<1>1. /\ x \in Seq(S) /\ Len(x) = m /\ m \in Nat /\ m = b.w - b.r
      /\ \A k \in 1..m : x[k] = b.cells[b.r + k]
  BY ReadableCells
<1>2. /\ y \in Seq(S) /\ Len(y) = n /\ n \in Nat /\ n = c.w - c.r
      /\ \A k \in 1..n : y[k] = c.cells[c.r + k]
  <2>1. BufferOK(c, S)
    BY DEF Advanced
  <2> QED BY <2>1, ReadableCells
<1>3. /\ d \in Nat /\ n + d = m /\ b.r \in Nat /\ c.r \in Nat /\ c.r = b.r + d
      /\ c.cells = b.cells
  <2>1. /\ b.r \in Nat /\ c.r \in Nat /\ b.w \in Nat /\ b.r <= c.r /\ c.w = b.w
        /\ c.cells = b.cells
    BY DEF Advanced, BufferOK
  <2>2. m = b.w - b.r /\ n = c.w - c.r
    BY <1>1, <1>2
  <2> QED BY <2>1, <2>2
<1>4. n <= a /\ m <= a
  BY <1>1, <1>2, <1>3
<1> DEFINE S1 == SubSeq(s, a - m + 1, a)
<1>0. x = S1
  BY DEF Ending
<1>5. \A k \in 1..m : S1[k] = s[a - m + k]
  <2> HIDE DEF m
  <2>1. a - m \in Nat /\ a - m <= a /\ a - (a - m) = m
    BY <1>1, <1>4
  <2> QED BY <2>1, Piece DEF Over
<1>6. /\ z \in Seq(S) /\ Len(z) = n
      /\ \A k \in 1..n : z[k] = s[a - n + k]
  <2> HIDE DEF n
  <2>1. a - n \in Nat /\ a - n <= a /\ a - (a - n) = n
    BY <1>2, <1>4
  <2> QED BY <2>1, Piece DEF Over
<1> HIDE DEF m, n, d, x, y, z, S1
<1>7. ASSUME NEW k \in 1..n PROVE y[k] = z[k]
  <2>1. d + k \in 1..m /\ b.r + (d + k) = c.r + k /\ a - m + (d + k) = a - n + k
    <3>1. d + k \in 1..m
      BY <1>1, <1>2, <1>3
    <3>2. a - m + (d + k) = a - n + k
      BY <1>1, <1>2, <1>3
    <3>3. b.r + (d + k) = c.r + k
      BY <1>2, <1>3
    <3> QED BY <3>1, <3>2, <3>3
  <2>2. x[d + k] = b.cells[b.r + (d + k)]
    BY <1>1, <2>1
  <2>3. S1[d + k] = s[a - m + (d + k)]
    BY <1>5, <2>1
  <2>4. y[k] = c.cells[c.r + k]
    BY <1>2
  <2>5. z[k] = s[a - n + k]
    BY <1>6
  <2> QED BY <1>0, <1>3, <2>1, <2>2, <2>3, <2>4, <2>5
<1>8. y = z
  BY <1>2, <1>6, <1>7, SeqEqual
<1> QED BY <1>4, <1>8 DEF n, y, z, Ending

\* Two adjacent pieces of a stream are one.
LEMMA AdjacentPieces ==
    ASSUME NEW S, NEW s, \A i \in Nat : s[i] \in S,
           NEW i \in Nat, NEW j \in Nat, NEW k \in Nat, i <= j, j <= k
    PROVE  /\ SubSeq(s, j + 1, k) \in Seq(S)
           /\ SubSeq(s, i + 1, j) \o SubSeq(s, j + 1, k) = SubSeq(s, i + 1, k)
<1> DEFINE x == SubSeq(s, i + 1, j)
           y == SubSeq(s, j + 1, k)
           z == SubSeq(s, i + 1, k)
<1>2. /\ x \in Seq(S) /\ Len(x) = j - i /\ \A l \in 1..(j - i) : x[l] = s[i + l]
      /\ y \in Seq(S) /\ Len(y) = k - j /\ \A l \in 1..(k - j) : y[l] = s[j + l]
  BY Piece
<1>3. z \in Seq(S) /\ Len(z) = k - i /\ \A l \in 1..(k - i) : z[l] = s[i + l]
  <2>1. i <= k
    OBVIOUS
  <2> QED BY <2>1, Piece
<1> HIDE DEF x, y, z
<1>4. /\ x \o y \in Seq(S) /\ Len(x \o y) = Len(x) + Len(y)
      /\ \A l \in 1..(Len(x) + Len(y)) :
            (x \o y)[l] = IF l <= Len(x) THEN x[l] ELSE y[l - Len(x)]
  BY <1>2, ConcatProperties
<1>5. Len(x) + Len(y) = k - i
  BY <1>2
<1>6. ASSUME NEW l \in 1..(k - i) PROVE (x \o y)[l] = z[l]
  <2>1. CASE l <= j - i
    <3>1. l \in 1..(j - i)
      BY <2>1
    <3> QED BY <1>2, <1>3, <1>4, <1>5, <2>1, <3>1
  <2>2. CASE ~(l <= j - i)
    <3>1. l - (j - i) \in 1..(k - j) /\ j + (l - (j - i)) = i + l
      BY <2>2
    <3>2. (x \o y)[l] = y[l - (j - i)]
      BY <1>2, <1>4, <1>5, <2>2
    <3> QED BY <1>2, <1>3, <3>1, <3>2
  <2> QED BY <2>1, <2>2
<1>7. x \o y = z
  BY <1>3, <1>4, <1>5, <1>6, SeqEqual
<1> QED BY <1>2, <1>7 DEF x, y, z

-----------------------------------------------------------------------------
(* The loop of ProtobufCodec::onMessage *)

\* A round of ProtobufCodec::onMessage that may be the last.
DecodeRound(d) == IF d.more THEN DecodeFrame(d) ELSE d

\* What the loop begins with.
DecodeBegin(b, msgs) == [buffer |-> b, got |-> msgs, error |-> "kNoError", more |-> TRUE]

\* The results of the rounds exist, and onMessage ends with the last.
LEMMA DecodeRounds ==
    ASSUME NEW b, NEW msgs, ReadableBytes(b) \in Nat
    PROVE  \E g : /\ DecodeFrames(b, msgs) = g[ReadableBytes(b)]
                  /\ g[0] = DecodeBegin(b, msgs)
                  /\ \A n \in 1..ReadableBytes(b) : g[n] = DecodeRound(g[n - 1])
<1> DEFINE N == ReadableBytes(b)
           Rounds(n, g) ==
             g = [i \in 0..n |-> IF i = 0 THEN DecodeBegin(b, msgs) ELSE DecodeRound(g[i - 1])]
           T == {n \in 0..N : \E g : Rounds(n, g)}
<1>1. 0 \in T
  <2> DEFINE g == [i \in 0..0 |-> DecodeBegin(b, msgs)]
  <2>1. Rounds(0, g)
    <3>1. \A i \in 0..0 : i = 0
      OBVIOUS
    <3> QED BY <3>1
  <2>2. 0 \in 0..N
    OBVIOUS
  <2> QED BY <2>1, <2>2, Zenon
<1>2. ASSUME NEW k \in 1..N, k - 1 \in T PROVE k \in T
  <2>1. PICK h : Rounds(k - 1, h)
    BY <1>2
  <2> DEFINE g == [i \in 0..k |-> IF i = k THEN DecodeRound(h[k - 1]) ELSE h[i]]
             r == [i \in 0..k |-> IF i = 0 THEN DecodeBegin(b, msgs) ELSE DecodeRound(g[i - 1])]
  <2>2. ASSUME NEW i \in 0..k PROVE g[i] = r[i]
    <3>1. CASE i = k
      <4>1. k - 1 \in 0..k /\ k - 1 # k /\ i # 0
        BY <3>1
      <4>2. g[k - 1] = h[k - 1] /\ g[i] = DecodeRound(h[k - 1])
        BY <3>1, <4>1
      <4> HIDE DEF g
      <4>3. r[i] = DecodeRound(g[k - 1])
        BY <3>1, <4>1
      <4> QED BY <4>2, <4>3
    <3>2. CASE i # k
      <4>1. i \in 0..(k - 1) /\ g[i] = h[i]
        BY <3>2
      <4>2. h[i] = IF i = 0 THEN DecodeBegin(b, msgs) ELSE DecodeRound(h[i - 1])
        BY <2>1, <4>1
      <4>3. i # 0 => i - 1 \in 0..k /\ i - 1 # k /\ g[i - 1] = h[i - 1]
        BY <3>2
      <4> HIDE DEF g
      <4>4. r[i] = IF i = 0 THEN DecodeBegin(b, msgs) ELSE DecodeRound(g[i - 1])
        OBVIOUS
      <4> QED BY <4>1, <4>2, <4>3, <4>4
    <3> QED BY <3>1, <3>2
  <2>3. g = [i \in 0..k |-> g[i]] /\ r = [i \in 0..k |-> r[i]]
    OBVIOUS
  <2>4. k \in 0..N
    OBVIOUS
  <2>5. g = r
    <3> HIDE DEF g, r
    <3> QED BY <2>2, <2>3
  <2>6. Rounds(k, g)
    BY <2>5, Zenon
  <2> QED BY <2>4, <2>6, Zenon
<1>3. N \in Nat /\ N \in 0..N /\ \A k \in 1..N : k - 1 \in T => k \in T
  <2> HIDE DEF T
  <2> QED BY <1>2
<1>4. N \in T
  <2> HIDE DEF T
  <2> QED BY <1>1, <1>3, UpTo
<1> DEFINE loop[n \in 0..N] ==
            IF n = 0
            THEN [buffer |-> b, got |-> msgs, error |-> "kNoError", more |-> TRUE]
            ELSE LET d == loop[n - 1] IN IF d.more THEN DecodeFrame(d) ELSE d
<1>5. DecodeFrames(b, msgs) = loop[N]
  BY Zenon DEF DecodeFrames
<1>6. Rounds(N, loop)
  <2>1. PICK g : Rounds(N, g)
    BY <1>4
  <2>2. g = [n \in 0..N |->
               IF n = 0
               THEN [buffer |-> b, got |-> msgs, error |-> "kNoError", more |-> TRUE]
               ELSE LET d == g[n - 1] IN IF d.more THEN DecodeFrame(d) ELSE d]
    BY <2>1, Zenon DEF DecodeRound, DecodeBegin
  <2>3. loop = [n \in 0..N |->
               IF n = 0
               THEN [buffer |-> b, got |-> msgs, error |-> "kNoError", more |-> TRUE]
               ELSE LET d == loop[n - 1] IN IF d.more THEN DecodeFrame(d) ELSE d]
    BY <2>2, Zenon DEF loop
  <2> HIDE DEF loop
  <2> QED BY <2>3, Zenon DEF DecodeRound, DecodeBegin
<1> HIDE DEF loop
<1>7. loop[0] = DecodeBegin(b, msgs)
  BY <1>3, <1>6
<1>8. ASSUME NEW n \in 1..N PROVE loop[n] = DecodeRound(loop[n - 1])
  <2>1. n \in 0..N /\ n # 0
    OBVIOUS
  <2> QED BY <1>6, <2>1
<1> QED BY <1>5, <1>7, <1>8

\* The fields of what the loop has so far.
Decoding(d) == DOMAIN d = {"buffer", "got", "error", "more"}

\* Any bytes make a number.
LEMMA SomeNumber == ASSUME NEW cell PROVE AsInt32(cell) \in Int
<1>1. \E n \in Int : TRUE
  <2>1. 0 \in Int
    OBVIOUS
  <2> QED BY <2>1
<1>2. (CHOOSE n \in Int : TRUE) \in Int
  BY <1>1, Zenon
<1> QED BY <1>2 DEF AsInt32

\* A round takes a frame that is there, or nothing.
LEMMA DecodeRoundAdvances ==
    ASSUME NEW S, NEW b, BufferOK(b, S), NEW d, Decoding(d), Advanced(b, d.buffer, S)
    PROVE  Decoding(DecodeRound(d)) /\ Advanced(b, DecodeRound(d).buffer, S)
<1> DEFINE len == AsInt32(Readable(d.buffer)[1])
           result == Parse(SubSeq(Readable(d.buffer), HeaderLen + 1, HeaderLen + len))
           rest == Retrieve(d.buffer, HeaderLen + len)
           all == Append(d.got, Dispatch(result.message))
           q == DecodeFrame(d)
<1>1. CASE ~d.more
  BY <1>1 DEF DecodeRound
<1>2. CASE d.more
  <2>1. DecodeRound(d) = q
    BY <1>2 DEF DecodeRound
  <2>2. \/ \E error : q = [d EXCEPT !.error = error, !.more = FALSE]
        \/ /\ ~(len < MinMessageLen) /\ FrameArrived(d.buffer, len)
           /\ q = [d EXCEPT !.buffer = rest, !.got = all]
    BY DEF DecodeFrame
  <2>3. len \in Int
    BY SomeNumber
  <2>4. ReadableBytes(d.buffer) \in Nat
    BY ReadableCells DEF Advanced
  <2>5. "buffer" \in DOMAIN d
    BY DEF Decoding
  <2> HIDE DEF len, rest, all, q
  <2>6. CASE \E error : q = [d EXCEPT !.error = error, !.more = FALSE]
    <3>1. PICK error : q = [d EXCEPT !.error = error, !.more = FALSE]
      BY <2>6
    <3>2. Decoding(q)
      BY <3>1 DEF Decoding
    <3>3. q.buffer = d.buffer
      BY <2>5, <3>1
    <3> QED BY <2>1, <3>2, <3>3
  <2>7. CASE /\ ~(len < MinMessageLen) /\ FrameArrived(d.buffer, len)
             /\ q = [d EXCEPT !.buffer = rest, !.got = all]
    <3>1. Decoding(q)
      BY <2>7 DEF Decoding
    <3>2. q.buffer = rest
      BY <2>5, <2>7
    <3>3. HeaderLen + len \in 0..ReadableBytes(d.buffer)
      BY <2>3, <2>4, <2>7 DEF FrameArrived, HeaderLen, MinMessageLen
    <3>4. Advanced(b, rest, S)
      BY <3>3, AdvancedRetrieve DEF rest
    <3> QED BY <2>1, <3>1, <3>2, <3>4
  <2> QED BY <2>2, <2>6, <2>7
<1> QED BY <1>1, <1>2

\* The assertion of retrieve holds in the whole loop.
LEMMA DecodeAdvances ==
    ASSUME NEW S, NEW msgs, NEW b, BufferOK(b, S)
    PROVE  Advanced(b, DecodeFrames(b, msgs).buffer, S)
<1> DEFINE N == ReadableBytes(b)
<1>1. N \in Nat
  BY ReadableCells
<1>2. PICK g : /\ DecodeFrames(b, msgs) = g[N] /\ g[0] = DecodeBegin(b, msgs)
               /\ \A n \in 1..N : g[n] = DecodeRound(g[n - 1])
  BY <1>1, DecodeRounds
<1> DEFINE T == {n \in 0..N : Decoding(g[n]) /\ Advanced(b, g[n].buffer, S)}
<1>3. 0 \in T
  <2>1. Decoding(g[0]) /\ g[0].buffer = b
    BY <1>2 DEF DecodeBegin, Decoding
  <2> QED BY <1>1, <2>1, AdvancedRefl
<1>4. ASSUME NEW k \in 1..N, k - 1 \in T PROVE k \in T
  <2>1. Decoding(g[k - 1]) /\ Advanced(b, g[k - 1].buffer, S)
    BY <1>4
  <2>2. Decoding(g[k]) /\ Advanced(b, g[k].buffer, S)
    BY <1>2, <2>1, DecodeRoundAdvances
  <2> QED BY <1>1, <2>2
<1> HIDE DEF T
<1>5. \A k \in 0..N : k \in T
  <2>1. \A k \in 1..N : k - 1 \in T => k \in T
    BY <1>4
  <2> QED BY <1>1, <1>3, <2>1, UpTo
<1>6. N \in T
  BY <1>1, <1>5
<1> QED BY <1>2, <1>6 DEF T

-----------------------------------------------------------------------------
(* The input of a connection *)

\* Whatever a cell of the buffer can hold.
Symbols == {Zero} \cup {Stream[i] : i \in Nat}

\* However the stream is cut, and wherever the buffer grows, moves its data or is
\* filled through extrabuf, the indexes are in order, as the assertions of Buffer
\* ask, and the data are the end of what has arrived (Buffer::readFd, makeSpace,
\* retrieve).
InputIsUnread ==
    /\ BufferOK(input, Symbols) /\ ReadableBytes(input) <= arrived
    /\ Readable(input) = Ending(Stream, arrived, ReadableBytes(input))

InputInv == arrived \in Nat /\ InputIsUnread

\* The cells of the stream are symbols.
LEMMA StreamSymbols == Zero \in Symbols /\ \A i \in Nat : Stream[i] \in Symbols
BY DEF Symbols

\* The stream does not change.
LEMMA SameStream == ASSUME UNCHANGED items PROVE Stream' = Stream /\ Symbols' = Symbols
BY DEF Stream, Symbols, Flatten

\* A new buffer is empty.
LEMMA InitInput == Init => InputInv
<1> SUFFICES ASSUME Init PROVE InputInv
  OBVIOUS
<1>1. arrived = 0 /\ input = EmptyBuffer
  BY DEF Init
<1> DEFINE z == Zeros(CheapPrepend + InitialSize)
           n == CheapPrepend + InitialSize
<1>2. n \in Nat /\ CheapPrepend \in Nat /\ CheapPrepend <= n
  BY BufferAssumption
<1>3. z \in Seq(Symbols) /\ Len(z) = n
  <2>1. z = [k \in 1..n |-> Zero]
    BY DEF Zeros
  <2> HIDE DEF z, n
  <2>2. z \in [1..n -> Symbols]
    BY <2>1, StreamSymbols
  <2> QED BY <1>2, <2>2, LenProperties, SeqDef
<1>4. input = [cells |-> z, r |-> CheapPrepend, w |-> CheapPrepend]
  BY <1>1 DEF EmptyBuffer
<1> HIDE DEF z, n
<1>5. input.cells = z /\ input.r = CheapPrepend /\ input.w = CheapPrepend
  BY <1>4
<1>6. BufferOK(input, Symbols)
  BY <1>2, <1>3, <1>4, <1>5 DEF BufferOK
<1>7. ReadableBytes(input) = 0
  BY <1>2, <1>5 DEF ReadableBytes
<1>8. Readable(input) \in Seq(Symbols) /\ Len(Readable(input)) = 0
  BY <1>6, <1>7, ReadableCells
<1>9. Readable(input) = << >>
  BY <1>8
<1>10. SubSeq(Stream, 0 - 0 + 1, 0) = << >>
  <2>1. SubSeq(Stream, 1, 0) = << >>
    BY SubSeqEmpty
  <2>2. 0 - 0 + 1 = 1
    OBVIOUS
  <2> QED BY <2>1, <2>2
<1> QED BY <1>1, <1>6, <1>7, <1>9, <1>10 DEF InputInv, InputIsUnread, Ending

\* handleRead appends the next piece.
LEMMA ReceiveInput ==
    ASSUME InputInv, Receive
    PROVE  InputInv'
<1>1. PICK n \in 1..MaxPieces :
        /\ input' = ReadFd(input, SubSeq(Stream, arrived + 1, arrived + n))
        /\ arrived' = arrived + n
  BY DEF Receive
<1>2. n \in Nat /\ arrived \in Nat /\ arrived + n \in Nat /\ arrived <= arrived + n
  BY <1>1, ServersAssumption DEF InputInv
<1>3. UNCHANGED <<server, items>> /\ Stream' = Stream /\ Symbols' = Symbols
  <2>1. UNCHANGED <<server, items>>
    BY DEF Receive
  <2> QED BY <2>1, SameStream
<1> DEFINE a == arrived + n
<1>4. /\ BufferOK(input', Symbols) /\ ReadableBytes(input') <= a
      /\ Readable(input') = Ending(Stream, a, ReadableBytes(input'))
  <2> DEFINE v == SubSeq(Stream, arrived + 1, arrived + n)
             m == ReadableBytes(input)
             i == arrived - m
             x == Readable(input)
             s == Stream
             S == Symbols
  <2>1. /\ BufferOK(input, S) /\ m <= arrived /\ x = SubSeq(s, i + 1, arrived)
    BY DEF InputInv, InputIsUnread, Ending
  <2>2. x \in Seq(S) /\ Len(x) = m /\ m \in Nat
    BY <2>1, ReadableCells
  <2>3. i \in Nat /\ i <= arrived
    BY <1>2, <2>1, <2>2
  <2>4. Zero \in S /\ \A l \in Nat : s[l] \in S
    BY StreamSymbols
  <2> HIDE DEF i, m, s, S
  <2>5. /\ v \in Seq(S) /\ Len(v) = n
    <3>1. /\ SubSeq(s, arrived + 1, arrived + n) \in Seq(S)
          /\ Len(SubSeq(s, arrived + 1, arrived + n)) = (arrived + n) - arrived
      BY <1>2, <2>4, Piece
    <3>2. (arrived + n) - arrived = n
      BY <1>2
    <3> QED BY <3>1, <3>2 DEF s
  <2>6. SubSeq(s, i + 1, arrived) \o SubSeq(s, arrived + 1, arrived + n)
          = SubSeq(s, i + 1, arrived + n)
    BY <1>2, <2>3, <2>4, AdjacentPieces
  <2>7. v = SubSeq(s, arrived + 1, arrived + n)
    BY DEF s
  <2> HIDE DEF v, x
  <2>8. BufferOK(input', S) /\ Readable(input') = x \o v
    <3>1. input' = ReadFd(input, v)
      BY <1>1 DEF v
    <3>2. BufferOK(ReadFd(input, v), S) /\ Readable(ReadFd(input, v)) = Readable(input) \o v
      BY <2>1, <2>4, <2>5, ReadFdAppends
    <3> QED BY <3>1, <3>2 DEF x
  <2>9. Readable(input') = SubSeq(s, i + 1, a)
    BY <2>1, <2>6, <2>7, <2>8
  <2>10. ReadableBytes(input') = m + n
    <3>1. Len(x \o v) = m + n
      BY <2>2, <2>5, ConcatProperties
    <3>2. Len(Readable(input')) = ReadableBytes(input')
      BY <2>8, ReadableCells
    <3> QED BY <2>8, <3>1, <3>2
  <2>11. m + n <= a /\ a - (m + n) + 1 = i + 1
    BY <1>2, <2>1, <2>2 DEF i
  <2> HIDE DEF a
  <2> QED BY <2>8, <2>9, <2>10, <2>11 DEF s, S, Ending
<1>5. /\ BufferOK(input', Symbols') /\ ReadableBytes(input') <= arrived'
      /\ Readable(input') = Ending(Stream', arrived', ReadableBytes(input'))
  <2>1. arrived' = a
    BY <1>1
  <2> HIDE DEF a
  <2> QED BY <1>3, <1>4, <2>1, Zenon
<1>6. arrived' \in Nat
  BY <1>1, <1>2
<1> QED BY <1>3, <1>5, <1>6, Zenon DEF InputInv, InputIsUnread

\* What retrieves from the data keeps their end.
LEMMA RetrieveInput ==
    ASSUME InputInv, UNCHANGED <<items, arrived>>, Advanced(input, input', Symbols)
    PROVE  InputInv'
<1>1. Stream' = Stream /\ Symbols' = Symbols
  BY SameStream
<1>2. /\ arrived \in Nat /\ BufferOK(input, Symbols) /\ ReadableBytes(input) <= arrived
      /\ Readable(input) = Ending(Stream, arrived, ReadableBytes(input))
  BY DEF InputInv, InputIsUnread
<1>3. /\ ReadableBytes(input') <= arrived
      /\ Readable(input') = Ending(Stream, arrived, ReadableBytes(input'))
  <2>1. Over(Stream, Symbols)
    BY StreamSymbols DEF Over
  <2> QED BY <1>2, <2>1, AdvancedEnd
<1>4. BufferOK(input', Symbols)
  BY DEF Advanced
<1> QED BY <1>1, <1>2, <1>3, <1>4 DEF InputInv, InputIsUnread

\* HttpServer::onMessage takes lines away from the front.
LEMMA MessageInput ==
    ASSUME InputInv, OnMessage
    PROVE  InputInv'
<1>1. UNCHANGED <<items, arrived>> /\ input' = ParseRequest(context, input).buffer
  BY DEF OnMessage
<1>2. Advanced(input, input', Symbols)
  BY <1>1, ParseAdvances DEF InputInv, InputIsUnread
<1> QED BY <1>1, <1>2, RetrieveInput

\* ProtobufCodec::onMessage takes frames away from the front.
LEMMA FramesInput ==
    ASSUME InputInv, OnFrames
    PROVE  InputInv'
<1>1. UNCHANGED <<items, arrived>> /\ input' = DecodeFrames(input, got).buffer
  BY DEF OnFrames
<1>2. Advanced(input, input', Symbols)
  BY <1>1, DecodeAdvances DEF InputInv, InputIsUnread
<1> QED BY <1>1, <1>2, RetrieveInput

\* Every step keeps the input.
LEMMA StepInput == InputInv /\ [Next]_vars => InputInv'
<1> SUFFICES ASSUME InputInv, [Next]_vars PROVE InputInv'
  OBVIOUS
<1>1. CASE UNCHANGED <<server, items, arrived, input>>
  <2>1. Stream' = Stream /\ Symbols' = Symbols
    BY <1>1, SameStream
  <2> QED BY <1>1, <2>1 DEF InputInv, InputIsUnread
<1>2. CASE OnTimer \/ OnConnection \/ UNCHANGED vars
  BY <1>1, <1>2 DEF OnTimer, OnConnection, vars, session
<1> QED BY <1>2, ReceiveInput, MessageInput, FramesInput DEF Next

\* For any sizes of the buffer and any cut of the stream the parser of HttpServer
\* and the codec see exactly the cells they have not yet taken, in their order,
\* and Buffer's assertions on its indexes hold.
THEOREM InputUnread == Spec => []InputIsUnread
<1>1. InputInv => InputIsUnread
  BY DEF InputInv
<1> QED BY <1>1, InitInput, StepInput, PTL DEF Spec
=============================================================================
