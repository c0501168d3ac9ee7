--------------------------- MODULE AsyncLogging ---------------------------
(***************************************************************************)
(* base/AsyncLogging: front-end threads append log lines to currentBuffer_ *)
(* under a mutex and never wait for the disk; a back-end thread wakes when *)
(* a buffer is full or flushInterval_ has passed, swaps the full buffers   *)
(* out against two empty ones it keeps ready, and writes them outside the  *)
(* critical section.  A line is its number in the order of append.         *)
(***************************************************************************)
EXTENDS Naturals, Sequences, SequencesExt

CONSTANTS
    Capacity,       \* bytes of a buffer (kLargeBuffer)
    Lengths,        \* lengths of log lines
    MaxBuffers,     \* the back end drops when it finds more than these (25)
    MaxLines        \* bound on the lines appended

ASSUME LoggingAssumption ==
    /\ Capacity \in Nat /\ MaxBuffers \in Nat /\ MaxLines \in Nat
    /\ MaxBuffers >= 2
    /\ Lengths \subseteq Nat
    /\ \A len \in Lengths : len < Capacity

VARIABLES
    running,        \* running_
    currentBuffer, nextBuffer, buffers, \* guarded by mutex_
    newBuffer1, newBuffer2, toWrite,    \* locals of threadFunc
    threadPc,       \* where the back-end thread is
    ownerPc,        \* where the owner of the object is
    logged,         \* lines appended so far
    file,           \* the log file: line numbers, and Notice
    dropped         \* lines thrown away by the back end

front == <<currentBuffer, nextBuffer, buffers, logged>>
back == <<newBuffer1, newBuffer2, toWrite, file, dropped>>
vars == <<running, front, back, threadPc, ownerPc>>

Null == [id |-> 0, used |-> 0, lines |-> << >>, null |-> TRUE]
NewBuffer(id) == [id |-> id, used |-> 0, lines |-> << >>, null |-> FALSE]

Originals == 1..4   \* the buffers A, B, C, D of the header comment
Extra == 5          \* any buffer append allocates
Notice == 0         \* the message "Dropped log messages at ..."

Buffers == [id : Originals \cup {Extra}, used : 0..Capacity, lines : Seq(Nat),
            null : {FALSE}]

\* threadPc: not created; created; at while(running_); before the mutex; in
\* waitForSeconds; woken, before it has the mutex again; with buffersToWrite
\* taken; before the refill of newBuffer1 and of newBuffer2; returned.
ThreadPcs == {"none", "created", "test", "lock", "waiting", "swap", "write",
              "refill1", "refill2", "exited"}

\* ownerPc: before start(); in latch_.wait(); started; in stop() before the
\* notify; in thread_.join(); stopped.
OwnerPcs == {"new", "latch", "started", "notify", "join", "stopped"}

BufferTypes ==
    /\ running \in BOOLEAN
    /\ currentBuffer \in Buffers
    /\ {nextBuffer, newBuffer1, newBuffer2} \subseteq Buffers \cup {Null}
    /\ buffers \in Seq(Buffers) /\ toWrite \in Seq(Buffers)
    /\ threadPc \in ThreadPcs /\ ownerPc \in OwnerPcs
    /\ logged \in Nat

TypeOK ==
    /\ BufferTypes
    /\ file \in Seq(0..logged) /\ dropped \subseteq 1..logged

Init ==
    /\ running = FALSE
    /\ currentBuffer = NewBuffer(1) /\ nextBuffer = NewBuffer(2)
    /\ newBuffer1 = NewBuffer(3) /\ newBuffer2 = NewBuffer(4)
    /\ buffers = << >> /\ toWrite = << >>
    /\ threadPc = "none" /\ ownerPc = "new"
    /\ logged = 0 /\ file = << >> /\ dropped = {}

-----------------------------------------------------------------------------
(* Front end *)

\* FixedBuffer::append
Put(b, n, len) ==
    IF Capacity - b.used > len
    THEN [b EXCEPT !.used = @ + len, !.lines = Append(@, n)] ELSE b

\* cond_.notify()
Notified == IF threadPc = "waiting" THEN "swap" ELSE threadPc

\* append when the line fits into currentBuffer_
AppendFits(len) ==
    /\ logged < MaxLines /\ Capacity - currentBuffer.used > len
    /\ logged' = logged + 1
    /\ currentBuffer' = Put(currentBuffer, logged + 1, len)
    /\ UNCHANGED <<running, nextBuffer, buffers, back, threadPc, ownerPc>>

\* append when it does not: currentBuffer_ goes to buffers_, nextBuffer_ or a
\* new buffer takes its place, and the back end is notified
AppendFull(len) ==
    /\ logged < MaxLines /\ ~(Capacity - currentBuffer.used > len)
    /\ logged' = logged + 1
    /\ buffers' = Append(buffers, currentBuffer)
    /\ currentBuffer' = Put(IF nextBuffer.null THEN NewBuffer(Extra)
                            ELSE nextBuffer, logged + 1, len)
    /\ nextBuffer' = Null
    /\ threadPc' = Notified
    /\ UNCHANGED <<running, back, ownerPc>>

-----------------------------------------------------------------------------
(* The owner *)

\* start() up to latch_.wait()
Start ==
    /\ ownerPc = "new"
    /\ running' = TRUE
    /\ threadPc' = "created"
    /\ ownerPc' = "latch"
    /\ UNCHANGED <<front, back>>

\* start() returns
LatchReleased ==
    /\ ownerPc = "latch" /\ threadPc # "created"
    /\ ownerPc' = "started"
    /\ UNCHANGED <<running, front, back, threadPc>>

\* stop(), or the destructor which calls it
StopRunning ==
    /\ ownerPc = "started"
    /\ running' = FALSE
    /\ ownerPc' = "notify"
    /\ UNCHANGED <<front, back, threadPc>>

\* stop() notifies without the mutex: nobody may be waiting yet
StopNotify ==
    /\ ownerPc = "notify"
    /\ threadPc' = Notified
    /\ ownerPc' = "join"
    /\ UNCHANGED <<running, front, back>>

\* thread_.join() returns
Join ==
    /\ ownerPc = "join" /\ threadPc = "exited"
    /\ ownerPc' = "stopped"
    /\ UNCHANGED <<running, front, back, threadPc>>

-----------------------------------------------------------------------------
(* The back-end thread *)

\* threadFunc up to the while: latch_.countDown()
BeginThread ==
    /\ threadPc = "created"
    /\ threadPc' = "test"
    /\ UNCHANGED <<running, front, back, ownerPc>>

\* while(running_)
TestRunning ==
    /\ threadPc = "test"
    /\ threadPc' = IF running THEN "lock" ELSE "exited"
    /\ UNCHANGED <<running, front, back, ownerPc>>

\* Wrong variant: nextBuffer_ is replaced although it is there.
SwapAlwaysBoth ==
    /\ toWrite' = Append(buffers, currentBuffer)
    /\ buffers' = << >>
    /\ currentBuffer' = newBuffer1 /\ newBuffer1' = Null
    /\ nextBuffer' = newBuffer2 /\ newBuffer2' = Null
    /\ threadPc' = "write"
    /\ UNCHANGED <<running, logged, file, dropped, ownerPc>>

\* the rest of the critical section
Swap ==
    /\ toWrite' = Append(buffers, currentBuffer)
    /\ buffers' = << >>
    /\ currentBuffer' = newBuffer1 /\ newBuffer1' = Null
    /\ nextBuffer' = IF nextBuffer.null THEN newBuffer2 ELSE nextBuffer
    /\ newBuffer2' = IF nextBuffer.null THEN Null ELSE newBuffer2
    /\ threadPc' = "write"
    /\ UNCHANGED <<running, logged, file, dropped, ownerPc>>

\* if (buffers_.empty()) waitForSeconds
WaitForSeconds ==
    /\ threadPc = "lock" /\ buffers = << >>
    /\ threadPc' = "waiting"
    /\ UNCHANGED <<running, front, back, ownerPc>>

\* a buffer is full already
SwapAtOnce == threadPc = "lock" /\ buffers # << >> /\ Swap

\* Wrong variant: while instead of if around the wait.
TimeoutChecksAgain ==
    /\ threadPc = "waiting"
    /\ threadPc' = "lock"
    /\ UNCHANGED <<running, front, back, ownerPc>>

\* flushInterval_ has passed, or the wait ended for no reason
Timeout ==
    /\ threadPc = "waiting"
    /\ threadPc' = "swap"
    /\ UNCHANGED <<running, front, back, ownerPc>>

\* the mutex is free again
SwapAfterWait == threadPc = "swap" /\ Swap

LinesOf(bs) == FlattenSeq([i \in DOMAIN bs |-> bs[i].lines])

\* Wrong variant: the newest two are kept.
FirstTwoNewest(bs) == IF Len(bs) > 2 THEN SubSeq(bs, Len(bs) - 1, Len(bs)) ELSE bs

\* buffersToWrite.resize(2), and the erase from begin()+2
FirstTwo(bs) == IF Len(bs) > 2 THEN SubSeq(bs, 1, 2) ELSE bs

\* buffersToWrite.size() > 25
Overflow == Len(toWrite) > MaxBuffers

\* drop what is too much, write, keep two buffers
WriteBuffers ==
    LET kept == IF Overflow THEN FirstTwo(toWrite) ELSE toWrite
        lost == IF Overflow THEN SubSeq(toWrite, 3, Len(toWrite)) ELSE << >>
    IN  /\ threadPc = "write"
        /\ file' = file \o (IF Overflow THEN <<Notice>> ELSE << >>)
                        \o LinesOf(kept)
        /\ dropped' = dropped \cup ToSet(LinesOf(lost))
        /\ toWrite' = FirstTwo(kept)
        /\ threadPc' = "refill1"
        /\ UNCHANGED <<running, front, newBuffer1, newBuffer2, ownerPc>>

\* Wrong variant: the buffer is handed on with its old contents.
ResetNothing(b) == b

\* FixedBuffer::reset
Reset(b) == [b EXCEPT !.used = 0, !.lines = << >>]

\* newBuffer1 is always gone at this point
Refill1 ==
    /\ threadPc = "refill1"
    /\ IF newBuffer1.null
       THEN /\ newBuffer1' = Reset(Last(toWrite))
            /\ toWrite' = Front(toWrite)
       ELSE UNCHANGED <<newBuffer1, toWrite>>
    /\ threadPc' = "refill2"
    /\ UNCHANGED <<running, front, newBuffer2, file, dropped, ownerPc>>

\* newBuffer2, then buffersToWrite.clear() and flush()
Refill2 ==
    /\ threadPc = "refill2"
    /\ newBuffer2' = IF newBuffer2.null THEN Reset(Last(toWrite)) ELSE newBuffer2
    /\ toWrite' = << >>
    /\ threadPc' = "test"
    /\ UNCHANGED <<running, front, newBuffer1, file, dropped, ownerPc>>

-----------------------------------------------------------------------------
ThreadStep ==
    \/ BeginThread \/ TestRunning \/ WaitForSeconds \/ SwapAtOnce
    \/ Timeout \/ SwapAfterWait \/ WriteBuffers \/ Refill1 \/ Refill2

\* The steps of start() and stop() that follow their first.
OwnerStep == LatchReleased \/ StopNotify \/ Join

\* stop() has returned and no line is left to log.
Terminated == ownerPc = "stopped" /\ logged = MaxLines /\ UNCHANGED vars

Next ==
    \/ \E len \in Lengths : AppendFits(len) \/ AppendFull(len)
    \/ Start \/ StopRunning
    \/ OwnerStep
    \/ ThreadStep
    \/ Terminated

Spec == Init /\ [][Next]_vars

\* Both threads run and the timed wait ends.  Nobody has to log or to stop.
FairSpec == Spec /\ WF_vars(ThreadStep) /\ WF_vars(OwnerStep)

-----------------------------------------------------------------------------
(* Properties *)

\* AsyncLogging.cc:65,77-79,97,128,136: the assertions of threadFunc hold.  The
\* two at the refill need that nextBuffer_ is used up only when a full buffer
\* waits, however the appends fall between the critical sections.
AssertsHold ==
    /\ threadPc = "created" => running
    /\ threadPc \in {"test", "lock", "waiting", "swap"} =>
        /\ \A b \in {newBuffer1, newBuffer2} : ~b.null /\ b.used = 0 /\ b.lines = << >>
        /\ toWrite = << >>
    /\ threadPc = "write" => toWrite # << >>
    /\ threadPc = "refill1" => (newBuffer1.null => toWrite # << >>)
    /\ threadPc = "refill2" => (newBuffer2.null => toWrite # << >>)

\* AsyncLogging.h:15: the first two of buffersToWrite, which become newBuffer1
\* and newBuffer2, are among the four original buffers; an allocated one never
\* gets into circulation.
OriginalsCirculate ==
    /\ \A i \in DOMAIN toWrite : i <= 2 => toWrite[i].id \in Originals
    /\ \A b \in {newBuffer1, newBuffer2} : ~b.null => b.id \in Originals

\* What makes the two inductive: nextBuffer_ is gone exactly when a full buffer
\* waits, and then the two oldest of the buffers in front are original ones.
FrontInv ==
    IF nextBuffer.null
    THEN /\ buffers # << >> /\ buffers[1].id \in Originals
         /\ IF Len(buffers) = 1 THEN currentBuffer.id \in Originals
                               ELSE buffers[2].id \in Originals
    ELSE /\ buffers = << >>
         /\ {currentBuffer.id, nextBuffer.id} \subseteq Originals

Ready(b) == ~b.null /\ b.id \in Originals /\ b.used = 0 /\ b.lines = << >>

BackInv ==
    /\ threadPc \notin {"write", "refill1", "refill2"} =>
        Ready(newBuffer1) /\ Ready(newBuffer2) /\ toWrite = << >>
    /\ threadPc \in {"write", "refill1"} =>
        /\ newBuffer1.null
        /\ IF newBuffer2.null THEN Len(toWrite) >= 2
                              ELSE Ready(newBuffer2) /\ Len(toWrite) = 1
        /\ \A i \in DOMAIN toWrite : i <= 2 => toWrite[i].id \in Originals
    /\ threadPc = "refill1" => Len(toWrite) <= 2
    /\ threadPc = "refill2" =>
        /\ Ready(newBuffer1)
        /\ IF newBuffer2.null THEN Len(toWrite) = 1
                              ELSE Ready(newBuffer2) /\ toWrite = << >>
        /\ \A i \in DOMAIN toWrite : toWrite[i].id \in Originals

OwnerInv ==
    /\ ownerPc = "new" => threadPc = "none"
    /\ threadPc = "created" => ownerPc = "latch"
    /\ ownerPc = "latch" => running

BufferInv == FrontInv /\ BackInv /\ OwnerInv

\* The lines of s, leaving out the notices, are in the order of append.
InOrder(s) ==
    \A i, j \in DOMAIN s : i < j /\ s[i] # Notice /\ s[j] # Notice => s[i] < s[j]

\* AsyncLogging.cc:43-117: the file and the buffers hold the lines in the order
\* of append, none twice and none missing but the ones dropped.
LinesInOrder ==
    LET waiting == (IF threadPc = "write" THEN toWrite ELSE << >>)
                     \o buffers \o <<currentBuffer>>
        lines == file \o LinesOf(waiting)
    IN  /\ TypeOK
        /\ InOrder(lines)
        /\ ToSet(lines) \ {Notice} = (1..logged) \ dropped

\* AsyncLogging.h:10: a line does not stay in memory: it is handed to the LogFile,
\* or is dropped, unless the logger is stopped.
LineWritten ==
    \A n \in 1..MaxLines :
        (n <= logged /\ running) ~> (n \in ToSet(file) \cup dropped \/ ~running)

\* AsyncLogging.h:69-76: stop() returns, though its notify may find nobody.
StopReturns == (ownerPc = "notify") ~> (ownerPc = "stopped")
=============================================================================
