------------------------------ MODULE LogFile ------------------------------
(***************************************************************************)
(* base/LogFile and FileUtil::AppendFile under the back end of             *)
(* AsyncLogging: every buffer it writes is one append, which may start a   *)
(* new file because of its size or its time, while the wall clock ticks    *)
(* and is set.  AppendFile::flush is declared (FileUtil.h:87) and defined  *)
(* nowhere; it is modelled as fflush.                                      *)
(***************************************************************************)
EXTENDS AsyncLogging

CONSTANTS
    RollSize,       \* rollSize_
    CheckEveryN,    \* checkEveryN_
    FlushInterval,  \* flushInterval_
    RollPeriod,     \* kRollPerSeconds_
    NoticeLen,      \* length of the message about dropped lines
    MaxTime,        \* bound on the wall clock
    MaxFaults       \* how often the clock is set or the disk is full

ASSUME LogFileAssumption ==
    /\ {RollSize, CheckEveryN, FlushInterval, NoticeLen, MaxTime, MaxFaults} \subseteq Nat
    /\ RollPeriod \in Nat \ {0}

VARIABLES
    time,       \* time(NULL)
    faults,     \* how often the clock was set or the disk was full
    appended,   \* appends of this round of the back end
    output      \* the LogFile: its counters, the names and lines of its files, what
                \* stdio holds; history: the lines lost, whether the last flush failed

fileVars == <<time, faults, appended, output>>

\* thisPeriod_, start
Period(t) == (t \div RollPeriod) * RollPeriod

NoLogFile == [names |-> << >>, onDisk |-> << >>, buffered |-> << >>, lost |-> {},
              stuck |-> FALSE, written |-> 0, count |-> 0, startOfPeriod |-> 0,
              lastRoll |-> 0, lastFlush |-> 0]

\* What follows the first i lines of s, up to the j-th
Part(s, i, j) == SubSeq(s, i + 1, j)

\* The places at which a full disk may divide n lines
Cuts(n) == {k \in (0..n) \X (0..n) \X (0..n) : k[1] <= k[2] /\ k[2] <= k[3]}

\* stdio, with the lines s to write: those up to k[1] are on the disk, those from
\* k[2] to k[3] are held, the others are lost.  POSIX does not say whether stdio
\* keeps what it could not write.  A line of which only a part gets to the disk
\* counts as lost.
Settle(o, s, k) ==
    [o EXCEPT !.onDisk = @ \o Part(s, 0, k[1]), !.buffered = Part(s, k[2], k[3]),
              !.lost = @ \cup ToSet(Part(s, k[1], k[2])) \cup ToSet(Part(s, k[3], Len(s)))]

Settled(o, s, cuts) == {Settle(o, s, k) : k \in cuts}

\* fflush; when it fails, what was not written is still held or is lost
Flush(o, full) ==
    LET n == Len(o.buffered)
    IN  Settled([o EXCEPT !.stuck = full], o.buffered,
                IF full THEN {k \in Cuts(n) : k[3] = n} ELSE {<<n, n, n>>})

\* ~AppendFile: fclose writes what stdio holds; its result is ignored
Close(o, full) ==
    LET n == Len(o.buffered)
    IN  Settled([o EXCEPT !.stuck = FALSE], o.buffered,
                IF full THEN {k \in Cuts(n) : k[2] = n} ELSE {<<n, n, n>>})

\* the members that rollFile sets
Rolled(o) ==
    [o EXCEPT !.lastRoll = time, !.lastFlush = time, !.startOfPeriod = Period(time),
              !.written = 0, !.names = Append(@, time)]

\* Wrong variant: a file may get the name of the one before it.
RollFileSameSecond(o, full) ==
    IF time >= o.lastRoll THEN {Rolled(c) : c \in Close(o, full)} ELSE {o}

\* rollFile: the name of the file is made of the time, so there is at most one
\* a second; file_.reset closes the old one
RollFile(o, full) ==
    IF time > o.lastRoll THEN {Rolled(c) : c \in Close(o, full)} ELSE {o}

\* AppendFile::append: fwrite holds the lines; on a full disk the calls take some,
\* until one takes nothing and the rest is lost.  The length counts all the same.
AppendToFile(o, lines, len, full) ==
    LET s == o.buffered \o lines
    IN  Settled([o EXCEPT !.written = @ + len], s,
                IF full THEN Cuts(Len(s)) ELSE {<<0, 0, Len(s)>>})

\* append_unlocked, after the append to the file a
CheckFile(a, full) ==
    LET counted == [a EXCEPT !.count = @ + 1]
        checked == [a EXCEPT !.count = 0]
    IN  IF a.written > RollSize THEN RollFile(a, full)
        ELSE IF counted.count < CheckEveryN THEN {counted}
        ELSE IF Period(time) # checked.startOfPeriod THEN RollFile(checked, full)
        ELSE IF time - checked.lastFlush > FlushInterval
             THEN Flush([checked EXCEPT !.lastFlush = time], full)
        ELSE {checked}

AppendUnlocked(o, lines, len, full) ==
    UNION {CheckFile(a, full) : a \in AppendToFile(o, lines, len, full)}

-----------------------------------------------------------------------------
LInit ==
    /\ Init
    /\ time = 1 /\ faults = 0 /\ appended = 0 /\ output = NoLogFile

\* What the back end appends in this round: the message, then the buffers kept
Round ==
    LET kept == IF Overflow THEN FirstTwo(toWrite) ELSE toWrite
    IN  (IF Overflow THEN <<[lines |-> <<Notice>>, used |-> NoticeLen]>> ELSE << >>)
          \o [i \in DOMAIN kept |-> [lines |-> kept[i].lines, used |-> kept[i].used]]

\* The disk may be full for an operation on the files
DiskMayBe(full) ==
    /\ full => faults < MaxFaults
    /\ faults' = IF full THEN faults + 1 ELSE faults

\* output.append of the next one
AppendBuffer(full) ==
    /\ threadPc = "write" /\ appended < Len(Round) /\ DiskMayBe(full)
    /\ appended' = appended + 1
    /\ LET b == Round[appended + 1]
       IN  output' \in AppendUnlocked(output, b.lines, b.used, full)
    /\ UNCHANGED <<vars, time>>

\* output.flush() at the end of a round; at the end of the thread, flush and the
\* destructor of output.  A full disk matters where something is held.
FlushOrClose(full) ==
    /\ full => output.buffered # << >>
    /\ DiskMayBe(full) /\ UNCHANGED <<time, appended>>
    /\ \/ Refill2 /\ output' \in Flush(output, full)
       \/ TestRunning /\ ~running /\ output' \in UNION {Close(o, full) : o \in Flush(output, full)}

\* The other steps of the back end; the LogFile is made when the thread begins.
LThreadStep ==
    /\ \/ BeginThread /\ output' \in RollFile(output, FALSE) /\ UNCHANGED appended
       \/ WriteBuffers /\ appended = Len(Round) /\ appended' = 0 /\ UNCHANGED output
       \/ /\ \/ TestRunning /\ running
             \/ WaitForSeconds \/ SwapAtOnce \/ Timeout \/ SwapAfterWait \/ Refill1
          /\ UNCHANGED <<appended, output>>
    /\ UNCHANGED <<time, faults>>

FrontStep ==
    \/ \E len \in Lengths : AppendFits(len) \/ AppendFull(len)
    \/ Start \/ StopRunning
    \/ OwnerStep

\* The clock is read by the appends: its steps are taken before one.
Tick ==
    /\ threadPc = "write" /\ appended < Len(Round)
    /\ time < MaxTime /\ time' = time + 1
    /\ UNCHANGED <<vars, faults, appended, output>>

SetClock ==
    /\ threadPc = "write" /\ appended < Len(Round)
    /\ faults < MaxFaults /\ faults' = faults + 1
    /\ time' \in 1..(time - 1)
    /\ UNCHANGED <<vars, appended, output>>

BackStep == LThreadStep \/ \E full \in BOOLEAN : AppendBuffer(full) \/ FlushOrClose(full)

LNext ==
    \/ FrontStep /\ UNCHANGED fileVars
    \/ BackStep
    \/ Tick \/ SetClock
    \/ Terminated /\ UNCHANGED fileVars

LSpec ==
    /\ LInit /\ [][LNext]_<<vars, fileVars>>
    /\ WF_<<vars, fileVars>>(BackStep)
    /\ WF_<<vars, fileVars>>(OwnerStep /\ UNCHANGED fileVars)

-----------------------------------------------------------------------------
(* Properties *)

\* LogFile.cc:77-129, FileUtil.cc:31-58: over all the files that were rolled,
\* whatever their sizes, the periods, the settings of the clock and the failures of
\* the disk, a line that AsyncLogging has handed over is in the files or held by
\* stdio, once and in order, unless it was lost to a full disk; no file is opened
\* twice; and between two rounds of the back end stdio holds nothing, unless the
\* flush that ended the last one failed.
FilesComplete ==
    LET handed == file \o FlattenSeq([i \in 1..appended |-> Round[i].lines])
        disk == output.onDisk \o output.buffered
    IN  /\ InOrder(disk)
        /\ ToSet(disk) \ {Notice} = ToSet(handed) \ ({Notice} \cup output.lost)
        /\ \A i, j \in DOMAIN output.names : i < j => output.names[i] < output.names[j]
        /\ threadPc \in {"test", "lock", "waiting", "swap", "exited"}
             => output.buffered = << >> \/ output.stuck
=============================================================================
