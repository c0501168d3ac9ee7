------------------------ MODULE AsyncLoggingProofs ------------------------
(***************************************************************************)
(* The theorems about AsyncLogging and its LogFile: the assertions of the  *)
(* back end, the circulation of the four buffers and the order of the      *)
(* lines, in memory and over all the files, hold for every buffer size,    *)
(* line length, drop limit, roll size, clock setting and full disk.        *)
(***************************************************************************)
EXTENDS LogFile, SequenceTheorems, WellFoundedInduction, TLAPS

\* A buffer that takes a line remains a buffer, and the same one.
LEMMA PutBuffer ==
    ASSUME NEW b \in Buffers, NEW n \in Nat, NEW len \in Lengths
    PROVE  /\ Put(b, n, len) \in Buffers
           /\ Put(b, n, len).id = b.id
<1> DEFINE c == [b EXCEPT !.used = b.used + len, !.lines = Append(b.lines, n)]
<1>1. b.used \in 0..Capacity /\ b.lines \in Seq(Nat) /\ len \in Nat
  BY LoggingAssumption DEF Buffers
<1>2. Append(b.lines, n) \in Seq(Nat)
  BY <1>1
<1>3. CASE Capacity - b.used > len
  <2>1. b.used + len \in 0..Capacity
    BY <1>1, <1>3, LoggingAssumption
  <2>2. c \in Buffers /\ c.id = b.id
    BY <1>2, <2>1 DEF Buffers
  <2> QED BY <1>3, <2>2 DEF Put
<1>4. CASE ~(Capacity - b.used > len)
  BY <1>4 DEF Put
<1> QED BY <1>3, <1>4

\* A buffer that is reset remains the same buffer and is empty.
LEMMA ResetBuffer ==
    ASSUME NEW b \in Buffers
    PROVE  /\ Reset(b) \in Buffers
           /\ b.id \in Originals => Ready(Reset(b))
<1>1. Reset(b) \in Buffers
  <2>1. 0 \in 0..Capacity /\ << >> \in Seq(Nat)
    BY LoggingAssumption
  <2> QED BY <2>1 DEF Reset, Buffers
<1>2. /\ Reset(b).id = b.id /\ Reset(b).used = 0 /\ Reset(b).lines = << >>
      /\ Reset(b).null = FALSE
  BY DEF Reset, Buffers
<1> QED BY <1>1, <1>2 DEF Ready

\* A new buffer is an empty buffer.
LEMMA NewBufferType ==
    ASSUME NEW id \in Originals \cup {Extra}
    PROVE  NewBuffer(id) \in Buffers /\ NewBuffer(id).id = id
BY LoggingAssumption DEF NewBuffer, Buffers

\* No buffer is the null pointer.
LEMMA BufferNotNull ==
    ASSUME NEW b \in Buffers
    PROVE  b.null = FALSE
BY DEF Buffers

\* The index 2 when a sequence is longer than 1.
LEMMA SecondIndex ==
    ASSUME NEW n \in Nat, n >= 1, n # 1
    PROVE  2 \in 1..n
OBVIOUS

\* Arithmetic for lengths up to 2.
LEMMA ExactlyTwo == \A n \in Nat : n <= 2 => (n >= 2 => n = 2)
OBVIOUS

\* resize(2) keeps the two in front.
LEMMA FirstTwoKeeps ==
    ASSUME NEW S, NEW bs \in Seq(S)
    PROVE  /\ FirstTwo(bs) \in Seq(S)
           /\ Len(FirstTwo(bs)) <= 2 /\ Len(FirstTwo(bs)) <= Len(bs)
           /\ Len(bs) >= 2 => Len(FirstTwo(bs)) = 2
           /\ Len(bs) <= 2 => Len(FirstTwo(bs)) = Len(bs)
           /\ \A i \in 1..Len(FirstTwo(bs)) : FirstTwo(bs)[i] = bs[i]
<1>0. Len(bs) \in Nat
  OBVIOUS
<1>1. CASE Len(bs) > 2
  <2>1. FirstTwo(bs) = SubSeq(bs, 1, 2)
    BY <1>1 DEF FirstTwo
  <2>2. SubSeq(bs, 1, 2) \in Seq(S) /\ Len(SubSeq(bs, 1, 2)) = 2
        /\ \A i \in 1..2 : SubSeq(bs, 1, 2)[i] = bs[i]
    BY <1>1
  <2> QED BY <1>0, <1>1, <2>1, <2>2
<1>2. CASE Len(bs) <= 2
  <2>1. FirstTwo(bs) = bs
    BY <1>0, <1>2 DEF FirstTwo
  <2>2. Len(bs) >= 2 => Len(bs) = 2
    BY <1>0, <1>2, ExactlyTwo, Zenon
  <2>3. Len(bs) <= Len(bs)
    BY <1>0
  <2> QED BY <1>2, <2>1, <2>2, <2>3
<1> QED BY <1>0, <1>1, <1>2

\* The invariant that carries the two theorems.
IInv == BufferTypes /\ BufferInv

\* The constructor establishes the invariant of the buffers.
LEMMA InitIInv == Init => IInv
<1> SUFFICES ASSUME Init PROVE IInv
  OBVIOUS
<1>1. \A id \in Originals : NewBuffer(id) \in Buffers /\ NewBuffer(id).id = id
  BY NewBufferType
<1>2. {1, 2, 3, 4} \subseteq Originals
  BY DEF Originals
<1>3. BufferTypes
  <2>1. /\ currentBuffer \in Buffers
        /\ {nextBuffer, newBuffer1, newBuffer2} \subseteq Buffers \cup {Null}
    BY <1>1, <1>2 DEF Init
  <2>2. buffers \in Seq(Buffers) /\ toWrite \in Seq(Buffers) /\ logged \in Nat
    BY DEF Init
  <2> QED BY <2>1, <2>2 DEF Init, BufferTypes, ThreadPcs, OwnerPcs
<1>4. ~nextBuffer.null /\ Ready(newBuffer1) /\ Ready(newBuffer2)
  BY <1>2 DEF Init, NewBuffer, Ready
<1>5. BufferInv
  BY <1>1, <1>2, <1>4 DEF Init, BufferInv, FrontInv, BackInv, OwnerInv
<1> QED BY <1>3, <1>5 DEF IInv

\* The critical section of the back end.
LEMMA SwapStep == IInv /\ threadPc \in {"lock", "swap"} /\ Swap => IInv'
<1> SUFFICES ASSUME IInv, threadPc \in {"lock", "swap"}, Swap PROVE IInv'
  OBVIOUS
<1> USE DEF IInv
<1>1. /\ Ready(newBuffer1) /\ Ready(newBuffer2)
      /\ newBuffer1 \in Buffers /\ newBuffer2 \in Buffers
  <2>1. Ready(newBuffer1) /\ Ready(newBuffer2)
    BY DEF BufferInv, BackInv
  <2> QED BY <2>1 DEF BufferTypes, Ready, Null
<1>2. /\ toWrite' \in Seq(Buffers) /\ Len(toWrite') = Len(buffers) + 1
      /\ \A i \in 1..Len(buffers) : toWrite'[i] = buffers[i]
      /\ toWrite'[Len(buffers) + 1] = currentBuffer
  BY DEF Swap, BufferTypes
<1>3. BufferTypes'
  BY <1>1, <1>2 DEF BufferTypes, Swap, ThreadPcs
<1>4. nextBuffer' \in Buffers /\ nextBuffer'.id \in Originals /\ ~nextBuffer'.null
  <2>1. CASE nextBuffer.null
    BY <1>1, <2>1 DEF Swap, Ready
  <2>2. CASE ~nextBuffer.null
    BY <2>2 DEF Swap, BufferInv, FrontInv, BufferTypes, Null
  <2> QED BY <2>1, <2>2
<1>5. FrontInv'
  BY <1>1, <1>4 DEF FrontInv, Swap, Ready
<1>6. \A i \in 1..Len(toWrite') : i <= 2 => toWrite'[i].id \in Originals
  <2> SUFFICES ASSUME NEW i \in 1..Len(toWrite'), i <= 2
               PROVE  toWrite'[i].id \in Originals
    OBVIOUS
  <2>1. Len(buffers) \in Nat /\ (i = 1 \/ i = 2)
    BY <1>2 DEF BufferTypes
  <2>2. CASE buffers = << >>
    BY <1>2, <2>1, <2>2 DEF BufferInv, FrontInv
  <2>3. CASE buffers # << >>
    <3>1. /\ Len(buffers) >= 1 /\ buffers[1].id \in Originals
          /\ IF Len(buffers) = 1 THEN currentBuffer.id \in Originals
                                ELSE buffers[2].id \in Originals
      BY <2>3 DEF BufferInv, FrontInv, BufferTypes
    <3>2. CASE i = 1
      BY <1>2, <2>1, <3>1, <3>2
    <3>3. CASE i = 2 /\ Len(buffers) = 1
      BY <1>2, <3>1, <3>3
    <3>4. CASE i = 2 /\ Len(buffers) # 1
      <4>1. 2 \in 1..Len(buffers)
        BY <2>1, <3>1, <3>4, SecondIndex
      <4> QED BY <1>2, <3>1, <3>4, <4>1
    <3> QED BY <2>1, <3>2, <3>3, <3>4
  <2> QED BY <2>2, <2>3
<1>7. IF newBuffer2'.null THEN Len(toWrite') >= 2
                          ELSE Ready(newBuffer2)' /\ Len(toWrite') = 1
  <2>1. CASE nextBuffer.null
    BY <1>2, <2>1 DEF Swap, BufferInv, FrontInv, Null, BufferTypes
  <2>2. CASE ~nextBuffer.null
    BY <1>1, <1>2, <2>2 DEF Swap, BufferInv, FrontInv, Ready, BufferTypes
  <2> QED BY <2>1, <2>2
<1>8. BackInv'
  BY <1>2, <1>6, <1>7 DEF BackInv, Swap, Null
<1>9. OwnerInv'
  BY DEF OwnerInv, Swap, BufferInv
<1> QED BY <1>3, <1>5, <1>8, <1>9 DEF BufferInv

\* Every step of AsyncLogging keeps the invariant.
LEMMA StepIInv == IInv /\ [Next]_vars => IInv'
<1> SUFFICES ASSUME IInv, [Next]_vars PROVE IInv'
  OBVIOUS
<1> USE DEF IInv, BufferInv
<1>1. ASSUME NEW len \in Lengths, AppendFits(len) PROVE IInv'
  <2>1. currentBuffer' \in Buffers /\ currentBuffer'.id = currentBuffer.id
    BY <1>1, PutBuffer, SMTT(30) DEF AppendFits, BufferTypes
  <2>2. BufferTypes'
    BY <1>1, <2>1 DEF AppendFits, back, BufferTypes
  <2>3. FrontInv'
    BY <1>1, <2>1 DEF AppendFits, back, FrontInv
  <2>4. BackInv' /\ OwnerInv'
    BY <1>1 DEF AppendFits, back, BackInv, OwnerInv, Ready
  <2> QED BY <2>2, <2>3, <2>4
<1>2. ASSUME NEW len \in Lengths, AppendFull(len) PROVE IInv'
  <2> DEFINE b == IF nextBuffer.null THEN NewBuffer(Extra) ELSE nextBuffer
  <2>1. b \in Buffers
    BY NewBufferType DEF BufferTypes, Null
  <2>2. currentBuffer' \in Buffers /\ currentBuffer'.id = b.id
    <3>1. currentBuffer' = Put(b, logged + 1, len) /\ logged + 1 \in Nat
      BY <1>2 DEF AppendFull, BufferTypes
    <3> HIDE DEF b
    <3> QED BY <2>1, <3>1, PutBuffer
  <2>3. /\ buffers' \in Seq(Buffers) /\ Len(buffers') = Len(buffers) + 1
        /\ \A i \in 1..Len(buffers) : buffers'[i] = buffers[i]
        /\ buffers'[Len(buffers) + 1] = currentBuffer
    BY <1>2 DEF AppendFull, BufferTypes
  <2>4. threadPc' = threadPc \/ (threadPc = "waiting" /\ threadPc' = "swap")
    BY <1>2 DEF AppendFull, Notified
  <2>5. BufferTypes'
    BY <1>2, <2>2, <2>3, <2>4 DEF AppendFull, back, BufferTypes, ThreadPcs
  <2>6. nextBuffer'.null /\ buffers' # << >>
    BY <1>2, <2>3 DEF AppendFull, Null, BufferTypes
  <2>7. FrontInv'
    <3>1. CASE nextBuffer.null
      <4>1. Len(buffers) \in Nat /\ Len(buffers) >= 1 /\ buffers[1].id \in Originals
        BY <3>1 DEF FrontInv, BufferTypes
      <4>2. buffers'[1].id \in Originals
        BY <2>3, <4>1
      <4>3. CASE Len(buffers) = 1
        <5>1. buffers'[2].id \in Originals /\ Len(buffers') = 2
          BY <2>3, <3>1, <4>3 DEF FrontInv
        <5> QED BY <2>6, <4>2, <5>1 DEF FrontInv
      <4>4. CASE Len(buffers) # 1
        <5>1. buffers[2].id \in Originals
          BY <3>1, <4>4 DEF FrontInv
        <5>2. 2 \in 1..Len(buffers)
          BY <4>1, <4>4, SecondIndex
        <5>3. buffers'[2] = buffers[2] /\ Len(buffers') # 1
          BY <2>3, <4>1, <5>2
        <5> QED BY <2>6, <4>2, <5>1, <5>3 DEF FrontInv
      <4> QED BY <4>3, <4>4
    <3>2. CASE ~nextBuffer.null
      <4>1. Len(buffers) = 0
        BY <3>2 DEF FrontInv
      <4> QED BY <2>2, <2>3, <2>6, <3>2, <4>1 DEF FrontInv
    <3> QED BY <3>1, <3>2
  <2>8. BackInv' /\ OwnerInv'
    BY <1>2, <2>4 DEF AppendFull, back, BackInv, OwnerInv, Ready
  <2> QED BY <2>5, <2>7, <2>8
<1>3. CASE Start
  BY <1>3 DEF Start, front, back, BufferTypes, FrontInv, BackInv, OwnerInv,
              Ready, ThreadPcs, OwnerPcs
<1>4. CASE LatchReleased
  BY <1>4 DEF LatchReleased, front, back, BufferTypes, FrontInv, BackInv,
              OwnerInv, Ready, OwnerPcs
<1>5. CASE StopRunning
  BY <1>5 DEF StopRunning, front, back, BufferTypes, FrontInv, BackInv,
              OwnerInv, Ready, OwnerPcs
<1>6. CASE StopNotify
  BY <1>6 DEF StopNotify, Notified, front, back, BufferTypes, FrontInv, BackInv,
              OwnerInv, Ready, ThreadPcs, OwnerPcs
<1>7. CASE Join
  BY <1>7 DEF Join, front, back, BufferTypes, FrontInv, BackInv, OwnerInv,
              Ready, OwnerPcs
<1>8. CASE BeginThread \/ TestRunning \/ WaitForSeconds \/ Timeout
  BY <1>8 DEF BeginThread, TestRunning, WaitForSeconds, Timeout, front, back,
              BufferTypes, FrontInv, BackInv, OwnerInv, Ready, ThreadPcs
<1>9. CASE SwapAtOnce \/ SwapAfterWait
  BY <1>9, SwapStep DEF SwapAtOnce, SwapAfterWait
<1>10. CASE WriteBuffers
  <2> DEFINE kept == IF Overflow THEN FirstTwo(toWrite) ELSE toWrite
  <2>1. /\ kept \in Seq(Buffers) /\ Len(kept) <= Len(toWrite)
        /\ Len(toWrite) >= 2 => Len(kept) >= 2
        /\ Len(toWrite) = 1 => Len(kept) = 1
        /\ \A i \in 1..Len(kept) : kept[i] = toWrite[i]
    <3>1. toWrite \in Seq(Buffers) /\ Len(toWrite) \in Nat
      BY DEF BufferTypes
    <3>2. CASE Overflow
      <4>1. kept = FirstTwo(toWrite)
        BY <3>2
      <4> HIDE DEF kept
      <4>2. /\ kept \in Seq(Buffers) /\ Len(kept) <= Len(toWrite)
            /\ Len(toWrite) >= 2 => Len(kept) = 2
            /\ Len(toWrite) <= 2 => Len(kept) = Len(toWrite)
            /\ \A i \in 1..Len(kept) : kept[i] = toWrite[i]
        BY <3>1, <4>1, FirstTwoKeeps
      <4>3. Len(toWrite) = 1 => Len(kept) = 1
        BY <3>1, <4>2
      <4>4. Len(toWrite) >= 2 => Len(kept) >= 2
        <5>1. 2 >= 2
          OBVIOUS
        <5> QED BY <4>2, <5>1, Zenon
      <4> QED BY <4>2, <4>3, <4>4
    <3>3. CASE ~Overflow
      BY <3>1, <3>3
    <3> QED BY <3>2, <3>3
  <2>2. /\ toWrite' \in Seq(Buffers) /\ Len(toWrite') <= 2
        /\ Len(toWrite) >= 2 => Len(toWrite') = 2
        /\ Len(toWrite) = 1 => Len(toWrite') = 1
        /\ \A i \in 1..Len(toWrite') : toWrite'[i] = kept[i] /\ i <= Len(kept)
    <3>1. toWrite' = FirstTwo(kept) /\ Len(toWrite) \in Nat /\ Len(kept) \in Nat
      BY <1>10, <2>1 DEF WriteBuffers, BufferTypes
    <3> HIDE DEF kept
    <3>2. /\ FirstTwo(kept) \in Seq(Buffers)
          /\ Len(FirstTwo(kept)) <= 2 /\ Len(FirstTwo(kept)) <= Len(kept)
          /\ Len(kept) >= 2 => Len(FirstTwo(kept)) = 2
          /\ Len(kept) <= 2 => Len(FirstTwo(kept)) = Len(kept)
          /\ \A i \in 1..Len(FirstTwo(kept)) : FirstTwo(kept)[i] = kept[i]
      BY <2>1, FirstTwoKeeps
    <3>3. Len(toWrite') \in Nat
      BY <3>1, <3>2
    <3>4. \A i \in 1..Len(toWrite') : toWrite'[i] = kept[i] /\ i <= Len(kept)
      BY <3>1, <3>2, <3>3
    <3> QED BY <2>1, <3>1, <3>2, <3>4
  <2>3. BufferTypes' /\ FrontInv' /\ OwnerInv'
    BY <1>10, <2>2 DEF WriteBuffers, front, BufferTypes, FrontInv, OwnerInv,
                       ThreadPcs
  <2>4. \A i \in 1..Len(toWrite') :
          toWrite'[i] = toWrite[i] /\ i \in 1..Len(toWrite) /\ i <= 2
    BY <2>1, <2>2 DEF BufferTypes
  <2>5. BackInv'
    <3>1. /\ newBuffer1.null
          /\ IF newBuffer2.null THEN Len(toWrite) >= 2
                                ELSE Ready(newBuffer2) /\ Len(toWrite) = 1
          /\ \A i \in 1..Len(toWrite) : i <= 2 => toWrite[i].id \in Originals
      BY <1>10 DEF WriteBuffers, BackInv, BufferTypes
    <3>2. \A i \in 1..Len(toWrite') : toWrite'[i].id \in Originals
      BY <2>4, <3>1
    <3>3. /\ newBuffer1'.null
          /\ IF newBuffer2'.null THEN Len(toWrite') >= 2
                                 ELSE Ready(newBuffer2)' /\ Len(toWrite') = 1
      BY <1>10, <2>2, <3>1 DEF WriteBuffers, Ready
    <3>4. threadPc' = "refill1" /\ DOMAIN toWrite' = 1..Len(toWrite')
      BY <1>10, <2>2 DEF WriteBuffers
    <3> QED BY <2>2, <3>2, <3>3, <3>4 DEF BackInv
  <2> QED BY <2>3, <2>5
<1>11. CASE Refill1
  <2>1. /\ newBuffer1.null /\ Len(toWrite) <= 2 /\ toWrite # << >>
        /\ IF newBuffer2.null THEN Len(toWrite) = 2
                              ELSE Ready(newBuffer2) /\ Len(toWrite) = 1
        /\ \A i \in 1..Len(toWrite) : toWrite[i].id \in Originals
    <3>1. threadPc = "refill1" /\ BackInv /\ Len(toWrite) \in Nat
          /\ DOMAIN toWrite = 1..Len(toWrite)
      BY <1>11 DEF Refill1, BufferTypes
    <3>2. /\ newBuffer1.null /\ Len(toWrite) <= 2
          /\ IF newBuffer2.null THEN Len(toWrite) >= 2
                                ELSE Ready(newBuffer2) /\ Len(toWrite) = 1
          /\ \A i \in 1..Len(toWrite) : i <= 2 => toWrite[i].id \in Originals
      BY <3>1 DEF BackInv
    <3>3. toWrite # << >>
      BY <3>2
    <3>4. \A i \in 1..Len(toWrite) : toWrite[i].id \in Originals
      BY <3>1, <3>2
    <3> QED BY <3>1, <3>2, <3>3, <3>4
  <2>2. newBuffer1' \in Buffers /\ Ready(newBuffer1)'
    BY <1>11, <2>1, ResetBuffer DEF Refill1, Last, BufferTypes, Ready
  <2>3. /\ toWrite' \in Seq(Buffers) /\ Len(toWrite') = Len(toWrite) - 1
        /\ \A i \in 1..Len(toWrite') : toWrite'[i] = toWrite[i]
    BY <1>11, <2>1 DEF Refill1, Front, BufferTypes
  <2>4. BufferTypes' /\ FrontInv' /\ OwnerInv'
    BY <1>11, <2>2, <2>3 DEF Refill1, front, BufferTypes, FrontInv, OwnerInv,
                             ThreadPcs
  <2>5. BackInv'
    BY <1>11, <2>1, <2>2, <2>3 DEF Refill1, BackInv, BufferTypes, Ready
  <2> QED BY <2>4, <2>5
<1>12. CASE Refill2
  <2>1. /\ Ready(newBuffer1)
        /\ IF newBuffer2.null THEN Len(toWrite) = 1 ELSE Ready(newBuffer2)
        /\ \A i \in 1..Len(toWrite) : toWrite[i].id \in Originals
    BY <1>12 DEF Refill2, BackInv, BufferTypes
  <2>2. newBuffer2' \in Buffers /\ Ready(newBuffer2)'
    <3>1. CASE newBuffer2.null
      <4>1. toWrite[1] \in Buffers /\ toWrite[1].id \in Originals
        <5>1. Len(toWrite) = 1 /\ toWrite \in Seq(Buffers)
          BY <2>1, <3>1 DEF BufferTypes
        <5> QED BY <2>1, <5>1
      <4>2. newBuffer2' = Reset(toWrite[1])
        BY <1>12, <2>1, <3>1 DEF Refill2, Last
      <4> QED BY <4>1, <4>2, ResetBuffer DEF Ready
    <3>2. CASE ~newBuffer2.null
      BY <1>12, <2>1, <3>2 DEF Refill2, BufferTypes, Null, Ready
    <3> QED BY <3>1, <3>2
  <2>3. BufferTypes' /\ FrontInv' /\ OwnerInv'
    BY <1>12, <2>2 DEF Refill2, front, BufferTypes, FrontInv, OwnerInv, ThreadPcs
  <2>4. BackInv'
    BY <1>12, <2>1, <2>2 DEF Refill2, BackInv, Ready
  <2> QED BY <2>3, <2>4
<1>13. CASE UNCHANGED vars
  BY <1>13 DEF vars, front, back, BufferTypes, FrontInv, BackInv, OwnerInv, Ready
<1> QED
  BY <1>1, <1>2, <1>3, <1>4, <1>5, <1>6, <1>7, <1>8, <1>9, <1>10, <1>11, <1>12,
     <1>13 DEF Next, OwnerStep, ThreadStep, Terminated

\* The invariant of the buffers holds in every state.
LEMMA BuffersCorrect == Spec => []IInv
BY InitIInv, StepIInv, PTL DEF Spec

\* The assertions of threadFunc hold in every run of the logger, whatever
\* the sizes are and however appends and swaps interleave.
THEOREM BackEndAsserts == Spec => []AssertsHold
<1>1. IInv => AssertsHold
  <2> SUFFICES ASSUME IInv PROVE AssertsHold
    OBVIOUS
  <2>1. BackInv /\ OwnerInv /\ toWrite \in Seq(Buffers)
    BY DEF IInv, BufferInv, BufferTypes
  <2>2. threadPc = "created" => running
    BY <2>1 DEF OwnerInv
  <2>3. threadPc \notin {"write", "refill1", "refill2"} =>
          /\ \A b \in {newBuffer1, newBuffer2} :
                ~b.null /\ b.used = 0 /\ b.lines = << >>
          /\ toWrite = << >>
    BY <2>1 DEF BackInv, Ready
  <2>4. threadPc \in {"write", "refill1"} => Len(toWrite) >= 1
    BY <2>1 DEF BackInv
  <2>5. threadPc = "refill2" /\ newBuffer2.null => Len(toWrite) = 1
    BY <2>1 DEF BackInv
  <2>6. toWrite = << >> => Len(toWrite) = 0
    OBVIOUS
  <2> QED BY <2>2, <2>3, <2>4, <2>5, <2>6 DEF AssertsHold
<1> QED BY <1>1, BuffersCorrect, PTL

\* Only the four original buffers circulate between front end and back end.
THEOREM FourBuffers == Spec => []OriginalsCirculate
<1>1. IInv => OriginalsCirculate
  <2> SUFFICES ASSUME IInv PROVE OriginalsCirculate
    OBVIOUS
  <2>1. BackInv /\ toWrite \in Seq(Buffers)
    BY DEF IInv, BufferInv, BufferTypes
  <2>2. threadPc \in {"write", "refill1"} \/ threadPc = "refill2"
           \/ threadPc \notin {"write", "refill1", "refill2"}
    OBVIOUS
  <2> QED BY <2>1, <2>2 DEF OriginalsCirculate, BackInv, Ready
<1> QED BY <1>1, BuffersCorrect, PTL

-----------------------------------------------------------------------------
(* FlattenSeq *)

\* A set of natural numbers has a least element.
LEMMA Least ==
    ASSUME NEW T, T \subseteq Nat, T # {}
    PROVE  \E x \in T : \A y \in T : x <= y
<1> DEFINE R == OpToRel(<, Nat)
<1>1. IsWellFoundedOn(R, Nat)
  BY NatLessThanWellFounded, Zenon
<1>2. \A x, y \in Nat : <<y, x>> \in R <=> y < x
  BY DEF OpToRel
<1> HIDE DEF R
<1>3. PICK x \in T : \A y \in T : ~ (<<y, x>> \in R)
  BY <1>1, WFMin
<1>4. ASSUME NEW y \in T
      PROVE  x <= y
  <2>1. x \in Nat /\ y \in Nat /\ ~(y < x)
    BY <1>2, <1>3
  <2> QED BY <2>1
<1> QED BY <1>4

\* Induction up to n, for a property given as a set of numbers.
LEMMA UpTo ==
    ASSUME NEW n \in Nat, NEW T, 0 \in T, \A k \in 1..n : k - 1 \in T => k \in T
    PROVE  \A k \in 0..n : k \in T
<1> DEFINE U == {k \in 0..n : k \notin T}
<1> SUFFICES ASSUME U # {} PROVE FALSE
  OBVIOUS
<1>1. U \subseteq Nat
  OBVIOUS
<1> HIDE DEF U
<1>2. PICK x \in U : \A y \in U : x <= y
  BY <1>1, Least
<1>3. x \in 1..n /\ x \notin T /\ x - 1 \in 0..n
  BY <1>2 DEF U
<1>4. x - 1 \notin T
  BY <1>3
<1>5. x - 1 \in U
  BY <1>3, <1>4 DEF U
<1> QED BY <1>2, <1>3, <1>5

\* The partial results of FlattenSeq(s), up to n.
Joins(s, n, g) ==
    \A i \in 1..n : g[i] = IF i = 1 THEN s[1] ELSE g[i - 1] \o s[i]

\* FlattenSeq has its partial results.
LEMMA JoinsExist ==
    ASSUME NEW S, NEW s \in Seq(Seq(S))
    PROVE  \E g \in [1..Len(s) -> Seq(S)] : Joins(s, Len(s), g)
<1> DEFINE T == {n \in 0..Len(s) : \E g \in [1..n -> Seq(S)] : Joins(s, n, g)}
<1>1. Len(s) \in Nat /\ \A i \in 1..Len(s) : s[i] \in Seq(S)
  OBVIOUS
<1>2. 0 \in T
  <2> DEFINE g == [i \in 1..0 |-> << >>]
  <2>1. g \in [1..0 -> Seq(S)] /\ Joins(s, 0, g)
    BY DEF Joins
  <2>2. 0 \in 0..Len(s)
    BY <1>1
  <2> HIDE DEF g
  <2> QED BY <2>1, <2>2, Zenon
<1>3. ASSUME NEW k \in 1..Len(s), k - 1 \in T PROVE k \in T
  <2>1. PICK h \in [1..(k - 1) -> Seq(S)] : Joins(s, k - 1, h)
    BY <1>3
  <2> DEFINE g == [i \in 1..k |-> IF i = k THEN IF k = 1 THEN s[1] ELSE h[k - 1] \o s[k]
                                  ELSE h[i]]
  <2>2. ASSUME NEW i \in 1..k PROVE g[i] \in Seq(S)
    <3>1. CASE i = k /\ k = 1
      BY <1>1, <3>1
    <3>2. CASE i = k /\ k # 1
      <4>1. k - 1 \in 1..(k - 1) /\ h[k - 1] \in Seq(S) /\ s[k] \in Seq(S)
        BY <1>1, <3>2
      <4>2. h[k - 1] \o s[k] \in Seq(S)
        BY <4>1, ConcatProperties
      <4> QED BY <3>2, <4>2
    <3>3. CASE i # k
      BY <3>3
    <3> QED BY <3>1, <3>2, <3>3
  <2>3. g \in [1..k -> Seq(S)]
    BY <2>2
  <2>4. ASSUME NEW i \in 1..k
        PROVE  g[i] = IF i = 1 THEN s[1] ELSE g[i - 1] \o s[i]
    <3>1. CASE i = k
      <4>1. i # 1 => g[i - 1] = h[i - 1]
        BY <3>1
      <4> QED BY <3>1, <4>1
    <3>2. CASE i # k
      <4>1. i \in 1..(k - 1) /\ g[i] = h[i] /\ (i # 1 => g[i - 1] = h[i - 1])
        BY <3>2
      <4>2. h[i] = IF i = 1 THEN s[1] ELSE h[i - 1] \o s[i]
        BY <2>1, <4>1 DEF Joins
      <4> HIDE DEF g
      <4> QED BY <4>1, <4>2
    <3> QED BY <3>1, <3>2
  <2> HIDE DEF g
  <2>5. Joins(s, k, g)
    BY <2>4 DEF Joins
  <2> QED BY <1>1, <2>3, <2>5
<1> HIDE DEF T
<1>4. Len(s) \in 0..Len(s) /\ \A k \in 1..Len(s) : k - 1 \in T => k \in T
  BY <1>1, <1>3
<1>5. \A k \in 0..Len(s) : k \in T
  BY <1>1, <1>2, <1>4, UpTo, Zenon
<1> QED BY <1>4, <1>5 DEF T

\* FlattenSeq returns the last of the partial results.
LEMMA FlattenValue ==
    ASSUME NEW S, NEW s \in Seq(Seq(S)), Len(s) # 0,
           NEW g \in [1..Len(s) -> Seq(S)], Joins(s, Len(s), g)
    PROVE  FlattenSeq(s) = g[Len(s)]
<1> DEFINE fl[i \in 1..Len(s)] == IF i = 1 THEN s[i] ELSE fl[i-1] \o s[i]
           T == {n \in 0..Len(s) : n = 0 \/ fl[n] = g[n]}
<1>0. Len(s) \in Nat
  OBVIOUS
<1>1. g = [i \in 1..Len(s) |-> IF i = 1 THEN s[i] ELSE g[i-1] \o s[i]]
  <2> DEFINE h == [i \in 1..Len(s) |-> IF i = 1 THEN s[i] ELSE g[i-1] \o s[i]]
  <2>1. ASSUME NEW i \in 1..Len(s) PROVE g[i] = h[i]
    <3>1. g[i] = IF i = 1 THEN s[1] ELSE g[i - 1] \o s[i]
      BY DEF Joins
    <3> QED BY <3>1
  <2>2. h = [i \in 1..Len(s) |-> h[i]] /\ g = [i \in 1..Len(s) |-> g[i]]
    OBVIOUS
  <2> HIDE DEF h
  <2>3. g = h
    BY <2>1, <2>2
  <2> QED BY <2>3 DEF h
<1>2. fl = [i \in 1..Len(s) |-> IF i = 1 THEN s[i] ELSE fl[i-1] \o s[i]]
  BY <1>1, Zenon DEF fl
<1>3. FlattenSeq(s) = fl[Len(s)]
  BY Zenon DEF FlattenSeq
<1> HIDE DEF fl
<1>4. 0 \in T
  BY <1>0
<1>5. ASSUME NEW k \in 1..Len(s), k - 1 \in T PROVE k \in T
  <2>1. g[k] = IF k = 1 THEN s[1] ELSE g[k - 1] \o s[k]
    BY DEF Joins
  <2>2. fl[k] = IF k = 1 THEN s[k] ELSE fl[k - 1] \o s[k]
    BY <1>2
  <2>3. k # 1 => fl[k - 1] = g[k - 1]
    BY <1>5
  <2>4. fl[k] = g[k]
    BY <2>1, <2>2, <2>3
  <2> QED BY <1>0, <2>4
<1> HIDE DEF T
<1>6. Len(s) \in 0..Len(s) /\ \A k \in 1..Len(s) : k - 1 \in T => k \in T
  BY <1>0, <1>5
<1>7. \A k \in 0..Len(s) : k \in T
  BY <1>0, <1>4, <1>6, UpTo, Zenon
<1> QED BY <1>0, <1>3, <1>6, <1>7 DEF T

\* FlattenSeq of nothing.
LEMMA FlattenEmpty == FlattenSeq(<< >>) = << >>
BY DEF FlattenSeq

\* FlattenSeq of a sequence that has one more.
LEMMA FlattenAppend ==
    ASSUME NEW S, NEW s \in Seq(Seq(S)), NEW x \in Seq(S)
    PROVE  /\ FlattenSeq(s) \in Seq(S)
           /\ FlattenSeq(Append(s, x)) = FlattenSeq(s) \o x
<1> DEFINE t == Append(s, x)
           n == Len(s)
<1>1. /\ t \in Seq(Seq(S)) /\ n \in Nat /\ Len(t) = n + 1 /\ t[n + 1] = x
      /\ \A i \in 1..n : t[i] = s[i]
  OBVIOUS
<1> HIDE DEF t
<1>2. PICK g \in [1..Len(t) -> Seq(S)] : Joins(t, Len(t), g)
  BY <1>1, JoinsExist
<1>3. FlattenSeq(t) = g[n + 1]
  <2>1. Len(t) # 0
    BY <1>1
  <2>2. FlattenSeq(t) = g[Len(t)]
    BY <1>1, <1>2, <2>1, FlattenValue, Zenon
  <2> QED BY <1>1, <2>2
<1>4. n + 1 \in 1..Len(t) /\ 1..n \subseteq 1..Len(t)
  BY <1>1
<1>5. g[n + 1] = IF n + 1 = 1 THEN t[1] ELSE g[n] \o x
  <2>0. \A i \in 1..Len(t) : g[i] = IF i = 1 THEN t[1] ELSE g[i - 1] \o t[i]
    BY <1>2, Zenon DEF Joins
  <2>1. ASSUME NEW m \in 1..Len(t), m = n + 1
        PROVE  g[m] = IF m = 1 THEN t[1] ELSE g[n] \o x
    <3>1. g[m] = IF m = 1 THEN t[1] ELSE g[m - 1] \o t[m]
      BY <2>0
    <3>2. m - 1 = n /\ t[m] = x
      BY <1>1, <2>1
    <3> QED BY <3>1, <3>2
  <2> HIDE DEF n
  <2> QED BY <1>4, <2>1, Zenon
<1>6. CASE n = 0
  <2>1. s = << >> /\ FlattenSeq(s) = << >> /\ g[n + 1] = x
    BY <1>1, <1>5, <1>6, FlattenEmpty
  <2>2. << >> \o x = x /\ << >> \in Seq(S)
    BY ConcatEmptySeq
  <2>3. FlattenSeq(t) = x
    BY <1>3, <2>1
  <2> QED BY <2>1, <2>2, <2>3, Zenon DEF t
<1>7. CASE n # 0
  <2> DEFINE h == [i \in 1..n |-> g[i]]
  <2>1. h \in [1..n -> Seq(S)]
    BY <1>2, <1>4
  <2>2. ASSUME NEW i \in 1..n PROVE h[i] = IF i = 1 THEN s[1] ELSE h[i - 1] \o s[i]
    <3>1. g[i] = IF i = 1 THEN t[1] ELSE g[i - 1] \o t[i]
      BY <1>2, <1>4 DEF Joins
    <3>2. t[i] = s[i] /\ h[i] = g[i] /\ (i # 1 => h[i - 1] = g[i - 1])
          /\ (i = 1 => t[1] = s[1])
      BY <1>1
    <3> HIDE DEF h
    <3> QED BY <3>1, <3>2
  <2>3. h[n] = g[n] /\ n \in 1..n
    BY <1>1, <1>7
  <2> HIDE DEF h
  <2>4. Joins(s, n, h)
    BY <2>2 DEF Joins
  <2>5. FlattenSeq(s) = h[n] /\ h[n] \in Seq(S)
    BY <1>7, <2>1, <2>3, <2>4, FlattenValue
  <2>6. n + 1 # 1
    BY <1>1, <1>7
  <2> QED BY <1>3, <1>5, <2>3, <2>5, <2>6 DEF t
<1> QED BY <1>6, <1>7

\* Concatenation is associative.
LEMMA Associative ==
    ASSUME NEW S, NEW s \in Seq(S), NEW t \in Seq(S), NEW u \in Seq(S)
    PROVE  (s \o t) \o u = s \o (t \o u)
BY ConcatAssociative

\* FlattenSeq of two sequences, one after the other.
LEMMA FlattenConcat ==
    ASSUME NEW S, NEW s \in Seq(Seq(S)), NEW t \in Seq(Seq(S))
    PROVE  FlattenSeq(s \o t) = FlattenSeq(s) \o FlattenSeq(t)
<1> DEFINE p(n) == SubSeq(t, 1, n)
           T == {n \in 0..Len(t) : FlattenSeq(s \o p(n)) = FlattenSeq(s) \o FlattenSeq(p(n))}
<1>1. Len(t) \in Nat /\ \A x \in Seq(Seq(S)) : FlattenSeq(x) \in Seq(S)
  <2>1. << >> \in Seq(S) /\ Len(t) \in Nat
    OBVIOUS
  <2> QED BY <2>1, FlattenAppend
<1>2. 0 \in T
  <2>1. p(0) = << >>
    BY SubSeqEmpty
  <2>2. s \o << >> = s /\ FlattenSeq(s) \o << >> = FlattenSeq(s)
    BY <1>1, ConcatEmptySeq
  <2>3. 0 \in 0..Len(t)
    BY <1>1
  <2> HIDE DEF p
  <2> QED BY <2>1, <2>2, <2>3, FlattenEmpty, Zenon
<1>3. ASSUME NEW k \in 1..Len(t), k - 1 \in T PROVE k \in T
  <2>1. t[k] \in Seq(S) /\ k \in 0..Len(t) /\ k \in Nat /\ k - 1 \in 0..Len(t)
    BY <1>1
  <2>2. p(k) = Append(p(k - 1), t[k]) /\ p(k - 1) \in Seq(Seq(S))
    <3> DEFINE q == p(k - 1)
               r == Append(q, t[k])
    <3>1. p(k) \in Seq(Seq(S)) /\ Len(p(k)) = k /\ \A i \in 1..k : p(k)[i] = t[i]
      BY <1>1, SubSeqProperties
    <3>2. q \in Seq(Seq(S)) /\ Len(q) = k - 1 /\ \A i \in 1..(k - 1) : q[i] = t[i]
      BY <1>1, SubSeqProperties
    <3> HIDE DEF p, q
    <3>3. /\ r \in Seq(Seq(S)) /\ Len(r) = k /\ r[k] = t[k]
          /\ \A i \in 1..(k - 1) : r[i] = t[i]
      BY <2>1, <3>2
    <3> HIDE DEF r
    <3>4. ASSUME NEW i \in 1..k PROVE r[i] = p(k)[i]
      <4>1. CASE i = k
        BY <3>1, <3>3, <4>1
      <4>2. CASE i # k
        <5>1. i \in 1..(k - 1)
          BY <2>1, <4>2
        <5> QED BY <3>1, <3>3, <5>1
      <4> QED BY <4>1, <4>2
    <3>5. p(k) = r
      BY <3>1, <3>3, <3>4, SeqEqual
    <3> QED BY <3>2, <3>5 DEF q, r
  <2>3. FlattenSeq(s \o p(k - 1)) = FlattenSeq(s) \o FlattenSeq(p(k - 1))
    BY <1>3
  <2> HIDE DEF p
  <2> DEFINE q == p(k - 1)
             x == t[k]
  <2>4. q \in Seq(Seq(S)) /\ x \in Seq(S) /\ s \o q \in Seq(Seq(S))
    BY <2>1, <2>2, ConcatProperties
  <2>5. p(k) = Append(q, x) /\ FlattenSeq(s \o q) = FlattenSeq(s) \o FlattenSeq(q)
    BY <2>2, <2>3
  <2> HIDE DEF q, x
  <2>6. s \o Append(q, x) = Append(s \o q, x)
    BY <2>4
  <2>7. /\ FlattenSeq(Append(s \o q, x)) = FlattenSeq(s \o q) \o x
        /\ FlattenSeq(Append(q, x)) = FlattenSeq(q) \o x
        /\ FlattenSeq(s) \in Seq(S) /\ FlattenSeq(q) \in Seq(S)
    BY <2>4, FlattenAppend
  <2>8. (FlattenSeq(s) \o FlattenSeq(q)) \o x = FlattenSeq(s) \o (FlattenSeq(q) \o x)
    <3> DEFINE y == FlattenSeq(s)
               z == FlattenSeq(q)
    <3>1. y \in Seq(S) /\ z \in Seq(S) /\ x \in Seq(S)
      BY <2>4, <2>7
    <3> HIDE DEF y, z
    <3>2. (y \o z) \o x = y \o (z \o x)
      BY ONLY <3>1, Associative, SMTT(30)
    <3> QED BY <3>2 DEF y, z
  <2>9. FlattenSeq(s \o p(k)) = FlattenSeq(s) \o FlattenSeq(p(k))
    BY <2>5, <2>6, <2>7, <2>8
  <2> QED BY <2>1, <2>9
<1> HIDE DEF T
<1>4. Len(t) \in 0..Len(t) /\ \A k \in 1..Len(t) : k - 1 \in T => k \in T
  BY <1>1, <1>3
<1>5. \A k \in 0..Len(t) : k \in T
  BY <1>1, <1>2, <1>4, UpTo, Zenon
<1>6. p(Len(t)) = t
  BY SubSeqFull
<1>7. Len(t) \in T
  BY <1>4, <1>5
<1> QED BY <1>6, <1>7, Zenon DEF T

\* LinesOf, of a sequence of anything that has lines.
LEMMA LinesOfSeq ==
    ASSUME NEW B, \A b \in B : b.lines \in Seq(Nat), NEW bs \in Seq(B)
    PROVE  /\ LinesOf(bs) \in Seq(Nat)
           /\ [i \in DOMAIN bs |-> bs[i].lines] \in Seq(Seq(Nat))
           /\ LinesOf(<< >>) = << >>
           /\ \A b \in B : LinesOf(Append(bs, b)) = LinesOf(bs) \o b.lines
           /\ \A cs \in Seq(B) : LinesOf(bs \o cs) = LinesOf(bs) \o LinesOf(cs)
<1> DEFINE l(s) == [i \in DOMAIN s |-> s[i].lines]
<1>1. ASSUME NEW s \in Seq(B)
      PROVE  /\ l(s) \in Seq(Seq(Nat)) /\ Len(l(s)) = Len(s) /\ Len(s) \in Nat
             /\ DOMAIN s = 1..Len(s)
             /\ \A i \in 1..Len(s) : l(s)[i] = s[i].lines
  <2>1. \A i \in 1..Len(s) : s[i].lines \in Seq(Nat)
    BY ElementOfSeq
  <2>2. DOMAIN s = 1..Len(s) /\ Len(s) \in Nat
    OBVIOUS
  <2>3. l(s) \in [1..Len(s) -> Seq(Nat)]
    BY <2>1, <2>2
  <2>4. l(s) \in Seq(Seq(Nat))
    BY <2>2, <2>3, IsASeq
  <2>5. Len(l(s)) = Len(s)
    BY <2>2, <2>3, <2>4, LenProperties
  <2> QED BY <2>2, <2>4, <2>5
<1>2. LinesOf(bs) \in Seq(Nat)
  <2>1. << >> \in Seq(Nat)
    OBVIOUS
  <2> QED BY <1>1, <2>1, FlattenAppend DEF LinesOf
<1>3. LinesOf(<< >>) = << >>
  <2>1. << >> \in Seq(B)
    OBVIOUS
  <2>2. l(<< >>) = << >>
    <3>1. l(<< >>) \in Seq(Seq(Nat)) /\ Len(l(<< >>)) = 0
      BY <1>1, <2>1
    <3> HIDE DEF l
    <3> QED BY <3>1, EmptySeq
  <2> QED BY <2>2, FlattenEmpty, Zenon DEF LinesOf
<1>4. ASSUME NEW b \in B PROVE LinesOf(Append(bs, b)) = LinesOf(bs) \o b.lines
  <2> DEFINE c == Append(bs, b)
             x == b.lines
  <2>1. /\ c \in Seq(B) /\ Len(c) = Len(bs) + 1 /\ c[Len(bs) + 1] = b
        /\ \A i \in 1..Len(bs) : c[i] = bs[i]
    OBVIOUS
  <2> HIDE DEF c
  <2>2. /\ l(c) \in Seq(Seq(Nat)) /\ Len(l(c)) = Len(c)
        /\ \A i \in 1..Len(c) : l(c)[i] = c[i].lines
    BY <1>1, <2>1
  <2>3. /\ l(bs) \in Seq(Seq(Nat)) /\ Len(l(bs)) = Len(bs) /\ Len(bs) \in Nat
        /\ \A i \in 1..Len(bs) : l(bs)[i] = bs[i].lines
    BY <1>1
  <2>4. x \in Seq(Nat)
    OBVIOUS
  <2>5. \A i \in 1..Len(bs) : l(c)[i] = l(bs)[i]
    BY <2>1, <2>2, <2>3
  <2>6. l(c)[Len(bs) + 1] = x
    BY <2>1, <2>2, <2>3
  <2> HIDE DEF l, x
  <2>7. l(c) = Append(l(bs), x)
    <3> DEFINE d == Append(l(bs), x)
    <3>1. /\ d \in Seq(Seq(Nat)) /\ Len(d) = Len(bs) + 1 /\ d[Len(bs) + 1] = x
          /\ \A i \in 1..Len(bs) : d[i] = l(bs)[i]
      BY <2>3, <2>4
    <3> HIDE DEF d
    <3>2. ASSUME NEW i \in 1..Len(d) PROVE d[i] = l(c)[i]
      <4>1. CASE i = Len(bs) + 1
        BY <2>6, <3>1, <4>1
      <4>2. CASE i # Len(bs) + 1
        <5>1. i \in 1..Len(bs)
          BY <2>3, <3>1, <4>2
        <5> QED BY <2>5, <3>1, <5>1
      <4> QED BY <4>1, <4>2
    <3>3. Len(d) = Len(l(c))
      BY <2>1, <2>2, <3>1
    <3>4. d = l(c)
      BY <2>2, <3>1, <3>2, <3>3, SeqEqual
    <3> QED BY <3>4 DEF d
  <2>8. FlattenSeq(l(c)) = FlattenSeq(l(bs)) \o x
    BY <2>3, <2>4, <2>7, FlattenAppend
  <2> QED BY <2>8 DEF LinesOf, l, c, x
<1>5. ASSUME NEW cs \in Seq(B) PROVE LinesOf(bs \o cs) = LinesOf(bs) \o LinesOf(cs)
  <2> DEFINE c == bs \o cs
  <2>1. /\ c \in Seq(B) /\ Len(c) = Len(bs) + Len(cs)
        /\ \A i \in 1..Len(c) : c[i] = IF i <= Len(bs) THEN bs[i] ELSE cs[i - Len(bs)]
    BY ConcatProperties
  <2> HIDE DEF c
  <2>2. /\ l(c) \in Seq(Seq(Nat)) /\ Len(l(c)) = Len(c)
        /\ \A i \in 1..Len(c) : l(c)[i] = c[i].lines
    BY <1>1, <2>1
  <2>3. /\ l(bs) \in Seq(Seq(Nat)) /\ Len(l(bs)) = Len(bs) /\ Len(bs) \in Nat
        /\ \A i \in 1..Len(bs) : l(bs)[i] = bs[i].lines
    BY <1>1
  <2>4. /\ l(cs) \in Seq(Seq(Nat)) /\ Len(l(cs)) = Len(cs) /\ Len(cs) \in Nat
        /\ \A i \in 1..Len(cs) : l(cs)[i] = cs[i].lines
    BY <1>1
  <2>5. ASSUME NEW i \in 1..Len(c)
        PROVE  l(c)[i] = IF i <= Len(bs) THEN l(bs)[i] ELSE l(cs)[i - Len(bs)]
    <3>1. CASE i <= Len(bs)
      <4>1. i \in 1..Len(bs)
        BY <2>3, <3>1
      <4>2. c[i] = bs[i]
        BY <2>1, <3>1
      <4> QED BY <2>2, <2>3, <3>1, <4>1, <4>2
    <3>2. CASE ~(i <= Len(bs))
      <4>1. i - Len(bs) \in 1..Len(cs)
        BY <2>1, <2>3, <2>4, <3>2
      <4>2. c[i] = cs[i - Len(bs)]
        BY <2>1, <3>2
      <4> QED BY <2>2, <2>4, <3>2, <4>1, <4>2
    <3> QED BY <3>1, <3>2
  <2> HIDE DEF l
  <2>6. l(c) = l(bs) \o l(cs)
    <3> DEFINE d == l(bs) \o l(cs)
    <3>1. /\ d \in Seq(Seq(Nat)) /\ Len(d) = Len(bs) + Len(cs)
          /\ \A i \in 1..Len(d) : d[i] = IF i <= Len(bs) THEN l(bs)[i] ELSE l(cs)[i - Len(bs)]
      <4> DEFINE y == l(bs)
                 z == l(cs)
      <4>1. /\ y \in Seq(Seq(Nat)) /\ z \in Seq(Seq(Nat))
            /\ Len(y) = Len(bs) /\ Len(z) = Len(cs)
        BY <2>3, <2>4
      <4> HIDE DEF y, z
      <4>2. /\ y \o z \in Seq(Seq(Nat)) /\ Len(y \o z) = Len(y) + Len(z)
            /\ \A i \in 1..(Len(y) + Len(z)) :
                  (y \o z)[i] = IF i <= Len(y) THEN y[i] ELSE z[i - Len(y)]
        BY <4>1, ConcatProperties, Zenon
      <4> QED BY <4>1, <4>2 DEF y, z
    <3> HIDE DEF d
    <3>2. \A i \in 1..Len(d) : d[i] = l(c)[i]
      BY <2>1, <2>5, <3>1
    <3>3. d = l(c)
      BY <2>1, <2>2, <3>1, <3>2, SeqEqual
    <3> QED BY <3>3 DEF d
  <2>7. FlattenSeq(l(c)) = FlattenSeq(l(bs)) \o FlattenSeq(l(cs))
    BY <2>3, <2>4, <2>6, FlattenConcat
  <2> QED BY <2>7 DEF LinesOf, l, c
<1> QED BY <1>1, <1>2, <1>3, <1>4, <1>5

-----------------------------------------------------------------------------
(* Intervals of lines *)

\* The lines a+1, ..., b.
Interval(a, b) == [j \in 1..(b - a) |-> a + j]

\* The lines from a to b are a sequence.
LEMMA IntervalSeq ==
    ASSUME NEW a \in Nat, NEW b \in Nat, a <= b
    PROVE  /\ Interval(a, b) \in Seq(Nat) /\ Len(Interval(a, b)) = b - a
           /\ \A j \in 1..(b - a) : Interval(a, b)[j] = a + j
<1>1. b - a \in Nat /\ \A j \in 1..(b - a) : a + j \in Nat
  OBVIOUS
<1>2. Interval(a, b) \in [1..(b - a) -> Nat]
  BY <1>1 DEF Interval
<1>3. Interval(a, b) \in Seq(Nat)
  BY <1>1, <1>2, IsASeq
<1>4. Len(Interval(a, b)) = b - a
  BY <1>1, <1>2, <1>3, LenProperties
<1> QED BY <1>3, <1>4 DEF Interval

\* A sequence that counts from a is an interval.
LEMMA IsInterval ==
    ASSUME NEW a \in Nat, NEW b \in Nat, a <= b, NEW s \in Seq(Nat), Len(s) = b - a,
           \A j \in 1..(b - a) : s[j] = a + j
    PROVE  s = Interval(a, b)
<1> DEFINE t == Interval(a, b)
<1>1. t \in Seq(Nat) /\ Len(t) = b - a /\ \A j \in 1..(b - a) : t[j] = a + j
  BY IntervalSeq
<1> HIDE DEF t
<1>2. \A j \in 1..Len(s) : s[j] = t[j]
  BY <1>1
<1>3. s = t
  BY <1>1, <1>2, SeqEqual
<1> QED BY <1>3 DEF t

\* The lines of an interval.
LEMMA IntervalElements ==
    ASSUME NEW m \in Nat, NEW n \in Nat, m <= n
    PROVE  ToSet(Interval(m, n)) = (m + 1)..n
<1> DEFINE s == Interval(m, n)
<1>1. s \in Seq(Nat) /\ Len(s) = n - m /\ \A j \in 1..(n - m) : s[j] = m + j
  BY IntervalSeq
<1> HIDE DEF s
<1>2. DOMAIN s = 1..(n - m)
  BY <1>1
<1>3. ASSUME NEW x \in (m + 1)..n PROVE x \in ToSet(s)
  <2>1. x - m \in 1..(n - m) /\ m + (x - m) = x
    OBVIOUS
  <2>2. s[x - m] = x
    BY <1>1, <2>1
  <2> QED BY <1>2, <2>1, <2>2 DEF ToSet
<1>4. ASSUME NEW x \in ToSet(s) PROVE x \in (m + 1)..n
  <2>1. PICK j \in 1..(n - m) : x = s[j]
    BY <1>2 DEF ToSet
  <2>2. x = m + j
    BY <1>1, <2>1
  <2> QED BY <2>2
<1>5. ToSet(s) = (m + 1)..n
  BY <1>3, <1>4
<1> QED BY <1>5 DEF s

\* No line.
LEMMA IntervalEmpty ==
    ASSUME NEW a \in Nat
    PROVE  Interval(a, a) = << >>
<1>1. a <= a /\ a - a = 0
  OBVIOUS
<1>2. Interval(a, a) \in Seq(Nat) /\ Len(Interval(a, a)) = 0
  BY <1>1, IntervalSeq
<1> HIDE DEF Interval
<1> QED BY <1>2, EmptySeq

\* One line more.
LEMMA IntervalAppend ==
    ASSUME NEW a \in Nat, NEW b \in Nat, a <= b
    PROVE  Append(Interval(a, b), b + 1) = Interval(a, b + 1)
<1> DEFINE t == Interval(a, b)
           s == Append(t, b + 1)
<1>1. t \in Seq(Nat) /\ Len(t) = b - a /\ \A j \in 1..(b - a) : t[j] = a + j
  BY IntervalSeq
<1> HIDE DEF t
<1>2. /\ s \in Seq(Nat) /\ Len(s) = b + 1 - a /\ s[b - a + 1] = b + 1
      /\ \A j \in 1..(b - a) : s[j] = t[j]
  BY <1>1
<1> HIDE DEF s
<1>3. ASSUME NEW j \in 1..(b + 1 - a) PROVE s[j] = a + j
  <2>1. CASE j = b - a + 1
    BY <1>2, <2>1
  <2>2. CASE j # b - a + 1
    <3>1. j \in 1..(b - a)
      BY <2>2
    <3> QED BY <1>1, <1>2, <3>1
  <2> QED BY <2>1, <2>2
<1>4. b + 1 \in Nat /\ a <= b + 1
  OBVIOUS
<1>5. s = Interval(a, b + 1)
  BY <1>2, <1>3, <1>4, IsInterval
<1> QED BY <1>5 DEF s, t

\* Two sequences that make up an interval are intervals.
LEMMA IntervalSplit ==
    ASSUME NEW a \in Nat, NEW b \in Nat, a <= b, NEW s \in Seq(Nat), NEW t \in Seq(Nat),
           s \o t = Interval(a, b)
    PROVE  \E c \in Nat : a <= c /\ c <= b /\ s = Interval(a, c) /\ t = Interval(c, b)
<1> DEFINE u == s \o t
           c == a + Len(s)
<1>1. u \in Seq(Nat) /\ Len(u) = b - a /\ \A j \in 1..(b - a) : u[j] = a + j
  <2> DEFINE v == Interval(a, b)
  <2>1. v \in Seq(Nat) /\ Len(v) = b - a /\ \A j \in 1..(b - a) : v[j] = a + j
    BY IntervalSeq
  <2>2. u = v
    OBVIOUS
  <2> HIDE DEF u, v
  <2> QED BY <2>1, <2>2
<1>2. /\ Len(u) = Len(s) + Len(t) /\ Len(s) \in Nat /\ Len(t) \in Nat
      /\ \A j \in 1..(Len(s) + Len(t)) : u[j] = IF j <= Len(s) THEN s[j] ELSE t[j - Len(s)]
  <2>1. Len(s \o t) = Len(s) + Len(t) /\ Len(s) \in Nat /\ Len(t) \in Nat
    BY ONLY s \in Seq(Nat), t \in Seq(Nat), ConcatProperties
  <2>2. \A j \in 1..(Len(s) + Len(t)) :
           (s \o t)[j] = IF j <= Len(s) THEN s[j] ELSE t[j - Len(s)]
    BY ONLY s \in Seq(Nat), t \in Seq(Nat), ConcatProperties
  <2> QED BY ONLY <2>1, <2>2 DEF u
<1> HIDE DEF u
<1>3. c \in Nat /\ a <= c /\ c <= b /\ Len(s) = c - a /\ Len(t) = b - c
  <2> DEFINE n == Len(s)
             k == Len(t)
  <2>1. n \in Nat /\ k \in Nat /\ n + k = b - a
    BY <1>1, <1>2
  <2> HIDE DEF n, k
  <2>2. a + n \in Nat /\ a <= a + n /\ a + n <= b /\ n = a + n - a /\ k = b - (a + n)
    BY <2>1
  <2> QED BY <2>2 DEF n, k
<1>4. ASSUME NEW j \in 1..(c - a) PROVE s[j] = a + j
  <2>1. j \in 1..(b - a) /\ j \in 1..(Len(s) + Len(t)) /\ j <= Len(s)
    BY <1>2, <1>3
  <2> QED BY <1>1, <1>2, <2>1
<1>5. ASSUME NEW j \in 1..(b - c) PROVE t[j] = c + j
  <2> DEFINE k == Len(s) + j
  <2>1. k \in 1..(b - a) /\ k \in 1..(Len(s) + Len(t)) /\ ~(k <= Len(s)) /\ k - Len(s) = j
        /\ a + k = c + j
    BY <1>2, <1>3
  <2> HIDE DEF k, c
  <2>2. u[k] = t[k - Len(s)] /\ u[k] = a + k
    BY <1>1, <1>2, <2>1
  <2> QED BY <2>1, <2>2
<1>6. s = Interval(a, c) /\ t = Interval(c, b)
  <2> HIDE DEF c
  <2> QED BY <1>3, <1>4, <1>5, IsInterval
<1> QED BY <1>3, <1>6

-----------------------------------------------------------------------------
(* Files *)

\* The lines 1, ..., m are done with: the ones of d were dropped, the others
\* are in f, in their order.
Handled(f, d, m) ==
    /\ f \in Seq(0..m) /\ d \subseteq 1..m
    /\ InOrder(f)
    /\ ToSet(f) \ {Notice} = (1..m) \ d

\* The elements of two sequences, one after the other.
LEMMA ToSetConcat ==
    ASSUME NEW S, NEW s \in Seq(S), NEW t \in Seq(S)
    PROVE  ToSet(s \o t) = ToSet(s) \cup ToSet(t)
<1> DEFINE u == s \o t
<1>1. /\ u \in Seq(S) /\ Len(u) = Len(s) + Len(t) /\ Len(s) \in Nat /\ Len(t) \in Nat
      /\ DOMAIN u = 1..Len(u) /\ DOMAIN s = 1..Len(s) /\ DOMAIN t = 1..Len(t)
  BY ConcatProperties
<1>2. \A j \in 1..(Len(s) + Len(t)) : u[j] = IF j <= Len(s) THEN s[j] ELSE t[j - Len(s)]
  BY ConcatProperties
<1> HIDE DEF u
<1>3. ASSUME NEW x \in ToSet(u) PROVE x \in ToSet(s) \cup ToSet(t)
  <2>1. PICK j \in 1..Len(u) : x = u[j]
    BY <1>1 DEF ToSet
  <2>2. CASE j <= Len(s)
    <3>1. x = s[j] /\ j \in 1..Len(s)
      BY <1>1, <1>2, <2>1, <2>2
    <3> QED BY <1>1, <3>1 DEF ToSet
  <2>3. CASE ~(j <= Len(s))
    <3>1. x = t[j - Len(s)] /\ j - Len(s) \in 1..Len(t)
      BY <1>1, <1>2, <2>1, <2>3
    <3> QED BY <1>1, <3>1 DEF ToSet
  <2> QED BY <2>2, <2>3
<1>4. ASSUME NEW x \in ToSet(s) PROVE x \in ToSet(u)
  <2>1. PICK j \in 1..Len(s) : x = s[j]
    BY <1>1 DEF ToSet
  <2>2. j \in 1..Len(u) /\ u[j] = s[j]
    BY <1>1, <1>2
  <2> QED BY <1>1, <2>1, <2>2 DEF ToSet
<1>5. ASSUME NEW x \in ToSet(t) PROVE x \in ToSet(u)
  <2>1. PICK j \in 1..Len(t) : x = t[j]
    BY <1>1 DEF ToSet
  <2> DEFINE k == Len(s) + j
  <2>2. k \in 1..Len(u) /\ k \in 1..(Len(s) + Len(t)) /\ ~(k <= Len(s)) /\ k - Len(s) = j
    BY <1>1
  <2> HIDE DEF k
  <2>3. u[k] = t[j]
    BY <1>2, <2>2
  <2> QED BY <1>1, <2>1, <2>2, <2>3 DEF ToSet
<1>6. ToSet(u) = ToSet(s) \cup ToSet(t)
  BY <1>3, <1>4, <1>5
<1> QED BY <1>6 DEF u

\* Two sequences in order, the second of later lines than the first.
LEMMA InOrderConcat ==
    ASSUME NEW s \in Seq(Nat), NEW t \in Seq(Nat), InOrder(s), InOrder(t),
           \A x \in ToSet(s) \ {Notice}, y \in ToSet(t) \ {Notice} : x < y
    PROVE  InOrder(s \o t)
<1> DEFINE u == s \o t
<1>1. /\ u \in Seq(Nat) /\ Len(u) = Len(s) + Len(t) /\ Len(s) \in Nat /\ Len(t) \in Nat
      /\ DOMAIN u = 1..Len(u) /\ DOMAIN s = 1..Len(s) /\ DOMAIN t = 1..Len(t)
  BY ConcatProperties
<1>2. \A j \in 1..(Len(s) + Len(t)) : u[j] = IF j <= Len(s) THEN s[j] ELSE t[j - Len(s)]
  BY ConcatProperties
<1> HIDE DEF u
<1>3. ASSUME NEW i \in 1..Len(u), NEW j \in 1..Len(u), i < j, u[i] # Notice, u[j] # Notice
      PROVE  u[i] < u[j]
  <2>1. CASE j <= Len(s)
    <3>1. i \in 1..Len(s) /\ j \in 1..Len(s) /\ u[i] = s[i] /\ u[j] = s[j]
      BY <1>1, <1>2, <1>3, <2>1
    <3> QED BY <1>1, <1>3, <3>1 DEF InOrder
  <2>2. CASE ~(j <= Len(s)) /\ i <= Len(s)
    <3> DEFINE k == j - Len(s)
    <3>1. k \in 1..Len(t) /\ i \in 1..Len(s) /\ u[i] = s[i] /\ u[j] = t[k]
      BY <1>1, <1>2, <1>3, <2>2
    <3> HIDE DEF k
    <3>2. s[i] \in ToSet(s) /\ t[k] \in ToSet(t)
      BY <1>1, <3>1 DEF ToSet
    <3> QED BY <1>3, <3>1, <3>2
  <2>3. CASE ~(i <= Len(s))
    <3> DEFINE k == j - Len(s)
               h == i - Len(s)
    <3>1. k \in 1..Len(t) /\ h \in 1..Len(t) /\ h < k
      BY <1>1, <1>3, <2>3
    <3>2. u[i] = t[h] /\ u[j] = t[k]
      BY <1>1, <1>2, <1>3, <2>3
    <3> HIDE DEF k, h
    <3> QED BY <1>1, <1>3, <3>1, <3>2 DEF InOrder
  <2> QED BY <1>1, <2>1, <2>2, <2>3
<1>4. InOrder(u)
  BY <1>1, <1>3 DEF InOrder
<1> QED BY <1>4 DEF u

\* A part of a sequence that is in order.
LEMMA InOrderPrefix ==
    ASSUME NEW s \in Seq(Nat), NEW t \in Seq(Nat), InOrder(s \o t)
    PROVE  /\ InOrder(s) /\ InOrder(t)
           /\ \A x \in ToSet(s) \ {Notice}, y \in ToSet(t) \ {Notice} : x < y
<1> DEFINE u == s \o t
<1>1. /\ u \in Seq(Nat) /\ Len(u) = Len(s) + Len(t) /\ Len(s) \in Nat /\ Len(t) \in Nat
      /\ DOMAIN u = 1..Len(u) /\ DOMAIN s = 1..Len(s) /\ DOMAIN t = 1..Len(t)
  BY ConcatProperties
<1>2. \A j \in 1..(Len(s) + Len(t)) : u[j] = IF j <= Len(s) THEN s[j] ELSE t[j - Len(s)]
  BY ConcatProperties
<1>3. InOrder(u)
  OBVIOUS
<1> HIDE DEF u
<1>4. ASSUME NEW i \in 1..Len(s) PROVE i \in 1..Len(u) /\ u[i] = s[i]
  BY <1>1, <1>2
<1>5. ASSUME NEW i \in 1..Len(t) PROVE i + Len(s) \in 1..Len(u) /\ u[i + Len(s)] = t[i]
  <2> DEFINE k == i + Len(s)
  <2>1. k \in 1..Len(u) /\ k \in 1..(Len(s) + Len(t)) /\ ~(k <= Len(s)) /\ k - Len(s) = i
    BY <1>1
  <2> HIDE DEF k
  <2>2. u[k] = t[i]
    BY <1>2, <2>1
  <2> QED BY <2>1, <2>2 DEF k
<1>6. InOrder(s)
  BY <1>1, <1>3, <1>4 DEF InOrder
<1>7. InOrder(t)
  <2> SUFFICES ASSUME NEW i \in 1..Len(t), NEW j \in 1..Len(t), i < j,
                      t[i] # Notice, t[j] # Notice
               PROVE  t[i] < t[j]
    BY <1>1 DEF InOrder
  <2> DEFINE h == i + Len(s)
             k == j + Len(s)
  <2>1. h \in 1..Len(u) /\ k \in 1..Len(u) /\ u[h] = t[i] /\ u[k] = t[j] /\ h < k
    BY <1>1, <1>5
  <2> HIDE DEF h, k
  <2> QED BY <1>1, <1>3, <2>1 DEF InOrder
<1>8. ASSUME NEW x \in ToSet(s) \ {Notice}, NEW y \in ToSet(t) \ {Notice} PROVE x < y
  <2>1. PICK i \in 1..Len(s) : x = s[i]
    BY <1>1 DEF ToSet
  <2>2. PICK j \in 1..Len(t) : y = t[j]
    BY <1>1 DEF ToSet
  <2> DEFINE k == j + Len(s)
  <2>3. k \in 1..Len(u) /\ u[k] = y /\ i < k /\ i \in 1..Len(u) /\ u[i] = x
    BY <1>1, <1>4, <1>5, <2>1, <2>2
  <2> HIDE DEF k
  <2> QED BY <1>1, <1>3, <2>3 DEF InOrder
<1> QED BY <1>6, <1>7, <1>8

\* More lines are written.
LEMMA HandledWrite ==
    ASSUME NEW f, NEW d, NEW m \in Nat, NEW n \in Nat, m <= n, Handled(f, d, m)
    PROVE  Handled(f \o Interval(m, n), d, n)
<1> DEFINE s == Interval(m, n)
<1>1. s \in Seq(Nat) /\ Len(s) = n - m /\ \A j \in 1..(n - m) : s[j] = m + j
  BY IntervalSeq
<1>2. f \in Seq(0..m) /\ d \subseteq 1..m /\ InOrder(f) /\ ToSet(f) \ {Notice} = (1..m) \ d
  BY DEF Handled
<1> HIDE DEF s
<1>3. DOMAIN s = 1..(n - m)
  BY <1>1
<1>4. s \in Seq(0..n) /\ f \in Seq(0..n) /\ f \in Seq(Nat)
  <2>1. s \in [1..(n - m) -> 0..n] /\ n - m \in Nat
    <3>1. \A j \in 1..(n - m) : s[j] \in 0..n
      BY <1>1
    <3>2. s = [j \in 1..(n - m) |-> s[j]]
      BY <1>1, <1>3
    <3> QED BY <3>1, <3>2
  <2>2. s \in Seq(0..n)
    BY <2>1, IsASeq
  <2>3. 0..m \subseteq 0..n /\ 0..m \subseteq Nat
    OBVIOUS
  <2> QED BY <1>2, <2>2, <2>3, SeqMonotonic
<1>5. ToSet(s) = (m + 1)..n
  BY IntervalElements DEF s
<1>6. InOrder(s)
  BY <1>1, <1>3 DEF InOrder
<1>7. InOrder(f \o s)
  <2>1. \A x \in ToSet(f) \ {Notice}, y \in ToSet(s) \ {Notice} : x < y
    BY <1>2, <1>5
  <2> QED BY <1>1, <1>2, <1>4, <1>6, <2>1, InOrderConcat
<1>8. ToSet(f \o s) = ToSet(f) \cup ToSet(s)
  BY <1>4, ToSetConcat
<1>9. ToSet(f \o s) \ {Notice} = (1..n) \ d
  <2>1. ToSet(f \o s) \ {Notice} = (ToSet(f) \ {Notice}) \cup (ToSet(s) \ {Notice})
    BY <1>8
  <2>2. ToSet(s) \ {Notice} = (m + 1)..n
    BY <1>5 DEF Notice
  <2>3. (1..n) \ d = ((1..m) \ d) \cup ((m + 1)..n)
    BY <1>2
  <2> QED BY <1>2, <2>1, <2>2, <2>3
<1>10. f \o s \in Seq(0..n)
  BY <1>4, ConcatProperties
<1>11. d \subseteq 1..n
  BY <1>2
<1>12. Handled(f \o s, d, n)
  BY <1>7, <1>9, <1>10, <1>11 DEF Handled
<1> QED BY <1>12 DEF s

\* A notice is written.
LEMMA HandledNotice ==
    ASSUME NEW f, NEW d, NEW m \in Nat, Handled(f, d, m)
    PROVE  Handled(f \o <<Notice>>, d, m)
<1> DEFINE s == <<Notice>>
<1>1. s \in Seq(Nat) /\ s \in Seq(0..m) /\ ToSet(s) = {Notice} /\ DOMAIN s = {1}
  <2>1. DOMAIN s = 1..1 /\ s[1] = Notice /\ 1..1 = {1}
    OBVIOUS
  <2>2. Notice \in 0..m /\ Notice \in Nat
    BY DEF Notice
  <2>3. s \in Seq(Nat) /\ s \in Seq(0..m)
    BY <2>2
  <2> QED BY <2>1, <2>3 DEF ToSet
<1>2. f \in Seq(0..m) /\ d \subseteq 1..m /\ InOrder(f) /\ ToSet(f) \ {Notice} = (1..m) \ d
  BY DEF Handled
<1>3. InOrder(s)
  BY <1>1 DEF InOrder
<1> HIDE DEF s
<1>4. f \in Seq(Nat)
  <2>1. 0..m \subseteq Nat
    OBVIOUS
  <2> QED BY <1>2, <2>1, SeqMonotonic
<1>5. InOrder(f \o s)
  BY <1>1, <1>2, <1>3, <1>4, InOrderConcat
<1>6. ToSet(f \o s) = ToSet(f) \cup ToSet(s) /\ f \o s \in Seq(0..m)
  BY <1>1, <1>2, ToSetConcat, ConcatProperties
<1>7. ToSet(f \o s) \ {Notice} = (1..m) \ d
  BY <1>1, <1>2, <1>6
<1>8. Handled(f \o s, d, m)
  BY <1>2, <1>5, <1>6, <1>7 DEF Handled
<1> QED BY <1>8 DEF s

\* More lines are dropped.
LEMMA HandledDrop ==
    ASSUME NEW f, NEW d, NEW m \in Nat, NEW n \in Nat, m <= n, Handled(f, d, m)
    PROVE  Handled(f, d \cup ToSet(Interval(m, n)), n)
<1> DEFINE s == Interval(m, n)
<1>1. ToSet(s) = (m + 1)..n
  BY IntervalElements
<1>2. f \in Seq(0..m) /\ d \subseteq 1..m /\ InOrder(f) /\ ToSet(f) \ {Notice} = (1..m) \ d
  BY DEF Handled
<1> HIDE DEF s
<1>3. d \cup ToSet(s) \subseteq 1..n /\ (1..n) \ (d \cup ToSet(s)) = (1..m) \ d
  BY <1>1, <1>2
<1>4. f \in Seq(0..n)
  <2>1. 0..m \subseteq 0..n
    OBVIOUS
  <2> QED BY <1>2, <2>1, SeqMonotonic
<1>5. Handled(f, d \cup ToSet(s), n)
  BY <1>2, <1>3, <1>4 DEF Handled
<1> QED BY <1>5 DEF s

-----------------------------------------------------------------------------
(* The lines in memory and in the file *)

\* The buffers that the back end has taken and not written yet.
Taken == IF threadPc = "write" THEN toWrite ELSE << >>

\* The lines that are in memory, the oldest first.
InMemory == LinesOf(Taken \o buffers) \o currentBuffer.lines

\* What makes LinesInOrder inductive: the lines up to some m are done with, and
\* memory holds the ones that follow; the buffer in reserve is empty.
LineInv ==
    /\ ~nextBuffer.null => nextBuffer.used = 0 /\ nextBuffer.lines = << >>
    /\ \E m \in 0..logged : Handled(file, dropped, m) /\ InMemory = Interval(m, logged)

\* LinesOf, of buffers.
LEMMA LinesOfBuffers ==
    /\ LinesOf(<< >>) = << >>
    /\ \A b \in Buffers : b.lines \in Seq(Nat)
    /\ \A bs \in Seq(Buffers) :
         /\ LinesOf(bs) \in Seq(Nat)
         /\ \A b \in Buffers : LinesOf(Append(bs, b)) = LinesOf(bs) \o b.lines
         /\ \A cs \in Seq(Buffers) : LinesOf(bs \o cs) = LinesOf(bs) \o LinesOf(cs)
<1>1. \A b \in Buffers : b.lines \in Seq(Nat)
  BY DEF Buffers
<1>2. << >> \in Seq(Buffers)
  OBVIOUS
<1>3. ASSUME NEW bs \in Seq(Buffers)
      PROVE  /\ LinesOf(bs) \in Seq(Nat) /\ LinesOf(<< >>) = << >>
             /\ \A b \in Buffers : LinesOf(Append(bs, b)) = LinesOf(bs) \o b.lines
             /\ \A cs \in Seq(Buffers) : LinesOf(bs \o cs) = LinesOf(bs) \o LinesOf(cs)
  BY <1>1, LinesOfSeq, Zenon
<1> QED BY <1>1, <1>2, <1>3, Zenon

\* What the lines in memory are made of.
LEMMA InMemoryType ==
    ASSUME BufferTypes
    PROVE  /\ Taken \in Seq(Buffers) /\ buffers \in Seq(Buffers) /\ toWrite \in Seq(Buffers)
           /\ Taken \o buffers \in Seq(Buffers)
           /\ LinesOf(Taken \o buffers) \in Seq(Nat)
           /\ currentBuffer \in Buffers /\ currentBuffer.lines \in Seq(Nat)
           /\ logged \in Nat
<1>1. /\ buffers \in Seq(Buffers) /\ toWrite \in Seq(Buffers) /\ currentBuffer \in Buffers
      /\ logged \in Nat
  BY DEF BufferTypes
<1>2. Taken \in Seq(Buffers)
  BY <1>1 DEF Taken
<1>3. Taken \o buffers \in Seq(Buffers)
  BY <1>1, <1>2, ConcatProperties
<1> QED BY <1>1, <1>2, <1>3, LinesOfBuffers

\* A line that is put into a buffer with room for it is its last line.
LEMMA PutLine ==
    ASSUME NEW b \in Buffers, NEW n \in Nat, NEW len \in Lengths, Capacity - b.used > len
    PROVE  Put(b, n, len).lines = Append(b.lines, n)
BY DEF Put, Buffers

\* A line more in memory.
LEMMA OneMoreLine ==
    ASSUME NEW x \in Seq(Nat), NEW y \in Seq(Nat), NEW m \in Nat, NEW n \in Nat, m <= n,
           x \o y = Interval(m, n)
    PROVE  x \o Append(y, n + 1) = Interval(m, n + 1)
<1>1. x \o Append(y, n + 1) = Append(x \o y, n + 1)
  OBVIOUS
<1> QED BY <1>1, IntervalAppend

\* No lines at first.
LEMMA InitLineInv == Init => LineInv
<1> SUFFICES ASSUME Init PROVE LineInv
  OBVIOUS
<1>1. nextBuffer.used = 0 /\ nextBuffer.lines = << >> /\ currentBuffer.lines = << >>
  BY DEF Init, NewBuffer
<1>2. InMemory = << >>
  <2>1. Taken = << >> /\ buffers = << >>
    BY DEF Init, Taken
  <2>2. << >> \o << >> = << >>
    OBVIOUS
  <2> QED BY <1>1, <2>1, <2>2, LinesOfBuffers DEF InMemory
<1>3. Handled(<< >>, {}, 0)
  <2>1. << >> \in Seq(0..0) /\ 1..0 = {} /\ DOMAIN << >> = {}
    OBVIOUS
  <2>2. InOrder(<< >>) /\ ToSet(<< >>) = {}
    BY <2>1 DEF InOrder, ToSet
  <2> QED BY <2>1, <2>2 DEF Handled
<1>4. 0 \in 0..0 /\ Interval(0, 0) = << >>
  BY IntervalEmpty
<1> QED BY <1>1, <1>2, <1>3, <1>4 DEF LineInv, Init

\* A step that moves no line keeps the invariant.
LEMMA LinesStay ==
    ASSUME LineInv, BufferTypes, InMemory' = InMemory,
           UNCHANGED <<logged, file, dropped, nextBuffer>>
    PROVE  LineInv'
BY DEF LineInv

\* append, when the line fits.
LEMMA LineFits ==
    ASSUME LineInv, BufferTypes, NEW len \in Lengths, AppendFits(len)
    PROVE  LineInv'
<1>1. PICK m \in 0..logged : Handled(file, dropped, m) /\ InMemory = Interval(m, logged)
  BY DEF LineInv
<1> DEFINE x == LinesOf(Taken \o buffers)
           y == currentBuffer.lines
<1>2. x \in Seq(Nat) /\ y \in Seq(Nat) /\ logged \in Nat /\ currentBuffer \in Buffers
  BY InMemoryType
<1>3. currentBuffer'.lines = Append(y, logged + 1)
  <2>1. /\ currentBuffer' = Put(currentBuffer, logged + 1, len)
        /\ Capacity - currentBuffer.used > len /\ logged + 1 \in Nat
    BY <1>2 DEF AppendFits
  <2> QED BY <1>2, <2>1, PutLine
<1>4. InMemory' = x \o Append(y, logged + 1)
  <2>1. Taken' = Taken /\ buffers' = buffers
    BY DEF AppendFits, back, Taken
  <2> QED BY <1>3, <2>1 DEF InMemory
<1>5. x \o y = Interval(m, logged)
  BY <1>1 DEF InMemory
<1> HIDE DEF x, y
<1>6. InMemory' = Interval(m, logged + 1)
  <2>1. m \in Nat /\ m <= logged
    BY <1>2
  <2> QED BY <1>2, <1>4, <1>5, <2>1, OneMoreLine
<1>7. UNCHANGED <<file, dropped, nextBuffer>> /\ logged' = logged + 1
  BY DEF AppendFits, back
<1>8. m \in 0..(logged + 1)
  BY <1>2
<1> QED BY <1>1, <1>6, <1>7, <1>8 DEF LineInv

\* append, when the line goes into the next buffer.
LEMMA LineFull ==
    ASSUME LineInv, BufferTypes, NEW len \in Lengths, AppendFull(len)
    PROVE  LineInv'
<1>1. PICK m \in 0..logged : Handled(file, dropped, m) /\ InMemory = Interval(m, logged)
  BY DEF LineInv
<1> DEFINE w == Taken \o buffers
           x == LinesOf(w)
           y == currentBuffer.lines
           b == IF nextBuffer.null THEN NewBuffer(Extra) ELSE nextBuffer
<1>2. /\ x \in Seq(Nat) /\ y \in Seq(Nat) /\ logged \in Nat /\ currentBuffer \in Buffers
      /\ w \in Seq(Buffers) /\ Taken \in Seq(Buffers) /\ buffers \in Seq(Buffers)
  BY InMemoryType
<1>3. b \in Buffers /\ b.used = 0 /\ b.lines = << >>
  <2>1. CASE nextBuffer.null
    BY <2>1, NewBufferType DEF NewBuffer
  <2>2. CASE ~nextBuffer.null
    BY <2>2 DEF LineInv, BufferTypes, Null
  <2> QED BY <2>1, <2>2
<1>4. currentBuffer'.lines = Append(<< >>, logged + 1)
  <2>1. currentBuffer' = Put(b, logged + 1, len) /\ logged + 1 \in Nat
    BY <1>2 DEF AppendFull
  <2> HIDE DEF b
  <2>2. Capacity - b.used > len
    BY <1>3, LoggingAssumption
  <2>3. Put(b, logged + 1, len).lines = Append(b.lines, logged + 1)
    BY <1>3, <2>1, <2>2, PutLine
  <2> QED BY <1>3, <2>1, <2>3
<1>5. Taken' = Taken /\ buffers' = Append(buffers, currentBuffer)
  BY DEF AppendFull, back, Taken, Notified
<1>6. LinesOf(Taken \o Append(buffers, currentBuffer)) = x \o y
  <2>1. Taken \o Append(buffers, currentBuffer) = Append(w, currentBuffer)
    BY <1>2
  <2> HIDE DEF w
  <2> QED BY <1>2, <2>1, LinesOfBuffers
<1>7. InMemory' = (x \o y) \o Append(<< >>, logged + 1)
  BY <1>4, <1>5, <1>6 DEF InMemory
<1>8. x \o y = Interval(m, logged)
  BY <1>1 DEF InMemory
<1> HIDE DEF x, y
<1>9. InMemory' = Interval(m, logged + 1)
  <2> DEFINE z == x \o y
  <2>1. m \in Nat /\ m <= logged /\ z \in Seq(Nat) /\ << >> \in Seq(Nat)
    BY <1>2
  <2>2. z \o << >> = Interval(m, logged)
    BY <1>8, <2>1, ConcatEmptySeq
  <2> HIDE DEF z
  <2>3. z \o Append(<< >>, logged + 1) = Interval(m, logged + 1)
    BY <1>2, <2>1, <2>2, OneMoreLine
  <2> QED BY <1>7, <2>3 DEF z
<1>10. UNCHANGED <<file, dropped>> /\ logged' = logged + 1 /\ nextBuffer'.null
  BY DEF AppendFull, back, Null
<1>11. m \in 0..(logged + 1)
  BY <1>2
<1> QED BY <1>1, <1>9, <1>10, <1>11 DEF LineInv

\* The critical section moves the lines from the front to the back.
LEMMA LineSwap ==
    ASSUME LineInv, IInv, threadPc \in {"lock", "swap"}, Swap
    PROVE  LineInv'
<1>1. BufferTypes /\ Ready(newBuffer1) /\ Ready(newBuffer2)
  BY DEF IInv, BufferInv, BackInv
<1>2. /\ buffers \in Seq(Buffers) /\ currentBuffer \in Buffers
      /\ currentBuffer.lines \in Seq(Nat) /\ LinesOf(buffers) \in Seq(Nat)
  BY <1>1, InMemoryType, LinesOfBuffers
<1>3. InMemory = LinesOf(buffers) \o currentBuffer.lines
  <2>1. Taken = << >> /\ << >> \o buffers = buffers
    BY <1>2, ConcatEmptySeq DEF Taken
  <2> QED BY <2>1 DEF InMemory
<1>4. InMemory' = LinesOf(buffers) \o currentBuffer.lines
  <2> DEFINE z == Append(buffers, currentBuffer)
             l == LinesOf(z)
  <2>1. z \in Seq(Buffers) /\ z \o << >> = z
    BY <1>2
  <2>2. Taken' = z /\ buffers' = << >> /\ currentBuffer'.lines = << >>
    BY <1>1 DEF Swap, Taken, Ready
  <2>3. l = LinesOf(buffers) \o currentBuffer.lines
    BY <1>2, LinesOfBuffers
  <2> HIDE DEF z
  <2>4. l \in Seq(Nat)
    BY <2>1, LinesOfBuffers
  <2>5. InMemory' = l \o << >>
    BY <2>1, <2>2 DEF InMemory
  <2> HIDE DEF l
  <2>6. l \o << >> = l
    BY <2>4, ConcatEmptySeq
  <2> QED BY <2>3, <2>5, <2>6
<1>5. ~nextBuffer'.null => nextBuffer'.used = 0 /\ nextBuffer'.lines = << >>
  <2>1. CASE nextBuffer.null
    BY <1>1, <2>1 DEF Swap, Ready
  <2>2. CASE ~nextBuffer.null
    BY <2>2 DEF Swap, LineInv
  <2> QED BY <2>1, <2>2
<1>6. UNCHANGED <<file, dropped, logged>>
  BY DEF Swap
<1> QED BY <1>3, <1>4, <1>5, <1>6 DEF LineInv

\* What the back end writes in a round, and what it drops.
Kept == IF Overflow THEN FirstTwo(toWrite) ELSE toWrite
Lost == IF Overflow THEN SubSeq(toWrite, 3, Len(toWrite)) ELSE << >>
Announced == IF Overflow THEN <<Notice>> ELSE << >>

\* After the round the lines that were taken are done with.
LEMMA RoundHandled ==
    ASSUME LineInv, IInv, threadPc = "write"
    PROVE  \E c \in 0..logged :
             /\ Handled(file \o Announced \o LinesOf(Kept), dropped \cup ToSet(LinesOf(Lost)), c)
             /\ LinesOf(buffers) \o currentBuffer.lines = Interval(c, logged)
<1>1. PICK m \in 0..logged : Handled(file, dropped, m) /\ InMemory = Interval(m, logged)
  BY DEF LineInv
<1> DEFINE x == LinesOf(toWrite)
           y == LinesOf(buffers)
           z == currentBuffer.lines
<1>2. /\ x \in Seq(Nat) /\ y \in Seq(Nat) /\ z \in Seq(Nat) /\ logged \in Nat
      /\ toWrite \in Seq(Buffers) /\ buffers \in Seq(Buffers)
  BY InMemoryType, LinesOfBuffers DEF IInv
<1>3. m \in Nat /\ m <= logged
  BY <1>2
<1>4. x \o (y \o z) = Interval(m, logged)
  <2>1. LinesOf(Taken \o buffers) = x \o y
    BY <1>2, LinesOfBuffers DEF Taken
  <2>2. (x \o y) \o z = Interval(m, logged)
    BY <1>1, <2>1 DEF InMemory
  <2> HIDE DEF x, y, z
  <2>3. (x \o y) \o z = x \o (y \o z)
    BY ONLY <1>2, Associative, SMTT(30)
  <2> QED BY <2>2, <2>3
<1>5. PICK c \in Nat : m <= c /\ c <= logged /\ x = Interval(m, c) /\ y \o z = Interval(c, logged)
  <2> HIDE DEF x, y, z
  <2>1. y \o z \in Seq(Nat)
    BY <1>2, ConcatProperties
  <2> DEFINE r == y \o z
  <2>2. r \in Seq(Nat) /\ x \o r = Interval(m, logged)
    BY <1>4, <2>1
  <2> HIDE DEF r
  <2>3. \E c \in Nat : m <= c /\ c <= logged /\ x = Interval(m, c) /\ r = Interval(c, logged)
    <3> DEFINE n == logged
    <3>1. /\ m \in Nat /\ n \in Nat /\ m <= n /\ x \in Seq(Nat) /\ r \in Seq(Nat)
          /\ x \o r = Interval(m, n)
      BY <1>2, <1>3, <2>2
    <3> HIDE DEF n
    <3>2. \E c \in Nat : m <= c /\ c <= n /\ x = Interval(m, c) /\ r = Interval(c, n)
      BY ONLY <3>1, IntervalSplit
    <3> QED BY <3>2 DEF n
  <2> QED BY <2>3 DEF r
<1>6. Handled(file \o Announced \o LinesOf(Kept), dropped \cup ToSet(LinesOf(Lost)), c)
  <2>0. file \in Seq(0..m)
    BY <1>1 DEF Handled
  <2>1. CASE ~Overflow
    <3>1. Announced = << >> /\ Kept = toWrite /\ Lost = << >>
      BY <2>1 DEF Announced, Kept, Lost
    <3>2. file \o << >> = file
      BY <2>0, ConcatEmptySeq
    <3>3. ToSet(LinesOf(<< >>)) = {}
      BY LinesOfBuffers DEF ToSet
    <3>4. Handled(file \o Interval(m, c), dropped, c)
      BY <1>1, <1>3, <1>5, HandledWrite
    <3> QED BY <1>5, <3>1, <3>2, <3>3, <3>4
  <2>2. CASE Overflow
    <3> DEFINE k == SubSeq(toWrite, 1, 2)
               l == SubSeq(toWrite, 3, Len(toWrite))
    <3>1. Len(toWrite) \in Nat /\ Len(toWrite) > 2
      BY <1>2, <2>2, LoggingAssumption DEF Overflow
    <3>2. Announced = <<Notice>> /\ Kept = k /\ Lost = l
      BY <2>2, <3>1 DEF Announced, Kept, Lost, FirstTwo
    <3>3. k \in Seq(Buffers) /\ l \in Seq(Buffers) /\ k \o l = toWrite
      <4>1. k \in Seq(Buffers) /\ l \in Seq(Buffers)
        BY <1>2, <3>1, SubSeqProperties
      <4>2. k \o l = SubSeq(toWrite, 1, Len(toWrite))
        BY <1>2, <3>1, ConcatAdjacentSubSeq
      <4>3. SubSeq(toWrite, 1, Len(toWrite)) = toWrite
        BY <1>2, SubSeqFull
      <4> QED BY <4>1, <4>2, <4>3
    <3> HIDE DEF k, l
    <3> DEFINE u == LinesOf(k)
               v == LinesOf(l)
    <3>4. u \in Seq(Nat) /\ v \in Seq(Nat) /\ u \o v = Interval(m, c)
      BY <1>5, <3>3, LinesOfBuffers
    <3> HIDE DEF u, v
    <3>5. PICK e \in Nat : m <= e /\ e <= c /\ u = Interval(m, e) /\ v = Interval(e, c)
      BY <1>3, <1>5, <3>4, IntervalSplit
    <3>6. Handled(file \o <<Notice>>, dropped, m)
      BY <1>1, <1>3, HandledNotice
    <3>7. Handled((file \o <<Notice>>) \o Interval(m, e), dropped, e)
      BY <1>3, <3>5, <3>6, HandledWrite
    <3>8. Handled((file \o <<Notice>>) \o Interval(m, e), dropped \cup ToSet(Interval(e, c)), c)
      BY <1>5, <3>5, <3>7, HandledDrop
    <3> QED BY <3>2, <3>5, <3>8 DEF u, v
  <2> QED BY <2>1, <2>2
<1>7. c \in 0..logged
  BY <1>2, <1>5
<1> QED BY <1>5, <1>6, <1>7

\* The back end writes the lines it has taken, or drops them.
LEMMA LineWrite ==
    ASSUME LineInv, IInv, WriteBuffers
    PROVE  LineInv'
<1> DEFINE y == LinesOf(buffers)
           z == currentBuffer.lines
<1>1. PICK c \in 0..logged :
         /\ Handled(file \o Announced \o LinesOf(Kept), dropped \cup ToSet(LinesOf(Lost)), c)
         /\ y \o z = Interval(c, logged)
  BY RoundHandled DEF WriteBuffers
<1>2. buffers \in Seq(Buffers)
  BY InMemoryType DEF IInv
<1>3. InMemory' = y \o z
  <2>1. Taken' = << >> /\ buffers' = buffers /\ currentBuffer' = currentBuffer
    BY DEF WriteBuffers, Taken, front
  <2>2. << >> \o buffers = buffers
    BY <1>2, ConcatEmptySeq
  <2> QED BY <2>1, <2>2 DEF InMemory
<1>4. /\ file' = file \o Announced \o LinesOf(Kept)
      /\ dropped' = dropped \cup ToSet(LinesOf(Lost))
  BY DEF WriteBuffers, Announced, Kept, Lost
<1>5. UNCHANGED <<logged, nextBuffer>>
  BY DEF WriteBuffers, front
<1> QED BY <1>1, <1>3, <1>4, <1>5 DEF LineInv

\* Every step keeps the lines in order.
LEMMA StepLineInv == IInv /\ LineInv /\ [Next]_vars => LineInv'
<1> SUFFICES ASSUME IInv, LineInv, [Next]_vars PROVE LineInv'
  OBVIOUS
<1>0. BufferTypes
  BY DEF IInv
<1>1. ASSUME NEW len \in Lengths, AppendFits(len) \/ AppendFull(len) PROVE LineInv'
  BY <1>0, <1>1, LineFits, LineFull
<1>2. CASE SwapAtOnce \/ SwapAfterWait
  BY <1>2, LineSwap DEF SwapAtOnce, SwapAfterWait
<1>3. CASE WriteBuffers
  BY <1>3, LineWrite
<1>4. CASE \/ Start \/ StopRunning \/ OwnerStep \/ BeginThread \/ TestRunning
           \/ WaitForSeconds \/ Timeout \/ Refill1 \/ Refill2 \/ UNCHANGED vars
  <2>1. UNCHANGED <<logged, file, dropped, nextBuffer, buffers, currentBuffer>>
    BY <1>4 DEF Start, StopRunning, OwnerStep, LatchReleased, StopNotify, Join, BeginThread,
       TestRunning, WaitForSeconds, Timeout, Refill1, Refill2, front, back, vars
  <2>2. Taken' = Taken
    BY <1>4 DEF Start, StopRunning, OwnerStep, LatchReleased, StopNotify, Join, BeginThread,
       TestRunning, WaitForSeconds, Timeout, Refill1, Refill2, front, back, vars, Taken,
       Notified, IInv, BufferInv, OwnerInv
  <2>3. InMemory' = InMemory
    BY <2>1, <2>2 DEF InMemory
  <2> QED BY <1>0, <2>1, <2>3, LinesStay
<1> QED
  BY <1>1, <1>2, <1>3, <1>4 DEF Next, ThreadStep, Terminated

\* In the file and in memory are all the lines but the ones dropped, each once
\* and in the order of append, whatever the sizes are and however appends, swaps
\* and writes interleave.
THEOREM LinesKeepOrder == Spec => []LinesInOrder
<1>1. IInv /\ LineInv => LinesInOrder
  <2> SUFFICES ASSUME IInv, LineInv PROVE LinesInOrder
    OBVIOUS
  <2>0. BufferTypes
    BY DEF IInv
  <2>1. PICK m \in 0..logged : Handled(file, dropped, m) /\ InMemory = Interval(m, logged)
    BY DEF LineInv
  <2>2. logged \in Nat /\ m \in Nat /\ m <= logged
    BY <2>0 DEF BufferTypes
  <2>3. Handled(file \o InMemory, dropped, logged)
    BY <2>1, <2>2, HandledWrite
  <2>4. LinesOf(Taken \o buffers \o <<currentBuffer>>) = InMemory
    <3> DEFINE w == Taken \o buffers
    <3>1. w \in Seq(Buffers) /\ currentBuffer \in Buffers
      BY <2>0, InMemoryType
    <3>2. LinesOf(Append(w, currentBuffer)) = InMemory
      BY <3>1, LinesOfBuffers DEF InMemory
    <3> HIDE DEF w
    <3>3. w \o <<currentBuffer>> = Append(w, currentBuffer)
      BY <3>1
    <3> QED BY <3>2, <3>3 DEF w
  <2>5. TypeOK
    <3>1. 0..m \subseteq 0..logged /\ 1..m \subseteq 1..logged
      BY <2>2
    <3>2. file \in Seq(0..m) /\ dropped \subseteq 1..m
      BY <2>1 DEF Handled
    <3>3. file \in Seq(0..logged)
      BY <3>1, <3>2, SeqMonotonic
    <3> QED BY <2>0, <3>1, <3>2, <3>3 DEF TypeOK
  <2> QED BY <2>3, <2>4, <2>5 DEF LinesInOrder, Handled, Taken
<1>2. Init => IInv /\ LineInv
  BY InitIInv, InitLineInv
<1>3. (IInv /\ LineInv) /\ [Next]_vars => (IInv /\ LineInv)'
  BY StepIInv, StepLineInv
<1> QED BY <1>1, <1>2, <1>3, PTL DEF Spec

-----------------------------------------------------------------------------
(* The lines that the LogFile has got *)

\* The lines of h but the ones lost are in d, in their order.
Complete(d, h, lost) ==
    /\ InOrder(d)
    /\ ToSet(d) \ {Notice} = ToSet(h) \ ({Notice} \cup lost)
    /\ lost \ {Notice} \subseteq ToSet(h)

\* More lines are handed over.
LEMMA CompleteTaken ==
    ASSUME NEW d \in Seq(Nat), NEW h \in Seq(Nat), NEW lost, NEW l \in Seq(Nat),
           Complete(d, h, lost), InOrder(h \o l)
    PROVE  Complete(d \o l, h \o l, lost)
<1>1. /\ InOrder(l)
      /\ \A x \in ToSet(h) \ {Notice}, y \in ToSet(l) \ {Notice} : x < y
  BY InOrderPrefix
<1>2. ToSet(d \o l) = ToSet(d) \cup ToSet(l) /\ ToSet(h \o l) = ToSet(h) \cup ToSet(l)
  BY ToSetConcat
<1>3. ToSet(l) \subseteq Nat /\ ToSet(h) \subseteq Nat
  BY DEF ToSet
<1>4. InOrder(d \o l)
  <2>1. \A x \in ToSet(d) \ {Notice}, y \in ToSet(l) \ {Notice} : x < y
    BY <1>1 DEF Complete
  <2> QED BY <1>1, <2>1, InOrderConcat DEF Complete
<1>5. ASSUME NEW x \in ToSet(l) \ {Notice} PROVE x \notin ToSet(h)
  <2>1. x \in ToSet(h) => x < x
    BY <1>1
  <2>2. x \in Nat /\ ~(x < x)
    BY <1>3
  <2> QED BY <2>1, <2>2
<1>6. ToSet(d \o l) \ {Notice} = ToSet(h \o l) \ ({Notice} \cup lost)
  BY <1>2, <1>5 DEF Complete
<1> QED BY <1>2, <1>4, <1>6 DEF Complete

\* The disk loses the lines y.
LEMMA CompleteDrops ==
    ASSUME NEW x \in Seq(Nat), NEW y \in Seq(Nat), NEW z \in Seq(Nat), NEW h \in Seq(Nat),
           NEW lost, Complete((x \o y) \o z, h, lost)
    PROVE  Complete(x \o z, h, lost \cup ToSet(y))
<1> DEFINE w == x \o y
<1>1. w \in Seq(Nat) /\ InOrder(w \o z)
  BY ConcatProperties DEF Complete
<1>2. /\ ToSet(w) = ToSet(x) \cup ToSet(y) /\ ToSet(w \o z) = ToSet(w) \cup ToSet(z)
      /\ ToSet(x \o z) = ToSet(x) \cup ToSet(z)
  <2>1. ToSet(x \o y) = ToSet(x) \cup ToSet(y) /\ ToSet(x \o z) = ToSet(x) \cup ToSet(z)
    BY ToSetConcat
  <2> HIDE DEF w
  <2>2. ToSet(w \o z) = ToSet(w) \cup ToSet(z)
    BY <1>1, ToSetConcat
  <2> QED BY <2>1, <2>2 DEF w
<1>3. ToSet(x) \subseteq Nat /\ ToSet(y) \subseteq Nat /\ ToSet(z) \subseteq Nat
  BY DEF ToSet
<1>4. ToSet(w \o z) \ {Notice} = ToSet(h) \ ({Notice} \cup lost) /\ lost \ {Notice} \subseteq ToSet(h)
  BY DEF Complete
<1>5. InOrder(x \o y)
  <2> HIDE DEF w
  <2>1. InOrder(w)
    BY <1>1, InOrderPrefix
  <2> QED BY <2>1 DEF w
<1> HIDE DEF w
<1>6. /\ InOrder(z)
      /\ \A i \in ToSet(w) \ {Notice}, j \in ToSet(z) \ {Notice} : i < j
  BY <1>1, InOrderPrefix
<1>7. /\ InOrder(x)
      /\ \A i \in ToSet(x) \ {Notice}, j \in ToSet(y) \ {Notice} : i < j
  BY <1>5, InOrderPrefix
<1>8. InOrder(x \o z)
  BY <1>2, <1>6, <1>7, InOrderConcat
<1>9. ASSUME NEW i \in ToSet(y) \ {Notice} PROVE i \notin ToSet(x) /\ i \notin ToSet(z)
  <2>1. i \in Nat /\ ~(i < i)
    BY <1>3
  <2>2. (i \in ToSet(x) => i < i) /\ (i \in ToSet(z) => i < i)
    BY <1>2, <1>6, <1>7
  <2> QED BY <2>1, <2>2
<1>10. ToSet(x \o z) \ {Notice} = ToSet(h) \ ({Notice} \cup (lost \cup ToSet(y)))
  BY <1>2, <1>4, <1>9
<1>11. (lost \cup ToSet(y)) \ {Notice} \subseteq ToSet(h)
  BY <1>2, <1>4
<1> QED BY <1>8, <1>10, <1>11 DEF Complete

\* The pieces of a sequence.
LEMMA PartSplit ==
    ASSUME NEW s \in Seq(Nat), NEW a \in 0..Len(s), NEW b \in a..Len(s), NEW c \in b..Len(s)
    PROVE  /\ Part(s, a, b) \in Seq(Nat)
           /\ Part(s, a, b) \o Part(s, b, c) = Part(s, a, c)
           /\ Part(s, 0, Len(s)) = s
           /\ a = b => Part(s, a, b) = << >>
<1>1. Len(s) \in Nat /\ a + 1 \in 1..(Len(s) + 1) /\ b \in ((a + 1) - 1)..Len(s) /\ 0 + 1 = 1
      /\ a + 1 \in Int /\ b \in Int /\ (a = b => b < a + 1)
  OBVIOUS
<1>2. \A i \in (a + 1)..b : s[i] \in Nat
  BY ElementOfSeq
<1>3. SubSeq(s, a + 1, b) \in Seq(Nat)
  BY <1>1, <1>2, SubSeqProperties
<1>4. SubSeq(s, a + 1, b) \o SubSeq(s, b + 1, c) = SubSeq(s, a + 1, c)
  BY <1>1, ConcatAdjacentSubSeq
<1>5. SubSeq(s, 1, Len(s)) = s
  BY SubSeqFull
<1>6. a = b => SubSeq(s, a + 1, b) = << >>
  BY <1>1, SubSeqEmpty
<1> QED BY <1>1, <1>3, <1>4, <1>5, <1>6 DEF Part

\* Associative, of lines.
Associates(s, t, u) == s \o (t \o u) = (s \o t) \o u

LEMMA LinesAssociative == \A s, t, u \in Seq(Nat) : Associates(s, t, u)
BY Associative, SMTT(30) DEF Associates

\* Two of four pieces are lost.
LEMMA CompletePieces ==
    ASSUME NEW d \in Seq(Nat), NEW p \in Seq(Nat), NEW q \in Seq(Nat), NEW r \in Seq(Nat),
           NEW t \in Seq(Nat), NEW h \in Seq(Nat), NEW lost,
           Complete(d \o (p \o (q \o (r \o t))), h, lost)
    PROVE  Complete((d \o p) \o r, h, (lost \cup ToSet(q)) \cup ToSet(t))
<1> DEFINE x == d \o p
           z == r \o t
           v == x \o r
           w == q \o z
           m == lost \cup ToSet(q)
<1>0. << >> \in Seq(Nat)
  OBVIOUS
<1>1. x \in Seq(Nat) /\ z \in Seq(Nat)
  BY ConcatProperties
<1>2. d \o (p \o w) = x \o w
  <2>1. w \in Seq(Nat)
    BY <1>1, ConcatProperties
  <2> HIDE DEF w
  <2>2. d \o (p \o w) = (d \o p) \o w
    <3>1. Associates(d, p, w)
      BY <2>1, LinesAssociative
    <3> QED BY <3>1, Zenon DEF Associates
  <2> QED BY <2>2
<1> HIDE DEF x, z
<1>3. x \o (q \o z) = (x \o q) \o z
  <2>1. Associates(x, q, z)
    BY <1>1, LinesAssociative
  <2> QED BY <2>1, Zenon DEF Associates
<1>4. Complete((x \o q) \o z, h, lost)
  BY <1>2, <1>3 DEF z
<1>5. Complete(x \o z, h, m)
  BY <1>1, <1>4, CompleteDrops
<1>6. x \o (r \o t) = v \o t /\ v \in Seq(Nat)
  <2>1. x \o (r \o t) = (x \o r) \o t
    <3>1. Associates(x, r, t)
      BY <1>1, LinesAssociative
    <3> QED BY <3>1, Zenon DEF Associates
  <2> QED BY <1>1, <2>1, ConcatProperties
<1> HIDE DEF v, m
<1>7. Complete((v \o t) \o << >>, h, m)
  <2> DEFINE u == v \o t
  <2>1. u \in Seq(Nat) /\ Complete(u, h, m)
    BY <1>5, <1>6, ConcatProperties DEF z
  <2> HIDE DEF u
  <2>2. u \o << >> = u
    BY <2>1, ConcatEmptySeq
  <2>3. Complete(u \o << >>, h, m)
    BY <2>1, <2>2
  <2> QED BY <2>3 DEF u
<1>8. Complete(v \o << >>, h, m \cup ToSet(t))
  BY <1>0, <1>6, <1>7, CompleteDrops
<1>9. v \o << >> = v
  BY <1>6, ConcatEmptySeq
<1>10. Complete(v, h, m \cup ToSet(t))
  BY <1>8, <1>9
<1> QED BY <1>10 DEF v, x, m

-----------------------------------------------------------------------------
(* The LogFile *)

Outputs == [names : Seq(Nat), onDisk : Seq(Nat), buffered : Seq(Nat), lost : SUBSET Nat,
            stuck : BOOLEAN, written : Nat, count : Nat, startOfPeriod : Int,
            lastRoll : Nat, lastFlush : Nat]

\* What is in all the files and in stdio.
Disk(o) == o.onDisk \o o.buffered

\* The files are made one after the other, the last at lastRoll.
NamesUp(o) ==
    /\ \A i, j \in DOMAIN o.names : i < j => o.names[i] < o.names[j]
    /\ \A i \in DOMAIN o.names : o.names[i] <= o.lastRoll

\* p is the LogFile o after an operation: it may have lost lines, and has noted them.
Keeps(o, p) ==
    /\ p \in Outputs /\ NamesUp(p)
    /\ \A h \in Seq(Nat) : Complete(Disk(o), h, o.lost) => Complete(Disk(p), h, p.lost)

\* Only the counters change.
LEMMA KeepsCounters ==
    ASSUME NEW o \in Outputs, NamesUp(o), NEW p \in Outputs, p.names = o.names,
           p.onDisk = o.onDisk, p.buffered = o.buffered, p.lost = o.lost,
           p.lastRoll = o.lastRoll
    PROVE  Keeps(o, p)
BY DEF Keeps, NamesUp, Disk

\* Two operations.
LEMMA KeepsBoth ==
    ASSUME NEW o, NEW p, NEW q, Keeps(o, p), Keeps(p, q)
    PROVE  Keeps(o, q)
BY DEF Keeps

\* stdio, wherever a full disk divides the lines.
LEMMA SettleKeeps ==
    ASSUME NEW o \in Outputs, NEW s \in Seq(Nat), NEW k \in Cuts(Len(s)),
           NEW p, p = Settle(o, s, k)
    PROVE  /\ p \in Outputs /\ p.names = o.names /\ p.lastRoll = o.lastRoll
           /\ p.stuck = o.stuck
           /\ k[2] = k[3] => p.buffered = << >>
           /\ \A h \in Seq(Nat) : Complete(o.onDisk \o s, h, o.lost)
                                    => Complete(Disk(p), h, p.lost)
<1> DEFINE n == Len(s)
           a == k[1]
           b == k[2]
           c == k[3]
<1>1. n \in Nat /\ 0 \in 0..n /\ a \in 0..n /\ b \in a..n /\ c \in b..n /\ n \in c..n
      /\ b \in 0..n /\ c \in 0..n /\ n \in a..n /\ n \in b..n
  BY DEF Cuts
<1> HIDE DEF n, a, b, c
<1> DEFINE w == Part(s, 0, a)
           q == Part(s, a, b)
           r == Part(s, b, c)
           t == Part(s, c, n)
<1>2. /\ w \in Seq(Nat) /\ q \in Seq(Nat) /\ r \in Seq(Nat) /\ t \in Seq(Nat)
  BY <1>1, PartSplit DEF n
<1>3. r \o t = Part(s, b, n) /\ q \o Part(s, b, n) = Part(s, a, n)
      /\ w \o Part(s, a, n) = Part(s, 0, n) /\ Part(s, 0, n) = s
  BY <1>1, PartSplit DEF n
<1>4. b = c => r = << >>
  BY <1>1, PartSplit DEF n
<1>5. w \o (q \o (r \o t)) = s
  BY <1>3
<1> DEFINE d == o.onDisk
           e == o.lost
           dw == d \o w
           m == (e \cup ToSet(q)) \cup ToSet(t)
           v == [o EXCEPT !.onDisk = dw, !.buffered = r, !.lost = m]
<1>6. p = v
  BY DEF Settle, n, a, b, c
<1> HIDE DEF w, q, r, t
<1>7. d \in Seq(Nat) /\ e \in SUBSET Nat
  BY DEF Outputs
<1> HIDE DEF d, e
<1>8. dw \in Seq(Nat) /\ m \in SUBSET Nat
  <2>1. ToSet(q) \subseteq Nat /\ ToSet(t) \subseteq Nat
    BY <1>2 DEF ToSet
  <2> QED BY <1>2, <1>7, <2>1, ConcatProperties
<1>9. ASSUME NEW h \in Seq(Nat), Complete(d \o s, h, e)
      PROVE  Complete(dw \o r, h, m)
  <2>1. Complete(d \o (w \o (q \o (r \o t))), h, e)
    BY <1>5, <1>9
  <2> QED BY <1>2, <1>7, <2>1, CompletePieces
<1> HIDE DEF dw, m
<1>10. /\ v \in Outputs /\ v.onDisk = dw /\ v.buffered = r /\ v.lost = m
       /\ v.names = o.names /\ v.lastRoll = o.lastRoll /\ v.stuck = o.stuck
  BY <1>2, <1>8 DEF Outputs
<1> HIDE DEF v
<1>11. ASSUME NEW h \in Seq(Nat), Complete(o.onDisk \o s, h, o.lost)
       PROVE  Complete(Disk(p), h, p.lost)
  BY <1>6, <1>9, <1>10, <1>11 DEF Disk, d, e
<1>12. k[2] = k[3] => p.buffered = << >>
  BY <1>4, <1>6, <1>10 DEF b, c
<1> QED BY <1>6, <1>10, <1>11, <1>12

\* fflush and fclose: what happens to the lines that stdio holds.
LEMMA SettleBuffered ==
    ASSUME NEW o \in Outputs, NamesUp(o), NEW x \in BOOLEAN, NEW k \in Cuts(Len(o.buffered)),
           NEW p, p = Settle([o EXCEPT !.stuck = x], o.buffered, k)
    PROVE  /\ Keeps(o, p) /\ p.stuck = x /\ (k[2] = k[3] => p.buffered = << >>)
           /\ p.names = o.names /\ p.lastRoll = o.lastRoll
<1> DEFINE o1 == [o EXCEPT !.stuck = x]
           s == o.buffered
<1>1. /\ o1 \in Outputs /\ o1.names = o.names /\ o1.lastRoll = o.lastRoll /\ o1.stuck = x
      /\ o1.onDisk = o.onDisk /\ o1.lost = o.lost /\ s \in Seq(Nat)
  BY DEF Outputs
<1>2. p = Settle(o1, s, k) /\ k \in Cuts(Len(s))
  OBVIOUS
<1>3. Disk(o) = o1.onDisk \o s
  BY <1>1 DEF Disk
<1> HIDE DEF o1, s
<1>4. /\ p \in Outputs /\ p.names = o1.names /\ p.lastRoll = o1.lastRoll
      /\ p.stuck = o1.stuck
      /\ k[2] = k[3] => p.buffered = << >>
      /\ \A h \in Seq(Nat) : Complete(o1.onDisk \o s, h, o1.lost)
                               => Complete(Disk(p), h, p.lost)
  BY <1>1, <1>2, SettleKeeps
<1>5. NamesUp(p)
  BY <1>1, <1>4 DEF NamesUp
<1>6. Keeps(o, p)
  BY <1>1, <1>3, <1>4, <1>5 DEF Keeps
<1> QED BY <1>1, <1>4, <1>6

\* All lines are on the disk.
LEMMA NoCut ==
    ASSUME NEW n \in Nat
    PROVE  /\ <<n, n, n>> \in Cuts(n)
           /\ <<n, n, n>>[2] = <<n, n, n>>[3]
           /\ \A k \in Cuts(n) : k[2] = n => k[2] = k[3]
<1>1. n \in 0..n
  OBVIOUS
<1>2. <<n, n, n>> \in (0..n) \X (0..n) \X (0..n)
  BY <1>1
<1> QED BY <1>2 DEF Cuts

\* flush
LEMMA FlushKeeps ==
    ASSUME NEW o \in Outputs, NamesUp(o), NEW full \in BOOLEAN, NEW p \in Flush(o, full)
    PROVE  Keeps(o, p) /\ (p.buffered = << >> \/ p.stuck)
<1> DEFINE n == Len(o.buffered)
           cuts == IF full THEN {k \in Cuts(n) : k[3] = n} ELSE {<<n, n, n>>}
<1>1. n \in Nat
  BY DEF Outputs
<1>2. PICK k \in cuts : p = Settle([o EXCEPT !.stuck = full], o.buffered, k)
  BY DEF Flush, Settled
<1>3. k \in Cuts(n) /\ (~full => k[2] = k[3])
  BY <1>1, <1>2, NoCut
<1> HIDE DEF cuts
<1>4. Keeps(o, p) /\ p.stuck = full /\ (k[2] = k[3] => p.buffered = << >>)
  BY <1>2, <1>3, SettleBuffered DEF n
<1> QED BY <1>3, <1>4

\* fclose
LEMMA CloseKeeps ==
    ASSUME NEW o \in Outputs, NamesUp(o), NEW full \in BOOLEAN, NEW p \in Close(o, full)
    PROVE  /\ Keeps(o, p) /\ p.buffered = << >>
           /\ p.names = o.names /\ p.lastRoll = o.lastRoll
<1> DEFINE n == Len(o.buffered)
           cuts == IF full THEN {k \in Cuts(n) : k[2] = n} ELSE {<<n, n, n>>}
<1>1. n \in Nat
  BY DEF Outputs
<1>0. PICK x \in BOOLEAN : x = FALSE
  OBVIOUS
<1>2. PICK k \in cuts : p = Settle([o EXCEPT !.stuck = x], o.buffered, k)
  BY <1>0 DEF Close, Settled
<1>3. k \in Cuts(n) /\ k[2] = k[3]
  BY <1>1, <1>2, NoCut
<1> HIDE DEF cuts
<1>4. /\ Keeps(o, p) /\ (k[2] = k[3] => p.buffered = << >>)
      /\ p.names = o.names /\ p.lastRoll = o.lastRoll
  BY <1>2, <1>3, SettleBuffered DEF n
<1> QED BY <1>3, <1>4

\* The new file gets a name that is greater than all the others.
LEMMA NewName ==
    ASSUME NEW s \in Seq(Nat), NEW last \in Nat, NEW n \in Nat, last < n,
           \A i, j \in DOMAIN s : i < j => s[i] < s[j],
           \A i \in DOMAIN s : s[i] <= last
    PROVE  LET t == Append(s, n) IN
           /\ t \in Seq(Nat)
           /\ \A i, j \in DOMAIN t : i < j => t[i] < t[j]
           /\ \A i \in DOMAIN t : t[i] <= n
<1> DEFINE t == Append(s, n)
<1>1. /\ t \in Seq(Nat) /\ Len(t) = Len(s) + 1 /\ t[Len(s) + 1] = n /\ Len(s) \in Nat
      /\ \A i \in 1..Len(s) : t[i] = s[i]
      /\ DOMAIN t = 1..(Len(s) + 1) /\ DOMAIN s = 1..Len(s)
  OBVIOUS
<1> HIDE DEF t
<1>2. \A i \in 1..Len(s) : s[i] \in Nat
  BY ElementOfSeq
<1>3. ASSUME NEW i \in DOMAIN t PROVE t[i] <= n
  <2>1. CASE i = Len(s) + 1
    BY <1>1, <2>1
  <2>2. CASE i # Len(s) + 1
    <3>1. i \in 1..Len(s)
      BY <1>1, <2>2
    <3>2. t[i] = s[i] /\ s[i] <= last /\ s[i] \in Nat
      BY <1>1, <1>2, <3>1
    <3> QED BY <3>2
  <2> QED BY <2>1, <2>2
<1>4. ASSUME NEW i \in DOMAIN t, NEW j \in DOMAIN t, i < j PROVE t[i] < t[j]
  <2>1. i \in 1..Len(s)
    BY <1>1, <1>4
  <2>2. t[i] = s[i] /\ s[i] <= last /\ s[i] \in Nat
    BY <1>1, <1>2, <2>1
  <2>3. CASE j = Len(s) + 1
    <3>1. t[j] = n
      BY <1>1, <2>3
    <3> QED BY <2>2, <3>1
  <2>4. CASE j # Len(s) + 1
    <3>1. j \in 1..Len(s)
      BY <1>1, <2>4
    <3> QED BY <1>1, <1>4, <2>1, <2>2, <3>1
  <2> QED BY <2>3, <2>4
<1> QED BY <1>1, <1>3, <1>4 DEF t

\* rollFile
LEMMA RollKeeps ==
    ASSUME NEW o \in Outputs, NamesUp(o), time \in Nat, NEW full \in BOOLEAN,
           NEW p \in RollFile(o, full)
    PROVE  Keeps(o, p) /\ (p = o \/ p.buffered = << >>)
<1>1. CASE time > o.lastRoll
  <2>1. PICK c \in Close(o, full) : p = Rolled(c)
    BY <1>1 DEF RollFile
  <2>2. Keeps(o, c) /\ c.buffered = << >> /\ c.names = o.names /\ c.lastRoll = o.lastRoll
    BY CloseKeeps
  <2> DEFINE s == Append(c.names, time)
             q == Period(time)
             u == [c EXCEPT !.lastRoll = time, !.lastFlush = time, !.startOfPeriod = q,
                            !.written = 0, !.names = s]
  <2>3. p = u
    BY <2>1 DEF Rolled
  <2>4. q \in Int
    BY LogFileAssumption DEF Period
  <2>5. c \in Outputs /\ NamesUp(c)
    BY <2>2 DEF Keeps
  <2>6. /\ s \in Seq(Nat)
        /\ \A i, j \in DOMAIN s : i < j => s[i] < s[j]
        /\ \A i \in DOMAIN s : s[i] <= time
    <3> DEFINE n == c.names
               l == c.lastRoll
    <3>1. /\ n \in Seq(Nat) /\ l \in Nat /\ l < time
          /\ \A i, j \in DOMAIN n : i < j => n[i] < n[j]
          /\ \A i \in DOMAIN n : n[i] <= l
      BY <1>1, <2>2, <2>5 DEF NamesUp, Outputs
    <3> HIDE DEF n, l
    <3>2. LET t == Append(n, time) IN
          /\ t \in Seq(Nat)
          /\ \A i, j \in DOMAIN t : i < j => t[i] < t[j]
          /\ \A i \in DOMAIN t : t[i] <= time
      BY <3>1, NewName
    <3> QED BY <3>2 DEF n
  <2> HIDE DEF s, q
  <2>7. /\ u \in Outputs /\ u.onDisk = c.onDisk /\ u.buffered = c.buffered
        /\ u.lost = c.lost /\ u.names = s /\ u.lastRoll = time
    BY <2>4, <2>5, <2>6 DEF Outputs
  <2> HIDE DEF u
  <2>8. NamesUp(u)
    BY <2>6, <2>7 DEF NamesUp
  <2>9. Keeps(c, u)
    BY <2>7, <2>8 DEF Keeps, Disk
  <2> QED BY <2>2, <2>3, <2>7, <2>9, KeepsBoth
<1>2. CASE ~(time > o.lastRoll)
  <2>1. p = o
    BY <1>2 DEF RollFile
  <2> QED BY <2>1, KeepsCounters
<1> QED BY <1>1, <1>2

\* AppendFile::append: what the lines handed over so far are, if they are told of l.
LEMMA AppendFileKeeps ==
    ASSUME NEW o \in Outputs, NamesUp(o), NEW l \in Seq(Nat), NEW len \in Nat,
           NEW full \in BOOLEAN, NEW a \in AppendToFile(o, l, len, full)
    PROVE  /\ a \in Outputs /\ NamesUp(a)
           /\ \A h \in Seq(Nat) : Complete(Disk(o) \o l, h, o.lost)
                                    => Complete(Disk(a), h, a.lost)
<1> DEFINE w == o.written + len
           o1 == [o EXCEPT !.written = w]
           d == o.onDisk
           b == o.buffered
           s == b \o l
           n == Len(s)
           cuts == IF full THEN Cuts(n) ELSE {<<0, 0, n>>}
<1>1. PICK k \in cuts : a = Settle(o1, s, k)
  BY DEF AppendToFile, Settled
<1>2. d \in Seq(Nat) /\ b \in Seq(Nat) /\ w \in Nat
  BY DEF Outputs
<1>3. Disk(o) = d \o b
  BY DEF Disk
<1> HIDE DEF w
<1>4. /\ o1 \in Outputs /\ o1.names = o.names /\ o1.lastRoll = o.lastRoll
      /\ o1.onDisk = d /\ o1.lost = o.lost
  BY <1>2 DEF Outputs
<1> HIDE DEF o1, d, b
<1>5. s \in Seq(Nat) /\ d \o s = (d \o b) \o l
  <2>1. Associates(d, b, l)
    BY <1>2, LinesAssociative
  <2>2. d \o (b \o l) = (d \o b) \o l
    BY <2>1, Zenon DEF Associates
  <2> QED BY <1>2, <2>2, ConcatProperties
<1> HIDE DEF s
<1>6. n \in Nat
  BY <1>5
<1> HIDE DEF n
<1>7. k \in Cuts(n)
  <2>1. n \in 0..n /\ 0 \in 0..n
    BY <1>6
  <2>2. <<0, 0, n>> \in (0..n) \X (0..n) \X (0..n)
    BY <2>1
  <2>3. <<0, 0, n>> \in Cuts(n)
    BY <2>2, <1>6 DEF Cuts
  <2> QED BY <1>1, <2>3
<1> HIDE DEF cuts
<1>8. /\ a \in Outputs /\ a.names = o1.names /\ a.lastRoll = o1.lastRoll
      /\ \A h \in Seq(Nat) : Complete(o1.onDisk \o s, h, o1.lost)
                               => Complete(Disk(a), h, a.lost)
  <2>1. s \in Seq(Nat) /\ o1 \in Outputs /\ a = Settle(o1, s, k) /\ k \in Cuts(Len(s))
    BY <1>1, <1>4, <1>5, <1>7 DEF n
  <2> QED BY ONLY <2>1, SettleKeeps
<1>9. NamesUp(a)
  BY <1>4, <1>8 DEF NamesUp
<1> QED BY <1>3, <1>4, <1>5, <1>8, <1>9

\* append_unlocked, after the append to the file.
LEMMA CheckKeeps ==
    ASSUME NEW a \in Outputs, NamesUp(a), time \in Nat, NEW full \in BOOLEAN,
           NEW u \in CheckFile(a, full)
    PROVE  Keeps(a, u)
<1> DEFINE n == a.count + 1
           counted == [a EXCEPT !.count = n]
           checked == [a EXCEPT !.count = 0]
           flushed == [checked EXCEPT !.lastFlush = time]
<1>0. \/ u \in RollFile(a, full) \/ u = counted \/ u \in RollFile(checked, full)
      \/ u \in Flush(flushed, full) \/ u = checked
  <2>1. CheckFile(a, full) =
          IF a.written > RollSize THEN RollFile(a, full)
          ELSE IF counted.count < CheckEveryN THEN {counted}
          ELSE IF Period(time) # checked.startOfPeriod THEN RollFile(checked, full)
          ELSE IF time - checked.lastFlush > FlushInterval THEN Flush(flushed, full)
          ELSE {checked}
    BY DEF CheckFile
  <2> HIDE DEF counted, checked, flushed
  <2> QED BY <2>1
<1>1. n \in Nat
  BY DEF Outputs
<1> HIDE DEF n
<1>2. /\ counted \in Outputs /\ counted.names = a.names /\ counted.onDisk = a.onDisk
      /\ counted.buffered = a.buffered /\ counted.lost = a.lost
      /\ counted.lastRoll = a.lastRoll
  BY <1>1 DEF Outputs
<1>3. /\ checked \in Outputs /\ checked.names = a.names /\ checked.onDisk = a.onDisk
      /\ checked.buffered = a.buffered /\ checked.lost = a.lost
      /\ checked.lastRoll = a.lastRoll
  BY DEF Outputs
<1> HIDE DEF counted, checked
<1>4. /\ flushed \in Outputs /\ flushed.names = checked.names
      /\ flushed.onDisk = checked.onDisk /\ flushed.buffered = checked.buffered
      /\ flushed.lost = checked.lost /\ flushed.lastRoll = checked.lastRoll
  BY <1>3 DEF Outputs
<1> HIDE DEF flushed
<1>5. Keeps(a, counted) /\ Keeps(a, checked) /\ Keeps(a, flushed)
  BY <1>2, <1>3, <1>4, KeepsCounters
<1>6. NamesUp(checked) /\ NamesUp(flushed)
  BY <1>5 DEF Keeps
<1>7. CASE u \in RollFile(a, full)
  BY <1>7, RollKeeps
<1>8. CASE u \in RollFile(checked, full)
  <2>1. Keeps(checked, u)
    BY <1>3, <1>6, <1>8, RollKeeps
  <2> QED BY <1>5, <2>1, KeepsBoth
<1>9. CASE u \in Flush(flushed, full)
  <2>1. Keeps(flushed, u)
    BY <1>4, <1>6, <1>9, FlushKeeps
  <2> QED BY <1>5, <2>1, KeepsBoth
<1> QED BY <1>0, <1>5, <1>7, <1>8, <1>9

\* append_unlocked: the lines get into the files, or are noted as lost.
LEMMA AppendUnlockedKeeps ==
    ASSUME NEW o \in Outputs, NamesUp(o), NEW l \in Seq(Nat), NEW len \in Nat,
           NEW full \in BOOLEAN, time \in Nat, NEW u \in AppendUnlocked(o, l, len, full)
    PROVE  /\ u \in Outputs /\ NamesUp(u)
           /\ \A h \in Seq(Nat) : Complete(Disk(o) \o l, h, o.lost)
                                    => Complete(Disk(u), h, u.lost)
<1>1. PICK a \in AppendToFile(o, l, len, full) : u \in CheckFile(a, full)
  BY DEF AppendUnlocked
<1>2. /\ a \in Outputs /\ NamesUp(a)
      /\ \A h \in Seq(Nat) : Complete(Disk(o) \o l, h, o.lost)
                               => Complete(Disk(a), h, a.lost)
  BY AppendFileKeeps
<1>3. Keeps(a, u)
  BY <1>1, <1>2, CheckKeeps
<1> QED BY <1>2, <1>3 DEF Keeps

-----------------------------------------------------------------------------
(* A round of appends *)

\* What LogFile::append gets.
Appends == [lines : Seq(Nat), used : Nat]

\* The lines of the first k appends of a round.
RoundLines(r, k) == FlattenSeq([i \in 1..k |-> r[i].lines])

\* The lines of the appends that are done.
LEMMA RoundPrefix ==
    ASSUME NEW r \in Seq(Appends), NEW k \in 0..Len(r)
    PROVE  RoundLines(r, k) = LinesOf(SubSeq(r, 1, k))
<1> DEFINE p == SubSeq(r, 1, k)
<1>1. p \in Seq(Appends) /\ Len(p) = k /\ \A i \in 1..k : p[i] = r[i]
  BY SubSeqProperties
<1> HIDE DEF p
<1>2. DOMAIN p = 1..k
  BY <1>1
<1>3. [i \in DOMAIN p |-> p[i].lines] = [i \in 1..k |-> r[i].lines]
  BY <1>1, <1>2
<1>4. RoundLines(r, k) = LinesOf(p)
  BY <1>3 DEF RoundLines, LinesOf
<1> QED BY <1>4 DEF p

\* LinesOf, of appends.
LEMMA LinesOfAppends ==
    /\ LinesOf(<< >>) = << >>
    /\ \A b \in Appends : b.lines \in Seq(Nat) /\ b.used \in Nat
    /\ \A bs \in Seq(Appends) :
         /\ LinesOf(bs) \in Seq(Nat)
         /\ \A b \in Appends : LinesOf(Append(bs, b)) = LinesOf(bs) \o b.lines
         /\ \A cs \in Seq(Appends) : LinesOf(bs \o cs) = LinesOf(bs) \o LinesOf(cs)
<1>1. \A b \in Appends : b.lines \in Seq(Nat) /\ b.used \in Nat
  BY DEF Appends
<1>2. << >> \in Seq(Appends)
  OBVIOUS
<1>3. ASSUME NEW bs \in Seq(Appends)
      PROVE  /\ LinesOf(bs) \in Seq(Nat) /\ LinesOf(<< >>) = << >>
             /\ \A b \in Appends : LinesOf(Append(bs, b)) = LinesOf(bs) \o b.lines
             /\ \A cs \in Seq(Appends) : LinesOf(bs \o cs) = LinesOf(bs) \o LinesOf(cs)
  BY <1>1, LinesOfSeq, Zenon
<1> QED BY <1>1, <1>2, <1>3, Zenon

\* One append of a round.
LEMMA RoundNext ==
    ASSUME NEW r \in Seq(Appends), NEW k \in Nat, k < Len(r)
    PROVE  /\ r[k + 1] \in Appends
           /\ RoundLines(r, k) \in Seq(Nat)
           /\ RoundLines(r, k + 1) = RoundLines(r, k) \o r[k + 1].lines
           /\ \E rest \in Seq(Nat) : LinesOf(r) = RoundLines(r, k + 1) \o rest
<1> DEFINE n == k + 1
           p == SubSeq(r, 1, k)
           q == SubSeq(r, 1, n)
           z == SubSeq(r, n + 1, Len(r))
           x == r[n]
<1>1. /\ Len(r) \in Nat /\ k \in 0..Len(r) /\ n \in 0..Len(r) /\ n \in 1..Len(r) /\ n \in Nat
      /\ 1 \in 1..(Len(r) + 1) /\ n \in (1 - 1)..Len(r) /\ Len(r) \in n..Len(r)
      /\ n - 1 = k /\ n + 1 \in Nat
  OBVIOUS
<1>2. x \in Appends
  BY <1>1, ElementOfSeq
<1> HIDE DEF n
<1>3. /\ p \in Seq(Appends) /\ Len(p) = k /\ \A i \in 1..k : p[i] = r[i]
      /\ q \in Seq(Appends) /\ Len(q) = n /\ \A i \in 1..n : q[i] = r[i]
      /\ z \in Seq(Appends)
  BY <1>1, SubSeqProperties
<1>4. q \o z = r
  <2>1. q \o z = SubSeq(r, 1, Len(r))
    BY <1>1, ConcatAdjacentSubSeq
  <2> QED BY <2>1, SubSeqFull
<1>5. /\ RoundLines(r, k) = LinesOf(p) /\ RoundLines(r, n) = LinesOf(q)
  BY <1>1, RoundPrefix
<1> HIDE DEF p, q, z, x
<1>6. q = Append(p, x)
  <2> DEFINE s == Append(p, x)
  <2>1. /\ s \in Seq(Appends) /\ Len(s) = k + 1 /\ s[k + 1] = x
        /\ \A i \in 1..k : s[i] = p[i]
    BY <1>2, <1>3
  <2> HIDE DEF s
  <2>2. ASSUME NEW i \in 1..n PROVE s[i] = q[i]
    <3>1. CASE i = n
      BY <1>3, <2>1, <3>1 DEF n, x
    <3>2. CASE i # n
      <4>1. i \in 1..k
        BY <1>1, <3>2
      <4> QED BY <1>3, <2>1, <4>1
    <3> QED BY <3>1, <3>2
  <2>3. Len(s) = n
    BY <2>1 DEF n
  <2>4. q = s
    BY <1>3, <2>1, <2>2, <2>3, SeqEqual
  <2> QED BY <2>4 DEF s
<1>7. /\ LinesOf(p) \in Seq(Nat) /\ LinesOf(q) = LinesOf(p) \o x.lines
      /\ LinesOf(r) = LinesOf(q) \o LinesOf(z) /\ LinesOf(z) \in Seq(Nat)
  <2>1. LinesOf(q \o z) = LinesOf(q) \o LinesOf(z)
    BY <1>3, LinesOfAppends
  <2>2. LinesOf(Append(p, x)) = LinesOf(p) \o x.lines
    BY <1>2, <1>3, LinesOfAppends
  <2> QED BY <1>3, <1>4, <1>6, <2>1, <2>2, LinesOfAppends
<1>8. r[n] \in Appends
  BY <1>2 DEF x
<1>9. RoundLines(r, n) = RoundLines(r, k) \o r[n].lines
  BY <1>5, <1>7 DEF x
<1>10. \E rest \in Seq(Nat) : LinesOf(r) = RoundLines(r, n) \o rest
  BY <1>5, <1>7
<1> QED BY <1>5, <1>7, <1>8, <1>9, <1>10 DEF n

\* The appends of a round, and their lines.
LEMMA RoundType ==
    ASSUME BufferTypes
    PROVE  /\ Round \in Seq(Appends)
           /\ LinesOf(Round) = Announced \o LinesOf(Kept)
           /\ Announced \in Seq(Nat) /\ LinesOf(Kept) \in Seq(Nat)
<1> DEFINE pre == IF Overflow THEN <<[lines |-> <<Notice>>, used |-> NoticeLen]>> ELSE << >>
           bs == [i \in DOMAIN Kept |-> [lines |-> Kept[i].lines, used |-> Kept[i].used]]
<1>1. Round = pre \o bs
  BY DEF Round, Kept
<1>2. Kept \in Seq(Buffers)
  <2>1. toWrite \in Seq(Buffers)
    BY DEF BufferTypes
  <2> QED BY <2>1, FirstTwoKeeps DEF Kept
<1>3. pre \in Seq(Appends) /\ LinesOf(pre) = Announced /\ Announced \in Seq(Nat)
  <2>1. CASE Overflow
    <3> DEFINE l == <<Notice>>
               x == [lines |-> l, used |-> NoticeLen]
    <3>1. l \in Seq(Nat)
      BY DEF Notice
    <3>2. pre = <<x>> /\ Announced = l
      BY <2>1 DEF Announced
    <3> HIDE DEF l
    <3>3. x \in Appends /\ x.lines = l
      BY <3>1, LogFileAssumption DEF Appends
    <3> HIDE DEF x
    <3>4. <<x>> = Append(<< >>, x) /\ << >> \in Seq(Appends) /\ <<x>> \in Seq(Appends)
      BY <3>3
    <3>5. LinesOf(Append(<< >>, x)) = LinesOf(<< >>) \o x.lines
      BY <3>3, <3>4, LinesOfAppends
    <3>6. << >> \o l = l
      BY <3>1, ConcatEmptySeq
    <3>7. LinesOf(<<x>>) = l
      BY <3>3, <3>4, <3>5, <3>6, LinesOfAppends
    <3> QED BY <3>1, <3>2, <3>4, <3>7
  <2>2. CASE ~Overflow
    <3>1. pre = << >> /\ Announced = << >>
      BY <2>2 DEF Announced
    <3>2. << >> \in Seq(Appends) /\ << >> \in Seq(Nat)
      OBVIOUS
    <3> QED BY <3>1, <3>2, LinesOfAppends
  <2> QED BY <2>1, <2>2
<1>4. bs \in Seq(Appends) /\ LinesOf(bs) = LinesOf(Kept)
  <2>1. DOMAIN Kept = 1..Len(Kept) /\ Len(Kept) \in Nat
    BY <1>2
  <2>2. ASSUME NEW i \in DOMAIN Kept
        PROVE  [lines |-> Kept[i].lines, used |-> Kept[i].used] \in Appends
    <3>1. Kept[i] \in Buffers
      BY <1>2, <2>1, ElementOfSeq
    <3>2. Kept[i].lines \in Seq(Nat) /\ Kept[i].used \in Nat
      BY <3>1, LoggingAssumption DEF Buffers
    <3> QED BY <3>2 DEF Appends
  <2>3. bs \in [1..Len(Kept) -> Appends]
    BY <2>1, <2>2
  <2>4. bs \in Seq(Appends)
    BY <2>1, <2>3, IsASeq
  <2>5. DOMAIN bs = DOMAIN Kept /\ \A i \in DOMAIN Kept : bs[i].lines = Kept[i].lines
    OBVIOUS
  <2> HIDE DEF bs
  <2>6. [i \in DOMAIN bs |-> bs[i].lines] = [i \in DOMAIN Kept |-> Kept[i].lines]
    BY <2>5
  <2>7. LinesOf(bs) = LinesOf(Kept)
    BY <2>6 DEF LinesOf
  <2> QED BY <2>4, <2>7
<1> HIDE DEF pre, bs
<1>5. pre \o bs \in Seq(Appends)
  BY <1>3, <1>4, ConcatProperties
<1>6. LinesOf(pre \o bs) = LinesOf(pre) \o LinesOf(bs)
  BY <1>3, <1>4, LinesOfAppends
<1> QED BY <1>1, <1>2, <1>3, <1>4, <1>5, <1>6, LinesOfBuffers

\* What AsyncLogging has handed over.
Handed == file \o RoundLines(Round, appended)

\* What makes FilesComplete inductive: the appends of the round that are done
\* count as handed over, lines are lost only after that, and no file is newer
\* than the last roll.
FileInv ==
    /\ time \in Nat /\ appended \in Nat /\ output \in Outputs
    /\ appended = 0 \/ (threadPc = "write" /\ appended <= Len(Round))
    /\ NamesUp(output)
    /\ Complete(Disk(output), Handed, output.lost)
    /\ threadPc \notin {"write", "refill1", "refill2"}
         => output.buffered = << >> \/ output.stuck

\* No append of the round is done.
LEMMA RoundBegins ==
    ASSUME NEW f \in Seq(Nat), NEW r
    PROVE  f \o RoundLines(r, 0) = f
<1>1. [i \in 1..0 |-> r[i].lines] = << >>
  OBVIOUS
<1>2. RoundLines(r, 0) = << >>
  BY <1>1, FlattenEmpty DEF RoundLines
<1> QED BY <1>2, ConcatEmptySeq

\* The file holds numbers.
LEMMA FileType ==
    ASSUME LineInv, IInv
    PROVE  file \in Seq(Nat)
<1>1. PICK m \in 0..logged : Handled(file, dropped, m)
  BY DEF LineInv
<1>2. file \in Seq(0..m) /\ 0..m \subseteq Nat
  BY <1>1 DEF Handled
<1> QED BY <1>2, SeqMonotonic

\* The constructor, before the back end makes the LogFile.
LEMMA InitFileInv == LInit => FileInv
<1> SUFFICES ASSUME LInit PROVE FileInv
  OBVIOUS
<1>1. /\ file = << >> /\ time = 1 /\ appended = 0 /\ output = NoLogFile /\ threadPc = "none"
  BY DEF LInit, Init
<1>2. NoLogFile \in Outputs /\ NoLogFile.names = << >> /\ NoLogFile.onDisk = << >>
      /\ NoLogFile.buffered = << >> /\ NoLogFile.lost = {}
  BY DEF NoLogFile, Outputs
<1>3. << >> \in Seq(Nat) /\ << >> \o << >> = << >> /\ DOMAIN << >> = {}
  OBVIOUS
<1>4. Handed = << >>
  BY <1>1, <1>3, RoundBegins DEF Handed
<1>5. Disk(NoLogFile) = << >>
  BY <1>2, <1>3 DEF Disk
<1>6. Complete(<< >>, << >>, {})
  BY <1>3 DEF Complete, InOrder, ToSet
<1>7. NamesUp(NoLogFile)
  BY <1>2, <1>3 DEF NamesUp
<1> QED BY <1>1, <1>2, <1>4, <1>5, <1>6, <1>7 DEF FileInv

\* What is handed over are lines.
LEMMA HandedType ==
    ASSUME FileInv, BufferTypes, file \in Seq(Nat)
    PROVE  Handed \in Seq(Nat)
<1>1. CASE appended = 0
  <2>1. file \o RoundLines(Round, 0) = file
    BY RoundBegins
  <2> QED BY <1>1, <2>1 DEF Handed
<1>2. CASE appended # 0
  <2> DEFINE r == RoundLines(Round, appended)
  <2>1. Round \in Seq(Appends) /\ appended \in 0..Len(Round)
    <3>1. Round \in Seq(Appends)
      BY RoundType
    <3> QED BY <1>2, <3>1 DEF FileInv
  <2>2. r \in Seq(Nat)
    <3> DEFINE p == SubSeq(Round, 1, appended)
    <3>1. r = LinesOf(p)
      BY <2>1, RoundPrefix
    <3>2. \A i \in 1..appended : Round[i] \in Appends
      BY <2>1, ElementOfSeq
    <3>3. p \in Seq(Appends)
      BY <2>1, <3>2, SubSeqProperties
    <3> HIDE DEF p
    <3> QED BY <3>1, <3>3, LinesOfAppends
  <2> HIDE DEF r
  <2>3. file \o r \in Seq(Nat)
    BY <2>2, ConcatProperties
  <2> QED BY <2>3 DEF Handed, r
<1> QED BY <1>1, <1>2

\* A step of AsyncLogging that writes nothing, and leaves the LogFile alone or
\* rolls or flushes it.
LEMMA FileStays ==
    ASSUME FileInv, BufferTypes, file \in Seq(Nat), time' \in Nat, appended' = appended, file' = file,
           \/ toWrite' = toWrite /\ (threadPc = "write" <=> threadPc' = "write")
           \/ threadPc # "write",
           output' = output \/ Keeps(output, output'),
           threadPc' \notin {"write", "refill1", "refill2"} =>
               \/ output' = output /\ threadPc \notin {"write", "refill1", "refill2"}
               \/ output'.buffered = << >> \/ output'.stuck
    PROVE  FileInv'
<1>0. Handed \in Seq(Nat)
  BY HandedType
<1>1. CASE toWrite' = toWrite /\ (threadPc = "write" <=> threadPc' = "write")
  <2>1. Round' = Round
    BY <1>1 DEF Round, Overflow
  <2>2. Handed' = Handed
    BY <2>1 DEF Handed
  <2>3. appended' = 0 \/ (threadPc' = "write" /\ appended' <= Len(Round'))
    BY <1>1, <2>1 DEF FileInv
  <2> QED BY <1>0, <2>2, <2>3 DEF FileInv, Keeps
<1>2. CASE threadPc # "write"
  <2>1. appended = 0 /\ appended' = 0
    BY <1>2 DEF FileInv
  <2>2. Handed = file
    BY <2>1, RoundBegins DEF Handed
  <2>3. file' \o RoundLines(Round', 0) = file'
    BY RoundBegins
  <2>4. Handed' = Handed
    BY <2>1, <2>2, <2>3 DEF Handed
  <2> QED BY <1>0, <2>1, <2>4 DEF FileInv, Keeps
<1> QED BY <1>1, <1>2

\* One append.
LEMMA FileAppend ==
    ASSUME FileInv, LineInv, IInv, NEW full \in BOOLEAN, AppendBuffer(full)
    PROVE  FileInv'
<1> DEFINE b == Round[appended + 1]
           l == b.lines
           f == file
           g == RoundLines(Round, appended)
           d == Disk(output)
           o == output.lost
<1>1. /\ threadPc = "write" /\ appended \in Nat /\ appended < Len(Round) /\ time \in Nat
      /\ output \in Outputs /\ NamesUp(output) /\ Complete(d, f \o g, o)
  BY DEF AppendBuffer, FileInv, Handed
<1>2. /\ Round \in Seq(Appends) /\ LinesOf(Round) = Announced \o LinesOf(Kept)
      /\ Announced \in Seq(Nat) /\ LinesOf(Kept) \in Seq(Nat)
  BY RoundType DEF IInv
<1>3. /\ b \in Appends /\ g \in Seq(Nat)
      /\ RoundLines(Round, appended + 1) = g \o l
  BY <1>1, <1>2, RoundNext
<1>4. PICK rest \in Seq(Nat) : LinesOf(Round) = (g \o l) \o rest
  BY <1>1, <1>2, <1>3, RoundNext
<1>5. f \in Seq(Nat)
  BY FileType
<1>6. l \in Seq(Nat) /\ b.used \in Nat /\ d \in Seq(Nat)
  <2>1. output.onDisk \in Seq(Nat) /\ output.buffered \in Seq(Nat)
    BY <1>1 DEF Outputs
  <2> QED BY <1>3, <2>1, LinesOfAppends, ConcatProperties DEF Disk
<1>7. Round' = Round
  BY DEF AppendBuffer, vars, back, Round, Overflow
<1>8. Handed' = f \o (g \o l)
  <2>1. file' = file /\ appended' = appended + 1
    BY DEF AppendBuffer, vars, back
  <2> QED BY <1>3, <1>7, <2>1 DEF Handed
<1> DEFINE u == output'
<1>9. /\ u \in Outputs /\ NamesUp(u)
      /\ \A h \in Seq(Nat) : Complete(d \o l, h, o) => Complete(Disk(u), h, u.lost)
  <2>0. output' \in AppendUnlocked(output, b.lines, b.used, full)
    BY DEF AppendBuffer
  <2> HIDE DEF b
  <2> DEFINE n == b.used
  <2>1. l \in Seq(Nat) /\ n \in Nat /\ output' \in AppendUnlocked(output, l, n, full)
    BY <1>6, <2>0
  <2> HIDE DEF l, n
  <2> QED BY <1>1, <2>1, AppendUnlockedKeeps
<1> HIDE DEF u, b, l, f, g, d, o
<1>11. f \o (g \o l) = (f \o g) \o l
  BY ONLY <1>3, <1>5, <1>6, Associative, SMTT(30)
<1>12. InOrder((f \o g) \o l)
  <2>1. InOrder((f \o Announced) \o LinesOf(Kept))
    BY <1>1, RoundHandled DEF Handled, f
  <2> DEFINE a == Announced
             k == LinesOf(Kept)
             w == g \o l
  <2>0. a \in Seq(Nat) /\ k \in Seq(Nat)
    BY <1>2
  <2>2. a \o k = w \o rest /\ InOrder((f \o a) \o k)
    BY <1>2, <1>4, <2>1
  <2>3. w \in Seq(Nat)
    BY <1>3, <1>6, ConcatProperties
  <2> HIDE DEF a, k, w
  <2>4. (f \o a) \o k = f \o (a \o k)
    BY ONLY <1>5, <2>0, Associative, SMTT(30)
  <2>5. f \o (w \o rest) = (f \o w) \o rest
    BY ONLY <1>5, <2>3, rest \in Seq(Nat), Associative, SMTT(30)
  <2>6. InOrder((f \o w) \o rest)
    BY <2>2, <2>4, <2>5
  <2> DEFINE v == f \o w
  <2>7. v \in Seq(Nat)
    BY <1>5, <2>3, ConcatProperties
  <2>8. InOrder(v \o rest)
    BY <2>6
  <2> HIDE DEF v
  <2>9. InOrder(v)
    BY <2>7, <2>8, InOrderPrefix
  <2> QED BY <1>11, <2>9 DEF v, w
<1>13. f \o g \in Seq(Nat)
  BY <1>3, <1>5, ConcatProperties
<1>14. Complete(Disk(u), (f \o g) \o l, u.lost)
  <2> DEFINE h == f \o g
  <2>1. h \in Seq(Nat) /\ Complete(d, h, o) /\ InOrder(h \o l)
    BY <1>1, <1>12, <1>13
  <2> HIDE DEF h
  <2>2. Complete(d \o l, h \o l, o)
    BY <1>6, <2>1, CompleteTaken
  <2>3. h \o l \in Seq(Nat)
    BY <1>6, <2>1, ConcatProperties
  <2> QED BY <1>9, <2>2, <2>3 DEF h
<1>15. /\ threadPc' = threadPc /\ time' = time /\ appended' = appended + 1
       /\ appended + 1 \in Nat /\ appended + 1 <= Len(Round)
  <2>1. Len(Round) \in Nat
    BY <1>2
  <2> QED BY <1>1, <2>1 DEF AppendBuffer, vars
<1> QED BY <1>1, <1>7, <1>8, <1>9, <1>11, <1>14, <1>15 DEF FileInv, u

\* The end of the round: what was handed over is what AsyncLogging has written.
LEMMA FileRound ==
    ASSUME FileInv, LineInv, IInv, WriteBuffers, appended = Len(Round), appended' = 0,
           UNCHANGED <<output, time>>
    PROVE  FileInv'
<1> DEFINE f == file
           a == Announced
           k == LinesOf(Kept)
<1>1. /\ Round \in Seq(Appends) /\ LinesOf(Round) = a \o k
      /\ a \in Seq(Nat) /\ k \in Seq(Nat) /\ f \in Seq(Nat)
  BY RoundType, FileType DEF IInv
<1>2. file' = (f \o a) \o k
  BY DEF WriteBuffers, Announced, Kept
<1>3. RoundLines(Round, appended) = a \o k
  <2>1. Len(Round) \in 0..Len(Round) /\ SubSeq(Round, 1, Len(Round)) = Round
    BY <1>1, SubSeqFull
  <2> QED BY <1>1, <2>1, RoundPrefix
<1>4. Handed = f \o (a \o k)
  BY <1>3 DEF Handed
<1> HIDE DEF f, a, k
<1>5. (f \o a) \o k = f \o (a \o k)
  BY ONLY <1>1, Associative, SMTT(30)
<1>6. file' \in Seq(Nat)
  <2> DEFINE v == f \o a
  <2>1. v \in Seq(Nat)
    BY <1>1, ConcatProperties
  <2> HIDE DEF v
  <2>2. v \o k \in Seq(Nat)
    BY <1>1, <2>1, ConcatProperties
  <2> QED BY <1>2, <2>2 DEF v
<1>7. file' \o RoundLines(Round', 0) = file'
  BY <1>6, RoundBegins
<1>8. Handed' = Handed
  BY <1>2, <1>4, <1>5, <1>7 DEF Handed
<1>9. threadPc' = "refill1"
  BY DEF WriteBuffers
<1> QED BY <1>8, <1>9 DEF FileInv

\* The LogFile is a part of AsyncLogging: its steps are steps of AsyncLogging.
LEMMA StepOfSpec == [LNext]_<<vars, fileVars>> => [Next]_vars
<1> SUFFICES ASSUME [LNext]_<<vars, fileVars>> PROVE [Next]_vars
  OBVIOUS
<1>1. CASE LNext
  <2>1. CASE FrontStep /\ UNCHANGED fileVars
    BY <2>1 DEF FrontStep, Next
  <2>2. CASE LThreadStep
    BY <2>2 DEF LThreadStep, Next, ThreadStep
  <2>3. ASSUME NEW full \in BOOLEAN, AppendBuffer(full) PROVE UNCHANGED vars
    BY <2>3 DEF AppendBuffer
  <2>6. ASSUME NEW full \in BOOLEAN, FlushOrClose(full) PROVE Next
    BY <2>6 DEF FlushOrClose, Next, ThreadStep
  <2>4. CASE Tick \/ SetClock
    BY <2>4 DEF Tick, SetClock
  <2>5. CASE Terminated /\ UNCHANGED fileVars
    BY <2>5 DEF Next
  <2> QED BY <1>1, <2>1, <2>2, <2>3, <2>4, <2>5, <2>6 DEF LNext, BackStep
<1>2. CASE UNCHANGED <<vars, fileVars>>
  BY <1>2
<1> QED BY <1>1, <1>2

\* Every step keeps the files complete.
LEMMA StepFileInv == IInv /\ LineInv /\ FileInv /\ [LNext]_<<vars, fileVars>> => FileInv'
<1> SUFFICES ASSUME IInv, LineInv, FileInv, [LNext]_<<vars, fileVars>> PROVE FileInv'
  OBVIOUS
<1>0. /\ file \in Seq(Nat) /\ time \in Nat /\ output \in Outputs /\ NamesUp(output)
      /\ toWrite \in Seq(Buffers) /\ OwnerInv /\ BufferTypes
  BY FileType DEF FileInv, IInv, BufferTypes, BufferInv
<1>2. CASE FrontStep /\ UNCHANGED fileVars
  <2>1. /\ UNCHANGED <<time, appended, output, file, toWrite>>
        /\ threadPc' = threadPc \/ (threadPc = "waiting" /\ threadPc' = "swap")
             \/ (threadPc = "none" /\ threadPc' = "created")
    BY <1>0, <1>2 DEF FrontStep, AppendFits, AppendFull, Start, StopRunning, OwnerStep,
       LatchReleased, StopNotify, Join, Notified, fileVars, front, back, OwnerInv
  <2> QED BY <1>0, <2>1, FileStays
<1>3. CASE BeginThread /\ output' \in RollFile(output, FALSE) /\ UNCHANGED <<appended, time>>
  <2>1. /\ UNCHANGED <<file, toWrite>> /\ threadPc = "created" /\ threadPc' = "test"
    BY <1>3 DEF BeginThread, back
  <2>2. PICK x \in BOOLEAN : x = FALSE
    OBVIOUS
  <2>3. Keeps(output, output') /\ (output' = output \/ output'.buffered = << >>)
    BY <1>0, <1>3, <2>2, RollKeeps
  <2> QED BY <1>0, <1>3, <2>1, <2>3, FileStays
<1>4. ASSUME NEW full \in BOOLEAN, TestRunning, ~running,
             output' \in UNION {Close(o, full) : o \in Flush(output, full)},
             UNCHANGED <<appended, time>>
      PROVE  FileInv'
  <2>1. /\ UNCHANGED <<file, toWrite>> /\ threadPc = "test" /\ threadPc' = "exited"
    BY <1>4 DEF TestRunning, back
  <2>2. PICK o \in Flush(output, full) : output' \in Close(o, full)
    BY <1>4
  <2>3. Keeps(output, o) /\ o \in Outputs /\ NamesUp(o)
    BY <1>0, <1>4, <2>2, FlushKeeps DEF Keeps
  <2>4. Keeps(o, output') /\ output'.buffered = << >>
    BY <1>4, <2>2, <2>3, CloseKeeps
  <2>5. Keeps(output, output')
    BY <2>3, <2>4, KeepsBoth
  <2> QED BY <1>0, <1>4, <2>1, <2>4, <2>5, FileStays
<1>5. CASE /\ WriteBuffers /\ appended = Len(Round) /\ appended' = 0
           /\ UNCHANGED <<output, time>>
  BY <1>5, FileRound
<1>6. ASSUME NEW full \in BOOLEAN, Refill2, output' \in Flush(output, full),
             UNCHANGED <<appended, time>>
      PROVE  FileInv'
  <2>1. file' = file /\ threadPc = "refill2" /\ threadPc' = "test"
    BY <1>6 DEF Refill2
  <2>2. Keeps(output, output') /\ (output'.buffered = << >> \/ output'.stuck)
    BY <1>0, <1>6, FlushKeeps
  <2> QED BY <1>0, <1>6, <2>1, <2>2, FileStays
<1>7. CASE /\ \/ TestRunning /\ running
              \/ WaitForSeconds \/ SwapAtOnce \/ Timeout \/ SwapAfterWait \/ Refill1
           /\ UNCHANGED <<appended, output, time>>
  <2>1. /\ file' = file /\ threadPc # "write"
        /\ threadPc' \notin {"write", "refill1", "refill2"} =>
             threadPc \notin {"write", "refill1", "refill2"}
    BY <1>7 DEF TestRunning, WaitForSeconds, SwapAtOnce, Timeout, SwapAfterWait, Swap,
       Refill1, back
  <2> QED BY <1>0, <1>7, <2>1, FileStays
<1>8. ASSUME NEW full \in BOOLEAN, AppendBuffer(full) PROVE FileInv'
  BY <1>8, FileAppend
<1>9. CASE Tick \/ SetClock
  <2>1. UNCHANGED <<appended, output, file, toWrite, threadPc>> /\ time' \in Nat
    BY <1>0, <1>9 DEF Tick, SetClock, vars, back
  <2> QED BY <1>0, <2>1, FileStays
<1>10. CASE (Terminated /\ UNCHANGED fileVars) \/ UNCHANGED <<vars, fileVars>>
  <2>1. UNCHANGED <<appended, output, file, toWrite, threadPc, time>>
    BY <1>10 DEF Terminated, vars, back, fileVars
  <2> QED BY <1>0, <2>1, FileStays
<1>11. CASE LThreadStep
  BY <1>3, <1>5, <1>7, <1>11 DEF LThreadStep
<1>12. ASSUME NEW full \in BOOLEAN, FlushOrClose(full) PROVE FileInv'
  BY <1>4, <1>6, <1>12 DEF FlushOrClose
<1>13. CASE BackStep
  BY <1>8, <1>11, <1>12, <1>13 DEF BackStep
<1> QED BY <1>2, <1>9, <1>10, <1>13 DEF LNext

\* AsyncLogging with its LogFile, whatever the disk and the clock do, behaves as
\* AsyncLogging: what is proved of the one holds of the other.
THEOREM LogFileRefines == LSpec => Spec
<1>1. LInit => Init
  BY DEF LInit
<1> QED BY <1>1, StepOfSpec, PTL DEF LSpec, Spec

\* Over all the files that are rolled, whatever the sizes, the periods, the settings
\* of the clock, and however short the writes and wherever a flush or a close fails,
\* every line that AsyncLogging has handed over is in the files or held by stdio,
\* once and in order, unless it was lost to a full disk; no file is opened twice, and
\* between two rounds stdio holds nothing unless the last flush failed.
THEOREM FilesAreComplete == LSpec => []FilesComplete
<1> DEFINE Inv == IInv /\ LineInv /\ FileInv
<1>1. LInit => Inv
  BY InitIInv, InitLineInv, InitFileInv DEF LInit
<1>2. Inv /\ [LNext]_<<vars, fileVars>> => Inv'
  BY StepOfSpec, StepIInv, StepLineInv, StepFileInv
<1>3. Inv => FilesComplete
  BY DEF FileInv, FilesComplete, Complete, Handed, RoundLines, Disk, NamesUp
<1> QED BY <1>1, <1>2, <1>3, PTL DEF LSpec
=============================================================================
