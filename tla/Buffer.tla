------------------------------- MODULE Buffer -------------------------------
(***************************************************************************)
(* net/Buffer: a vector with a reader and a writer index, space kept free  *)
(* in front of the data.  A buffer is a record and every operation is an   *)
(* operator from buffers to buffers; a cell stands for some bytes that are *)
(* never separated.                                                        *)
(***************************************************************************)
EXTENDS Integers, Sequences

CONSTANTS
    CheapPrepend,       \* kCheapPrepend
    InitialSize,        \* kInitialSize
    ExtraSize           \* sizeof extrabuf of readFd

ASSUME BufferAssumption ==
    CheapPrepend \in Nat \ {0} /\ InitialSize \in Nat /\ ExtraSize \in Nat

\* A cell nobody has written
Zero == <<"zero">>
Zeros(n) == [k \in 1..n |-> Zero]

\* Buffer(): cells is buffer_, r and w are readerIndex_ and writerIndex_
EmptyBuffer ==
    [cells |-> Zeros(CheapPrepend + InitialSize), r |-> CheapPrepend,
     w |-> CheapPrepend]

ReadableBytes(b) == b.w - b.r
WritableBytes(b) == Len(b.cells) - b.w
PrependableBytes(b) == b.r

\* The data, from peek() to beginWrite()
Readable(b) ==
    [k \in 1..(b.w - b.r) |->
        IF b.r + k <= Len(b.cells) THEN b.cells[b.r + k] ELSE Zero]

Retrieve(b, n) == [b EXCEPT !.r = @ + n]

\* v written over the cells from index i on
Overwrite(cells, i, v) ==
    [k \in 1..Len(cells) |-> IF k > i /\ k <= i + Len(v) THEN v[k - i] ELSE cells[k]]

\* Wrong variant: the data is moved when the space just does not suffice.
MakeSpaceOffByOne(b, n) ==
    IF WritableBytes(b) + PrependableBytes(b) < n + CheapPrepend - 1
    THEN [b EXCEPT !.cells = SubSeq(@, 1, b.w) \o Zeros(n)]
    ELSE [cells |-> Overwrite(b.cells, CheapPrepend, Readable(b)),
          r |-> CheapPrepend, w |-> CheapPrepend + ReadableBytes(b)]

\* makeSpace: grow, or move the data to the front
MakeSpace(b, n) ==
    IF WritableBytes(b) + PrependableBytes(b) < n + CheapPrepend
    THEN [b EXCEPT !.cells = SubSeq(@, 1, b.w) \o Zeros(n)]
    ELSE [cells |-> Overwrite(b.cells, CheapPrepend, Readable(b)),
          r |-> CheapPrepend, w |-> CheapPrepend + ReadableBytes(b)]

\* ensureWritableBytes
EnsureWritable(b, n) == IF WritableBytes(b) < n THEN MakeSpace(b, n) ELSE b

\* append, and hasWritten
AppendTo(b, v) ==
    LET c == EnsureWritable(b, Len(v)) IN
    [c EXCEPT !.cells = Overwrite(@, c.w, v), !.w = @ + Len(v)]

Prepend(b, v) ==
    [b EXCEPT !.cells = Overwrite(@, b.r - Len(v), v), !.r = @ - Len(v)]

\* readFd: v is what readv returned, at most WritableBytes(b) + ExtraSize cells;
\* what does not fit goes through extrabuf
ReadFd(b, v) ==
    LET n == WritableBytes(b) IN
    IF Len(v) <= n
    THEN [b EXCEPT !.cells = Overwrite(@, b.w, v), !.w = @ + Len(v)]
    ELSE AppendTo([b EXCEPT !.cells = Overwrite(@, b.w, SubSeq(v, 1, n)),
                            !.w = Len(b.cells)],
                  SubSeq(v, n + 1, Len(v)))
=============================================================================
