----------------------------- MODULE LogStream -----------------------------
(***************************************************************************)
(* base/LogStream: the fixed buffer into which one log line is put         *)
(* together, and the conversion of integers.  A piece of text is its       *)
(* length and a mark; what does not fit is left out.                       *)
(***************************************************************************)
EXTENDS Integers, Sequences

CONSTANTS
    SmallBuffer,        \* kSmallBuffer
    MaxNumericSize      \* kMaxNumericSize

ASSUME LogStreamAssumption ==
    SmallBuffer \in Nat /\ MaxNumericSize \in 1..SmallBuffer

EmptyStream == [used |-> 0, pieces |-> << >>]

\* FixedBuffer::append
AppendText(s, mark, len) ==
    IF SmallBuffer - s.used > len
    THEN [used |-> s.used + len, pieces |-> Append(s.pieces, mark)] ELSE s

\* formatInteger, and operator<< of pointers and doubles
AppendNumber(s, mark, digits) ==
    IF SmallBuffer - s.used >= MaxNumericSize
    THEN [used |-> s.used + digits, pieces |-> Append(s.pieces, mark)] ELSE s

\* convert: the digits from the last on, with the remainder of a negative number
\* negative, then the sign
RECURSIVE DigitsOf(_, _)
DigitsOf(i, base) ==
    LET lsd == IF i < 0 THEN (-i) % base ELSE i % base
        rest == IF i < 0 THEN -((-i) \div base) ELSE i \div base
    IN  <<lsd>> \o (IF rest = 0 THEN << >> ELSE DigitsOf(rest, base))

Convert(value, base) == [negative |-> value < 0, digits |-> DigitsOf(value, base)]
=============================================================================
