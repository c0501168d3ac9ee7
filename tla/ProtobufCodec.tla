--------------------------- MODULE ProtobufCodec ---------------------------
(***************************************************************************)
(* net/protobuf/codec: ProtobufCodec cuts the input of a connection into   *)
(* frames                                                                  *)
(*     len | nameLen | typeName \0 | data | checkSum                       *)
(* and ProtobufDispatcher hands each message to the callback of its type.  *)
(* A cell holds an integer of the frame, the name, the closing zero or a   *)
(* field; sizes are counted in cells, and the checksum of some cells is    *)
(* the cells themselves, as adler32 is taken to tell them apart.           *)
(***************************************************************************)
EXTENDS Buffer, AddressBook

CONSTANTS
    MaxMessageLen,      \* kMaxMessageLen
    Registered          \* types with a callback in the dispatcher

ASSUME CodecAssumption == MaxMessageLen \in Nat /\ Registered \subseteq Pool

HeaderLen == 1                      \* kHeaderLen
MinMessageLen == 2 * HeaderLen + 2  \* kMinMessageLen
NameLen == 2                        \* a type name with its zero

IntCell(n) == <<"int", n>>

\* asInt32, peekInt32: the number in a cell; other bytes make some number too
AsInt32(cell) ==
    IF cell[1] = "int" /\ cell[2] \in Int THEN cell[2] ELSE CHOOSE n \in Int : TRUE

CheckSum(cells) == <<"sum", cells>>

\* fillEmptyBuffer: the cells that are sent for message m
FillEmptyBuffer(m) ==
    LET body == <<IntCell(NameLen), <<"name", m.type>>, <<"nul", 0>>>> \o Serialize(m)
        full == AppendTo(AppendTo(EmptyBuffer, body), <<CheckSum(body)>>)
    IN  Readable(Prepend(full, <<IntCell(ReadableBytes(full))>>))

\* parse of the frame without its length: the message or the error
Parse(frame) ==
    LET len == Len(frame)
        nameLen == AsInt32(frame[1])
        type == frame[2][2]
        value == ParseFromArray(type, SubSeq(frame, HeaderLen + nameLen + 1, len - HeaderLen))
    IN
    IF frame[len] # CheckSum(SubSeq(frame, 1, len - HeaderLen))
    THEN [error |-> "kCheckSumError"]
    ELSE IF nameLen < 2 \/ nameLen > len - 2 * HeaderLen THEN [error |-> "kInvalidNameLen"]
    ELSE IF type \notin Pool THEN [error |-> "kUnknownMessageType"]
    ELSE IF ~IsInitialized(type, value) THEN [error |-> "kParseError"]
    ELSE [error |-> "kNoError", message |-> [type |-> type, value |-> value]]

\* onProtobufMessage: which callback gets the message
Dispatch(m) == <<IF m.type \in Registered THEN m.type ELSE "default", m>>

\* The frame whose length is at the front is complete
FrameArrived(b, len) == ReadableBytes(b) >= HeaderLen + len

\* One round of the loop of ProtobufCodec::onMessage, on what the loop has so far
DecodeFrame(d) ==
    LET len == AsInt32(Readable(d.buffer)[1])
        result == Parse(SubSeq(Readable(d.buffer), HeaderLen + 1, HeaderLen + len))
        break(error) == [d EXCEPT !.error = error, !.more = FALSE]
    IN
    IF ReadableBytes(d.buffer) < HeaderLen + MinMessageLen THEN break("kNoError")
    ELSE IF len > MaxMessageLen \/ len < MinMessageLen THEN break("kInvalidLength")
    ELSE IF ~FrameArrived(d.buffer, len) THEN break("kNoError")
    ELSE IF result.error # "kNoError" THEN break(result.error)
    ELSE [d EXCEPT !.buffer = Retrieve(@, HeaderLen + len),
                   !.got = Append(@, Dispatch(result.message))]

\* ProtobufCodec::onMessage: frames are taken from the front of the buffer
\* until one is incomplete or wrong; a wrong one stays.  got is what the
\* callbacks have received so far.  A round that is not the last takes a frame.
DecodeFrames(b, got) ==
    LET loop[n \in 0..ReadableBytes(b)] ==
            IF n = 0 THEN [buffer |-> b, got |-> got, error |-> "kNoError", more |-> TRUE]
            ELSE LET d == loop[n - 1] IN IF d.more THEN DecodeFrame(d) ELSE d
    IN  loop[ReadableBytes(b)]
=============================================================================
