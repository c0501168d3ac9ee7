-------------------------- MODULE ProtocolServers --------------------------
(***************************************************************************)
(* The servers built on TcpServer: HttpServer with the callback of         *)
(* server/SimpleServer.cc and the time wheel that closes idle connections, *)
(* and AddrBookServer with its codec and dispatcher.  One connection of    *)
(* one of them is followed from its first byte to its last: the peer sends *)
(* a stream, which the kernel cuts into pieces of any size; each piece is  *)
(* one call of the message callback.  The wheel is turned by the timer of  *)
(* the base loop, in another thread than the connection's.                 *)
(***************************************************************************)
EXTENDS ProtobufCodec, HttpContext

CONSTANTS
    WheelSize,      \* buckets of list_, 8 in the code
    MaxTicks,       \* bound on the runs of onTimer
    MaxPieces       \* bound on the cells that arrive at once

ASSUME ServersAssumption ==
    WheelSize \in Nat \ {0} /\ MaxTicks \in Nat /\ MaxPieces \in Nat \ {0}

-----------------------------------------------------------------------------
(* What peers send *)

Line(text) == <<text, CR, LF>>
RequestLine(method, path, version) ==
    Line(<<"request", [method |-> method, path |-> path, version |-> version]>>)
ConnectionHeader(v) == Line(<<"header", <<"Connection", v>>>>)
EndOfHeaders == <<CR, LF>>

\* A request with what must be answered: a status, and whether the server
\* closes; 400 if the request line is wrong.
Request(cells, status, close) == [cells |-> cells, answer |-> <<status, close>>]

Requests ==
    { Request(RequestLine("GET", "/hello", "HTTP/1.1") \o EndOfHeaders, 200, FALSE),
      Request(RequestLine("GET", "/", "HTTP/1.0") \o EndOfHeaders, 200, TRUE),
      Request(RequestLine("POST", "/", "HTTP/1.0") \o ConnectionHeader("Keep-Alive")
                \o EndOfHeaders, 200, FALSE),
      Request(RequestLine("GET", "/favicon.ico", "HTTP/1.1") \o ConnectionHeader("Keep-Alive")
                \o ConnectionHeader("close") \o EndOfHeaders, 200, TRUE),
      Request(RequestLine("GET", "/none", "HTTP/1.1") \o EndOfHeaders, 404, TRUE),
      Request(RequestLine("FETCH", "/", "HTTP/1.1") \o EndOfHeaders, 400, TRUE),
      Request(RequestLine("GET", "/", "HTTP/2.0") \o EndOfHeaders, 400, TRUE) }

Phone(number, type) == [number |-> <<number>>, type |-> type]
Person(email, phones) == [name |-> <<"ann">>, id |-> <<7>>, email |-> email, phones |-> phones]
Ann == [type |-> "Person",
        value |-> Person(<<"ann@x">>, <<Phone("1", <<2>>), Phone("2", << >>)>>)]
Book == [type |-> "AddressBook", value |-> [people |-> <<Person(<< >>, << >>)>>]]
Number == [type |-> "PhoneNumber", value |-> Phone("1", <<0>>)]
Nameless == [type |-> "Person", value |-> [Ann.value EXCEPT !.name = << >>]]

\* A frame with what must come of it: the message, or an error
Good(m) == [cells |-> FillEmptyBuffer(m), message |-> m, error |-> "kNoError"]
Bad(cells, error) == [cells |-> cells, error |-> error]

\* The frame of m with cell k replaced; with the checksum made right again
Damaged(m, k, cell) == [FillEmptyBuffer(m) EXCEPT ![k] = cell]
Forged(m, k, cell) ==
    LET f == Damaged(m, k, cell)
    IN  [f EXCEPT ![Len(f)] = CheckSum(SubSeq(f, HeaderLen + 1, Len(f) - 1))]

Frames ==
    { Good(Ann), Good(Book), Good(Number),
      Bad(FillEmptyBuffer(Nameless), "kParseError"),
      Bad(Damaged(Number, 1, IntCell(MaxMessageLen + 1)), "kInvalidLength"),
      Bad(Damaged(Number, 1, IntCell(MinMessageLen - 1)), "kInvalidLength"),
      Bad(Damaged(Number, 5, Field(1, "9")), "kCheckSumError"),
      Bad(Forged(Number, 2, IntCell(1)), "kInvalidNameLen"),
      Bad(Forged(Number, 2, IntCell(Len(FillEmptyBuffer(Number)) - 2)), "kInvalidNameLen"),
      Bad(Forged(Number, 3, <<"name", "Absent">>), "kUnknownMessageType") }

VARIABLES
    server,         \* "http" or "addrbook"
    items,          \* the requests or frames of the stream
    arrived,        \* cells of the stream that arrived
    input,          \* inputBuffer_ of the connection
    connected,      \* the connection is in kConnected
    context,        \* its HttpContext
    replies,        \* responses sent
    got, errors,    \* messages the dispatcher handed out, errors reported
    pc,             \* "new", "idle", or "message": in onMessage, before the wheel
    ptr,            \* in onMessage: the Entry was locked
    ticks,          \* runs of onTimer
    wheel,          \* slots of list_ whose bucket holds the Entry
    tail,           \* the slot stored by setTimeWheelTail
    quiet,          \* history: ticks since onConnection or the last onMessage
    skipped,        \* history: a message left no trace in its bucket
    answered,       \* history: the last message was one that got a response
    aborted         \* the assertion of setMethod failed

session == <<server, items, arrived, input, connected>>
http == <<context, replies, answered, aborted>>
codec == <<got, errors>>
wheelVars == <<ptr, ticks, wheel, tail, quiet, skipped>>
vars == <<session, http, codec, pc, wheelVars>>

Flatten(s) == FlattenSeq([k \in DOMAIN s |-> s[k].cells])
Stream == Flatten(items)

\* Streams of one and two items; after a wrong frame or request comes nothing new
Streams(S) == {<<a>> : a \in S} \cup {<<a, b>> : a, b \in S}

Init ==
    /\ \/ server = "http" /\ items \in Streams(Requests)
       \/ server = "addrbook" /\ items \in Streams(Frames)
    /\ arrived = 0 /\ input = EmptyBuffer /\ connected = TRUE
    /\ context = NewContext /\ replies = << >> /\ got = << >> /\ errors = << >>
    /\ pc = "new" /\ ptr = FALSE /\ ticks = 0 /\ wheel = {} /\ tail = 0
    /\ quiet = 0 /\ skipped = FALSE /\ answered = FALSE /\ aborted = FALSE

\* The slot of the last bucket of list_
Back == (ticks - 1) % WheelSize

-----------------------------------------------------------------------------
(* HttpServer *)

\* Wrong variant: the time is counted, the bucket stays.
OnTimerKeepsBucket ==
    /\ server = "http" /\ ticks < MaxTicks /\ ~aborted
    /\ ticks' = ticks + 1
    /\ quiet' = IF pc # "new" /\ quiet < WheelSize THEN quiet + 1 ELSE quiet
    /\ UNCHANGED <<session, http, codec, pc, ptr, wheel, tail, skipped>>

\* onTimer: the new bucket replaces the oldest; an Entry that loses its last
\* pointer with it shuts the connection down
OnTimer ==
    /\ server = "http" /\ ticks < MaxTicks /\ ~aborted
    /\ ticks' = ticks + 1
    /\ wheel' = wheel \ {ticks % WheelSize}
    /\ connected' = (connected /\ (wheel = {} \/ wheel' # {} \/ ptr))
    /\ quiet' = IF pc # "new" /\ quiet < WheelSize THEN quiet + 1 ELSE quiet
    /\ UNCHANGED <<server, items, arrived, input, http, codec, pc, ptr, tail, skipped>>

\* onConnection, after the first tick: before it list_ is empty and has no back
OnConnection ==
    /\ pc = "new" /\ pc' = "idle"
    /\ IF server = "http"
       THEN ticks > 0 /\ wheel' = {Back} /\ tail' = Back
       ELSE UNCHANGED <<wheel, tail>>
    /\ UNCHANGED <<session, http, codec, ptr, ticks, quiet, skipped>>

\* handleRead: a piece of the stream is read; onMessage locks the Entry
Receive ==
    /\ pc = "idle" /\ ~aborted
    /\ \E n \in 1..MaxPieces :
         /\ arrived + n <= Len(Stream)
         /\ n <= WritableBytes(input) + ExtraSize
         /\ input' = ReadFd(input, SubSeq(Stream, arrived + 1, arrived + n))
         /\ arrived' = arrived + n
    /\ pc' = "message" /\ ptr' = (wheel # {})
    /\ UNCHANGED <<server, items, connected, http, codec, ticks, wheel, tail, quiet,
                   skipped>>

\* Wrong variant: the bucket of the connection's first tick is never used again,
\* and neither is any other.
TouchNever == UNCHANGED <<wheel, skipped>>

\* onMessage: the Entry is put into the last bucket, unless that is the one it
\* was put into by onConnection - or has come to lie in the same slot
Touch ==
    /\ wheel' = IF ptr /\ Back # tail THEN wheel \cup {Back} ELSE wheel
    /\ skipped' = (skipped \/ (ptr /\ Back = tail /\ Back \notin wheel))

\* SimpleServer's onRequest
HttpCallback(path) ==
    IF path \in {"/", "/favicon.ico", "/hello"}
    THEN [status |-> 200, closes |-> FALSE] ELSE [status |-> 404, closes |-> TRUE]

\* Wrong variant: HTTP/1.0 is taken to keep the connection.
KeepsAlive10(req) == GetHeader(req, "Connection") = "close"

\* onRequest: whether the peer wants the connection closed
WantsClose(req) ==
    \/ GetHeader(req, "Connection") = "close"
    \/ req.version = "HTTP/1.0" /\ GetHeader(req, "Connection") # "Keep-Alive"

\* onRequest: the response; an HttpResponse closes if the peer or the callback says so
Response(req) ==
    LET answer == HttpCallback(req.path)
    IN  <<answer.status, WantsClose(req) \/ answer.closes>>

\* Wrong variant: the context keeps the request it has answered.
ContextKept(parsed) ==
    IF parsed.state = "kGotAll" THEN [parsed EXCEPT !.state = "kExpectRequestLine"] ELSE parsed

\* The context after a call: reset() once its request is complete
ContextAfter(parsed) == IF parsed.state = "kGotAll" THEN NewContext ELSE parsed

\* HttpServer::onMessage from the wheel on: at most one request is taken from
\* the buffer.  send() does nothing once shutdown() was called; the local
\* pointer to the Entry goes at the end
OnMessage ==
    LET parsed == ParseRequest(context, input)
        reply == IF ~parsed.ok THEN <<400, TRUE>> ELSE Response(parsed.context.request)
        gotAll == parsed.context.state = "kGotAll"
        replying == ~parsed.ok \/ gotAll
    IN
    /\ server = "http" /\ pc = "message" /\ pc' = "idle"
    /\ Touch
    /\ aborted' = parsed.fails
    /\ input' = parsed.buffer
    /\ context' = ContextAfter(parsed.context)
    /\ replies' = IF replying /\ connected /\ ~parsed.fails
                  THEN Append(replies, reply) ELSE replies
    /\ answered' = gotAll
    /\ connected' = /\ connected /\ ~(replying /\ reply[2])
                    /\ ~(ptr /\ wheel' = {})
    /\ ptr' = FALSE /\ quiet' = 0
    /\ UNCHANGED <<server, items, arrived, codec, ticks, tail>>

-----------------------------------------------------------------------------
(* AddrBookServer *)

\* ProtobufCodec::onMessage with the server's callbacks: each of them, and
\* defaultErrorCallback, shuts the connection down
OnFrames ==
    LET decoded == DecodeFrames(input, got) IN
    /\ server = "addrbook" /\ pc = "message" /\ pc' = "idle"
    /\ input' = decoded.buffer /\ got' = decoded.got
    /\ errors' = IF decoded.error = "kNoError" THEN errors
                 ELSE Append(errors, decoded.error)
    /\ connected' = (connected /\ decoded.error = "kNoError" /\ decoded.got = got)
    /\ ptr' = FALSE
    /\ UNCHANGED <<server, items, arrived, http, ticks, wheel, tail, quiet, skipped>>

Next == OnTimer \/ OnConnection \/ Receive \/ OnMessage \/ OnFrames

Spec == Init /\ [][Next]_vars

-----------------------------------------------------------------------------
(* Properties *)

\* Position of the last cell of item k in the stream
EndOf(k) == Len(Flatten(SubSeq(items, 1, k)))

\* The items before the first that ends the exchange, and that one
Served(Ends(_)) ==
    {k \in 1..Len(items) : \A j \in 1..(k - 1) : ~Ends(items[j])}

\* However the stream is cut and the buffer moves its data, the dispatcher gets
\* exactly the messages whose frames have arrived, each as it was serialized and
\* in order, up to the first wrong frame; that one is reported as what it is,
\* and nothing after it is handed out (ProtobufCodec::onMessage).
FramesDecoded ==
    LET wrong(f) == f.error # "kNoError"
        good == {k \in Served(wrong) : ~wrong(items[k]) /\ EndOf(k) <= arrived}
        n == IF good = {} THEN 0 ELSE CHOOSE k \in good : \A j \in good : j <= k
    IN  server = "addrbook" /\ pc = "idle" =>
          /\ got = [k \in 1..n |-> Dispatch(items[k].message)]
          /\ \A i \in 1..Len(errors) : \E k \in Served(wrong) : errors[i] = items[k].error
          /\ (\E k \in Served(wrong) : wrong(items[k]) /\ EndOf(k) <= arrived) => errors # << >>

\* However the stream is cut, requests are answered in order and once, with the
\* status and the fate of the connection that each of them asks for; after a
\* response that closes, or 400, there is no other; and a request that has
\* arrived waits for the next piece only if the call that could have answered
\* it answered another (HttpServer::onMessage takes one request per call).
RequestsAnswered ==
    LET last(r) == r.answer[2]
        complete == {k \in Served(last) : EndOf(k) <= arrived}
    IN  server = "http" =>
          /\ Len(replies) \in {0} \cup Served(last)
          /\ \A i \in 1..Len(replies) : replies[i] = items[i].answer
          /\ pc = "idle" /\ connected /\ ~aborted =>
               \A k \in complete : k > Len(replies) => answered

\* The assertion of setMethod fails only when more arrives after a request line
\* with a right method and a wrong version: that line stays in the buffer and
\* its method in the request, and both are met again.  No other stream, however
\* it is cut, brings the server down.
AssertHolds ==
    aborted => \E k \in 1..Len(items) :
                 LET line == items[k].cells[1][2] IN
                 /\ line.method \in Methods /\ line.version \notin Versions
                 /\ EndOf(k - 1) + Len(Line(line)) < arrived

\* A connection that has been quiet for as many ticks as the wheel has buckets
\* is shut down, whatever the timer and the last message did to each other.
IdleClosed ==
    server = "http" /\ pc = "idle" /\ quiet >= WheelSize => ~connected

\* The wheel shuts down no connection whose last message found the wheel where
\* onConnection had not seen it: only when the last bucket lies in the slot that
\* was stored then does a message leave no trace.
ActiveKept ==
    [][ connected /\ ~connected' /\ ticks' # ticks => quiet' >= WheelSize \/ skipped ]_vars
=============================================================================
