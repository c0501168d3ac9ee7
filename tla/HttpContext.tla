---------------------------- MODULE HttpContext ----------------------------
(***************************************************************************)
(* net/http: HttpContext reads a request line by line from the input       *)
(* buffer into an HttpRequest.  A cell is the text of a line or one of the *)
(* characters CR and LF, which may arrive apart.  A text is                *)
(*     <<"request", [method, path, version]>>, <<"header", <<field, value>>>> *)
(* or <<"text", s>>, a line without a colon.                               *)
(***************************************************************************)
EXTENDS Buffer, TLC

CR == <<"cr", 0>>
LF == <<"lf", 0>>

Methods == {"GET", "POST", "HEAD", "PUT", "DELETE"}
Versions == {"HTTP/1.0", "HTTP/1.1"}

\* HttpRequest()
NoRequest == [method |-> "kInvalid", version |-> "kUnknown", path |-> "", headers |-> << >>]

\* HttpContext(), reset()
NewContext == [state |-> "kExpectRequestLine", request |-> NoRequest]

\* findCRLF: where CR LF begins; 0: it is not there yet
FindCRLF(cells) ==
    LET found == {k \in 1..(Len(cells) - 1) : cells[k] = CR /\ cells[k + 1] = LF}
    IN  IF found = {} THEN 0 ELSE CHOOSE k \in found : \A j \in found : k <= j

\* setMethod: kInvalid if it is none of the five
SetMethod(req, method) ==
    [req EXCEPT !.method = IF method \in Methods THEN method ELSE "kInvalid"]

\* processRequestLine: the request afterwards, and whether the line was right.
\* The method is kept even if the rest of the line is wrong
ProcessRequestLine(req, line) ==
    IF line = << >> \/ Head(line)[1] # "request" THEN [ok |-> FALSE, request |-> req]
    ELSE LET text == Head(line)[2]
             withMethod == SetMethod(req, text.method)
             ok == withMethod.method # "kInvalid" /\ text.version \in Versions
         IN  [ok |-> ok,
              request |-> IF withMethod.method = "kInvalid" THEN withMethod
                          ELSE [withMethod EXCEPT
                                  !.path = text.path,
                                  !.version = IF ok THEN text.version ELSE @]]

\* The assertion of setMethod: a line was read into this request before
MethodAssertFails(req, line) ==
    line # << >> /\ Head(line)[1] = "request" /\ req.method # "kInvalid"

\* addHeader: the last value of a field counts
AddHeader(req, header) == [req EXCEPT !.headers = (header[1] :> header[2]) @@ @]

GetHeader(req, field) ==
    IF field \in DOMAIN req.headers THEN req.headers[field] ELSE ""

\* One round of the loop of parseRequest, on what the loop has so far
ParseLine(p) ==
    LET context == p.context
        cells == Readable(p.buffer)
        crlf == FindCRLF(cells)
        line == SubSeq(cells, 1, crlf - 1)
        rest == Retrieve(p.buffer, crlf + 1)
        first == ProcessRequestLine(context.request, line)
    IN
    IF crlf = 0 THEN [p EXCEPT !.hasMore = FALSE]
    ELSE IF context.state = "kExpectRequestLine"
    THEN IF MethodAssertFails(context.request, line)
         THEN [p EXCEPT !.hasMore = FALSE, !.ok = FALSE, !.fails = TRUE]
         ELSE IF ~first.ok
         THEN [p EXCEPT !.hasMore = FALSE, !.ok = FALSE, !.context.request = first.request]
         ELSE [p EXCEPT !.buffer = rest,
                        !.context = [state |-> "kExpectHeaders", request |-> first.request]]
    ELSE IF line # << >> /\ Head(line)[1] = "header"
    THEN [p EXCEPT !.buffer = rest, !.context.request = AddHeader(@, Head(line)[2])]
    ELSE [p EXCEPT !.hasMore = FALSE, !.buffer = rest, !.context.state = "kGotAll"]

\* parseRequest: lines are taken from the buffer until the request is complete,
\* a line is incomplete or the request line is wrong, which stays.  Every round
\* but the last takes a line, so the loop has no more rounds than there are cells.
ParseRequest(context, b) ==
    LET loop[n \in 0..ReadableBytes(b)] ==
            IF n = 0
            THEN [ok |-> TRUE, context |-> context, buffer |-> b, fails |-> FALSE,
                  hasMore |-> TRUE]
            ELSE LET p == loop[n - 1] IN IF p.hasMore THEN ParseLine(p) ELSE p
    IN  loop[ReadableBytes(b)]
=============================================================================
