----------------------------- MODULE Connection -----------------------------
(***************************************************************************)
(* One Connection object (connection.h/.cc), the TCP stream it reads and   *)
(* the client at the other end.                                            *)
(*                                                                         *)
(* Boost.Asio runs the completion handlers of a connection one at a time:  *)
(* each handler starts at most one asynchronous operation, and the next    *)
(* handler is the completion of that one.  op is the pending operation, an *)
(* action below is a whole completion handler with everything it calls.    *)
(*                                                                         *)
(* The bytes are abstracted to units: "head", a request line and headers   *)
(* without the blank line that ends them; "end", the characters            *)
(* \r\n\r\n; "nul", a zero byte; "byte", any other body byte that is not   *)
(* white space.  Content-Length counts units.  Positions in the stream     *)
(* stand for the data itself: a body is the set of positions it came from. *)
(***************************************************************************)
EXTENDS Integers, Sequences, FiniteSets, Response, ServerStatus

CONSTANTS
  Requests,     \* the requests the client may send (records of Request)
  MaxRequests,  \* bound: requests the client sends on this connection
  Pipelining,   \* whether the client sends a request before the last reply
  WriteMax      \* units one async_write_some can hand to the kernel

NoContentLength  == -1       \* the header is missing
BadContentLength == -2       \* the header's value is not a number

\* What a handler leaves behind.  ret is "noroute" when no handler matches.
Outcome ==
  [ret: {"ok", "handle_fail", "noroute"},
   status: {0, 400, 404, 500},\* the status set before a handle_fail
   raw: {"none", "close", "keep-alive"},
                              \* SetRawResponse (ProxyHandler): the origin's header
   is_image: BOOLEAN,
   size: Nat \ {0}]           \* units of the serialised response

Request ==
  [valid: BOOLEAN,            \* the request line and the headers are well formed
   uri: Uris,
   close: BOOLEAN,            \* "Connection: close"
   accept: SUBSET {"gzip", "deflate"},
   length: Nat \cup {NoContentLength, BadContentLength},
   body: Seq({"byte", "nul", "end"}),
   outcome: Outcome]

ASSUME RequestsAssumption == Requests \subseteq Request
ASSUME BoundsAssumption ==
  MaxRequests \in Nat /\ Pipelining \in BOOLEAN /\ WriteMax \in Nat \ {0}

VARIABLES
  stream,      \* the units the client has written to its socket
  recv,        \* how many of them have been read into buffer_
  cons,        \* how many of those have been taken out of buffer_
  op,          \* the pending operation, "none" once the socket is closed
  request,     \* the request member: [head, first, body] as positions
  need,        \* left_content_length of the pending do_read_body
  response,    \* the response member
  left,        \* units of the reply not yet handed to the kernel
  inflight,    \* units handed to the kernel and not yet read by the client
  status,      \* the ServerStatus counters
  log,         \* history: the replies, each with the request it answers
  issued,      \* number of requests the client has written
  client_open  \* the client has not closed its end

clientVars == <<stream, issued, client_open>>
replyVars == <<response, left, inflight, status, log>>
vars == <<stream, recv, cons, op, request, need, response, left, inflight,
          status, log, issued, client_open>>

-----------------------------------------------------------------------------
Kind(i) == stream[i].kind

\* The request whose head is at position i.
RequestAt(i) == stream[i].request

\* Members of `request`; a default constructed Request has no headers.
Parsed == request.head # 0
WantsClose == Parsed /\ RequestAt(request.head).close

ContentLength(r) == IF r.length = NoContentLength THEN 0 ELSE r.length

\* The units of a request on the wire.
Wire(r) ==
  <<[kind |-> "head", request |-> r], [kind |-> "end"]>>
    \o [i \in 1..Len(r.body) |-> [kind |-> r.body[i]]]

\* Replies the client has been sent completely.
Replies == IF op = "write" /\ left > 0 THEN Len(log) - 1 ELSE Len(log)

(***************************************************************************)
(* Request::Parse on the units lo..hi.  The regular expressions are        *)
(* matched against c_str(), so the text stops before the first zero byte.  *)
(* The greedy (.+) makes the LAST blank line of the text the end of the    *)
(* headers; any other blank line then leaves an empty header line, which   *)
(* no header matches.  Body bytes left over from an earlier request stick  *)
(* to the method, which may be any \S+.  So Parse succeeds iff the text is *)
(* byte* head end with no further end, and the rest of it is the body.     *)
(***************************************************************************)
InText(lo, i) == \A j \in lo..i : Kind(j) # "nul"

ParsedHeads(lo, hi) ==
  {h \in lo..hi :
     /\ Kind(h) = "head" /\ RequestAt(h).valid
     /\ \A j \in lo..(h - 1) : Kind(j) = "byte"
     /\ h < hi
     /\ \A j \in lo..hi : InText(lo, j) /\ Kind(j) = "end" <=> j = h + 1}

ParsedBody(lo, hi, h) == {j \in (h + 2)..hi : InText(lo, j)}

HasEnd == \E i \in (cons + 1)..recv : Kind(i) = "end"
-----------------------------------------------------------------------------
Init ==
  /\ stream = <<>> /\ recv = 0 /\ cons = 0
  /\ op = "read_until"                     \* start() calls do_read_partial()
  /\ request = [head |-> 0, first |-> 0, body |-> {}]
  /\ need = 0
  /\ response = Cleared
  /\ left = 0 /\ inflight = 0
  /\ status = InitialStatus
  /\ log = <<>>
  /\ issued = 0 /\ client_open = TRUE

(***************************************************************************)
(* The client.  It writes whole requests, which the network cuts up as it  *)
(* likes, and none after one that asked for the connection to be closed.   *)
(***************************************************************************)
ClientRequest(r) ==
  /\ client_open /\ issued < MaxRequests
  /\ Pipelining \/ (Replies = issued /\ inflight = 0)
  /\ \A i \in 1..Len(stream) : Kind(i) = "head" => ~RequestAt(i).close
  /\ stream' = stream \o Wire(r)
  /\ issued' = issued + 1
  /\ UNCHANGED <<recv, cons, op, request, need, replyVars, client_open>>

ClientRead ==
  /\ client_open /\ inflight > 0
  /\ inflight' = inflight - 1
  /\ UNCHANGED <<clientVars, recv, cons, op, request, need,
                 response, left, status, log>>

ClientClose ==
  /\ client_open
  /\ client_open' = FALSE
  /\ UNCHANGED <<stream, issued, recv, cons, op, request, need, replyVars>>

(***************************************************************************)
(* Asio's reads.  async_read_until reads as much as there is, past the     *)
(* delimiter too; async_read with transfer_exactly never reads too much.   *)
(***************************************************************************)
Receive(n) ==
  /\ recv + n <= Len(stream)
  /\ \/ op = "read_until" /\ ~HasEnd
     \/ op = "read" /\ recv + n <= cons + need
  /\ recv' = recv + n
  /\ UNCHANGED <<clientVars, cons, op, request, need, replyVars>>

(***************************************************************************)
(* ProcessRequest, and the error handler when it returns false.  Which     *)
(* handler runs is the subject of module ProcessRequest.                   *)
(***************************************************************************)
Processed(out) ==
  CASE out.ret = "ok" /\ out.raw # "none" -> [Cleared EXCEPT !.raw = out.raw]
    [] out.ret = "ok" /\ out.raw = "none" ->
         WithBody([response EXCEPT !.status = 200, !.is_image = out.is_image],
                  Plain("content"))
    [] out.ret = "handle_fail" ->
         ErrorHandler([response EXCEPT !.status = out.status])
    [] out.ret = "noroute" ->
         ErrorHandler([response EXCEPT !.status = 400])

\* Mutant: the Connection header of the reply does not follow the request.
Finished_KeepAlive(resp, close, accept) ==
  LET r == [resp EXCEPT !.connection = "keep-alive"]
  IN  IF r.is_image THEN r ELSE compress_payload(r, accept)

\* The Connection header and the body as do_write sets them, whether or not
\* ToString then sends them (SentConnection).
Finished(resp, close, accept) ==
  LET r == [resp EXCEPT !.connection = IF close THEN "close" ELSE "keep-alive"]
  IN  IF r.is_image THEN r ELSE compress_payload(r, accept)

\* What the first async_write_some takes.
FirstWrite(size) == IF size <= WriteMax - inflight THEN size ELSE WriteMax - inflight

(***************************************************************************)
(* do_write for response resp and the request member req (its new value).  *)
(* async_write is given the characters of a temporary string.  Its first   *)
(* async_write_some is attempted before async_write returns, while the     *)
(* string still exists; whatever that one cannot take is sent later, from  *)
(* freed memory (action WriteRest).                                        *)
(***************************************************************************)
do_write(resp, req, size, answered) ==
  LET parsed == req.head # 0
      r      == RequestAt(req.head)
      n      == FirstWrite(size)
      reply  == Finished(resp, parsed /\ r.close, IF parsed THEN r.accept ELSE {})
  IN  /\ status' = insertRecord(status,
                                IF parsed THEN r.uri ELSE Unsuccessful,
                                resp.status)
      /\ response' = reply
      /\ inflight' = inflight + n
      /\ left' = size - n
      /\ op' = "write"
      /\ log' = Append(log, [head |-> answered,
                             first |-> IF answered = 0 THEN cons + 1 ELSE req.first,
                             body |-> IF answered = 0 THEN {} ELSE req.body,
                             reply |-> reply])

ReplySize(out) == IF out.ret = "ok" THEN out.size ELSE 1

(***************************************************************************)
(* handle_read_partial, one action for each of its four ways out.  All of  *)
(* buffer_ is consumed in each of them.                                    *)
(***************************************************************************)
\* Parse returns nullptr: the request member keeps the PREVIOUS request.
HandleReadPartialBad ==
  /\ op = "read_until" /\ HasEnd
  /\ ParsedHeads(cons + 1, recv) = {}
  /\ cons' = recv
  /\ do_write(ErrorHandler([response EXCEPT !.status = 400]), request, 1, 0)
  /\ UNCHANGED <<clientVars, recv, request, need>>

\* lexical_cast throws; nothing catches it on a pool thread.
HandleReadPartialThrow ==
  /\ op = "read_until" /\ HasEnd
  /\ \E h \in ParsedHeads(cons + 1, recv) :
       RequestAt(h).length = BadContentLength
  /\ cons' = recv
  /\ op' = "terminated"
  /\ UNCHANGED <<clientVars, recv, request, need, replyVars>>

\* The request as handle_read_partial assigns it.
ParsedRequest(h) ==
  [head |-> h, first |-> cons + 1, body |-> ParsedBody(cons + 1, recv, h)]

\* Mutant: the last of the characters that end the headers is counted.
BodyLength_OneMore(h) == Cardinality(ParsedBody(cons + 1, recv, h)) + 1

\* request.body().length(): a body is an interval of positions.
BodyLength(h) == Cardinality(ParsedBody(cons + 1, recv, h))

HandleReadPartialMore ==
  /\ op = "read_until" /\ HasEnd
  /\ \E h \in ParsedHeads(cons + 1, recv) :
       LET missing == ContentLength(RequestAt(h)) - BodyLength(h)
       IN  /\ RequestAt(h).length # BadContentLength
           /\ missing > 0
           /\ request' = ParsedRequest(h)
           /\ need' = missing
  /\ cons' = recv
  /\ op' = "read"
  /\ UNCHANGED <<clientVars, recv, replyVars>>

\* Mutant: buffer_ is not consumed.
HandleReadPartialWhole_KeepsBuffer ==
  /\ op = "read_until" /\ HasEnd
  /\ \E h \in ParsedHeads(cons + 1, recv) :
       LET r == RequestAt(h)
       IN  /\ r.length # BadContentLength
           /\ ContentLength(r) <= BodyLength(h)
           /\ request' = ParsedRequest(h)
           /\ do_write(Processed(r.outcome), ParsedRequest(h),
                       ReplySize(r.outcome), h)
  /\ UNCHANGED <<clientVars, recv, cons, need>>

HandleReadPartialWhole ==
  /\ op = "read_until" /\ HasEnd
  /\ \E h \in ParsedHeads(cons + 1, recv) :
       LET r == RequestAt(h)
       IN  /\ r.length # BadContentLength
           /\ ContentLength(r) <= BodyLength(h)
           /\ request' = ParsedRequest(h)
           /\ do_write(Processed(r.outcome), ParsedRequest(h),
                       ReplySize(r.outcome), h)
  /\ cons' = recv
  /\ UNCHANGED <<clientVars, recv, need>>

\* handle_read_body: AppendBody, then as above.
HandleReadBody ==
  /\ op = "read" /\ recv = cons + need
  /\ LET r   == RequestAt(request.head)
         req == [request EXCEPT !.body = @ \cup ((cons + 1)..recv)]
     IN  /\ request' = req
         /\ do_write(Processed(r.outcome), req, ReplySize(r.outcome), req.head)
  /\ cons' = recv
  /\ need' = 0
  /\ UNCHANGED <<clientVars, recv>>

\* Either read handler with an error: end of file, or a reset connection.
HandleReadError ==
  /\ \/ op = "read_until" /\ ~HasEnd
     \/ op = "read" /\ recv < cons + need
  /\ ~client_open
  /\ op' = "none"
  /\ UNCHANGED <<clientVars, recv, cons, request, need, replyVars>>

(***************************************************************************)
(* The rest of the reply, once the kernel takes more.  The string it is    *)
(* read from no longer exists: how much is sent is certain, what is not.   *)
(***************************************************************************)
WriteRest ==
  /\ op = "write" /\ left > 0 /\ inflight < WriteMax
  /\ left' = left - 1
  /\ inflight' = inflight + 1
  /\ UNCHANGED <<clientVars, recv, cons, op, request, need, response, status, log>>

\* Mutant: handle_write always closes.
HandleWrite_Closes ==
  /\ op = "write" /\ left = 0
  /\ op' = "none"
  /\ UNCHANGED <<clientVars, recv, cons, request, need, replyVars>>

\* Mutant: handle_write never closes.
HandleWrite_ReadsOn ==
  /\ op = "write" /\ left = 0
  /\ op' = "read_until" /\ response' = Cleared
  /\ UNCHANGED <<clientVars, recv, cons, request, need,
                 left, inflight, status, log>>

\* handle_write without error: close, or do_read_partial.
HandleWrite ==
  /\ op = "write" /\ left = 0
  /\ IF WantsClose THEN op' = "none" /\ UNCHANGED response
                   ELSE op' = "read_until" /\ response' = Cleared
  /\ UNCHANGED <<clientVars, recv, cons, request, need,
                 left, inflight, status, log>>

HandleWriteError ==
  /\ op = "write" /\ ~client_open
  /\ op' = "none"
  /\ UNCHANGED <<clientVars, recv, cons, request, need, replyVars>>

-----------------------------------------------------------------------------
ClientStep == (\E r \in Requests : ClientRequest(r)) \/ ClientClose

Completion ==
  \/ HandleReadPartialBad \/ HandleReadPartialThrow
  \/ HandleReadPartialMore \/ HandleReadPartialWhole
  \/ HandleReadBody \/ HandleReadError
  \/ HandleWrite \/ HandleWriteError

Transport ==
  \/ \E n \in 1..(Len(stream) - recv) : Receive(n)
  \/ WriteRest
  \/ ClientRead

Next == ClientStep \/ Transport \/ Completion

Spec == Init /\ [][Next]_vars

(***************************************************************************)
(* The kernel delivers what was sent, io_service::run calls the handler of *)
(* every completed operation, and the client reads what it is sent.  The   *)
(* client need neither send nor close.                                     *)
(***************************************************************************)
Fairness == WF_vars(Transport) /\ WF_vars(Completion)

FairSpec == Spec /\ Fairness

-----------------------------------------------------------------------------
(***************************************************************************)
(* Properties.                                                             *)
(***************************************************************************)
Unit ==
  [kind: {"end", "byte", "nul"}] \cup [kind: {"head"}, request: Requests]

RequestMember == [head: Nat, first: Nat, body: SUBSET Nat]

LogEntry == [head: Nat, first: Nat, body: SUBSET Nat, reply: ResponseType]

\* The type invariant of the connection and its environment.
TypeOK ==
  /\ stream \in Seq(Unit)
  /\ recv \in Nat /\ cons \in Nat
  /\ op \in {"read_until", "read", "write", "none", "terminated"}
  /\ request \in RequestMember
  /\ need \in Nat
  /\ response \in ResponseType
  /\ left \in Nat /\ inflight \in Nat
  /\ status \in StatusType
  /\ log \in Seq(LogEntry)
  /\ issued \in Nat /\ client_open \in BOOLEAN

\* However the stream is cut up and whatever the client pipelines, requests
\* are handled in the order they were sent and none is handled twice: every
\* handler run of handle_read_partial or handle_read_body takes its head from
\* beyond the heads handled before.
OnceInOrder ==
  \A i, j \in 1..Len(log) :
    i < j /\ log[j].head # 0 => log[i].head < log[j].head

\* A request that asks for the connection to be closed is the last one that
\* is answered.  do_write and handle_write consult the request member, which
\* a failed Parse leaves at the previous request; this says that the stale
\* value never matters.
NothingAfterClose ==
  \A i \in 1..Len(log) :
    i < Len(log) /\ log[i].head # 0 => ~RequestAt(log[i].head).close

\* handle_write closes the socket exactly when the reply it follows announced
\* "Connection: close" to the client, for as long as the client is there to
\* see it.  The header is chosen by do_write and the socket closed by
\* handle_write, each from the request member as it then is.  Replies that are
\* relayed are excepted: they announce what their origin does, whatever the
\* request asked for.
ClosesAsAnnounced ==
  [][op = "write" /\ op' # "write" /\ client_open /\ response.raw = "none"
       => (op' = "none" <=> SentConnection(response) = "close")]_vars

\* Every reply that is not relayed is consistent in itself: Content-Length is
\* that of the body actually sent, Content-Encoding is the coding the body
\* went through, and the page of an error reply is the one for the code on its
\* status line.  The header is set by the handlers and again by the
\* compression, the three by different switch statements.
RepliesConsistent ==
  \A i \in 1..Len(log) :
    LET r == log[i].reply
        PageOf(code) == CASE code = 404 -> "not_found"
                          [] code = 400 -> "bad_request"
                          [] code = 500 -> "internal_server_error"
                          [] OTHER -> "content"
    IN  r.raw = "none" =>
          /\ r.content_length = r.body
          /\ r.content_encoding = r.body.coding
          /\ r.body.page = PageOf(status_to_string(r.status))

\* The status page counts every reply once, under the code on its status line
\* (insertRecord is called by do_write for each reply); a relayed response has
\* status none and counts as 500, whatever the origin's code is.
StatusCountsReplies ==
  /\ status.total_visit = Len(log)
  /\ \A c \in {200, 400, 404, 500} :
       status.status_code_count[responseToString(c)] =
         Cardinality({i \in 1..Len(log) : status_to_string(log[i].reply.status) = c})

\* How many heads there are among the first p units.
HeadNumber(p) == Cardinality({q \in 1..p : Kind(q) = "head"})

\* The i-th reply answers the i-th request: it was handled with exactly the
\* head and the Content-Length bytes that were sent, or it was refused because
\* its own head is malformed.  For one request at a time, wherever the network
\* cuts the stream, until a body holds a blank line or a zero byte.
RepliesMatchRequests ==
  \A i \in 1..Len(log) :
    LET h == log[i].head
    IN  IF h # 0
          THEN /\ HeadNumber(h) = i
               /\ log[i].first = h
               /\ log[i].body = (h + 2)..(h + 1 + ContentLength(RequestAt(h)))
          ELSE \E p \in 1..Len(stream) :
                 Kind(p) = "head" /\ HeadNumber(p) = i /\ ~RequestAt(p).valid

\* A request that cannot be processed is answered by the error handler: it
\* does not end the process.
ServerSurvives == op # "terminated"

\* Every request is answered, unless the client goes away first.
EveryRequestAnswered ==
  \A k \in 1..MaxRequests : issued >= k ~> (Replies >= k \/ ~client_open)

-----------------------------------------------------------------------------
(***************************************************************************)
(* The refinement.  A request is numbered by the position of its head.     *)
(***************************************************************************)
Heads == {h \in 1..Len(stream) : Kind(h) = "head"}

Ex == INSTANCE Exchange WITH
  asked   <- [h \in Heads |-> RequestAt(h)],
  answers <- [i \in 1..Len(log) |-> log[i].head],
  open    <- op \notin {"none", "terminated"},
  present <- client_open,
  Closing <- {r \in Requests : r.close},
  Fatal   <- {r \in Requests : r.length = BadContentLength}

\* However the stream is cut up and whatever the client pipelines, the
\* connection is an Exchange: every handler run answers a request that was
\* sent, later than those answered before; after the reply to one that asked
\* for a close there is no other, though do_write and handle_write consult a
\* request member that a failed Parse leaves at the previous request; and the
\* socket is closed only for that reason, a client that has left or a
\* Content-Length that is not a number.
ImplementsExchange == Ex!Spec

-----------------------------------------------------------------------------
(***************************************************************************)
(* The inductive invariant of the proofs (module ConnectionProofs).        *)
(***************************************************************************)
\* What is read was sent, what is consumed was read, and the kernel never
\* holds more than it takes.
Positions == cons <= recv /\ recv <= Len(stream) /\ inflight <= WriteMax

\* The request member is a consumed head, or nothing was parsed yet.
RequestIsHead ==
  /\ request.head # 0 =>
       /\ request.head \in 1..Len(stream)
       /\ Kind(request.head) = "head"
       /\ request.head <= cons
  /\ op = "read" => request.head # 0

\* Answered heads are consumed; the one whose body is awaited is not answered.
AnsweredHeads ==
  \A i \in 1..Len(log) :
    /\ log[i].head <= cons
    /\ op = "read" => log[i].head < request.head

\* Only the request that is being answered can have asked for a close, and it
\* is still the request member when the write completes.
ClosePending ==
  \A i \in 1..Len(log) :
    log[i].head # 0 /\ RequestAt(log[i].head).close
      => /\ op \notin {"read_until", "read"}
         /\ op = "write" => log[i].head = request.head

\* The header do_write has set is what handle_write will do.
Announced == op = "write" => (response.connection = "close" <=> WantsClose)

IndInv ==
  /\ TypeOK
  /\ Positions
  /\ RequestIsHead
  /\ AnsweredHeads
  /\ OnceInOrder
  /\ ClosePending
  /\ NothingAfterClose
  /\ Announced
=============================================================================
