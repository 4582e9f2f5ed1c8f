-------------------------- MODULE ConnectionProofs --------------------------
(***************************************************************************)
(* Proofs about Connection: type correctness, and what the reuse of the    *)
(* request member from one request to the next can and cannot do, for      *)
(* every set of requests, every client and every way of cutting the        *)
(* stream.                                                                 *)
(***************************************************************************)
EXTENDS Connection, FiniteSetTheorems, SequenceTheorems, TLAPS

-----------------------------------------------------------------------------
(***************************************************************************)
(* The operators on responses and counters.                                *)
(***************************************************************************)
\* A page as a handler sets it.
LEMMA PlainType ==
  ASSUME NEW page \in Pages
  PROVE  Plain(page) \in Body
BY DEF Plain, Body, Codings

\* SetBody and the Content-Length header keep the response well formed.
LEMMA WithBodyType ==
  ASSUME NEW r \in ResponseType, NEW body \in Body
  PROVE  WithBody(r, body) \in ResponseType
BY DEF WithBody, ResponseType

\* A cleared response is a response.
LEMMA ClearedType == Cleared \in ResponseType
<1>1. Plain("empty") \in Body
  BY PlainType DEF Pages
<1>2. NoLength \in Body \cup {NoLength}
  OBVIOUS
<1> QED
  BY <1>1, <1>2 DEF Cleared, ResponseType, ResponseCodes, Codings

\* ErrorHandler::HandleRequest only replaces the body and its length.
LEMMA ErrorHandlerType ==
  ASSUME NEW r \in ResponseType
  PROVE  ErrorHandler(r) \in ResponseType
<1>1. error_to_string(r.status) \in Pages
  BY DEF error_to_string, Pages, ErrorPages
<1>2. Plain(error_to_string(r.status)) \in Body
  BY <1>1, PlainType
<1> QED
  BY <1>2, WithBodyType DEF ErrorHandler

\* compress_payload replaces the body, its length and its coding.
LEMMA CompressType ==
  ASSUME NEW r \in ResponseType, NEW accept
  PROVE  /\ compress_payload(r, accept) \in ResponseType
         /\ compress_payload(r, accept).connection = r.connection
BY DEF compress_payload, WithBody, Compress, ResponseType, Body, Codings

\* do_write sets the Connection header and nothing after it touches that.
LEMMA FinishedType ==
  ASSUME NEW r \in ResponseType, NEW close \in BOOLEAN, NEW accept
  PROVE  /\ Finished(r, close, accept) \in ResponseType
         /\ Finished(r, close, accept).connection = "close" <=> close
<1> DEFINE h == [r EXCEPT !.connection = IF close THEN "close" ELSE "keep-alive"]
<1>1. h \in ResponseType /\ (h.connection = "close" <=> close)
  BY DEF ResponseType
<1>2. /\ compress_payload(h, accept) \in ResponseType
      /\ compress_payload(h, accept).connection = h.connection
  BY <1>1, CompressType
<1> QED
  BY <1>1, <1>2 DEF Finished

\* What ProcessRequest, or the error handler after it, leaves in the response.
LEMMA ProcessedType ==
  ASSUME response \in ResponseType, NEW out \in Outcome
  PROVE  Processed(out) \in ResponseType
<1>1. ErrorHandler([response EXCEPT !.status = out.status]) \in ResponseType
  <2>1. [response EXCEPT !.status = out.status] \in ResponseType
    BY DEF ResponseType, ResponseCodes, Outcome
  <2> QED BY <2>1, ErrorHandlerType
<1>2. ErrorHandler([response EXCEPT !.status = 400]) \in ResponseType
  <2>1. [response EXCEPT !.status = 400] \in ResponseType
    BY DEF ResponseType, ResponseCodes
  <2> QED BY <2>1, ErrorHandlerType
<1>3. [Cleared EXCEPT !.raw = out.raw] \in ResponseType
  BY ClearedType DEF ResponseType, Outcome
<1>4. WithBody([response EXCEPT !.status = 200, !.is_image = out.is_image],
               Plain("content")) \in ResponseType
  <2>1. [response EXCEPT !.status = 200, !.is_image = out.is_image] \in ResponseType
    <3>1. out.is_image \in BOOLEAN
      BY DEF Outcome
    <3>2. 200 \in ResponseCodes
      BY DEF ResponseCodes
    <3>3. \A b \in BOOLEAN :
            [response EXCEPT !.status = 200, !.is_image = b] \in ResponseType
      BY <3>2 DEF ResponseType
    <3> QED BY <3>1, <3>3
  <2>2. Plain("content") \in Body
    BY PlainType DEF Pages
  <2> QED BY <2>1, <2>2, WithBodyType
<1> QED
  BY <1>1, <1>2, <1>3, <1>4 DEF Processed, Outcome

\* insertRecord adds one to three counters.
LEMMA InsertRecordType ==
  ASSUME NEW s \in StatusType, NEW uri \in VisitKeys, NEW code
  PROVE  insertRecord(s, uri, code) \in StatusType
<1>1. VisitKey(uri, code) \in VisitKeys
  BY DEF VisitKey, VisitKeys
<1>2. responseToString(code) \in StatusCodes
  BY DEF responseToString, StatusCodes
<1> QED
  BY <1>1, <1>2 DEF insertRecord, StatusType

\* A request on the wire is a sequence of units, at least its head and end.
LEMMA WireType ==
  ASSUME NEW r \in Requests
  PROVE  Wire(r) \in Seq(Unit)
<1>1. r.body \in Seq({"byte", "nul", "end"})
  BY RequestsAssumption DEF Request
<1>2. [i \in 1..Len(r.body) |-> [kind |-> r.body[i]]] \in Seq(Unit)
  <2>1. \A i \in 1..Len(r.body) : [kind |-> r.body[i]] \in Unit
    BY <1>1 DEF Unit
  <2> QED BY <1>1, <2>1
<1>3. <<[kind |-> "head", request |-> r], [kind |-> "end"]>> \in Seq(Unit)
  <2>1. [kind |-> "head", request |-> r] \in Unit
    BY DEF Unit
  <2>2. [kind |-> "end"] \in Unit
    BY DEF Unit
  <2> QED BY <2>1, <2>2
<1> QED
  BY <1>2, <1>3 DEF Wire

-----------------------------------------------------------------------------
(***************************************************************************)
(* The stream.                                                             *)
(***************************************************************************)
\* A head in the stream carries one of the client's requests.
LEMMA HeadRequest ==
  ASSUME stream \in Seq(Unit), NEW h \in 1..Len(stream), Kind(h) = "head"
  PROVE  RequestAt(h) \in Requests /\ RequestAt(h) \in Request
<1>1. stream[h] \in Unit
  OBVIOUS
<1>2. stream[h].kind = "head"
  BY DEF Kind
<1>3. stream[h].request \in Requests
  BY <1>1, <1>2 DEF Unit
<1> QED
  BY <1>3, RequestsAssumption DEF RequestAt

\* Parse finds a head it can use among the units it is given.
LEMMA ParsedHeadFacts ==
  ASSUME IndInv, NEW h \in ParsedHeads(cons + 1, recv)
  PROVE  /\ h \in 1..Len(stream) /\ cons < h /\ h <= recv
         /\ Kind(h) = "head"
         /\ RequestAt(h) \in Requests /\ RequestAt(h) \in Request
<1>1. h \in (cons + 1)..recv /\ Kind(h) = "head"
  BY DEF ParsedHeads
<1>2. cons \in Nat /\ recv \in Nat /\ recv <= Len(stream) /\ stream \in Seq(Unit)
  BY DEF IndInv, TypeOK, Positions
<1>3. h \in 1..Len(stream) /\ cons < h /\ h <= recv
  BY <1>1, <1>2
<1> QED
  BY <1>1, <1>2, <1>3, HeadRequest

\* The body handle_read_partial takes is a finite set of positions.
LEMMA ParsedBodyFacts ==
  ASSUME IndInv, NEW h \in ParsedHeads(cons + 1, recv)
  PROVE  /\ ParsedRequest(h) \in RequestMember
         /\ ParsedRequest(h).head = h
         /\ BodyLength(h) \in Nat
<1>1. h \in Nat /\ cons \in Nat /\ recv \in Nat
  BY ParsedHeadFacts DEF IndInv, TypeOK
<1>2. ParsedBody(cons + 1, recv, h) \subseteq (h + 2)..recv
  BY DEF ParsedBody
<1>3. IsFiniteSet((h + 2)..recv)
  BY <1>1, FS_Interval
<1>4. IsFiniteSet(ParsedBody(cons + 1, recv, h))
  BY <1>2, <1>3, FS_Subset
<1>5. BodyLength(h) \in Nat
  BY <1>4, FS_CardinalityType DEF BodyLength
<1>6. ParsedBody(cons + 1, recv, h) \subseteq Nat
  BY <1>1, <1>2
<1> QED
  BY <1>1, <1>5, <1>6 DEF ParsedRequest, RequestMember

\* ContentLength of a request whose header is not malformed.
LEMMA ContentLengthType ==
  ASSUME NEW r \in Request, r.length # BadContentLength
  PROVE  ContentLength(r) \in Nat
BY DEF Request, ContentLength, NoContentLength, BadContentLength

-----------------------------------------------------------------------------
(***************************************************************************)
(* do_write.                                                               *)
(***************************************************************************)
\* Everything do_write changes, as the rest of the proof needs it.
LEMMA DoWriteFacts ==
  ASSUME IndInv, NEW resp \in ResponseType, NEW req \in RequestMember,
         req.head # 0 => RequestAt(req.head) \in Request,
         NEW size \in Nat, NEW answered \in Nat,
         do_write(resp, req, size, answered)
  PROVE  /\ status' \in StatusType
         /\ response' \in ResponseType
         /\ response'.connection = "close"
              <=> req.head # 0 /\ RequestAt(req.head).close
         /\ inflight' \in Nat /\ inflight' <= WriteMax
         /\ left' \in Nat
         /\ op' = "write"
         /\ \E e \in LogEntry : e.head = answered /\ log' = Append(log, e)
<1> DEFINE parsed == req.head # 0
           r == RequestAt(req.head)
           n == IF size <= WriteMax - inflight THEN size ELSE WriteMax - inflight
           reply == Finished(resp, parsed /\ r.close, IF parsed THEN r.accept ELSE {})
           entry == [head |-> answered,
                     first |-> IF answered = 0 THEN cons + 1 ELSE req.first,
                     body |-> IF answered = 0 THEN {} ELSE req.body,
                     reply |-> reply]
<1>1. /\ status' = insertRecord(status, IF parsed THEN r.uri ELSE Unsuccessful,
                                resp.status)
      /\ response' = reply
      /\ inflight' = inflight + n
      /\ left' = size - n
      /\ op' = "write"
      /\ log' = Append(log, entry)
  BY DEF do_write, FirstWrite
<1>2. (IF parsed THEN r.uri ELSE Unsuccessful) \in VisitKeys
  BY DEF Request, VisitKeys
<1>3. status' \in StatusType
  BY <1>1, <1>2, InsertRecordType DEF IndInv, TypeOK
<1>4. (parsed /\ r.close) \in BOOLEAN
  OBVIOUS
<1>5. reply \in ResponseType /\ (reply.connection = "close" <=> parsed /\ r.close)
  BY <1>4, FinishedType
<1>6. inflight' \in Nat /\ inflight' <= WriteMax /\ left' \in Nat
  BY <1>1, BoundsAssumption DEF IndInv, TypeOK, Positions
<1>7. entry \in LogEntry
  BY <1>5 DEF LogEntry, RequestMember, IndInv, TypeOK
<1>8. entry.head = answered
  OBVIOUS
<1> HIDE DEF entry, reply, r, parsed, n
<1>9. \E e \in LogEntry : e.head = answered /\ log' = Append(log, e)
  BY <1>1, <1>7, <1>8
<1> USE DEF parsed, r
<1> QED
  BY <1>1, <1>3, <1>5, <1>6, <1>9

\* A completed read that ends in do_write keeps the invariant: either it
\* answers no head and leaves the request member alone, or it answers the head
\* that becomes (or, after a body, still is) the request member.
LEMMA AnswerStep ==
  ASSUME IndInv, op \in {"read_until", "read"},
         NEW resp \in ResponseType, NEW req \in RequestMember,
         NEW size \in Nat, NEW answered \in Nat,
         do_write(resp, req, size, answered),
         UNCHANGED clientVars, recv' = recv, cons' = recv,
         request' = req, need' \in Nat,
         \/ answered = 0 /\ req = request /\ op = "read_until"
         \/ /\ answered = req.head
            /\ answered \in 1..Len(stream) /\ answered <= recv
            /\ Kind(answered) = "head"
            /\ \A i \in 1..Len(log) : log[i].head < answered
  PROVE  IndInv'
<1>1. /\ stream' = stream /\ issued' = issued /\ client_open' = client_open
      /\ stream \in Seq(Unit) /\ log \in Seq(LogEntry)
      /\ cons \in Nat /\ recv \in Nat /\ cons <= recv /\ recv <= Len(stream)
  BY DEF clientVars, IndInv, TypeOK, Positions
<1>2. req.head # 0 => /\ req.head \in 1..Len(stream)
                      /\ Kind(req.head) = "head"
                      /\ req.head <= recv
                      /\ RequestAt(req.head) \in Request
  BY <1>1, HeadRequest DEF IndInv, RequestIsHead
<1>3. /\ status' \in StatusType
      /\ response' \in ResponseType
      /\ response'.connection = "close" <=> req.head # 0 /\ RequestAt(req.head).close
      /\ inflight' \in Nat /\ inflight' <= WriteMax
      /\ left' \in Nat
      /\ op' = "write"
      /\ \E e \in LogEntry : e.head = answered /\ log' = Append(log, e)
  BY <1>2, DoWriteFacts
<1>4. PICK e \in LogEntry : e.head = answered /\ log' = Append(log, e)
  BY <1>3
<1>5. /\ Len(log') = Len(log) + 1
      /\ \A i \in 1..Len(log) : log'[i] = log[i]
      /\ log'[Len(log) + 1] = e
      /\ log' \in Seq(LogEntry)
      /\ Len(log) \in Nat
  BY <1>1, <1>4
<1>6. \A i \in 1..Len(log) : log[i] \in LogEntry /\ log[i].head \in Nat
  <2>1. \A i \in 1..Len(log) : log[i] \in LogEntry
    BY <1>1
  <2>2. \A x \in LogEntry : x.head \in Nat
    BY DEF LogEntry
  <2> QED BY <2>1, <2>2
<1>7. TypeOK'
  BY <1>1, <1>3, <1>5 DEF IndInv, TypeOK
<1>8. Positions'
  BY <1>1, <1>3 DEF Positions
<1>9. RequestIsHead'
  <2>1. op' = "write" /\ request' = req /\ cons' = recv
    BY <1>3
  <2> QED BY <1>1, <1>2, <2>1 DEF RequestIsHead, Kind
<1>10. AnsweredHeads'
  <2>1. \A i \in 1..Len(log) : log[i].head <= cons
    BY DEF IndInv, AnsweredHeads
  <2>2. \A i \in 1..Len(log) : log[i].head <= recv
    BY <2>1, <1>1, <1>6
  <2>3. \A i \in 1..Len(log') : log'[i].head <= cons'
    BY <2>2, <1>1, <1>4, <1>5
  <2> QED BY <2>3, <1>3 DEF AnsweredHeads
<1>11. OnceInOrder'
  <2>1. answered # 0 => \A i \in 1..Len(log) : log[i].head < answered
    BY <1>2
  <2>2. \A i, j \in 1..Len(log) :
          i < j /\ log[j].head # 0 => log[i].head < log[j].head
    BY DEF IndInv, OnceInOrder
  <2>3. \A i, j \in 1..(Len(log) + 1) :
          i < j /\ log'[j].head # 0 => log'[i].head < log'[j].head
    BY <1>4, <1>5, <2>1, <2>2
  <2> QED BY <1>5, <2>3 DEF OnceInOrder
<1>12. \A i \in 1..Len(log) : log[i].head # 0 => ~RequestAt(log[i].head).close
  BY DEF IndInv, ClosePending
<1>13. ClosePending'
  <2>1. \A i \in 1..(Len(log) + 1) :
          log'[i].head # 0 /\ RequestAt(log'[i].head).close
            => log'[i].head = req.head
    BY <1>4, <1>5, <1>12
  <2> QED BY <1>1, <1>3, <1>5, <2>1 DEF ClosePending, RequestAt
<1>14. NothingAfterClose'
  <2>1. \A i \in 1..Len(log') : i < Len(log') => i \in 1..Len(log) /\ log'[i] = log[i]
    BY <1>5
  <2>2. \A i \in 1..Len(log') :
          i < Len(log') /\ log'[i].head # 0 => ~RequestAt(log'[i].head).close
    BY <1>12, <2>1
  <2> QED BY <1>1, <2>2 DEF NothingAfterClose, RequestAt
<1>15. Announced'
  <2>1. WantsClose' <=> req.head # 0 /\ RequestAt(req.head).close
    BY <1>1 DEF WantsClose, Parsed, RequestAt
  <2> QED BY <1>3, <2>1 DEF Announced
<1> QED
  BY <1>7, <1>8, <1>9, <1>10, <1>11, <1>13, <1>14, <1>15 DEF IndInv

-----------------------------------------------------------------------------
(***************************************************************************)
(* The invariant is inductive: one step per action.                        *)
(***************************************************************************)
\* start() begins with an empty buffer and nothing answered.
LEMMA InitInv == Init => IndInv
<1> SUFFICES ASSUME Init PROVE IndInv
  OBVIOUS
<1>1. status \in StatusType
  BY DEF Init, InitialStatus, StatusType
<1>2. request \in RequestMember
  BY DEF Init, RequestMember
<1>3. TypeOK
  <2>1. client_open \in BOOLEAN
    BY DEF Init
  <2>2. stream \in Seq(Unit) /\ log \in Seq(LogEntry)
    BY DEF Init
  <2>3. response \in ResponseType
    BY ClearedType DEF Init
  <2>4. /\ op \in {"read_until", "read", "write", "none", "terminated"}
        /\ recv \in Nat /\ cons \in Nat /\ need \in Nat
        /\ left \in Nat /\ inflight \in Nat /\ issued \in Nat
    BY DEF Init
  <2> QED BY <1>1, <1>2, <2>1, <2>2, <2>3, <2>4 DEF TypeOK
<1>4. Positions
  BY BoundsAssumption DEF Init, Positions
<1>5. 1..Len(log) = {}
  BY DEF Init
<1>6. AnsweredHeads /\ OnceInOrder /\ ClosePending /\ NothingAfterClose
  BY <1>5 DEF AnsweredHeads, OnceInOrder, ClosePending, NothingAfterClose
<1>7. RequestIsHead /\ Announced
  BY DEF Init, RequestIsHead, Announced
<1> QED
  BY <1>3, <1>4, <1>6, <1>7 DEF IndInv

\* What the client adds to the stream leaves every earlier position alone.
LEMMA ClientRequestInv ==
  ASSUME IndInv, NEW rq \in Requests, ClientRequest(rq)
  PROVE  IndInv'
<1>1. /\ stream \in Seq(Unit) /\ Wire(rq) \in Seq(Unit)
      /\ stream' = stream \o Wire(rq)
  BY WireType DEF ClientRequest, IndInv, TypeOK
<1>2. /\ stream' \in Seq(Unit)
      /\ Len(stream) \in Nat /\ Len(stream') \in Nat
      /\ Len(stream) <= Len(stream')
      /\ \A i \in 1..Len(stream) : stream'[i] = stream[i]
  BY <1>1
<1>3. /\ issued' = issued + 1
      /\ UNCHANGED <<recv, cons, op, request, need, client_open>>
      /\ UNCHANGED <<response, left, inflight, status, log>>
  BY DEF ClientRequest, replyVars
<1>4. TypeOK'
  BY <1>2, <1>3 DEF IndInv, TypeOK
<1>5. Positions' /\ Positions
  BY <1>2, <1>3 DEF IndInv, Positions, TypeOK
<1>6. RequestIsHead'
  BY <1>2, <1>3 DEF IndInv, RequestIsHead, Kind
<1>7. AnsweredHeads' /\ OnceInOrder'
  BY <1>3 DEF IndInv, AnsweredHeads, OnceInOrder
<1>8. \A i \in 1..Len(log) :
        log[i].head # 0 => RequestAt(log[i].head)' = RequestAt(log[i].head)
  <2> SUFFICES ASSUME NEW i \in 1..Len(log), log[i].head # 0
               PROVE  log[i].head \in 1..Len(stream)
    BY <1>2, <1>3 DEF RequestAt
  <2>1. log \in Seq(LogEntry) /\ cons \in Nat /\ recv \in Nat
    BY DEF IndInv, TypeOK
  <2>2. log[i] \in LogEntry
    BY <2>1
  <2>3. log[i].head \in Nat
    BY <2>2 DEF LogEntry
  <2>4. log[i].head <= cons /\ cons <= recv /\ recv <= Len(stream)
    BY <1>5 DEF IndInv, AnsweredHeads, Positions
  <2> QED BY <1>2, <2>1, <2>3, <2>4
<1>9. ClosePending'
  BY <1>3, <1>8 DEF IndInv, ClosePending
<1>10. NothingAfterClose'
  BY <1>3, <1>8 DEF IndInv, NothingAfterClose
<1>11. Announced'
  <2>1. WantsClose' <=> WantsClose
    BY <1>2, <1>3 DEF IndInv, RequestIsHead, WantsClose, Parsed, RequestAt
  <2> QED BY <1>3, <2>1 DEF IndInv, Announced
<1> QED
  BY <1>4, <1>5, <1>6, <1>7, <1>9, <1>10, <1>11 DEF IndInv

\* Steps that touch neither the stream, the request nor the log.
LEMMA QuietStep ==
  ASSUME IndInv, UNCHANGED <<stream, request, log, cons>>,
         TypeOK', Positions',
         \/ op' = op /\ response' = response
         \/ op' \in {"none", "terminated"}
         \/ op = "write" /\ op' = "read_until" /\ ~WantsClose
  PROVE  IndInv'
<1>1. RequestIsHead'
  BY DEF IndInv, RequestIsHead, Kind
<1>2. AnsweredHeads' /\ OnceInOrder'
  BY DEF IndInv, AnsweredHeads, OnceInOrder
<1>3. ClosePending'
  <2>1. op = "write" /\ ~WantsClose =>
          \A i \in 1..Len(log) : log[i].head # 0 => ~RequestAt(log[i].head).close
    BY DEF IndInv, ClosePending, WantsClose, Parsed
  <2> QED BY <2>1 DEF IndInv, ClosePending, RequestAt
<1>4. NothingAfterClose'
  BY DEF IndInv, NothingAfterClose, RequestAt
<1>5. Announced'
  <2>1. WantsClose' <=> WantsClose
    BY DEF WantsClose, Parsed, RequestAt
  <2> QED BY <2>1 DEF IndInv, Announced
<1> QED
  BY <1>1, <1>2, <1>3, <1>4, <1>5 DEF IndInv

\* Every step of the client, the network and the completion handlers keeps the
\* invariant.
LEMMA NextInv == IndInv /\ [Next]_vars => IndInv'
<1> SUFFICES ASSUME IndInv, [Next]_vars PROVE IndInv'
  OBVIOUS
<1> USE DEF clientVars, replyVars
<1>1. CASE UNCHANGED vars
  <2>1. TypeOK' /\ Positions'
    BY <1>1 DEF IndInv, TypeOK, Positions, vars
  <2> QED BY <1>1, <2>1, QuietStep DEF vars
<1>2. ASSUME NEW r \in Requests, ClientRequest(r) PROVE IndInv'
  BY <1>2, ClientRequestInv
<1>3. CASE ClientRead
  <2>1. inflight' \in Nat /\ inflight' <= WriteMax
    BY <1>3, BoundsAssumption DEF ClientRead, IndInv, TypeOK, Positions
  <2>2. TypeOK' /\ Positions'
    BY <1>3, <2>1 DEF ClientRead, IndInv, TypeOK, Positions
  <2> QED BY <1>3, <2>2, QuietStep DEF ClientRead
<1>4. CASE ClientClose
  <2>1. TypeOK' /\ Positions'
    BY <1>4 DEF ClientClose, IndInv, TypeOK, Positions
  <2> QED BY <1>4, <2>1, QuietStep DEF ClientClose
<1>5. ASSUME NEW n \in 1..(Len(stream) - recv), Receive(n) PROVE IndInv'
  <2>1. n \in Nat /\ recv \in Nat /\ recv' = recv + n /\ recv' <= Len(stream)
    BY <1>5 DEF Receive, IndInv, TypeOK
  <2>2. TypeOK' /\ Positions'
    BY <1>5, <2>1 DEF Receive, IndInv, TypeOK, Positions
  <2> QED BY <1>5, <2>2, QuietStep DEF Receive
<1>6. CASE HandleReadPartialBad
  <2> DEFINE resp == ErrorHandler([response EXCEPT !.status = 400])
  <2>1. [response EXCEPT !.status = 400] \in ResponseType
    <3>1. response \in ResponseType
      BY DEF IndInv, TypeOK
    <3> QED
      BY <3>1 DEF ResponseType, ResponseCodes
  <2>2. resp \in ResponseType
    BY <2>1, ErrorHandlerType
  <2>3. /\ do_write(resp, request, 1, 0) /\ op = "read_until"
        /\ UNCHANGED <<clientVars, recv, request, need>> /\ cons' = recv
    BY <1>6 DEF HandleReadPartialBad
  <2>4. request \in RequestMember /\ need' \in Nat
    BY <2>3 DEF IndInv, TypeOK
  <2> HIDE DEF resp
  <2> QED BY <2>2, <2>3, <2>4, AnswerStep
<1>7. CASE HandleReadPartialThrow
  <2>1. recv' = recv /\ cons' = recv /\ UNCHANGED <<stream, request, log>>
        /\ op' = "terminated"
    BY <1>7 DEF HandleReadPartialThrow
  <2>2. TypeOK' /\ Positions'
    BY <1>7 DEF HandleReadPartialThrow, IndInv, TypeOK, Positions
  <2>3. RequestIsHead' /\ AnsweredHeads'
    <3>1. log \in Seq(LogEntry) /\ cons \in Nat /\ recv \in Nat /\ cons <= recv
      BY DEF IndInv, TypeOK, Positions
    <3>2. \A x \in LogEntry : x.head \in Nat
      BY DEF LogEntry
    <3>3. \A i \in 1..Len(log) : log[i].head \in Nat /\ log[i].head <= cons
      BY <3>1, <3>2 DEF IndInv, AnsweredHeads
    <3>4. AnsweredHeads'
      BY <2>1, <3>1, <3>3 DEF AnsweredHeads
    <3>5. request.head # 0 => /\ request.head \in 1..Len(stream)
                              /\ Kind(request.head) = "head"
                              /\ request.head <= recv
      BY <3>1 DEF IndInv, RequestIsHead
    <3> QED BY <2>1, <3>4, <3>5 DEF RequestIsHead, Kind
  <2>4. OnceInOrder' /\ ClosePending' /\ NothingAfterClose' /\ Announced'
    BY <2>1 DEF IndInv, OnceInOrder, ClosePending, NothingAfterClose,
                Announced, RequestAt
  <2> QED BY <2>2, <2>3, <2>4 DEF IndInv
<1>8. CASE HandleReadPartialMore
  <2>1. PICK h \in ParsedHeads(cons + 1, recv) :
          /\ RequestAt(h).length # BadContentLength
          /\ ContentLength(RequestAt(h)) - BodyLength(h) > 0
          /\ request' = ParsedRequest(h)
          /\ need' = ContentLength(RequestAt(h)) - BodyLength(h)
    BY <1>8 DEF HandleReadPartialMore
  <2>2. /\ recv' = recv /\ cons' = recv /\ op' = "read" /\ op = "read_until"
        /\ UNCHANGED <<clientVars, replyVars>>
    BY <1>8 DEF HandleReadPartialMore
  <2>3. /\ h \in 1..Len(stream) /\ cons < h /\ h <= recv
        /\ Kind(h) = "head"
        /\ RequestAt(h) \in Request
    BY ParsedHeadFacts
  <2>4. /\ ParsedRequest(h) \in RequestMember /\ ParsedRequest(h).head = h
        /\ BodyLength(h) \in Nat
    BY ParsedBodyFacts
  <2>5. need' \in Nat
    BY <2>1, <2>3, <2>4, ContentLengthType
  <2>6. TypeOK' /\ Positions'
    BY <2>1, <2>2, <2>4, <2>5 DEF IndInv, TypeOK, Positions
  <2>7. request'.head = h
    BY <2>1, <2>4
  <2>8. RequestIsHead'
    BY <2>2, <2>3, <2>7 DEF RequestIsHead, Kind
  <2>9. \A i \in 1..Len(log) : log[i].head \in Nat /\ log[i].head <= cons
    <3>1. log \in Seq(LogEntry)
      BY DEF IndInv, TypeOK
    <3>2. \A x \in LogEntry : x.head \in Nat
      BY DEF LogEntry
    <3> QED BY <3>1, <3>2 DEF IndInv, AnsweredHeads
  <2>10. AnsweredHeads'
    <3>1. cons \in Nat /\ recv \in Nat /\ h \in Nat /\ cons <= recv
      BY <2>3 DEF IndInv, TypeOK, Positions
    <3> QED BY <3>1, <2>2, <2>3, <2>7, <2>9 DEF AnsweredHeads
  <2>11. OnceInOrder' /\ ClosePending' /\ NothingAfterClose' /\ Announced'
    BY <2>2 DEF IndInv, OnceInOrder, ClosePending, NothingAfterClose,
                Announced, RequestAt
  <2> QED BY <2>6, <2>8, <2>10, <2>11 DEF IndInv
<1>9. CASE HandleReadPartialWhole
  <2>1. PICK h \in ParsedHeads(cons + 1, recv) :
          /\ request' = ParsedRequest(h)
          /\ do_write(Processed(RequestAt(h).outcome), ParsedRequest(h),
                      ReplySize(RequestAt(h).outcome), h)
    BY <1>9 DEF HandleReadPartialWhole
  <2>2. /\ recv' = recv /\ cons' = recv /\ op = "read_until"
        /\ UNCHANGED clientVars /\ need' = need
    BY <1>9 DEF HandleReadPartialWhole
  <2>3. /\ h \in 1..Len(stream) /\ cons < h /\ h <= recv
        /\ Kind(h) = "head"
        /\ RequestAt(h) \in Request
    BY ParsedHeadFacts
  <2>4. /\ ParsedRequest(h) \in RequestMember /\ ParsedRequest(h).head = h
    BY ParsedBodyFacts
  <2>5. RequestAt(h).outcome \in Outcome
    BY <2>3 DEF Request
  <2>6. /\ Processed(RequestAt(h).outcome) \in ResponseType
        /\ ReplySize(RequestAt(h).outcome) \in Nat
    BY <2>5, ProcessedType DEF IndInv, TypeOK, ReplySize, Outcome
  <2>7. \A i \in 1..Len(log) : log[i].head < h
    <3>1. log \in Seq(LogEntry) /\ cons \in Nat /\ h \in Nat
      BY <2>3 DEF IndInv, TypeOK
    <3>2. \A x \in LogEntry : x.head \in Nat
      BY DEF LogEntry
    <3>3. \A i \in 1..Len(log) : log[i].head \in Nat /\ log[i].head <= cons
      BY <3>1, <3>2 DEF IndInv, AnsweredHeads
    <3> QED BY <3>1, <3>3, <2>3
  <2>8. h \in Nat /\ need' \in Nat
    BY <2>2, <2>3 DEF IndInv, TypeOK
  <2> QED BY <2>1, <2>2, <2>3, <2>4, <2>6, <2>7, <2>8, AnswerStep
<1>10. CASE HandleReadBody
  <2> DEFINE req == [request EXCEPT !.body = @ \cup ((cons + 1)..recv)]
             out == RequestAt(request.head).outcome
  <2>1. /\ request' = req
        /\ do_write(Processed(out), req, ReplySize(out), req.head)
        /\ recv' = recv /\ cons' = recv /\ op = "read" /\ need' = 0
        /\ UNCHANGED clientVars
    BY <1>10 DEF HandleReadBody
  <2>2. cons \in Nat /\ recv \in Nat /\ request \in RequestMember /\ cons <= recv
        /\ stream \in Seq(Unit)
    BY DEF IndInv, TypeOK, Positions
  <2>3. req \in RequestMember /\ req.head = request.head
    BY <2>2 DEF RequestMember
  <2>4. /\ request.head \in 1..Len(stream) /\ request.head <= cons
        /\ Kind(request.head) = "head"
    BY <2>1 DEF IndInv, RequestIsHead
  <2>5. RequestAt(request.head) \in Request
    BY <2>2, <2>4, HeadRequest
  <2>6. out \in Outcome
    BY <2>5 DEF Request
  <2>7. Processed(out) \in ResponseType /\ ReplySize(out) \in Nat
    BY <2>6, ProcessedType DEF IndInv, TypeOK, ReplySize, Outcome
  <2>8. \A i \in 1..Len(log) : log[i].head < request.head
    BY <2>1 DEF IndInv, AnsweredHeads
  <2>9. req.head \in Nat /\ req.head <= recv /\ need' \in Nat
    BY <2>1, <2>2, <2>3, <2>4
  <2> HIDE DEF req, out
  <2> QED BY <2>1, <2>3, <2>4, <2>7, <2>8, <2>9, AnswerStep
<1>11. CASE HandleReadError
  <2>1. TypeOK' /\ Positions'
    BY <1>11 DEF HandleReadError, IndInv, TypeOK, Positions
  <2> QED BY <1>11, <2>1, QuietStep DEF HandleReadError
<1>12. CASE WriteRest
  <2>1. left' \in Nat /\ inflight' \in Nat /\ inflight' <= WriteMax
    BY <1>12, BoundsAssumption DEF WriteRest, IndInv, TypeOK
  <2>2. TypeOK' /\ Positions'
    BY <1>12, <2>1 DEF WriteRest, IndInv, TypeOK, Positions
  <2> QED BY <1>12, <2>2, QuietStep DEF WriteRest
<1>13. CASE HandleWrite
  <2>1. response' \in ResponseType
    BY <1>13, ClearedType DEF HandleWrite, IndInv, TypeOK
  <2>2. TypeOK' /\ Positions'
    BY <1>13, <2>1 DEF HandleWrite, IndInv, TypeOK, Positions
  <2> QED BY <1>13, <2>2, QuietStep DEF HandleWrite
<1>14. CASE HandleWriteError
  <2>1. TypeOK' /\ Positions'
    BY <1>14 DEF HandleWriteError, IndInv, TypeOK, Positions
  <2> QED BY <1>14, <2>1, QuietStep DEF HandleWriteError
<1> QED
  BY <1>1, <1>2, <1>3, <1>4, <1>5, <1>6, <1>7, <1>8, <1>9, <1>10, <1>11,
     <1>12, <1>13, <1>14 DEF Next, ClientStep, Transport, Completion

-----------------------------------------------------------------------------
(***************************************************************************)
(* The theorems.                                                           *)
(***************************************************************************)
\* The inductive invariant holds in every reachable state.
THEOREM Invariance == Spec => []IndInv
<1>1. Init => IndInv
  BY InitInv
<1>2. IndInv /\ [Next]_vars => IndInv'
  BY NextInv
<1> QED
  BY <1>1, <1>2, PTL DEF Spec

\* Type correctness of a connection (TypeOK).
THEOREM TypeCorrect == Spec => []TypeOK
<1>1. IndInv => TypeOK
  BY DEF IndInv
<1> QED
  BY <1>1, Invariance, PTL

\* handle_read_partial and handle_read_body answer the requests of a
\* connection at most once each and in the order they were sent, whatever the
\* client sends and however the stream is cut up.
THEOREM AnswersOnceInOrder == Spec => []OnceInOrder
<1>1. IndInv => OnceInOrder
  BY DEF IndInv
<1> QED
  BY <1>1, Invariance, PTL

\* No reply follows the reply to a request with "Connection: close", although
\* handle_write decides from a request member that a malformed request does
\* not replace.
THEOREM CloseIsLast == Spec => []NothingAfterClose
<1>1. IndInv => NothingAfterClose
  BY DEF IndInv
<1> QED
  BY <1>1, Invariance, PTL

\* handle_write closes the socket exactly when the reply that was sent said
\* so, unless the reply is one that an origin wrote.
THEOREM CloseAnnounced == Spec => ClosesAsAnnounced
<1>1. IndInv /\ [Next]_vars =>
        [op = "write" /\ op' # "write" /\ client_open /\ response.raw = "none"
           => (op' = "none" <=> SentConnection(response) = "close")]_vars
  <2> SUFFICES ASSUME IndInv, Next, op = "write", op' # "write", client_open,
                      response.raw = "none"
               PROVE  op' = "none" <=> SentConnection(response) = "close"
    BY DEF vars
  <2>1. HandleWrite
    BY DEF Next, ClientStep, Transport, Completion, ClientRequest, ClientClose,
           ClientRead, Receive, WriteRest, HandleReadPartialBad,
           HandleReadPartialThrow, HandleReadPartialMore,
           HandleReadPartialWhole, HandleReadBody, HandleReadError,
           HandleWriteError
  <2>2. op' = "none" <=> WantsClose
    BY <2>1 DEF HandleWrite
  <2> QED BY <2>2 DEF IndInv, Announced, SentConnection
<1> QED
  BY <1>1, Invariance, PTL DEF Spec, ClosesAsAnnounced

-----------------------------------------------------------------------------
(***************************************************************************)
(* What the replies carry, and what the counters count.  The response      *)
(* member is reused from one request to the next: the argument needs it    *)
(* cleared whenever a request is awaited.                                  *)
(***************************************************************************)
\* do_read_partial is only called after Response::Clear, or at the start.
Fresh == op \in {"read_until", "read"} => response = Cleared

\* What RepliesConsistent says of one reply.
Consistent(r) ==
  LET PageOf(code) == CASE code = 404 -> "not_found"
                        [] code = 400 -> "bad_request"
                        [] code = 500 -> "internal_server_error"
                        [] OTHER -> "content"
  IN  r.raw = "none" =>
        /\ r.content_length = r.body
        /\ r.content_encoding = r.body.coding
        /\ r.body.page = PageOf(status_to_string(r.status))

ReplyInv == IndInv /\ Fresh /\ RepliesConsistent /\ StatusCountsReplies

\* A response do_write may be called with.
Sendable(r) == r \in ResponseType /\ Consistent(r) /\ r.status # 302

\* Setting a body and taking its length leaves the other members alone.
LEMMA WithBodyFields ==
  ASSUME NEW r \in ResponseType, NEW body
  PROVE  LET w == WithBody(r, body)
         IN  /\ w.body = body /\ w.content_length = body
             /\ w.status = r.status /\ w.raw = r.raw
             /\ w.content_encoding = r.content_encoding
             /\ w.connection = r.connection
BY DEF WithBody, ResponseType

\* ErrorHandler makes a response that nothing was written to consistent: the
\* page is the one for the code that will be on the status line.
LEMMA ErrorHandlerSendable ==
  ASSUME NEW st \in {0, 400, 404, 500}
  PROVE  Sendable(ErrorHandler([Cleared EXCEPT !.status = st]))
<1> DEFINE r == [Cleared EXCEPT !.status = st]
           b == Plain(error_to_string(st))
<1>1. /\ r \in ResponseType /\ r.status = st /\ r.raw = "none"
      /\ r.content_encoding = "identity"
  <2>1. st \in ResponseCodes
    BY DEF ResponseCodes
  <2>2. r \in ResponseType
    BY <2>1, ClearedType DEF ResponseType
  <2> QED BY <2>2 DEF Cleared
<1>2. b.page = error_to_string(st) /\ b.coding = "identity"
  BY DEF Plain
<1>3. ErrorHandler(r) \in ResponseType /\ ErrorHandler(r) = WithBody(r, b)
  BY <1>1, ErrorHandlerType DEF ErrorHandler
<1> HIDE DEF r, b
<1>4. LET w == ErrorHandler(r)
      IN  /\ w.body = b /\ w.content_length = b /\ w.status = st
          /\ w.content_encoding = "identity"
  BY <1>1, <1>3, WithBodyFields
<1>5. ErrorHandler(r).status # 302
  BY <1>4
<1>6. Consistent(ErrorHandler(r))
  BY <1>2, <1>4 DEF Consistent, error_to_string, status_to_string
<1>7. Sendable(ErrorHandler(r))
  BY <1>3, <1>5, <1>6 DEF Sendable
<1> QED
  BY <1>7 DEF r

\* Whatever the handler did, and whether or not the error handler ran after
\* it, ProcessRequest leaves a response that can be sent.
LEMMA ProcessedSendable ==
  ASSUME response = Cleared, NEW out \in Outcome
  PROVE  Sendable(Processed(out))
<1>1. ASSUME out.ret = "ok", out.raw # "none" PROVE Sendable(Processed(out))
  <2>1. Processed(out) = [Cleared EXCEPT !.raw = out.raw]
    BY <1>1 DEF Processed
  <2>2. /\ Processed(out) \in ResponseType
        /\ Processed(out).raw = out.raw /\ Processed(out).status = 0
    <3>1. /\ [Cleared EXCEPT !.raw = out.raw].raw = out.raw
          /\ [Cleared EXCEPT !.raw = out.raw].status = 0
      BY DEF Cleared
    <3>2. [Cleared EXCEPT !.raw = out.raw] \in ResponseType
      BY ClearedType DEF ResponseType, Outcome
    <3> QED BY <2>1, <3>1, <3>2
  <2> QED BY <1>1, <2>2 DEF Sendable, Consistent
<1>2. ASSUME out.ret = "ok", out.raw = "none" PROVE Sendable(Processed(out))
  <2> DEFINE r == [Cleared EXCEPT !.status = 200, !.is_image = out.is_image]
  <2>1. Processed(out) = WithBody(r, Plain("content"))
    BY <1>2 DEF Processed
  <2>2. out.is_image \in BOOLEAN /\ 200 \in ResponseCodes
    BY DEF Outcome, ResponseCodes
  <2>3. \A b \in BOOLEAN : [Cleared EXCEPT !.status = 200, !.is_image = b] \in ResponseType
    BY <2>2, ClearedType DEF ResponseType
  <2>4. r \in ResponseType
    BY <2>2, <2>3
  <2>5. r.status = 200 /\ r.raw = "none" /\ r.content_encoding = "identity"
    BY DEF Cleared
  <2> HIDE DEF r
  <2>6. Plain("content") \in Body /\ Plain("content").page = "content"
        /\ Plain("content").coding = "identity"
    BY PlainType DEF Pages, Plain
  <2>7. Processed(out) \in ResponseType
    BY <2>1, <2>4, <2>6, WithBodyType
  <2>8. LET w == Processed(out)
        IN  /\ w.body = Plain("content") /\ w.content_length = Plain("content")
            /\ w.status = 200 /\ w.content_encoding = "identity"
    BY <2>1, <2>4, <2>5, WithBodyFields
  <2>9. Consistent(Processed(out))
    BY <2>6, <2>8 DEF Consistent, status_to_string
  <2> QED BY <2>7, <2>8, <2>9 DEF Sendable
<1>3. ASSUME out.ret = "handle_fail" PROVE Sendable(Processed(out))
  <2>1. Processed(out) = ErrorHandler([Cleared EXCEPT !.status = out.status])
    BY <1>3 DEF Processed
  <2>2. out.status \in {0, 400, 404, 500}
    BY DEF Outcome
  <2> QED BY <2>1, <2>2, ErrorHandlerSendable
<1>4. ASSUME out.ret = "noroute" PROVE Sendable(Processed(out))
  <2>1. Processed(out) = ErrorHandler([Cleared EXCEPT !.status = 400])
    BY <1>4 DEF Processed
  <2> QED BY <2>1, ErrorHandlerSendable
<1> QED
  BY <1>1, <1>2, <1>3, <1>4 DEF Outcome

\* The Connection header and the compression keep a response consistent: the
\* length is taken again after the body was coded.
LEMMA FinishedConsistent ==
  ASSUME NEW r, Sendable(r), NEW close \in BOOLEAN, NEW accept
  PROVE  /\ Consistent(Finished(r, close, accept))
         /\ Finished(r, close, accept).status = r.status
<1> DEFINE h == [r EXCEPT !.connection = IF close THEN "close" ELSE "keep-alive"]
           c(coding) == [h EXCEPT !.content_encoding = coding]
           z(coding) == WithBody(c(coding), Compress(h.body, coding))
<1>1. r \in ResponseType /\ Consistent(r)
  BY DEF Sendable
<1>2. /\ h \in ResponseType /\ h.status = r.status /\ h.raw = r.raw
      /\ h.body = r.body /\ h.content_length = r.content_length
      /\ h.content_encoding = r.content_encoding
  BY <1>1 DEF ResponseType
<1>3. Consistent(h)
  BY <1>1, <1>2 DEF Consistent
<1> HIDE DEF h
<1>4. ASSUME NEW coding \in Codings
      PROVE  Consistent(z(coding)) /\ z(coding).status = r.status
  <2>1. /\ c(coding) \in ResponseType /\ c(coding).status = h.status
        /\ c(coding).raw = h.raw /\ c(coding).content_encoding = coding
    BY <1>2 DEF ResponseType
  <2>2. h.body \in Body
    BY <1>2 DEF ResponseType
  <2>3. /\ Compress(h.body, coding).coding = coding
        /\ Compress(h.body, coding).page = h.body.page
    BY <2>2 DEF Compress, Body
  <2> HIDE DEF c
  <2>4. LET w == z(coding)
        IN  /\ w.body = Compress(h.body, coding)
            /\ w.content_length = Compress(h.body, coding)
            /\ w.status = h.status /\ w.raw = h.raw /\ w.content_encoding = coding
    BY <2>1, WithBodyFields
  <2> HIDE DEF z
  <2> QED BY <1>2, <1>3, <2>3, <2>4 DEF Consistent
<1>5. Finished(r, close, accept) \in {h, z("gzip"), z("deflate")}
  BY DEF Finished, compress_payload, h
<1> HIDE DEF z
<1> QED
  BY <1>2, <1>3, <1>4, <1>5 DEF Codings

\* The entry do_write adds to the history, and the call of insertRecord that
\* goes with it.
LEMMA DoWriteEntry ==
  ASSUME IndInv, NEW resp, Sendable(resp), NEW req \in RequestMember,
         req.head # 0 => RequestAt(req.head) \in Request,
         NEW size, NEW answered,
         do_write(resp, req, size, answered)
  PROVE  /\ op' = "write"
         /\ Consistent(response') /\ response'.status = resp.status
         /\ \E uri \in VisitKeys : status' = insertRecord(status, uri, resp.status)
         /\ log' = Append(log, [head |-> answered,
                                first |-> IF answered = 0 THEN cons + 1 ELSE req.first,
                                body |-> IF answered = 0 THEN {} ELSE req.body,
                                reply |-> response'])
<1> DEFINE parsed == req.head # 0
           r == RequestAt(req.head)
           uri == IF parsed THEN r.uri ELSE Unsuccessful
           close == parsed /\ r.close
           accept == IF parsed THEN r.accept ELSE {}
<1>1. /\ status' = insertRecord(status, uri, resp.status)
      /\ response' = Finished(resp, close, accept)
      /\ op' = "write"
      /\ log' = Append(log, [head |-> answered,
                             first |-> IF answered = 0 THEN cons + 1 ELSE req.first,
                             body |-> IF answered = 0 THEN {} ELSE req.body,
                             reply |-> response'])
  BY DEF do_write
<1>2. uri \in VisitKeys
  BY DEF Request, VisitKeys
<1>3. close \in BOOLEAN
  OBVIOUS
<1> HIDE DEF close, accept, uri
<1>4. Consistent(response') /\ response'.status = resp.status
  BY <1>1, <1>3, FinishedConsistent
<1> QED
  BY <1>1, <1>2, <1>4

\* The replies among the first n with code c on their status line.
ShownIn(l, n, c) == {i \in 1..n : status_to_string(l[i].reply.status) = c}

\* StatusCountsReplies in terms of those.
LEMMA CountsShown ==
  StatusCountsReplies <=>
    /\ status.total_visit = Len(log)
    /\ \A c \in {200, 400, 404, 500} :
         status.status_code_count[responseToString(c)]
           = Cardinality(ShownIn(log, Len(log), c))
BY Zenon DEF StatusCountsReplies, ShownIn

\* insertRecord counts a reply under the code on its status line, which another
\* switch statement picks: the two agree on every code but 302.
LEMMA CountedAsShown ==
  ASSUME NEW s \in {0, 200, 400, 404, 500}, NEW c \in {200, 400, 404, 500}
  PROVE  responseToString(s) = responseToString(c) <=> status_to_string(s) = c
BY DEF responseToString, status_to_string

\* One more reply and one more record.
LEMMA CountStep ==
  ASSUME StatusCountsReplies, status \in StatusType, log \in Seq(LogEntry),
         NEW e \in LogEntry, e.reply.status # 302, log' = Append(log, e),
         NEW uri, status' = insertRecord(status, uri, e.reply.status)
  PROVE  StatusCountsReplies'
<1> DEFINE s == e.reply.status
           n == Len(log)
<1>1. s \in {0, 200, 400, 404, 500}
  BY DEF LogEntry, ResponseType, ResponseCodes
<1>2. /\ n \in Nat /\ Len(log') = n + 1
      /\ \A i \in 1..n : log'[i] = log[i]
      /\ log'[n + 1] = e
  OBVIOUS
<1>3. status'.total_visit = Len(log')
  BY <1>2 DEF insertRecord, StatusCountsReplies, StatusType
<1>4. ASSUME NEW c \in {200, 400, 404, 500}
      PROVE  status'.status_code_count[responseToString(c)]
               = Cardinality(ShownIn(log', n + 1, c))
  <2>1. status.status_code_count \in [StatusCodes -> Nat]
    BY DEF StatusType
  <2>2. responseToString(c) \in StatusCodes /\ responseToString(s) \in StatusCodes
    BY DEF responseToString, StatusCodes
  <2>3. status'.status_code_count
          = [status.status_code_count EXCEPT ![responseToString(s)] = @ + 1]
    BY DEF insertRecord
  <2>4. status.status_code_count[responseToString(c)] = Cardinality(ShownIn(log, n, c))
    BY CountsShown
  <2>5. IsFiniteSet(ShownIn(log, n, c))
    <3>1. ShownIn(log, n, c) \subseteq 1..n /\ IsFiniteSet(1..n)
      BY <1>2, FS_Interval DEF ShownIn
    <3> QED BY <3>1, FS_Subset
  <2>6. n + 1 \notin ShownIn(log, n, c)
    BY <1>2 DEF ShownIn
  <2>7. CASE status_to_string(s) = c
    <3>1. ShownIn(log', n + 1, c) = ShownIn(log, n, c) \cup {n + 1}
      BY <1>2, <2>7 DEF ShownIn
    <3>2. Cardinality(ShownIn(log', n + 1, c)) = Cardinality(ShownIn(log, n, c)) + 1
      BY <2>5, <2>6, <3>1, FS_AddElement
    <3>3. responseToString(s) = responseToString(c)
      BY <1>1, <2>7, CountedAsShown
    <3> QED BY <2>1, <2>2, <2>3, <2>4, <3>2, <3>3
  <2>8. CASE status_to_string(s) # c
    <3>1. ShownIn(log', n + 1, c) = ShownIn(log, n, c)
      BY <1>2, <2>8 DEF ShownIn
    <3>2. responseToString(s) # responseToString(c)
      BY <1>1, <2>8, CountedAsShown
    <3> QED BY <2>1, <2>2, <2>3, <2>4, <3>1, <3>2
  <2> QED BY <2>7, <2>8
<1> HIDE DEF n, s
<1>5. StatusCountsReplies' <=>
        /\ status'.total_visit = Len(log')
        /\ \A c \in {200, 400, 404, 500} :
             status'.status_code_count[responseToString(c)]
               = Cardinality(ShownIn(log', Len(log'), c))
  BY Zenon DEF StatusCountsReplies, ShownIn
<1> QED
  BY <1>2, <1>3, <1>4, <1>5

\* A completed read that ends in do_write, as far as the reply goes.
LEMMA ReplyStep ==
  ASSUME ReplyInv, IndInv', NEW resp, Sendable(resp), NEW req \in RequestMember,
         req.head # 0 => RequestAt(req.head) \in Request,
         NEW size, NEW answered,
         do_write(resp, req, size, answered)
  PROVE  Fresh' /\ RepliesConsistent' /\ StatusCountsReplies'
<1> DEFINE e == [head |-> answered,
                 first |-> IF answered = 0 THEN cons + 1 ELSE req.first,
                 body |-> IF answered = 0 THEN {} ELSE req.body,
                 reply |-> response']
<1>1. /\ op' = "write"
      /\ Consistent(response') /\ response'.status = resp.status
      /\ \E uri \in VisitKeys : status' = insertRecord(status, uri, resp.status)
      /\ log' = Append(log, e)
  BY DoWriteEntry DEF ReplyInv
<1>2. e.reply = response'
  OBVIOUS
<1> HIDE DEF e
<1>3. log \in Seq(LogEntry) /\ status \in StatusType
  BY DEF ReplyInv, IndInv, TypeOK
<1>4. /\ Len(log) \in Nat /\ Len(log') = Len(log) + 1
      /\ \A i \in 1..Len(log) : log'[i] = log[i]
      /\ log'[Len(log) + 1] = e
  BY <1>1, <1>3
<1>5. e \in LogEntry
  <2>1. log' \in Seq(LogEntry)
    BY DEF IndInv, TypeOK
  <2> QED BY <1>4, <2>1
<1>6. RepliesConsistent'
  <2>1. \A i \in 1..Len(log) : Consistent(log[i].reply)
    BY DEF ReplyInv, RepliesConsistent, Consistent
  <2>2. \A i \in 1..Len(log') : Consistent(log'[i].reply)
    BY <1>1, <1>2, <1>4, <2>1
  <2> QED BY <2>2 DEF RepliesConsistent, Consistent
<1>7. StatusCountsReplies'
  <2>1. e.reply.status # 302 /\ e.reply.status = resp.status
    BY <1>1, <1>2 DEF Sendable
  <2>2. PICK uri \in VisitKeys : status' = insertRecord(status, uri, resp.status)
    BY <1>1
  <2> QED BY <1>1, <1>3, <1>5, <2>1, <2>2, CountStep DEF ReplyInv
<1> QED
  BY <1>1, <1>6, <1>7 DEF Fresh

\* Steps that answer nothing leave the history and the counters alone.
LEMMA NoReplyStep ==
  ASSUME ReplyInv, UNCHANGED <<log, status>>, Fresh'
  PROVE  Fresh' /\ RepliesConsistent' /\ StatusCountsReplies'
BY DEF ReplyInv, RepliesConsistent, StatusCountsReplies

\* Every step keeps the responses cleared in time, the replies consistent and
\* the counters exact.
LEMMA ReplyNext == ReplyInv /\ IndInv' /\ [Next]_vars => ReplyInv'
<1> SUFFICES ASSUME ReplyInv, IndInv', [Next]_vars
             PROVE  Fresh' /\ RepliesConsistent' /\ StatusCountsReplies'
  BY DEF ReplyInv
<1> USE DEF clientVars, replyVars
<1>1. CASE HandleReadPartialBad
  <2>1. /\ op = "read_until"
        /\ do_write(ErrorHandler([response EXCEPT !.status = 400]), request, 1, 0)
    BY <1>1 DEF HandleReadPartialBad
  <2>2. response = Cleared
    BY <2>1 DEF ReplyInv, Fresh
  <2>3. Sendable(ErrorHandler([response EXCEPT !.status = 400]))
    BY <2>2, ErrorHandlerSendable
  <2>4. request \in RequestMember /\ (request.head # 0 => RequestAt(request.head) \in Request)
    BY HeadRequest DEF ReplyInv, IndInv, TypeOK, RequestIsHead
  <2> QED BY <2>1, <2>3, <2>4, ReplyStep
<1>2. CASE HandleReadPartialWhole
  <2>1. PICK h \in ParsedHeads(cons + 1, recv) :
          do_write(Processed(RequestAt(h).outcome), ParsedRequest(h),
                   ReplySize(RequestAt(h).outcome), h)
    BY <1>2 DEF HandleReadPartialWhole
  <2>2. response = Cleared
    BY <1>2 DEF HandleReadPartialWhole, ReplyInv, Fresh
  <2>3. RequestAt(h) \in Request /\ ParsedRequest(h) \in RequestMember
        /\ ParsedRequest(h).head = h
    BY ParsedHeadFacts, ParsedBodyFacts DEF ReplyInv
  <2>4. Sendable(Processed(RequestAt(h).outcome))
    BY <2>2, <2>3, ProcessedSendable DEF Request
  <2> QED BY <2>1, <2>3, <2>4, ReplyStep
<1>3. CASE HandleReadBody
  <2> DEFINE req == [request EXCEPT !.body = @ \cup ((cons + 1)..recv)]
             out == RequestAt(request.head).outcome
  <2>1. op = "read" /\ request' = req /\ do_write(Processed(out), req, ReplySize(out), req.head)
    BY <1>3 DEF HandleReadBody
  <2>2. response = Cleared
    BY <2>1 DEF ReplyInv, Fresh
  <2>3. req \in RequestMember /\ req.head = request.head
    <3>1. req \in RequestMember
      BY <2>1 DEF IndInv, TypeOK
    <3>2. request \in RequestMember
      BY DEF ReplyInv, IndInv, TypeOK
    <3> QED BY <3>1, <3>2 DEF RequestMember
  <2>4. RequestAt(request.head) \in Request
    BY <2>1, HeadRequest DEF ReplyInv, IndInv, TypeOK, RequestIsHead
  <2>5. Sendable(Processed(out))
    BY <2>2, <2>4, ProcessedSendable DEF Request
  <2> HIDE DEF req, out
  <2> QED BY <2>1, <2>3, <2>4, <2>5, ReplyStep
<1>4. CASE HandleWrite
  BY <1>4, NoReplyStep DEF HandleWrite, Fresh
<1>5. CASE ClientStep \/ Transport \/ UNCHANGED vars
  <2>1. UNCHANGED <<op, response, log, status>>
    BY <1>5 DEF ClientStep, Transport, ClientRequest, ClientClose, Receive,
                WriteRest, ClientRead, vars
  <2> QED BY <2>1, NoReplyStep DEF ReplyInv, Fresh
<1>6. CASE HandleReadPartialMore \/ HandleReadPartialThrow
           \/ HandleReadError \/ HandleWriteError
  <2>1. /\ UNCHANGED <<response, log, status>>
        /\ op' \in {"none", "terminated"} \/ op = "read_until"
    BY <1>6 DEF HandleReadPartialMore, HandleReadPartialThrow,
                HandleReadError, HandleWriteError
  <2> QED BY <2>1, NoReplyStep DEF ReplyInv, Fresh
<1> QED
  BY <1>1, <1>2, <1>3, <1>4, <1>5, <1>6 DEF Next, Completion

\* A new connection has a cleared response, no replies and counters at zero.
LEMMA ReplyInit == Init => Fresh /\ RepliesConsistent /\ StatusCountsReplies
<1> SUFFICES ASSUME Init PROVE Fresh /\ RepliesConsistent /\ StatusCountsReplies
  OBVIOUS
<1>1. response = Cleared /\ Len(log) = 0 /\ status = InitialStatus
  BY DEF Init
<1>2. ASSUME NEW c \in {200, 400, 404, 500}
      PROVE  status.status_code_count[responseToString(c)] = Cardinality(ShownIn(log, Len(log), c))
  <2>1. responseToString(c) \in StatusCodes
    BY DEF responseToString, StatusCodes
  <2>2. ShownIn(log, Len(log), c) = {}
    BY <1>1 DEF ShownIn
  <2> QED BY <1>1, <2>1, <2>2, FS_EmptySet DEF InitialStatus
<1>3. StatusCountsReplies
  BY <1>1, <1>2 DEF StatusCountsReplies, ShownIn, InitialStatus
<1> QED
  BY <1>1, <1>3 DEF Fresh, RepliesConsistent

\* The invariant of the replies holds in every reachable state.
THEOREM ReplyInvariance == Spec => []ReplyInv
<1>1. Init => ReplyInv
  BY InitInv, ReplyInit DEF ReplyInv
<1>2. ReplyInv /\ [Next]_vars => ReplyInv'
  BY NextInv, ReplyNext DEF ReplyInv
<1> QED
  BY <1>1, <1>2, PTL DEF Spec

\* In every reply that is not relayed the Content-Length, the Content-Encoding
\* and the page agree with the body and the status line, whatever the handlers
\* answered before on the connection.
THEOREM ConsistentReplies == Spec => []RepliesConsistent
<1>1. ReplyInv => RepliesConsistent
  BY DEF ReplyInv
<1> QED
  BY <1>1, ReplyInvariance, PTL

\* The status page counts every reply of the connection once, under the code
\* on its status line.
THEOREM StatusCountsEveryReply == Spec => []StatusCountsReplies
<1>1. ReplyInv => StatusCountsReplies
  BY DEF ReplyInv
<1> QED
  BY <1>1, ReplyInvariance, PTL

-----------------------------------------------------------------------------
(***************************************************************************)
(* One request at a time.  A client that waits for each reply, and whose   *)
(* bodies are as long as their Content-Length says and hold no blank line  *)
(* and no zero byte, gets the i-th reply for its i-th request, wherever    *)
(* the network cuts the stream.                                            *)
(***************************************************************************)
\* The units of the body of a request that is well formed as a whole.
BodyUnits(r) == IF r.valid THEN ContentLength(r) ELSE 0

WellFramed ==
  \A r \in Requests :
    /\ r.length # BadContentLength
    /\ Len(r.body) = BodyUnits(r)
    /\ \A i \in 1..Len(r.body) : r.body[i] = "byte"

OneAtATime == ~Pipelining /\ WellFramed

\* Every request was answered and every unit of them consumed.
Settled == Len(log) = issued /\ cons = recv /\ recv = Len(stream) /\ op # "read"

\* The last request of the stream, whose head is at h.
LastRequest(h) ==
  /\ h \in 1..Len(stream) /\ h + 1 \in 1..Len(stream)
  /\ Kind(h) = "head" /\ Kind(h + 1) = "end"
  /\ \A j \in (h + 2)..Len(stream) : Kind(j) = "byte"
  /\ HeadNumber(h) = issued
  /\ Len(stream) = h + 1 + BodyUnits(RequestAt(h))

\* What the connection has of it: none of it was consumed yet, or its head and
\* the first units of its body were.
Awaited(h) ==
  /\ op \in {"read_until", "write"} => cons = h - 1
  /\ op = "read" => /\ RequestAt(h).valid
                    /\ request.head = h /\ request.first = h
                    /\ request.body = (h + 2)..cons
                    /\ h < cons
                    /\ need = Len(stream) - cons

Unanswered ==
  Len(log) + 1 = issued /\ inflight = 0 /\ (op = "write" => left = 0)

Sequential ==
  /\ HeadNumber(Len(stream)) = issued
  /\ \/ Settled
     \/ Unanswered /\ \E h \in 1..Len(stream) : LastRequest(h) /\ Awaited(h)

SeqInv == IndInv /\ Sequential /\ RepliesMatchRequests

\* The positions of heads among the first p units.
HeadsIn(s, p) == {q \in 1..p : s[q].kind = "head"}

\* They are finitely many.
LEMMA HeadsFinite ==
  ASSUME NEW s, NEW p \in Nat
  PROVE  IsFiniteSet(HeadsIn(s, p))
<1>1. HeadsIn(s, p) \subseteq 1..p /\ IsFiniteSet(1..p)
  BY FS_Interval DEF HeadsIn
<1> QED BY <1>1, FS_Subset

\* Their number depends on the first p units only.
LEMMA HeadsSame ==
  ASSUME NEW s, NEW t, NEW p \in Nat, \A q \in 1..p : s[q] = t[q]
  PROVE  HeadsIn(s, p) = HeadsIn(t, p)
BY DEF HeadsIn

\* HeadNumber before and after a step, in terms of the stream.
LEMMA HeadNumberIs ==
  /\ \A p : HeadNumber(p) = Cardinality(HeadsIn(stream, p))
  /\ \A p : HeadNumber(p)' = Cardinality(HeadsIn(stream', p))
BY Zenon DEF HeadNumber, HeadsIn, Kind

\* A request of such a client on the wire.
LEMMA WireShape ==
  ASSUME WellFramed, NEW r \in Requests
  PROVE  /\ Wire(r) \in Seq(Unit)
         /\ BodyUnits(r) \in Nat
         /\ Len(Wire(r)) = 2 + BodyUnits(r)
         /\ Wire(r)[1] = [kind |-> "head", request |-> r]
         /\ Wire(r)[2].kind = "end"
         /\ \A j \in 3..Len(Wire(r)) : Wire(r)[j].kind = "byte"
<1> DEFINE n == Len(r.body)
           b == [i \in 1..n |-> [kind |-> r.body[i]]]
           hd == [kind |-> "head", request |-> r]
           en == [kind |-> "end"]
           u == <<hd, en>>
<1>1. /\ r.body \in Seq({"byte", "nul", "end"})
      /\ n \in Nat /\ n = BodyUnits(r)
      /\ \A i \in 1..n : r.body[i] = "byte"
  BY RequestsAssumption DEF WellFramed, Request
<1>2. Wire(r) \in Seq(Unit) /\ Wire(r) = u \o b
  BY WireType DEF Wire
<1>3. hd \in Unit /\ en \in Unit /\ en.kind = "end"
  BY DEF Unit
<1>4. /\ b \in Seq(Unit) /\ Len(b) = n
      /\ \A i \in 1..n : b[i].kind = "byte"
  <2>1. \A i \in 1..n : b[i] = [kind |-> "byte"] /\ b[i] \in Unit
    BY <1>1 DEF Unit
  <2>2. \A i \in 1..n : b[i].kind = "byte"
    BY <2>1
  <2>3. b \in Seq(Unit) /\ Len(b) = n
    BY <1>1, <2>1
  <2> QED BY <2>2, <2>3
<1> HIDE DEF b, n, hd, en
<1>5. /\ u \in Seq(Unit) /\ Len(u) = 2 /\ u[1] = hd /\ u[2] = en
  BY <1>3
<1> HIDE DEF u
<1>6. /\ Len(u \o b) = 2 + n
      /\ (u \o b)[1] = hd /\ (u \o b)[2] = en
      /\ \A j \in 3..(2 + n) : (u \o b)[j] = b[j - 2]
  <2>1. /\ Len(u \o b) = 2 + n
        /\ \A j \in 1..(2 + n) : (u \o b)[j] = IF j <= 2 THEN u[j] ELSE b[j - 2]
    <3>1. /\ Len(u \o b) = Len(u) + Len(b)
          /\ \A j \in 1..(Len(u) + Len(b)) :
               (u \o b)[j] = IF j <= Len(u) THEN u[j] ELSE b[j - Len(u)]
      <4>1. u \in Seq(Unit) /\ b \in Seq(Unit)
        BY <1>4, <1>5
      <4> QED BY <4>1
    <3>2. Len(u) = 2 /\ Len(b) = n
      BY <1>4, <1>5
    <3> HIDE DEF u, b
    <3> QED BY <3>1, <3>2
  <2>2. 1 \in 1..(2 + n) /\ 2 \in 1..(2 + n) /\ 3..(2 + n) \subseteq 1..(2 + n)
        /\ \A j \in 3..(2 + n) : ~(j <= 2)
    BY <1>1
  <2> QED BY <1>5, <2>1, <2>2
<1>7. \A j \in 3..(2 + n) : (u \o b)[j].kind = "byte"
  BY <1>1, <1>4, <1>6
<1> USE DEF hd
<1> QED
  BY <1>1, <1>2, <1>3, <1>6, <1>7

\* Parse on the units of the last request, once its blank line has arrived:
\* it finds that head, unless the request is malformed, and the rest of what
\* arrived is the body.
LEMMA ParseLast ==
  ASSUME IndInv, NEW h \in 1..Len(stream), LastRequest(h), cons = h - 1, HasEnd
  PROVE  /\ h < recv
         /\ \A k \in ParsedHeads(cons + 1, recv) : k = h /\ RequestAt(h).valid
         /\ RequestAt(h).valid => h \in ParsedHeads(cons + 1, recv)
         /\ ParsedBody(cons + 1, recv, h) = (h + 2)..recv
         /\ BodyLength(h) = recv - (h + 1)
<1>1. /\ cons \in Nat /\ recv \in Nat /\ recv <= Len(stream) /\ Len(stream) \in Nat
      /\ h \in Nat /\ cons + 1 = h
  BY DEF IndInv, TypeOK, Positions
<1>2. /\ Kind(h) = "head" /\ Kind(h + 1) = "end"
      /\ \A j \in (h + 2)..Len(stream) : Kind(j) = "byte"
  BY DEF LastRequest
<1>3. h < recv
  <2>1. PICK i \in h..recv : Kind(i) = "end"
    BY <1>1 DEF HasEnd
  <2> QED BY <1>1, <1>2, <2>1
<1>4. \A j \in h..recv : /\ Kind(j) = "end" <=> j = h + 1
                         /\ Kind(j) = "head" <=> j = h
                         /\ Kind(j) # "nul"
  <2> SUFFICES ASSUME NEW j \in h..recv
               PROVE  \/ j = h /\ Kind(j) = "head"
                      \/ j = h + 1 /\ Kind(j) = "end"
                      \/ j # h /\ j # h + 1 /\ Kind(j) = "byte"
    OBVIOUS
  <2> QED BY <1>1, <1>2
<1>5. \A j \in h..recv : InText(h, j)
  BY <1>1, <1>4 DEF InText
<1>6. \A k \in ParsedHeads(h, recv) : k = h /\ RequestAt(h).valid
  BY <1>4 DEF ParsedHeads
<1>7. RequestAt(h).valid => h \in ParsedHeads(h, recv)
  <2>1. h \in h..recv /\ h..(h - 1) = {}
    BY <1>1, <1>3
  <2> QED BY <1>2, <1>3, <1>4, <1>5, <2>1 DEF ParsedHeads
<1>8. ParsedBody(h, recv, h) = (h + 2)..recv
  BY <1>1, <1>5 DEF ParsedBody
<1>9. BodyLength(h) = recv - (h + 1)
  <2>1. Cardinality((h + 2)..recv) = IF h + 2 > recv THEN 0 ELSE recv - (h + 2) + 1
    BY <1>1, FS_Interval
  <2>2. BodyLength(h) = Cardinality((h + 2)..recv)
    BY <1>1, <1>8 DEF BodyLength
  <2> QED BY <1>1, <1>3, <2>1, <2>2
<1> QED
  BY <1>1, <1>3, <1>6, <1>7, <1>8, <1>9

\* While a request is read, one is outstanding: between them the cases of
\* Sequential leave nothing else to read.
LEMMA ReadingLast ==
  ASSUME SeqInv, op \in {"read_until", "read"}, recv # cons \/ op = "read"
  PROVE  /\ Unanswered
         /\ \E h \in 1..Len(stream) : LastRequest(h) /\ Awaited(h)
<1>1. ~Settled
  BY DEF Settled
<1> QED BY <1>1 DEF SeqInv, Sequential

\* What do_write adds to the history, for the argument about order.
LEMMA DoWriteAnswers ==
  ASSUME NEW resp, NEW req, NEW size, NEW answered,
         do_write(resp, req, size, answered)
  PROVE  /\ op' = "write"
         /\ left' = size - FirstWrite(size)
         /\ \E e : /\ log' = Append(log, e)
                   /\ e.head = answered
                   /\ answered # 0 => e.first = req.first /\ e.body = req.body
<1> DEFINE e == [head |-> answered,
                 first |-> IF answered = 0 THEN cons + 1 ELSE req.first,
                 body |-> IF answered = 0 THEN {} ELSE req.body,
                 reply |-> response']
<1>1. /\ op' = "write"
      /\ left' = size - FirstWrite(size)
      /\ log' = Append(log, e)
  BY DEF do_write
<1>2. e.head = answered
      /\ (answered # 0 => e.first = req.first /\ e.body = req.body)
  OBVIOUS
<1> HIDE DEF e
<1> QED BY <1>1, <1>2

\* The answer to the last request completes the match.
LEMMA MatchStep ==
  ASSUME SeqInv, Unanswered, NEW h \in 1..Len(stream), LastRequest(h),
         UNCHANGED clientVars, recv' = recv, cons' = recv, recv = Len(stream),
         op' = "write",
         NEW e, log' = Append(log, e),
         \/ e.head = 0 /\ ~RequestAt(h).valid
         \/ /\ e.head = h /\ e.first = h
            /\ e.body = (h + 2)..(h + 1 + ContentLength(RequestAt(h)))
  PROVE  Sequential' /\ RepliesMatchRequests'
<1>1. /\ log \in Seq(LogEntry) /\ stream' = stream /\ issued' = issued
      /\ Len(log) \in Nat /\ h \in Nat
  BY DEF SeqInv, IndInv, TypeOK, clientVars
<1>2. /\ Len(log') = Len(log) + 1
      /\ \A i \in 1..Len(log) : log'[i] = log[i]
      /\ log'[Len(log) + 1] = e
  BY <1>1
<1>3. Len(log') = issued
  BY <1>2 DEF Unanswered
<1>4. \A p : HeadNumber(p)' = HeadNumber(p)
  BY <1>1 DEF HeadNumber, Kind
<1>5. Sequential'
  <2>1. HeadNumber(Len(stream))' = issued'
    BY <1>1, HeadNumberIs DEF SeqInv, Sequential
  <2>2. Settled'
    BY <1>1, <1>3 DEF Settled
  <2> QED BY <2>1, <2>2 DEF Sequential
<1>6. HeadNumber(h) = Len(log) + 1 /\ Kind(h) = "head"
  BY DEF LastRequest, Unanswered
<1> DEFINE Match(l, i) ==
      IF l[i].head # 0
        THEN /\ HeadNumber(l[i].head) = i
             /\ l[i].first = l[i].head
             /\ l[i].body = (l[i].head + 2)..(l[i].head + 1
                               + ContentLength(RequestAt(l[i].head)))
        ELSE \E p \in 1..Len(stream) :
               Kind(p) = "head" /\ HeadNumber(p) = i /\ ~RequestAt(p).valid
<1>7. \A i \in 1..Len(log) : Match(log, i)
  BY DEF SeqInv, RepliesMatchRequests
<1>8. \A i \in 1..Len(log) : Match(log', i)
  BY <1>2, <1>7
<1>9. Match(log', Len(log) + 1)
  BY <1>1, <1>2, <1>6
<1>10. \A i \in 1..Len(log') : Match(log', i)
  <2> HIDE DEF Match
  <2> QED BY <1>1, <1>2, <1>8, <1>9
<1>11. RepliesMatchRequests'
  BY <1>1, <1>4, <1>10 DEF RepliesMatchRequests, Kind, RequestAt
<1> QED
  BY <1>5, <1>11

\* The client's next request becomes the last one.
LEMMA NextRequest ==
  ASSUME OneAtATime, SeqInv, NEW rq \in Requests, ClientRequest(rq)
  PROVE  Sequential' /\ RepliesMatchRequests'
<1>0. PICK n \in Nat, h \in Nat : n = Len(stream) /\ h = n + 1
  <2>1. Len(stream) \in Nat /\ Len(stream) + 1 \in Nat
    BY DEF SeqInv, IndInv, TypeOK
  <2> QED BY <2>1
<1>1. /\ stream \in Seq(Unit) /\ log \in Seq(LogEntry) /\ issued \in Nat
      /\ n \in Nat /\ cons \in Nat /\ recv \in Nat /\ Len(log) \in Nat
      /\ cons <= recv /\ recv <= n
      /\ n = Len(stream) /\ h \in Nat /\ h = n + 1
  BY <1>0 DEF SeqInv, IndInv, TypeOK, Positions
<1>2. /\ Replies = issued /\ inflight = 0
      /\ stream' = stream \o Wire(rq) /\ issued' = issued + 1
      /\ UNCHANGED <<recv, cons, op, request, need, log, inflight, left>>
  BY DEF ClientRequest, OneAtATime, replyVars
<1>3. Settled /\ (op = "write" => ~(left > 0))
  <2>1. Replies \in {Len(log), Len(log) - 1}
    BY DEF Replies
  <2>2. Len(log) + 1 # issued
    BY <1>1, <1>2, <2>1
  <2>3. Settled
    BY <2>2 DEF SeqInv, Sequential, Unanswered
  <2> QED BY <1>1, <1>2, <2>3 DEF Settled, Replies
<1>4. /\ BodyUnits(rq) \in Nat
      /\ Wire(rq) \in Seq(Unit) /\ Len(Wire(rq)) = 2 + BodyUnits(rq)
      /\ Wire(rq)[1] = [kind |-> "head", request |-> rq]
      /\ Wire(rq)[2].kind = "end"
      /\ \A j \in 3..Len(Wire(rq)) : Wire(rq)[j].kind = "byte"
  BY WireShape DEF OneAtATime
<1>5. /\ Len(stream') = n + 2 + BodyUnits(rq)
      /\ \A j \in 1..Len(stream') :
           stream'[j] = IF j <= n THEN stream[j] ELSE Wire(rq)[j - n]
  <2> DEFINE u == Wire(rq)
  <2> HIDE DEF u
  <2>1. /\ Len(stream \o u) = n + Len(u)
        /\ \A j \in 1..(n + Len(u)) :
             (stream \o u)[j] = IF j <= n THEN stream[j] ELSE u[j - n]
    <3>1. u \in Seq(Unit)
      BY <1>4 DEF u
    <3> QED BY <1>1, <3>1
  <2>2. Len(u) = 2 + BodyUnits(rq)
    BY <1>4 DEF u
  <2>3. stream' = stream \o u
    BY <1>2 DEF u
  <2>4. n + Len(u) = n + 2 + BodyUnits(rq)
    <3>1. \A a, b \in Nat : a + (2 + b) = a + 2 + b
      OBVIOUS
    <3>2. BodyUnits(rq) \in Nat
      BY <1>4
    <3> HIDE DEF u
    <3> QED BY <2>2, <3>1, <3>2
  <2> QED BY <2>1, <2>3, <2>4 DEF u
<1>6. h \in 1..Len(stream') /\ h + 1 \in 1..Len(stream')
  BY <1>1, <1>4, <1>5
<1>7. stream'[h] = [kind |-> "head", request |-> rq] /\ stream'[h + 1].kind = "end"
  <2>1. ~(h <= n) /\ ~(h + 1 <= n) /\ h - n = 1 /\ (h + 1) - n = 2
    BY <1>1
  <2> QED BY <1>4, <1>5, <1>6, <2>1
<1>8. \A j \in (h + 2)..Len(stream') : stream'[j].kind = "byte"
  <2> SUFFICES ASSUME NEW j \in (h + 2)..Len(stream') PROVE stream'[j].kind = "byte"
    OBVIOUS
  <2>1. j \in 1..Len(stream') /\ ~(j <= n) /\ j - n \in 3..Len(Wire(rq))
    BY <1>1, <1>4, <1>5
  <2> QED BY <1>4, <1>5, <2>1
<1>9. \A q \in 1..n : stream'[q] = stream[q]
  BY <1>1, <1>4, <1>5
<1>10. HeadsIn(stream', h) = HeadsIn(stream, n) \cup {h}
       /\ HeadsIn(stream', Len(stream')) = HeadsIn(stream, n) \cup {h}
  <2>1. \A q \in 1..Len(stream') :
          \/ q \in 1..n /\ stream'[q] = stream[q]
          \/ q = h
          \/ q \in (h + 1)..Len(stream') /\ stream'[q].kind # "head"
    <3> SUFFICES ASSUME NEW q \in 1..Len(stream'), q \notin 1..n, q # h
                 PROVE  q \in (h + 1)..Len(stream') /\ stream'[q].kind # "head"
      BY <1>9
    <3>1. q \in (h + 1)..Len(stream')
      BY <1>1, <1>4, <1>5
    <3>2. q = h + 1 \/ q \in (h + 2)..Len(stream')
      BY <1>1, <1>4, <1>5, <3>1
    <3> QED BY <1>7, <1>8, <3>1, <3>2
  <2>2. 1..n \subseteq 1..h /\ 1..h \subseteq 1..Len(stream') /\ h \in 1..h /\ h \notin 1..n
        /\ \A q \in 1..h : q \notin (h + 1)..Len(stream')
    BY <1>1, <1>6
  <2> QED BY <1>6, <1>7, <2>1, <2>2 DEF HeadsIn
<1>11. /\ HeadNumber(h)' = HeadNumber(n) + 1
       /\ HeadNumber(Len(stream))' = HeadNumber(n) + 1
  <2>1. IsFiniteSet(HeadsIn(stream, n)) /\ h \notin HeadsIn(stream, n)
    BY <1>1, HeadsFinite DEF HeadsIn
  <2>2. Cardinality(HeadsIn(stream, n) \cup {h}) = Cardinality(HeadsIn(stream, n)) + 1
    BY <2>1, FS_AddElement
  <2>3. HeadNumber(h)' = Cardinality(HeadsIn(stream', h))
    BY HeadNumberIs
  <2>4. HeadNumber(Len(stream))' = Cardinality(HeadsIn(stream', Len(stream')))
    BY Zenon DEF HeadNumber, HeadsIn, Kind
  <2>5. HeadNumber(n) = Cardinality(HeadsIn(stream, n))
    BY HeadNumberIs
  <2> QED BY <1>10, <2>2, <2>3, <2>4, <2>5
<1>12. HeadNumber(n) = issued
  BY <1>1 DEF SeqInv, Sequential
<1>13. RequestAt(h)' = rq /\ Kind(h)' = "head" /\ Kind(h + 1)' = "end"
  BY <1>7 DEF RequestAt, Kind
<1>14. LastRequest(h)'
  <2>1. \A j \in (h + 2)..Len(stream') : Kind(j)' = "byte"
    BY <1>8 DEF Kind
  <2>2. HeadNumber(h)' = issued'
    BY <1>2, <1>11, <1>12
  <2>3. Len(stream') = h + 1 + BodyUnits(rq)
    BY <1>1, <1>4, <1>5
  <2> QED BY <1>6, <1>13, <2>1, <2>2, <2>3 DEF LastRequest
<1>15. Sequential'
  <2>1. Unanswered'
    BY <1>1, <1>2, <1>3 DEF Unanswered, Settled, TypeOK, SeqInv, IndInv
  <2>2. Awaited(h)'
    BY <1>1, <1>2, <1>3 DEF Awaited, Settled
  <2>3. HeadNumber(Len(stream))' = issued'
    BY <1>2, <1>11, <1>12
  <2> QED BY <1>6, <1>14, <2>1, <2>2, <2>3 DEF Sequential
<1>16. \A p \in 1..n : /\ HeadNumber(p)' = HeadNumber(p)
                       /\ RequestAt(p)' = RequestAt(p) /\ Kind(p)' = Kind(p)
  <2> SUFFICES ASSUME NEW p \in 1..n
               PROVE  /\ HeadNumber(p)' = HeadNumber(p)
                      /\ RequestAt(p)' = RequestAt(p) /\ Kind(p)' = Kind(p)
    OBVIOUS
  <2>1. p \in Nat /\ \A q \in 1..p : stream'[q] = stream[q]
    BY <1>1, <1>9
  <2>2. HeadsIn(stream', p) = HeadsIn(stream, p)
    BY <2>1, HeadsSame
  <2> QED BY <1>9, <2>2, HeadNumberIs DEF RequestAt, Kind
<1>17. RepliesMatchRequests'
  <2> DEFINE Match(i, k) ==
        IF k # 0
          THEN /\ HeadNumber(k)' = i
               /\ log[i].first = k
               /\ log[i].body = (k + 2)..(k + 1 + ContentLength(RequestAt(k)'))
          ELSE \E p \in 1..Len(stream') :
                 Kind(p)' = "head" /\ HeadNumber(p)' = i /\ ~RequestAt(p)'.valid
  <2>1. ASSUME NEW i \in 1..Len(log), NEW k, k = log[i].head
        PROVE  Match(i, k)
    <3>1. log[i] \in LogEntry
      BY <1>1
    <3>2. k \in Nat /\ k <= cons
      BY <2>1, <3>1 DEF LogEntry, SeqInv, IndInv, AnsweredHeads
    <3>3. k # 0 => k \in 1..n
      BY <1>1, <3>2
    <3>4. 1..n \subseteq 1..Len(stream')
      BY <1>1, <1>4, <1>5
    <3>5. IF k # 0
            THEN /\ HeadNumber(k) = i /\ log[i].first = k
                 /\ log[i].body = (k + 2)..(k + 1 + ContentLength(RequestAt(k)))
            ELSE \E p \in 1..n :
                   Kind(p) = "head" /\ HeadNumber(p) = i /\ ~RequestAt(p).valid
      BY <1>1, <2>1 DEF SeqInv, RepliesMatchRequests
    <3>6. CASE k # 0
      <4>1. HeadNumber(k)' = HeadNumber(k) /\ RequestAt(k)' = RequestAt(k)
        BY <1>16, <3>3, <3>6
      <4> QED BY <3>5, <3>6, <4>1
    <3>7. CASE k = 0
      BY <1>16, <3>4, <3>5, <3>7
    <3> QED BY <3>6, <3>7
  <2>2. \A i \in 1..Len(log') : \E k : k = log'[i].head /\ log'[i] = log[i] /\ Match(i, k)
    BY <1>2, <2>1
  <2> QED BY <2>2 DEF RepliesMatchRequests
<1> QED
  BY <1>15, <1>17

\* Steps that add nothing to the stream or the history.
LEMMA SameMatch ==
  ASSUME SeqInv, UNCHANGED <<stream, log, issued>>,
         \/ Settled /\ Settled'
         \/ /\ Unanswered /\ Unanswered'
            /\ \A h \in 1..Len(stream) : LastRequest(h) /\ Awaited(h) => Awaited(h)'
  PROVE  Sequential' /\ RepliesMatchRequests'
<1>1. \A p : /\ HeadNumber(p)' = HeadNumber(p) /\ RequestAt(p)' = RequestAt(p)
             /\ Kind(p)' = Kind(p)
  BY DEF HeadNumber, RequestAt, Kind
<1>2. RepliesMatchRequests'
  BY <1>1, Zenon DEF SeqInv, RepliesMatchRequests
<1>3. HeadNumber(Len(stream))' = issued'
  BY HeadNumberIs DEF SeqInv, Sequential
<1>4. ASSUME Unanswered, Unanswered',
             \A h \in 1..Len(stream) : LastRequest(h) /\ Awaited(h) => Awaited(h)'
      PROVE  \E h \in 1..Len(stream) : LastRequest(h)' /\ Awaited(h)'
  <2>1. ~Settled
    BY <1>4 DEF Unanswered, Settled, SeqInv, IndInv, TypeOK
  <2>2. PICK h \in 1..Len(stream) : LastRequest(h) /\ Awaited(h)
    BY <2>1 DEF SeqInv, Sequential
  <2>3. LastRequest(h)'
    BY <1>1, <2>2 DEF LastRequest
  <2> QED BY <1>4, <2>2, <2>3
<1> QED
  BY <1>2, <1>3, <1>4 DEF Sequential

\* The three handlers that answer, and the one that goes on reading.
LEMMA ReadPartialMatch ==
  ASSUME OneAtATime, SeqInv, IndInv',
         HandleReadPartialBad \/ HandleReadPartialMore \/ HandleReadPartialWhole
  PROVE  Sequential' /\ RepliesMatchRequests'
<1>1. op = "read_until" /\ HasEnd
  BY DEF HandleReadPartialBad, HandleReadPartialMore, HandleReadPartialWhole
<1>2. /\ cons \in Nat /\ recv \in Nat /\ recv <= Len(stream) /\ Len(stream) \in Nat
      /\ stream \in Seq(Unit)
  BY DEF SeqInv, IndInv, TypeOK, Positions
<1>3. recv # cons
  BY <1>1, <1>2 DEF HasEnd
<1>4. PICK h \in 1..Len(stream) : LastRequest(h) /\ Awaited(h)
  BY <1>1, <1>3, ReadingLast
<1>5. Unanswered
  BY <1>1, <1>3, ReadingLast
<1>6. cons = h - 1 /\ h \in Nat /\ cons + 1 = h
  BY <1>1, <1>2, <1>4 DEF Awaited
<1>7. /\ h < recv
      /\ \A k \in ParsedHeads(cons + 1, recv) : k = h /\ RequestAt(h).valid
      /\ RequestAt(h).valid => h \in ParsedHeads(cons + 1, recv)
      /\ ParsedBody(cons + 1, recv, h) = (h + 2)..recv
      /\ BodyLength(h) = recv - (h + 1)
  BY <1>1, <1>4, <1>6, ParseLast DEF SeqInv
<1>8. /\ Len(stream) = h + 1 + BodyUnits(RequestAt(h)) /\ Kind(h) = "head"
      /\ RequestAt(h) \in Requests /\ RequestAt(h) \in Request
  BY <1>2, <1>4, HeadRequest DEF LastRequest
<1>9. CASE HandleReadPartialBad
  <2>1. /\ UNCHANGED clientVars /\ recv' = recv /\ cons' = recv
        /\ ParsedHeads(cons + 1, recv) = {}
        /\ do_write(ErrorHandler([response EXCEPT !.status = 400]), request, 1, 0)
    BY <1>9 DEF HandleReadPartialBad
  <2>2. ~RequestAt(h).valid
    BY <1>7, <2>1
  <2>3. recv = Len(stream)
    BY <1>2, <1>6, <1>7, <1>8, <2>2 DEF BodyUnits
  <2>4. op' = "write" /\ \E e : log' = Append(log, e) /\ e.head = 0
    BY <2>1, DoWriteAnswers
  <2> QED BY <1>4, <1>5, <2>1, <2>2, <2>3, <2>4, MatchStep
<1>10. CASE HandleReadPartialWhole
  <2>1. PICK k \in ParsedHeads(cons + 1, recv) :
          /\ ContentLength(RequestAt(k)) <= BodyLength(k)
          /\ request' = ParsedRequest(k)
          /\ do_write(Processed(RequestAt(k).outcome), ParsedRequest(k),
                      ReplySize(RequestAt(k).outcome), k)
    BY <1>10 DEF HandleReadPartialWhole
  <2>2. UNCHANGED clientVars /\ recv' = recv /\ cons' = recv
    BY <1>10 DEF HandleReadPartialWhole
  <2>3. k = h /\ RequestAt(h).valid
    BY <1>7
  <2>4. ContentLength(RequestAt(h)) \in Nat
    BY <1>8, ContentLengthType DEF OneAtATime, WellFramed
  <2>5. recv = Len(stream)
    BY <1>2, <1>6, <1>7, <1>8, <2>1, <2>3, <2>4 DEF BodyUnits
  <2>6. op' = "write" /\ \E e : /\ log' = Append(log, e) /\ e.head = k
                                /\ e.first = h /\ e.body = (h + 2)..recv
    <3>1. ParsedRequest(k).first = h /\ ParsedRequest(k).body = (h + 2)..recv
      BY <1>6, <1>7, <2>3 DEF ParsedRequest
    <3> QED BY <1>6, <2>1, <2>3, <3>1, DoWriteAnswers
  <2>7. (h + 2)..recv = (h + 2)..(h + 1 + ContentLength(RequestAt(h)))
    BY <1>8, <2>3, <2>5 DEF BodyUnits
  <2> QED BY <1>4, <1>5, <2>2, <2>3, <2>5, <2>6, <2>7, MatchStep
<1>11. CASE HandleReadPartialMore
  <2>1. PICK k \in ParsedHeads(cons + 1, recv) :
          /\ request' = ParsedRequest(k)
          /\ need' = ContentLength(RequestAt(k)) - BodyLength(k)
    BY <1>11 DEF HandleReadPartialMore
  <2>2. /\ UNCHANGED clientVars /\ UNCHANGED replyVars
        /\ recv' = recv /\ cons' = recv /\ op' = "read"
    BY <1>11 DEF HandleReadPartialMore
  <2>3. k = h /\ RequestAt(h).valid
    BY <1>7
  <2>4. ContentLength(RequestAt(h)) \in Nat
    BY <1>8, ContentLengthType DEF OneAtATime, WellFramed
  <2>5. /\ request'.head = h /\ request'.first = h
        /\ request'.body = (h + 2)..cons'
        /\ h < cons' /\ need' = Len(stream) - cons'
    <3>1. need' = Len(stream) - cons'
      BY <1>2, <1>6, <1>7, <1>8, <2>1, <2>2, <2>3, <2>4 DEF BodyUnits
    <3> QED BY <1>6, <1>7, <2>1, <2>2, <2>3, <3>1 DEF ParsedRequest
  <2>6. \A j \in 1..Len(stream) : LastRequest(j) => j = h
    BY <1>2, <1>4 DEF LastRequest
  <2>7. Awaited(h)'
    BY <2>2, <2>3, <2>5 DEF Awaited, clientVars, RequestAt
  <2>8. Unanswered'
    BY <1>5, <2>2 DEF Unanswered, clientVars, replyVars
  <2> QED BY <1>5, <2>2, <2>6, <2>7, <2>8, SameMatch DEF clientVars, replyVars
<1> QED BY <1>9, <1>10, <1>11

\* handle_read_body answers the request whose body it completes.
LEMMA ReadBodyMatch ==
  ASSUME OneAtATime, SeqInv, IndInv', HandleReadBody
  PROVE  Sequential' /\ RepliesMatchRequests'
<1> DEFINE req == [request EXCEPT !.body = @ \cup ((cons + 1)..recv)]
           out == RequestAt(request.head).outcome
<1>1. /\ op = "read" /\ recv = cons + need
      /\ do_write(Processed(out), req, ReplySize(out), req.head)
      /\ recv' = recv /\ cons' = recv /\ UNCHANGED clientVars
  BY DEF HandleReadBody
<1>2. /\ cons \in Nat /\ recv \in Nat /\ recv <= Len(stream) /\ Len(stream) \in Nat
      /\ stream \in Seq(Unit) /\ request \in RequestMember /\ cons <= recv
  BY DEF SeqInv, IndInv, TypeOK, Positions
<1>3. PICK h \in 1..Len(stream) : LastRequest(h) /\ Awaited(h)
  BY <1>1, ReadingLast
<1>4. Unanswered
  BY <1>1, ReadingLast
<1>5. /\ RequestAt(h).valid /\ request.head = h /\ request.first = h
      /\ request.body = (h + 2)..cons /\ h < cons /\ need = Len(stream) - cons
      /\ h \in Nat /\ h # 0
  BY <1>1, <1>2, <1>3 DEF Awaited
<1>6. recv = Len(stream)
  BY <1>1, <1>2, <1>5
<1>7. req.head = h /\ req.first = h /\ req.body = (h + 2)..recv
  <2>1. req.head = h /\ req.first = h /\ req.body = request.body \cup ((cons + 1)..recv)
    BY <1>2, <1>5 DEF RequestMember
  <2>2. (h + 2)..cons \cup (cons + 1)..recv = (h + 2)..recv
    BY <1>2, <1>5
  <2> QED BY <1>5, <2>1, <2>2
<1>8. Len(stream) = h + 1 + ContentLength(RequestAt(h))
  BY <1>3, <1>5 DEF LastRequest, BodyUnits
<1> HIDE DEF req, out
<1>9. op' = "write" /\ \E e : /\ log' = Append(log, e) /\ e.head = h
                              /\ e.first = h /\ e.body = (h + 2)..recv
  BY <1>1, <1>5, <1>7, DoWriteAnswers
<1> QED
  BY <1>1, <1>3, <1>4, <1>6, <1>8, <1>9, MatchStep

\* Every step of such a client, the network and the handlers keeps the match.
LEMMA SeqNext ==
  ASSUME OneAtATime, SeqInv, IndInv', [Next]_vars
  PROVE  Sequential' /\ RepliesMatchRequests'
<1> USE DEF clientVars, replyVars
<1>0. /\ cons \in Nat /\ recv \in Nat /\ left \in Nat /\ inflight \in Nat
      /\ Len(stream) \in Nat
  BY DEF SeqInv, IndInv, TypeOK
<1>1. Settled \/ Unanswered
  BY DEF SeqInv, Sequential
<1>2. CASE ClientRead \/ ClientClose \/ WriteRest \/ HandleWrite
           \/ HandleReadError \/ HandleWriteError \/ UNCHANGED vars
  <2>1. /\ UNCHANGED <<stream, log, issued, recv, cons, request, need>>
        /\ op' = op \/ op' = "none" \/ (op = "write" /\ op' = "read_until")
        /\ inflight = 0 /\ (op = "write" => left = 0) => UNCHANGED <<inflight, left>>
    <3>1. CASE ClientRead
      BY <3>1 DEF ClientRead
    <3>2. CASE ClientClose \/ UNCHANGED vars
      BY <3>2 DEF ClientClose, vars
    <3>3. CASE WriteRest
      BY <3>3 DEF WriteRest
    <3>4. CASE HandleWrite
      BY <3>4 DEF HandleWrite
    <3>5. CASE HandleReadError \/ HandleWriteError
      BY <3>5 DEF HandleReadError, HandleWriteError
    <3> QED BY <1>2, <3>1, <3>2, <3>3, <3>4, <3>5
  <2>2. Settled => Settled'
    BY <2>1 DEF Settled
  <2>3. Unanswered => Unanswered'
    BY <2>1 DEF Unanswered
  <2>4. \A h : Awaited(h) => Awaited(h)'
    BY <2>1 DEF Awaited, RequestAt
  <2> QED BY <1>1, <2>1, <2>2, <2>3, <2>4, SameMatch
<1>3. ASSUME NEW n \in 1..(Len(stream) - recv), Receive(n)
      PROVE  Sequential' /\ RepliesMatchRequests'
  <2>1. /\ UNCHANGED <<stream, log, issued, cons, op, request, need, inflight, left>>
        /\ recv + n <= Len(stream) /\ n \in Nat /\ n # 0
    BY <1>3 DEF Receive
  <2>2. Unanswered
    BY <1>0, <1>1, <2>1 DEF Settled
  <2>3. Unanswered'
    BY <2>1, <2>2 DEF Unanswered
  <2>4. \A h : Awaited(h) => Awaited(h)'
    BY <2>1 DEF Awaited, RequestAt
  <2> QED BY <2>1, <2>2, <2>3, <2>4, SameMatch
<1>4. CASE HandleReadPartialThrow
  <2>1. PICK h \in ParsedHeads(cons + 1, recv) :
          RequestAt(h).length = BadContentLength
    BY <1>4 DEF HandleReadPartialThrow
  <2>2. RequestAt(h) \in Requests
    BY ParsedHeadFacts DEF SeqInv
  <2> QED BY <2>1, <2>2 DEF OneAtATime, WellFramed
<1>5. ASSUME NEW r \in Requests, ClientRequest(r)
      PROVE  Sequential' /\ RepliesMatchRequests'
  BY <1>5, NextRequest
<1> QED
  BY <1>2, <1>3, <1>4, <1>5, ReadPartialMatch, ReadBodyMatch
     DEF Next, ClientStep, Transport, Completion

\* Nothing has been sent or answered.
LEMMA SeqInit == Init => Sequential /\ RepliesMatchRequests
<1> SUFFICES ASSUME Init PROVE Sequential /\ RepliesMatchRequests
  OBVIOUS
<1>1. /\ Len(log) = 0 /\ issued = 0 /\ cons = 0 /\ recv = 0 /\ Len(stream) = 0
      /\ op = "read_until"
  BY DEF Init
<1>2. HeadsIn(stream, 0) = {}
  BY DEF HeadsIn
<1>3. HeadNumber(Len(stream)) = 0
  BY <1>1, <1>2, HeadNumberIs, FS_EmptySet
<1> QED
  BY <1>1, <1>3 DEF Sequential, Settled, RepliesMatchRequests

\* The invariant of one request at a time holds in every reachable state.
THEOREM SequentialInvariance ==
  ASSUME OneAtATime
  PROVE  Spec => []SeqInv
<1>1. Init => SeqInv
  BY InitInv, SeqInit DEF SeqInv
<1>2. SeqInv /\ [Next]_vars => SeqInv'
  <2> SUFFICES ASSUME SeqInv, [Next]_vars PROVE SeqInv'
    OBVIOUS
  <2>1. IndInv'
    BY NextInv DEF SeqInv
  <2> QED BY <2>1, SeqNext DEF SeqInv
<1> QED
  BY <1>1, <1>2, PTL DEF Spec

\* A client that waits for its replies gets the i-th reply for its i-th
\* request: the handler was run with exactly the head and the Content-Length
\* units of body that were sent, or the request was refused because its own
\* head is malformed, for every set of such requests and every cut of the
\* stream.
THEOREM RepliesMatch ==
  ASSUME OneAtATime
  PROVE  Spec => []RepliesMatchRequests
<1>1. SeqInv => RepliesMatchRequests
  BY DEF SeqInv
<1> QED
  BY <1>1, SequentialInvariance, PTL

-----------------------------------------------------------------------------
(***************************************************************************)
(* Connection implements Exchange: the first state maps to a first state,  *)
(* and every step of the client, the network and the handlers maps to a    *)
(* step of Exchange or leaves its variables alone.                         *)
(***************************************************************************)
\* When the next request is read, the one in the request member (the last one
\* answered, or one that a malformed request did not replace) asked for no close.
ReadingOn == op = "read_until" => ~WantsClose

\* While a reply to a request that asked for a close is written, it is the last.
WritingLast ==
  op = "write" /\ WantsClose
    => log # <<>> /\ log[Len(log)].head = request.head

\* What the client has sent begins with a head.
HeadFirst == stream # <<>> => Kind(1) = "head"

\* Every reply that is no refusal is to a head of the stream.
AnswersHeads ==
  \A i \in 1..Len(log) : log[i].head # 0 => log[i].head \in Heads

RefInv == IndInv /\ ReadingOn /\ WritingLast /\ HeadFirst /\ AnswersHeads

-----------------------------------------------------------------------------
\* What the history's entries are.
LEMMA LogFacts ==
  ASSUME IndInv
  PROVE  /\ log \in Seq(LogEntry) /\ Len(log) \in Nat
         /\ stream \in Seq(Unit) /\ Len(stream) \in Nat
         /\ cons \in Nat /\ recv \in Nat /\ cons <= recv /\ recv <= Len(stream)
         /\ \A i \in 1..Len(log) : log[i].head \in Nat /\ log[i].head <= cons
<1>1. \A x \in LogEntry : x.head \in Nat
  BY DEF LogEntry
<1> QED
  BY <1>1 DEF IndInv, TypeOK, Positions, AnsweredHeads

\* Nothing that was answered while the connection reads asked for a close.
LEMMA NoneClosed ==
  ASSUME IndInv, op \in {"read_until", "read"}
  PROVE  ~Ex!LastCloses
<1> SUFFICES ASSUME Ex!LastCloses PROVE FALSE
  OBVIOUS
<1> DEFINE answers == [i \in 1..Len(log) |-> log[i].head]
<1>1. PICK n \in Heads :
        /\ answers # <<>> /\ answers[Len(answers)] = n
        /\ RequestAt(n).close
  BY DEF Ex!LastCloses
<1>2. Len(log) \in Nat /\ Len(answers) = Len(log)
  BY LogFacts
<1>3. Len(log) # 0
  BY <1>1, <1>2
<1>4. Len(log) \in 1..Len(log) /\ log[Len(log)].head = n
  BY <1>1, <1>2, <1>3
<1>5. n # 0
  BY <1>1, LogFacts DEF Heads
<1> QED
  BY <1>1, <1>4, <1>5 DEF IndInv, ClosePending

-----------------------------------------------------------------------------
(***************************************************************************)
(* The handlers that answer: handle_read_partial when it refuses, when it  *)
(* has the whole request, and handle_read_body.                            *)
(***************************************************************************)
Answering == HandleReadPartialBad \/ HandleReadPartialWhole \/ HandleReadBody

\* What they have in common: they append one entry to the log, for the request
\* that is then the request member or for a refusal.
LEMMA AnsweringFacts ==
  ASSUME RefInv, Answering
  PROVE  /\ op \in {"read_until", "read"} /\ op' = "write"
         /\ UNCHANGED clientVars
         /\ stream # <<>>
         /\ \E e : /\ log' = Append(log, e)
                   /\ \/ e.head = 0 /\ request' = request /\ op = "read_until"
                      \/ /\ e.head = request'.head /\ e.head \in Heads
                         /\ \A i \in 1..Len(log) : log[i].head < e.head
<1> USE DEF RefInv
<1>1. CASE HandleReadPartialBad
  <2>1. /\ op = "read_until" /\ op' = "write" /\ UNCHANGED clientVars
        /\ request' = request
        /\ \E e : log' = Append(log, e) /\ e.head = 0
    BY <1>1 DEF HandleReadPartialBad, do_write
  <2>2. stream # <<>>
    BY <1>1, LogFacts DEF HandleReadPartialBad, HasEnd
  <2> QED BY <2>1, <2>2
<1>2. CASE HandleReadPartialWhole
  <2>1. PICK h \in ParsedHeads(cons + 1, recv) :
          /\ request' = ParsedRequest(h)
          /\ do_write(Processed(RequestAt(h).outcome), ParsedRequest(h),
                      ReplySize(RequestAt(h).outcome), h)
    BY <1>2 DEF HandleReadPartialWhole
  <2>2. h \in 1..Len(stream) /\ cons < h /\ Kind(h) = "head"
    BY ParsedHeadFacts
  <2>3. request'.head = h
    BY <2>1, ParsedBodyFacts
  <2>4. /\ op = "read_until" /\ op' = "write" /\ UNCHANGED clientVars
        /\ \E e : log' = Append(log, e) /\ e.head = h
    BY <1>2, <2>1 DEF HandleReadPartialWhole, do_write
  <2>5. \A i \in 1..Len(log) : log[i].head < h
    BY <2>2, LogFacts
  <2>6. h \in Heads /\ stream # <<>>
    BY <2>2 DEF Heads
  <2> QED BY <2>3, <2>4, <2>5, <2>6
<1>3. CASE HandleReadBody
  <2>1. /\ op = "read" /\ op' = "write" /\ UNCHANGED clientVars
        /\ request' = [request EXCEPT !.body = @ \cup ((cons + 1)..recv)]
        /\ \E e : log' = Append(log, e) /\ e.head = request'.head
    BY <1>3 DEF HandleReadBody, do_write
  <2>2. request'.head = request.head
    BY <2>1 DEF IndInv, TypeOK, RequestMember
  <2>3. request.head \in Heads
    BY <2>1 DEF IndInv, RequestIsHead, Heads
  <2>4. \A i \in 1..Len(log) : log[i].head < request.head
    BY <2>1 DEF IndInv, AnsweredHeads
  <2>5. stream # <<>>
    BY <2>3, LogFacts DEF Heads
  <2> QED BY <2>1, <2>2, <2>3, <2>4, <2>5
<1> QED BY <1>1, <1>2, <1>3 DEF Answering

\* They are the steps Answer and Refuse of Exchange.
LEMMA AnsweringRefines ==
  ASSUME RefInv, Answering
  PROVE  Ex!Next
<1>1. /\ op \in {"read_until", "read"} /\ op' = "write"
      /\ UNCHANGED clientVars
      /\ stream # <<>>
      /\ \E e : /\ log' = Append(log, e)
                /\ \/ e.head = 0 /\ request' = request /\ op = "read_until"
                   \/ /\ e.head = request'.head /\ e.head \in Heads
                      /\ \A i \in 1..Len(log) : log[i].head < e.head
  BY AnsweringFacts
<1>2. PICK e : /\ log' = Append(log, e)
               /\ \/ e.head = 0
                  \/ /\ e.head \in Heads
                     /\ \A i \in 1..Len(log) : log[i].head < e.head
  BY <1>1
<1> DEFINE answers == [i \in 1..Len(log) |-> log[i].head]
<1>3. log \in Seq(LogEntry) /\ Len(log) \in Nat
  BY LogFacts DEF RefInv
<1>4. /\ Len(log') = Len(log) + 1
      /\ \A i \in 1..Len(log) : log'[i] = log[i]
      /\ log'[Len(log) + 1] = e
  BY <1>2, <1>3
<1>5. answers' = Append(answers, e.head)
  <2>1. answers' = [i \in 1..(Len(log) + 1) |-> IF i = Len(log) + 1 THEN e.head ELSE log[i].head]
    BY <1>3, <1>4
  <2>2. Len(answers) = Len(log)
    BY <1>3
  <2>3. Append(answers, e.head)
          = [i \in 1..(Len(log) + 1) |-> IF i = Len(log) + 1 THEN e.head ELSE log[i].head]
    BY <1>3, <2>2
  <2> QED BY <2>1, <2>3
<1>6. ~Ex!LastCloses
  BY <1>1, NoneClosed DEF RefInv
<1>7. Heads # {}
  BY <1>1, LogFacts DEF Heads, RefInv, HeadFirst
<1>8. /\ [h \in Heads |-> RequestAt(h)]' = [h \in Heads |-> RequestAt(h)]
      /\ client_open' = client_open
  BY <1>1 DEF Heads, RequestAt, Kind, clientVars
<1>9. /\ op \notin {"none", "terminated"}
      /\ (op \notin {"none", "terminated"})' = (op \notin {"none", "terminated"})
  BY <1>1
<1>10. CASE e.head = 0
  <2>1. Ex!Refuse
    BY <1>5, <1>6, <1>7, <1>8, <1>9, <1>10 DEF Ex!Refuse
  <2> QED BY <2>1 DEF Ex!Next
<1>11. CASE e.head \in Heads /\ \A i \in 1..Len(log) : log[i].head < e.head
  <2>1. Ex!Later(e.head)
    BY <1>3, <1>11 DEF Ex!Later
  <2>2. Ex!Answer
    BY <1>5, <1>6, <1>8, <1>9, <1>11, <2>1 DEF Ex!Answer
  <2> QED BY <2>2 DEF Ex!Next
<1> QED BY <1>2, <1>10, <1>11

-----------------------------------------------------------------------------
(***************************************************************************)
(* The other steps.                                                        *)
(***************************************************************************)
\* A request on the wire is its head, the end of the headers and a body
\* without heads.
LEMMA WireFacts ==
  ASSUME NEW r \in Requests
  PROVE  /\ Wire(r) \in Seq(Unit) /\ Len(Wire(r)) \in Nat \ {0}
         /\ Wire(r)[1] = [kind |-> "head", request |-> r]
         /\ \A j \in 2..Len(Wire(r)) : Wire(r)[j].kind # "head"
<1> DEFINE a == <<[kind |-> "head", request |-> r], [kind |-> "end"]>>
           b == [i \in 1..Len(r.body) |-> [kind |-> r.body[i]]]
<1>1. r.body \in Seq({"byte", "nul", "end"})
  BY RequestsAssumption DEF Request
<1>2. [kind |-> "head", request |-> r] \in Unit /\ [kind |-> "end"] \in Unit
  BY DEF Unit
<1>3. /\ a \in Seq(Unit) /\ Len(a) = 2
      /\ a[1] = [kind |-> "head", request |-> r] /\ a[2].kind = "end"
  BY <1>2
<1>4. /\ b \in Seq(Unit) /\ Len(b) \in Nat
      /\ \A j \in 1..Len(b) : b[j].kind # "head"
  <2>1. \A j \in 1..Len(r.body) : [kind |-> r.body[j]] \in Unit
    BY <1>1 DEF Unit
  <2> QED BY <1>1, <2>1
<1>5. Wire(r) = a \o b
  BY DEF Wire
<1> HIDE DEF a, b
<1>6. /\ Len(a \o b) = Len(a) + Len(b)
      /\ \A i \in 1..(Len(a) + Len(b)) :
           (a \o b)[i] = IF i <= Len(a) THEN a[i] ELSE b[i - Len(a)]
  BY <1>3, <1>4, ConcatProperties
<1>7. \A j \in 2..(2 + Len(b)) : (a \o b)[j].kind # "head"
  <2> SUFFICES ASSUME NEW j \in 2..(2 + Len(b)) PROVE (a \o b)[j].kind # "head"
    OBVIOUS
  <2>1. CASE j = 2
    BY <1>3, <1>4, <1>6, <2>1
  <2>2. CASE j > 2
    BY <1>3, <1>4, <1>6, <2>2
  <2>3. j = 2 \/ j > 2
    BY <1>4
  <2> QED BY <2>1, <2>2, <2>3
<1>8. (a \o b)[1] = [kind |-> "head", request |-> r]
  BY <1>3, <1>4, <1>6
<1> QED
  BY <1>3, <1>4, <1>5, <1>6, <1>7, <1>8, WireType

\* Appending to the stream what begins with its only head adds that head.
LEMMA AppendedHeads ==
  ASSUME NEW s \in Seq(Unit), NEW w \in Seq(Unit), Len(w) \in Nat \ {0},
         w[1].kind = "head", \A j \in 2..Len(w) : w[j].kind # "head"
  PROVE  /\ Len(s \o w) \in Nat /\ Len(s) < Len(s \o w)
         /\ \A i \in 1..Len(s) : (s \o w)[i] = s[i]
         /\ (s \o w)[Len(s) + 1] = w[1]
         /\ {h \in 1..Len(s \o w) : (s \o w)[h].kind = "head"}
              = {h \in 1..Len(s) : s[h].kind = "head"} \cup {Len(s) + 1}
<1> DEFINE t == s \o w
<1>1. /\ Len(t) = Len(s) + Len(w)
      /\ \A i \in 1..(Len(s) + Len(w)) :
           t[i] = IF i <= Len(s) THEN s[i] ELSE w[i - Len(s)]
  BY ConcatProperties
<1> HIDE DEF t
<1>2. Len(s) \in Nat
  OBVIOUS
<1>3. \A i \in 1..Len(s) : t[i] = s[i]
  BY <1>1, <1>2
<1>4. t[Len(s) + 1] = w[1]
  BY <1>1, <1>2
<1>5. \A i \in (Len(s) + 2)..Len(t) : t[i].kind # "head"
  <2> SUFFICES ASSUME NEW i \in (Len(s) + 2)..Len(t) PROVE t[i].kind # "head"
    OBVIOUS
  <2>1. t[i] = w[i - Len(s)] /\ i - Len(s) \in 2..Len(w)
    BY <1>1, <1>2
  <2> QED BY <2>1
<1>6. {h \in 1..Len(t) : t[h].kind = "head"}
        = {h \in 1..Len(s) : s[h].kind = "head"} \cup {Len(s) + 1}
  BY <1>1, <1>2, <1>3, <1>4, <1>5
<1> QED
  BY <1>1, <1>2, <1>3, <1>4, <1>6 DEF t

\* What a request adds to the stream.
LEMMA ClientRequestFacts ==
  ASSUME IndInv, NEW r \in Requests, ClientRequest(r)
  PROVE  /\ Len(stream') \in Nat /\ Len(stream) < Len(stream')
         /\ \A i \in 1..Len(stream) : stream'[i] = stream[i]
         /\ Heads' = Heads \cup {Len(stream) + 1}
         /\ stream'[Len(stream) + 1] = [kind |-> "head", request |-> r]
<1>1. stream \in Seq(Unit) /\ stream' = stream \o Wire(r)
  BY DEF ClientRequest, IndInv, TypeOK
<1>2. /\ Wire(r) \in Seq(Unit) /\ Len(Wire(r)) \in Nat \ {0}
      /\ Wire(r)[1] = [kind |-> "head", request |-> r]
      /\ \A j \in 2..Len(Wire(r)) : Wire(r)[j].kind # "head"
  BY WireFacts
<1>3. Wire(r)[1].kind = "head"
  BY <1>2
<1>4. /\ Heads = {h \in 1..Len(stream) : stream[h].kind = "head"}
      /\ Heads' = {h \in 1..Len(stream') : stream'[h].kind = "head"}
  BY DEF Heads, Kind
<1> QED
  BY <1>1, <1>2, <1>3, <1>4, AppendedHeads

\* The client's next request is the step Ask.
LEMMA ClientRequestRefines ==
  ASSUME IndInv, NEW r \in Requests, ClientRequest(r)
  PROVE  Ex!Next
<1> DEFINE asked == [h \in Heads |-> RequestAt(h)]
           n == Len(stream) + 1
<1>1. /\ Len(stream) \in Nat
      /\ \A i \in 1..Len(stream) : stream'[i] = stream[i]
      /\ Heads' = Heads \cup {n}
      /\ stream'[n] = [kind |-> "head", request |-> r]
  BY ClientRequestFacts, LogFacts
<1>2. client_open /\ UNCHANGED <<log, op, client_open>>
  BY DEF ClientRequest, replyVars
<1>3. \A h \in Heads : h \in 1..Len(stream) /\ RequestAt(h) \in Requests
  BY HeadRequest, LogFacts DEF Heads
<1>4. \A m \in DOMAIN asked : asked[m] \notin {q \in Requests : q.close}
  BY DEF ClientRequest, Heads
<1>5. asked' = [h \in Heads' |-> stream'[h].request]
  BY DEF RequestAt
<1>6. n \in DOMAIN asked' /\ asked'[n] \in Requests
  BY <1>1, <1>5
<1>7. \A m \in DOMAIN asked : m < n /\ asked'[m] = asked[m]
  BY <1>1, <1>3, <1>5 DEF RequestAt
<1>8. DOMAIN asked' = DOMAIN asked \cup {n}
  BY <1>1, <1>5
<1>9. Ex!Ask
  BY <1>2, <1>4, <1>6, <1>7, <1>8 DEF Ex!Ask
<1> QED
  BY <1>9 DEF Ex!Next

\* A step that changes neither the stream, the log, the client's end nor
\* whether the connection is open is no step of Exchange.
LEMMA Stutters ==
  ASSUME UNCHANGED <<stream, log, client_open>>,
         op \notin {"none", "terminated"} <=> op' \notin {"none", "terminated"}
  PROVE  UNCHANGED Ex!vars
BY DEF Ex!vars, Heads, RequestAt, Kind

\* The handlers that close the socket, or end the process, are the step End.
LEMMA EndRefines ==
  ASSUME RefInv, UNCHANGED <<stream, log, client_open>>,
         op \notin {"none", "terminated"}, op' \in {"none", "terminated"},
         \/ ~client_open
         \/ op = "write" /\ WantsClose
         \/ \E h \in Heads : /\ RequestAt(h).length = BadContentLength
                             /\ \A i \in 1..Len(log) : log[i].head < h
  PROVE  Ex!Next
<1> USE DEF RefInv
<1> DEFINE answers == [i \in 1..Len(log) |-> log[i].head]
<1>1. /\ log \in Seq(LogEntry) /\ Len(log) \in Nat
      /\ \A h \in Heads : h \in 1..Len(stream) /\ RequestAt(h) \in Requests
  BY HeadRequest, LogFacts DEF Heads
<1>2. ASSUME op = "write", WantsClose PROVE Ex!LastCloses
  <2>1. /\ request.head \in Heads /\ RequestAt(request.head).close
        /\ log # <<>> /\ log[Len(log)].head = request.head
    BY <1>2 DEF WantsClose, Parsed, IndInv, RequestIsHead, Heads, WritingLast
  <2>2. Len(log) # 0 /\ Len(answers) = Len(log)
    BY <1>1, <2>1
  <2>3. answers # <<>> /\ answers[Len(answers)] = request.head
    BY <1>1, <2>1, <2>2
  <2> QED BY <1>1, <2>1, <2>3 DEF Ex!LastCloses
<1>3. ASSUME NEW h \in Heads, RequestAt(h).length = BadContentLength,
             \A i \in 1..Len(log) : log[i].head < h
      PROVE  Ex!Later(h) /\ [x \in Heads |-> RequestAt(x)][h]
                              \in {r \in Requests : r.length = BadContentLength}
  BY <1>1, <1>3 DEF Ex!Later
<1>4. /\ [h \in Heads |-> RequestAt(h)]' = [h \in Heads |-> RequestAt(h)]
      /\ answers' = answers
  BY DEF Heads, RequestAt, Kind
<1>5. Ex!End
  BY <1>2, <1>3, <1>4 DEF Ex!End
<1> QED
  BY <1>5 DEF Ex!Next

-----------------------------------------------------------------------------
(***************************************************************************)
(* RefInv is an invariant, and every step is one of Exchange.              *)
(***************************************************************************)
\* The first state maps to a first state.
LEMMA InitRefines == Init => RefInv /\ Ex!Init
<1> SUFFICES ASSUME Init PROVE RefInv /\ Ex!Init
  OBVIOUS
<1>1. stream = <<>> /\ log = <<>> /\ request.head = 0 /\ op = "read_until"
      /\ client_open
  BY DEF Init
<1>2. RefInv
  BY <1>1, InitInv DEF RefInv, ReadingOn, WritingLast, HeadFirst, AnswersHeads,
                       WantsClose, Parsed
<1>3. Heads = {}
  BY <1>1 DEF Heads
<1>4. [h \in Heads |-> RequestAt(h)] \in [{} -> Requests]
  BY <1>3
<1>5. [i \in 1..Len(log) |-> log[i].head] = <<>>
  BY <1>1
<1>6. (op \notin {"none", "terminated"}) = TRUE /\ client_open = TRUE
  BY <1>1 DEF Init
<1> QED
  BY <1>2, <1>4, <1>5, <1>6 DEF Ex!Init

\* The additions of RefInv survive a step that leaves stream, log and request
\* alone and does not begin to read or to write.
LEMMA QuietRef ==
  ASSUME RefInv, IndInv', UNCHANGED <<stream, log, request>>,
         \/ op' = op
         \/ op' \in {"none", "terminated"}
         \/ op' = "read_until" /\ ~WantsClose
  PROVE  RefInv'
<1>1. WantsClose' <=> WantsClose
  BY DEF WantsClose, Parsed, RequestAt
<1>2. ReadingOn' /\ WritingLast'
  BY <1>1 DEF RefInv, ReadingOn, WritingLast
<1>3. HeadFirst' /\ AnswersHeads'
  BY DEF RefInv, HeadFirst, AnswersHeads, Heads, Kind
<1> QED
  BY <1>2, <1>3 DEF RefInv

\* The same for a request of the client.
LEMMA ClientRequestRef ==
  ASSUME RefInv, IndInv', NEW r \in Requests, ClientRequest(r)
  PROVE  RefInv'
<1> USE DEF RefInv
<1>1. /\ Len(stream) \in Nat
      /\ \A i \in 1..Len(stream) : stream'[i] = stream[i]
      /\ Heads' = Heads \cup {Len(stream) + 1}
      /\ stream'[Len(stream) + 1] = [kind |-> "head", request |-> r]
  BY ClientRequestFacts, LogFacts
<1>2. UNCHANGED <<log, op, request>>
  BY DEF ClientRequest, replyVars
<1>3. request.head # 0 => request.head \in 1..Len(stream)
  BY DEF IndInv, RequestIsHead
<1>4. WantsClose' <=> WantsClose
  BY <1>1, <1>2, <1>3 DEF WantsClose, Parsed, RequestAt
<1>5. ReadingOn' /\ WritingLast'
  BY <1>2, <1>4 DEF ReadingOn, WritingLast
<1>6. HeadFirst'
  <2>1. CASE stream = <<>>
    <3>1. stream'[1] = [kind |-> "head", request |-> r]
      BY <1>1, <2>1
    <3> QED BY <3>1 DEF HeadFirst, Kind
  <2>2. CASE stream # <<>>
    <3>1. 1 \in 1..Len(stream)
      BY <2>2, LogFacts
    <3> QED BY <1>1, <2>2, <3>1 DEF HeadFirst, Kind
  <2> QED BY <2>1, <2>2
<1>7. AnswersHeads'
  BY <1>1, <1>2 DEF AnswersHeads
<1> QED
  BY <1>5, <1>6, <1>7

\* And for an answer.
LEMMA AnsweringRef ==
  ASSUME RefInv, IndInv', Answering
  PROVE  RefInv'
<1> USE DEF RefInv
<1>1. /\ op \in {"read_until", "read"} /\ op' = "write"
      /\ stream' = stream
      /\ \E e : /\ log' = Append(log, e)
                /\ \/ e.head = 0 /\ request' = request /\ op = "read_until"
                   \/ e.head = request'.head /\ e.head \in Heads
  BY AnsweringFacts DEF clientVars
<1>2. PICK e : /\ log' = Append(log, e)
               /\ \/ e.head = 0 /\ request' = request /\ op = "read_until"
                  \/ e.head = request'.head /\ e.head \in Heads
  BY <1>1
<1>3. log \in Seq(LogEntry) /\ Len(log) \in Nat
  BY LogFacts
<1>4. /\ Len(log') = Len(log) + 1
      /\ \A i \in 1..Len(log) : log'[i] = log[i]
      /\ log'[Len(log) + 1] = e
  BY <1>2, <1>3
<1>5. Heads' = Heads /\ HeadFirst'
  BY <1>1 DEF Heads, HeadFirst, Kind
<1>6. AnswersHeads'
  <2> SUFFICES ASSUME NEW i \in 1..(Len(log) + 1), log'[i].head # 0
               PROVE  log'[i].head \in Heads
    BY <1>4, <1>5 DEF AnswersHeads
  <2>1. CASE i = Len(log) + 1
    BY <1>2, <1>4, <2>1
  <2>2. CASE i \in 1..Len(log)
    BY <1>4, <2>2 DEF AnswersHeads
  <2> QED BY <1>3, <2>1, <2>2
<1>7. WritingLast'
  <2>1. log' # <<>> /\ log'[Len(log')] = e
    BY <1>3, <1>4
  <2>2. CASE e.head = request'.head
    BY <2>1, <2>2 DEF WritingLast
  <2>3. CASE request' = request /\ op = "read_until"
    BY <1>1, <2>3 DEF WritingLast, ReadingOn, WantsClose, Parsed, RequestAt
  <2> QED BY <1>2, <2>2, <2>3
<1>8. ReadingOn'
  BY <1>1 DEF ReadingOn
<1> QED
  BY <1>5, <1>6, <1>7, <1>8

\* The steps that neither ask nor answer.
Quiet ==
  \/ ClientRead \/ ClientClose \/ (\E n \in 1..(Len(stream) - recv) : Receive(n))
  \/ WriteRest
  \/ HandleReadPartialThrow \/ HandleReadPartialMore \/ HandleReadError
  \/ HandleWrite \/ HandleWriteError

\* Each of them is a stutter of Exchange, Leave or End, and keeps RefInv.
LEMMA QuietRefines ==
  ASSUME RefInv, IndInv', Quiet
  PROVE  RefInv' /\ (Ex!Next \/ UNCHANGED Ex!vars)
<1> USE DEF RefInv, clientVars, replyVars
<1>1. ASSUME ClientRead \/ WriteRest \/ \E n \in 1..(Len(stream) - recv) : Receive(n)
      PROVE  RefInv' /\ UNCHANGED Ex!vars
  <2>1. UNCHANGED <<stream, log, request, op, client_open>>
    BY <1>1 DEF ClientRead, WriteRest, Receive
  <2> QED BY <2>1, QuietRef, Stutters
<1>2. CASE ClientClose
  <2>1. /\ UNCHANGED <<stream, log, request, op>>
        /\ client_open /\ client_open' = FALSE
    BY <1>2 DEF ClientClose
  <2>2. client_open = TRUE
    BY <2>1 DEF IndInv, TypeOK
  <2>3. /\ [h \in Heads |-> RequestAt(h)]' = [h \in Heads |-> RequestAt(h)]
        /\ [i \in 1..Len(log) |-> log[i].head]' = [i \in 1..Len(log) |-> log[i].head]
        /\ (op \notin {"none", "terminated"})' = (op \notin {"none", "terminated"})
    BY <2>1 DEF Heads, RequestAt, Kind
  <2>4. Ex!Leave
    BY <2>1, <2>2, <2>3 DEF Ex!Leave
  <2> QED BY <2>1, <2>4, QuietRef DEF Ex!Next
<1>3. CASE HandleReadPartialThrow
  <2>1. /\ UNCHANGED <<stream, log, request, client_open>>
        /\ op = "read_until" /\ op' = "terminated"
    BY <1>3 DEF HandleReadPartialThrow
  <2>2. PICK h \in ParsedHeads(cons + 1, recv) :
          RequestAt(h).length = BadContentLength
    BY <1>3 DEF HandleReadPartialThrow
  <2>3. h \in 1..Len(stream) /\ cons < h /\ Kind(h) = "head"
    BY ParsedHeadFacts
  <2>4. h \in Heads /\ \A i \in 1..Len(log) : log[i].head < h
    BY <2>3, LogFacts DEF Heads
  <2>5. Ex!Next
    BY <2>1, <2>2, <2>4, EndRefines
  <2> QED BY <2>1, <2>5, QuietRef
<1>4. CASE HandleReadPartialMore
  <2>1. /\ UNCHANGED <<stream, log, client_open>>
        /\ op = "read_until" /\ op' = "read"
    BY <1>4 DEF HandleReadPartialMore
  <2>2. RefInv'
    BY <2>1 DEF ReadingOn, WritingLast, HeadFirst, AnswersHeads, Heads, Kind
  <2> QED BY <2>1, <2>2, Stutters
<1>5. CASE HandleReadError \/ HandleWriteError
  <2>1. /\ UNCHANGED <<stream, log, request, client_open>>
        /\ op \notin {"none", "terminated"} /\ op' = "none" /\ ~client_open
    BY <1>5 DEF HandleReadError, HandleWriteError
  <2>2. Ex!Next
    BY <2>1, EndRefines
  <2> QED BY <2>1, <2>2, QuietRef
<1>6. CASE HandleWrite
  <2>1. UNCHANGED <<stream, log, request, client_open>> /\ op = "write"
    BY <1>6 DEF HandleWrite
  <2>2. CASE WantsClose
    <3>1. op' = "none"
      BY <1>6, <2>2 DEF HandleWrite
    <3>2. Ex!Next
      BY <2>1, <2>2, <3>1, EndRefines
    <3> QED BY <2>1, <3>1, <3>2, QuietRef
  <2>3. CASE ~WantsClose
    <3>1. op' = "read_until"
      BY <1>6, <2>3 DEF HandleWrite
    <3> QED BY <2>1, <2>3, <3>1, QuietRef, Stutters
  <2> QED BY <2>2, <2>3
<1> QED
  BY <1>1, <1>2, <1>3, <1>4, <1>5, <1>6 DEF Quiet

\* Every step of Connection is a step of Exchange or a stutter.
LEMMA NextRefines ==
  RefInv /\ [Next]_vars => RefInv' /\ [Ex!Next]_(Ex!vars)
<1> SUFFICES ASSUME RefInv, [Next]_vars
             PROVE  RefInv' /\ [Ex!Next]_(Ex!vars)
  OBVIOUS
<1>1. IndInv'
  BY NextInv DEF RefInv
<1>2. CASE UNCHANGED vars
  <2>1. UNCHANGED <<stream, log, request, op, client_open>>
    BY <1>2 DEF vars
  <2> QED BY <1>1, <2>1, QuietRef, Stutters
<1>3. ASSUME NEW r \in Requests, ClientRequest(r)
      PROVE  RefInv' /\ Ex!Next
  BY <1>1, <1>3, ClientRequestRef, ClientRequestRefines DEF RefInv
<1>4. CASE Answering
  BY <1>1, <1>4, AnsweringRef, AnsweringRefines
<1>5. CASE Quiet
  BY <1>1, <1>5, QuietRefines
<1> QED
  BY <1>2, <1>3, <1>4, <1>5 DEF Next, ClientStep, Transport, Completion, Answering, Quiet

\* A connection is an Exchange: requests are answered in the order they were
\* asked and none twice, nothing after a request for a close, and the server
\* closes only for a reason (ImplementsExchange).
THEOREM Implementation == Spec => ImplementsExchange
<1>1. Init => RefInv /\ Ex!Init
  BY InitRefines
<1>2. RefInv /\ [Next]_vars => RefInv' /\ [Ex!Next]_(Ex!vars)
  BY NextRefines
<1> QED
  BY <1>1, <1>2, PTL DEF Spec, ImplementsExchange, Ex!Spec
=============================================================================
