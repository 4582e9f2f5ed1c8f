------------------------------ MODULE Response ------------------------------
(***************************************************************************)
(* The Response object (response.h/.cc) as a record, and what the error    *)
(* handler, the Connection header and the body compression do to it.       *)
(*                                                                         *)
(* A body is a page together with the coding it went through; its length   *)
(* is not computed.  Instead the Content-Length header remembers the body  *)
(* whose size was taken, so that "the header has the length of the body"   *)
(* is "the header remembers the body that is sent".                        *)
(***************************************************************************)

Codings == {"identity", "gzip", "deflate"}

ErrorPages == {"bad_request", "not_found", "internal_server_error"}

Pages == {"empty", "content"} \cup ErrorPages

Body == [page: Pages, coding: Codings]

Plain(page) == [page |-> page, coding |-> "identity"]

\* Content-Length: the header is there or it is not.
NoLength == [page |-> "absent", coding |-> "identity"]

\* Response::ResponseCode, with its numbers; none is 0.  No handler sets 302.
ResponseCodes == {0, 200, 302, 400, 404, 500}

ResponseType ==
  [status: ResponseCodes,
   body: Body,
   content_length: Body \cup {NoLength},
   content_encoding: Codings,
   connection: {"absent", "close", "keep-alive"},
   raw: {"none", "close", "keep-alive"},
                              \* raw_response_, a proxied response: its Connection
                              \* header, "keep-alive" if it has none; or empty
   is_image: BOOLEAN]

\* Response::Clear, and a Response as constructed.
Cleared ==
  [status |-> 0, body |-> Plain("empty"), content_length |-> NoLength,
   content_encoding |-> "identity", connection |-> "absent",
   raw |-> "none", is_image |-> FALSE]

(***************************************************************************)
(* The Connection header in what ToString makes: raw_response_ is sent as  *)
(* it is, whatever headers were added to the response.                     *)
(***************************************************************************)
SentConnection(response) ==
  IF response.raw = "none" THEN response.connection ELSE response.raw

(***************************************************************************)
(* SetBody followed by AddHeader("Content-Length", size of that body).     *)
(***************************************************************************)
WithBody(response, body) ==
  [response EXCEPT !.body = body, !.content_length = body]

(***************************************************************************)
(* The page ErrorHandler::to_string picks for a status.                    *)
(***************************************************************************)
error_to_string(status) ==
  CASE status = 404 -> "not_found"
    [] status = 400 -> "bad_request"
    [] OTHER -> "internal_server_error"

\* ErrorHandler::HandleRequest.
ErrorHandler(response) ==
  WithBody(response, Plain(error_to_string(response.status)))

(***************************************************************************)
(* The code on the status line (status_to_string as ToString uses it):     *)
(* none, like everything the switch does not list, is sent as 500.         *)
(***************************************************************************)
status_to_string(status) ==
  IF status \in {200, 302, 400, 404} THEN status ELSE 500

\* Mutant: the coding is not one of the registered ones.
Compress_WrongToken(body, coding) == [body EXCEPT !.coding = "zip"]

\* Compression of the body as it stands (CompressGzip, CompressDeflate).
Compress(body, coding) == [body EXCEPT !.coding = coding]

\* Mutant: Content-Length keeps the size of the plain body.
compress_payload_OldLength(response, accept) ==
  IF "gzip" \in accept
    THEN [response EXCEPT !.content_encoding = "gzip", !.body = Compress(@, "gzip")]
    ELSE response

(***************************************************************************)
(* Connection::compress_payload.  accept is the set of codings listed in   *)
(* the request's Accept-Encoding, empty when there is no such header.      *)
(* gzip is preferred; whichever is used, the coded body replaces the plain *)
(* one and Content-Length is taken again.                                  *)
(***************************************************************************)
compress_payload(response, accept) ==
  LET coded(coding) ==
        WithBody([response EXCEPT !.content_encoding = coding],
                 Compress(response.body, coding))
  IN  CASE "gzip" \in accept -> coded("gzip")
        [] "gzip" \notin accept /\ "deflate" \in accept -> coded("deflate")
        [] OTHER -> response
=============================================================================
