---------------------------- MODULE MCConnection ----------------------------
(***************************************************************************)
(* Small instances of Connection: the sets of requests its clients choose  *)
(* from.                                                                   *)
(***************************************************************************)
EXTENDS Connection

CONSTANTS u1, u2

Ok(size) == [ret |-> "ok", status |-> 0, raw |-> "none", is_image |-> FALSE, size |-> size]
Image    == [Ok(1) EXCEPT !.is_image = TRUE]
Relayed  == [Ok(1) EXCEPT !.raw = "close"]
Fail(st) == [Ok(1) EXCEPT !.ret = "handle_fail", !.status = st]
NoRoute  == [Ok(1) EXCEPT !.ret = "noroute"]

Get == [valid |-> TRUE, uri |-> u1, close |-> FALSE, accept |-> {},
        length |-> NoContentLength, body |-> <<>>, outcome |-> Ok(1)]
Malformed == [Get EXCEPT !.valid = FALSE]
Post(n) == [Get EXCEPT !.uri = u2, !.length = n,
                       !.body = [i \in 1..n |-> "byte"]]
Close(r) == [r EXCEPT !.close = TRUE]

\* One request at a time, bodies without blank lines or zero bytes, every
\* outcome of a handler, with and without a coding to choose.
SequentialRequests ==
  {Get, Malformed, Post(1), Close(Post(2)),
   [Get EXCEPT !.outcome = Ok(2), !.accept = {"deflate"}],
   [Post(2) EXCEPT !.outcome = Fail(404), !.accept = {"gzip", "deflate"}],
   [Get EXCEPT !.outcome = Image, !.accept = {"gzip"}],
   [Get EXCEPT !.outcome = Relayed, !.accept = {"gzip"}],
   [Get EXCEPT !.outcome = Fail(0)], [Get EXCEPT !.outcome = Fail(400)],
   [Close(Get) EXCEPT !.outcome = Fail(500), !.accept = {"gzip"}],
   [Post(1) EXCEPT !.outcome = NoRoute]}

\* Anything a client may write: bodies with blank lines, with zero bytes,
\* longer and shorter than announced.
AnyRequests ==
  {Get, Malformed, Close(Get), Post(1),
   [Post(2) EXCEPT !.body = <<"byte", "end">>],
   [Post(2) EXCEPT !.body = <<"nul", "byte">>],
   [Post(1) EXCEPT !.length = NoContentLength],
   [Get EXCEPT !.length = 1],
   Close([Get EXCEPT !.body = <<"end">>]),
   [Get EXCEPT !.length = BadContentLength],
   [Get EXCEPT !.outcome = Ok(2)], [Get EXCEPT !.outcome = Relayed]}

\* A Content-Length that is not a number, and a plain request.
BadLengthRequests == {Get, [Get EXCEPT !.length = BadContentLength]}
=============================================================================
