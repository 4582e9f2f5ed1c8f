------------------------- MODULE StaticFileHandler -------------------------
(***************************************************************************)
(* StaticFileHandler::HandleRequest (static_file_handler.cc): which file a *)
(* URI names, and as what it is sent.                                      *)
(***************************************************************************)
EXTENDS HandlerPool

\* request_uri.substr(uri_prefix_.size()) after base_dir and a slash.  The
\* prefix has the length it has in the configuration, the URI is decoded.
AfterPrefix(r) == SubSeq(uri_decode(r.uri), Characters(r.prefix) + 1, Len(r.uri))

OutOfRange(r) == Characters(r.prefix) > Len(r.uri)

FilePath(r) ==
  LET path == <<"/">> \o AfterPrefix(r)
  IN  IF Last(path) = "/" THEN path \o <<"index", ".", "html">> ELSE path

\* Where a name leads from a location: nowhere from what cannot be looked up.
Walk(at, name) ==
  CASE at \in Refused -> at
    [] at \in Directories /\ name \in {<<>>, <<".">>} -> at
    [] at \in Directories /\ name = <<".", ".">> -> IF at = <<>> THEN at ELSE Front(at)
    [] OTHER -> Append(at, name)

\* The walk so far, and the name that is being read.
WalkOn(walk, c) ==
  IF c = "/" THEN [at |-> Walk(walk.at, walk.name), name |-> <<>>]
             ELSE [at |-> walk.at, name |-> Append(walk.name, c)]

\* What the file system finds under base_dir, when it is asked with c_str().
OnDisk(path) ==
  LET walk == FoldLeft(WalkOn, [at |-> Root, name |-> <<>>], c_str(path))
  IN  Walk(walk.at, walk.name)

\* Mutant: what follows the first point.
Extension_FirstPoint(path) ==
  LET points == {i \in 1..Len(path) : path[i] = "." /\ i > LastOf(path, "/")}
  IN  IF points = {} THEN <<>> ELSE SubSeq(path, Min(points) + 1, Len(path))

Extension(path) ==
  IF LastOf(path, ".") > LastOf(path, "/")
    THEN SubSeq(path, LastOf(path, ".") + 1, Len(path)) ELSE <<>>

\* Mutant: no type for an extension that is not listed.
extension2type_NoDefault(extension) ==
  CASE extension = <<"gif">>                      -> "image/gif"
    [] extension \in {<<"htm">>, <<"html">>}      -> "text/html"
    [] extension \in {<<"jpg">>, <<"jpeg">>}      -> "image/jpeg"
    [] extension = <<"png">>                      -> "image/png"
    [] OTHER                                      -> ""

extension2type(extension) ==
  CASE extension = <<"gif">>                      -> "image/gif"
    [] extension \in {<<"htm">>, <<"html">>}      -> "text/html"
    [] extension \in {<<"jpg">>, <<"jpeg">>}      -> "image/jpeg"
    [] extension = <<"png">>                      -> "image/png"
    [] OTHER                                      -> "text/plain"

\* What is sent of a file: Markdown is rendered as HTML.
Sent(path) ==
  LET extension == Extension(path)
      markdown  == extension = <<"md">>
  IN  [path |-> OnDisk(path),
       type |-> extension2type(IF markdown THEN <<"html">> ELSE extension),
       rendered |-> markdown,
       is_image |-> extension \in {<<"jpg">>, <<"png">>, <<"jpeg">>}]

FileBadRequest(t) ==
  /\ pc[t] = "file" /\ ~Decodes(Request(t).uri)
  /\ Return(t, "bad request")
  /\ UNCHANGED <<mysqlVars, pythonVars, terminated, issued, told, failed>>

\* substr throws std::out_of_range.
FileOutOfRange(t) ==
  /\ pc[t] = "file" /\ Decodes(Request(t).uri) /\ OutOfRange(Request(t))
  /\ Terminate
  /\ UNCHANGED <<pc, frame, mysqlVars, pythonVars, issued, told, failed>>

\* exists throws filesystem_error unless the lookup succeeds or finds nothing.
FileThrows(t) ==
  /\ pc[t] = "file" /\ Decodes(Request(t).uri) /\ ~OutOfRange(Request(t))
  /\ OnDisk(FilePath(Request(t))) \in Refused
  /\ Terminate
  /\ UNCHANGED <<pc, frame, mysqlVars, pythonVars, issued, told, failed>>

\* The name does not exist, is a directory, or cannot be opened.
FileNotFound(t) ==
  /\ pc[t] = "file" /\ Decodes(Request(t).uri) /\ ~OutOfRange(Request(t))
  /\ OnDisk(FilePath(Request(t))) \notin Files \cup Refused
  /\ Return(t, "not found")
  /\ UNCHANGED <<mysqlVars, pythonVars, terminated, issued, told, failed>>

FileFound(t) ==
  /\ pc[t] = "file" /\ Decodes(Request(t).uri) /\ ~OutOfRange(Request(t))
  /\ OnDisk(FilePath(Request(t))) \in Files
  /\ pc' = [pc EXCEPT ![t] = "idle"]
  /\ frame' = [frame EXCEPT ![t].page = "file",
                            ![t].sent = Sent(FilePath(Request(t)))]
  /\ UNCHANGED <<mysqlVars, pythonVars, terminated, issued, told, failed>>

FileStep(t) ==
  FileBadRequest(t) \/ FileOutOfRange(t) \/ FileThrows(t) \/ FileNotFound(t) \/ FileFound(t)

-----------------------------------------------------------------------------
(***************************************************************************)
(* The client's side: the file that a URI is meant to name, and what the   *)
(* name of a file says it is.                                              *)
(***************************************************************************)
\* What follows the prefix, decoded.  A directory stands for its index.html.
Meant(r) ==
  LET text == <<"/">> \o uri_decode(SubSeq(r.uri, Len(r.prefix) + 1, Len(r.uri)))
  IN  text \o IF Last(text) = "/" THEN <<"index", ".", "html">> ELSE <<>>

\* A text that begins and does not end with a slash is made of the names of
\* path, each after a slash, and of more slashes.
Names(text, path) ==
  \E at \in [1..Len(path) -> 1..Len(text)] :
    LET name(i) == {at[i] + k : k \in 1..Len(path[i])}
    IN  /\ \A i \in 1..Len(path) :
             /\ path[i] # <<>> /\ text[at[i]] = "/" /\ at[i] + Len(path[i]) <= Len(text)
             /\ \A k \in 1..Len(path[i]) : path[i][k] = text[at[i] + k] /\ path[i][k] # "/"
        /\ \A i, j \in 1..Len(path) : i < j => at[i] + Len(path[i]) < at[j]
        /\ \A n \in 1..Len(text) : text[n] = "/" \/ \E i \in 1..Len(path) : n \in name(i)

Ends(name, extensions) ==
  Len(name) > 1 /\ name[Len(name) - 1] = "." /\ name[Len(name)] \in extensions

AsNamed(path) ==
  [path |-> path,
   type |-> CASE Ends(Last(path), {"gif"})               -> "image/gif"
              [] Ends(Last(path), {"htm", "html", "md"}) -> "text/html"
              [] Ends(Last(path), {"jpg", "jpeg"})       -> "image/jpeg"
              [] Ends(Last(path), {"png"})               -> "image/png"
              [] OTHER                                   -> "text/plain",
   rendered |-> Ends(Last(path), {"md"}),
   is_image |-> Ends(Last(path), {"jpg", "png", "jpeg"})]

\* The names a request asks for under the root.
Below(r) == SubSeq(r.names.path, Len(Root) + 1, Len(r.names.path))

ASSUME NamesAssumption ==
  \A r \in Requests : r.handler = "file" /\ Decodes(r.uri) =>
    /\ r.names.path \in Seq(Seq(STRING)) /\ IsPrefix(Root, r.names.path)
    /\ Names(Meant(r), Below(r))
    /\ r.names = AsNamed(r.names.path)

\* A request that says what it means: the prefix has no escapes, and what follows
\* has only names a directory can have.
Plain(r) ==
  /\ \A i \in 1..Len(r.prefix) : ~IsEscape(r.prefix[i])
  /\ \A i \in 1..Len(Below(r)) : IsName(Below(r)[i])
=============================================================================
