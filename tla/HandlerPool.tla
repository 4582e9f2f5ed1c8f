---------------------------- MODULE HandlerPool ----------------------------
(***************************************************************************)
(* What the threads of the pool share when they run the handlers of        *)
(* modules DbHandler, PythonHandler and StaticFileHandler: the sessions of *)
(* the MySQL server, its table, and the Python interpreter of the process. *)
(* A thread is between two requests ("idle") or at a step of a handler.    *)
(***************************************************************************)
EXTENDS Naturals, Sequences, FiniteSets, FormBody

CONSTANTS
  Threads,
  Requests,        \* what clients ask, see Request
  MaxRequests,     \* bound: requests that arrive
  Connections,     \* MySQL's sessions, as many as it allows at a time
  Queries,         \* the statements that read the columns x and y
  Updates,         \* the statements that change the table

  Scripts,         \* the Python modules with the entry function: what they do
  \* The disk, which does not change.  A location is the sequence of names that
  \* leads to it from the root of the file system, without links.
  Root,            \* where the root of a StaticFileHandler is
  Files,           \* the regular files that can be read
  Directories,     \* the directories that can be searched
  Refused          \* where a lookup fails otherwise than by finding nothing: a
                   \* name is too long, a search not permitted, links are a loop

\* body is what the connection hands over; form is the form it encodes, or <<>>.
\* A request for a file has the prefix of its handler and the file it names.
RequestFields == {"handler", "uri", "body", "form", "prefix", "names"}

\* What can be typed in a form.
Typed == {c \in STRING : ~IsEscape(c) /\ c \notin {Malformed, "nul"}}

\* ProcessRequest has found the handler by a prefix of the URI.
ASSUME RequestsAssumption ==
  \A r \in Requests :
    /\ DOMAIN r = RequestFields
    /\ r.handler \in {"db", "python", "file"}
    /\ r.uri \in Seq(STRING) /\ r.body \in Seq(STRING) /\ r.prefix \in Seq(STRING)
    /\ r.handler = "file" => IsPrefix(r.prefix, r.uri)

\* Request::Parse has refused a URI with two points in a row.
ASSUME PointsAssumption ==
  \A r \in Requests : \A i \in 1..(Len(r.uri) - 1) : ~(r.uri[i] = "." /\ r.uri[i + 1] = ".")

\* What a directory can have as a name.
IsName(name) ==
  /\ name \notin {<<>>, <<".">>, <<".", ".">>}
  /\ \A i \in 1..Len(name) : name[i] \notin {"/", "nul"}

\* Whatever can be reached is in a directory that can be searched.
ASSUME DiskAssumption ==
  /\ Root \in Seq(Seq(STRING)) /\ <<>> \in Directories
  /\ Directories \cap Files = {} /\ Refused \cap (Directories \cup Files) = {}
  /\ \A at \in Directories \cup Files :
       /\ at \in Seq(Seq(STRING))
       /\ at # <<>> => Front(at) \in Directories /\ IsName(Last(at))

\* A browser names the fields of a form, each by a name of its own, and escapes
\* what has to be in the body and in the URI it sends it to.
ASSUME FormsAssumption ==
  \A r \in Requests : r.form # <<>> =>
    /\ r.form \in Seq([name: Seq(Typed) \ {<<>>}, value: Seq(Typed)])
    /\ \A i, j \in 1..Len(r.form) : r.form[i].name = r.form[j].name => i = j
    /\ r.body = FormBodyOf(r.form)
    /\ Decodes(r.uri) /\ r.uri # <<>> /\ r.uri[1] = "/"

ASSUME BoundsAssumption ==
  IsFiniteSet(Threads) /\ IsFiniteSet(Connections) /\ MaxRequests \in Nat

VARIABLES
  pc,          \* pc[t]: the next step of thread t
  frame,       \* frame[t]: its request, the locals of its handler and the response
  sessions,    \* the sessions MySQL has open
  table,       \* the updates the table holds, as numbers of requests
  interp,      \* the interpreter: whether it is initialised, for whom, and how
               \* often the directory of the scripts is in sys.path
  terminated,  \* the process has ended
  issued,      \* history: requests that have arrived
  told,        \* history: the updates whose clients have been answered
  failed,      \* history: a statement of DbHandler has thrown
  overlapped   \* history: two threads have been in the interpreter at a time

vars == <<pc, frame, sessions, table, interp, terminated,
          issued, told, failed, overlapped>>
mysqlVars == <<sessions, table>>
pythonVars == <<interp, overlapped>>

DbSteps == {"db_execute", "db_delete"}
PythonSteps == {"py_import", "py_connect", "py_execute", "py_commit", "py_release"}

\* Pages of a response: "none" until the handler has set one.
Pages == {"none", "bad request", "not found", "rows", "done", "error", "file"}

NotSent == [path |-> <<>>, type |-> "", rendered |-> FALSE, is_image |-> FALSE]

NoRequest == [handler |-> "none"]

\* A frame before its handler has done anything.
Fresh(r, id) ==
  [request |-> r, id |-> id, floor |-> told, conn |-> {},
   page |-> "none", seen |-> {}, sent |-> NotSent]

Request(t) == frame[t].request

\* Thread t is in a Python call of PythonHandler::HandleRequest.
Inside(t) == pc[t] \in PythonSteps

Init ==
  /\ pc = [t \in Threads |-> "idle"]
  /\ told = {}
  /\ frame = [t \in Threads |-> Fresh(NoRequest, 0)]
  /\ sessions = {} /\ table = {}
  /\ interp = [on |-> FALSE, starter |-> {}, paths |-> 0]
  /\ terminated = FALSE
  /\ issued = 0 /\ failed = FALSE /\ overlapped = FALSE

\* ProcessRequest calls the handler on a thread of the pool.
Arrive(t, r) ==
  /\ pc[t] = "idle" /\ issued < MaxRequests
  /\ pc' = [pc EXCEPT ![t] = r.handler]
  /\ frame' = [frame EXCEPT ![t] = Fresh(r, issued + 1)]
  /\ issued' = issued + 1
  /\ UNCHANGED <<mysqlVars, pythonVars, terminated, told, failed>>

\* The handler of thread t returns, with this page in the response.
Return(t, page) ==
  /\ pc' = [pc EXCEPT ![t] = "idle"]
  /\ frame' = [frame EXCEPT ![t].page = page, ![t].conn = {}]

\* Nothing catches an exception, or a fault, on a thread of the pool.
Terminate == terminated' = TRUE
-----------------------------------------------------------------------------
(***************************************************************************)
(* MySQL.                                                                  *)
(***************************************************************************)
\* "Too many connections".
Full == sessions = Connections

\* A new session for thread t.
Connect(t, next) ==
  /\ \E s \in Connections \ sessions :
       /\ sessions' = sessions \cup {s}
       /\ frame' = [frame EXCEPT ![t].conn = {s}]
  /\ pc' = [pc EXCEPT ![t] = next]

\* wait_timeout: the server ends a session that nobody uses any more.
Expire(s) ==
  /\ s \in sessions /\ \A t \in Threads : s \notin frame[t].conn
  /\ sessions' = sessions \ {s}
  /\ UNCHANGED <<pc, frame, table, pythonVars, terminated, issued, told, failed>>
=============================================================================
