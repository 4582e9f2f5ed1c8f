------------------------------ MODULE Handlers ------------------------------
(***************************************************************************)
(* The threads of the pool in the handlers that use the database, the      *)
(* Python interpreter and the file system, in any interleaving.            *)
(***************************************************************************)
EXTENDS DbHandler, PythonHandler, StaticFileHandler

Step(t) ==
  \/ \E r \in Requests : Arrive(t, r)
  \/ DbStep(t) \/ PyStep(t) \/ FileStep(t)

Next ==
  /\ ~terminated
  /\ \/ \E t \in Threads : Step(t)
     \/ \E s \in Connections : Expire(s)

Spec == Init /\ [][Next]_vars

-----------------------------------------------------------------------------
(***************************************************************************)
(* Properties.                                                             *)
(***************************************************************************)
\* Numbers of requests; 0 is none.
Ids == 0..MaxRequests

MediaTypes == {"image/gif", "text/html", "image/jpeg", "image/png", "text/plain"}

SentType ==
  {NotSent} \cup [path: Files, type: MediaTypes, rendered: BOOLEAN, is_image: BOOLEAN]

FrameType ==
  [request: Requests \cup {NoRequest}, id: Ids, floor: SUBSET Ids,
   conn: SUBSET Connections, page: Pages, seen: SUBSET Ids,
   sent: SentType]

Steps == {"idle", "db", "python", "file"} \cup DbSteps \cup PythonSteps

\* The type invariant of the handlers and what they share.
TypeOK ==
  /\ pc \in [Threads -> Steps]
  /\ frame \in [Threads -> FrameType]
  /\ sessions \subseteq Connections /\ table \subseteq Ids
  /\ interp \in [on: BOOLEAN, starter: SUBSET Threads, paths: Nat]
  /\ terminated \in BOOLEAN /\ failed \in BOOLEAN /\ overlapped \in BOOLEAN
  /\ issued \in 0..MaxRequests /\ told \subseteq Ids

\* What the form of request r says under a name.
Field(r, name) ==
  r.form[CHOOSE i \in 1..Len(r.form) : r.form[i].name = name].value

Fields(r) == {r.form[i].name : i \in 1..Len(r.form)}

\* A form sent by a browser arrives as it was filled in, whatever characters are
\* in its values: it is not refused for its body, and MySQL is given the
\* statement that was typed, by DbHandler and by the script.  The bodies are
\* taken apart at ampersands and equals signs before they are decoded.
FormsArrive ==
  \A t \in Threads :
    LET r == Request(t)
    IN  /\ r.handler = "db" /\ Fields(r) \in {{<<"query">>}, {<<"update">>}}
             => /\ frame[t].page # "bad request"
                /\ pc[t] \in DbSteps
                     => DbStatement(r) = Field(r, DbName(r))
        /\ r.handler = "python" /\ <<"query">> \in Fields(r)
             => /\ frame[t].page = "bad request" => LastOf(r.uri, ".") = 0
                /\ pc[t] = "py_execute"
                     => PyStatement(r) = Field(r, <<"query">>)

\* A query sees every update that a client had been told of when the query
\* arrived, through whichever handler and on whichever thread each of them ran:
\* an update is answered only when MySQL has committed it.
ReadsAnswered ==
  \A t \in Threads : frame[t].page = "rows" => frame[t].floor \subseteq frame[t].seen

\* A request whose statement MySQL can run is served, however many come at a
\* time, as long as the pool has no more threads than MySQL allows connections
\* and no statement has thrown: only QueryTable and UpdateTable leave a
\* connection open, and only when they catch an exception.
RightStatement(r) == r.handler = "db" /\ DbValid(r) /\ DbRuns(r)

ServedUntilFailure ==
  Cardinality(Threads) <= Cardinality(Connections) =>
    \A t \in Threads :
      RightStatement(Request(t)) /\ frame[t].page = "error" => failed

\* As long as no two threads have been in HandleRequest at a time, a script runs
\* in an interpreter initialised for its own request, with the directory of the
\* scripts once in its path, and between two requests there is none: whichever
\* way a request leaves, and on whichever thread the next one comes.
OwnInterpreter ==
  ~overlapped =>
    /\ \A t \in Threads :
         Inside(t) => interp = [on |-> TRUE, starter |-> {t}, paths |-> 1]
    /\ (\A t \in Threads : ~Inside(t)) => ~interp.on

\* The process ends only in a Python call, for a URI under a prefix with an
\* escape, which decoding makes shorter than the prefix, or when the disk refuses
\* to look a file up.  What else goes wrong in a request or in MySQL is answered,
\* and a file that does not exist or cannot be opened is.
EndsExplained ==
  terminated =>
    \E t \in Threads :
      \/ Inside(t)
      \/ /\ pc[t] = "file"
         /\ \/ \E i \in 1..Len(Request(t).prefix) : IsEscape(Request(t).prefix[i])
            \/ OnDisk(FilePath(Request(t))) \in Refused

\* A URI that is plain (see Plain) gets the file it names, as what its name says it
\* is, or a 404, also when slashes are doubled or escaped.
FilesRight ==
  \A t \in Threads :
    LET r == Request(t)
    IN  r.handler = "file" /\ Decodes(r.uri) /\ Plain(r) =>
          /\ frame[t].page = "file" => frame[t].sent = r.names
          /\ frame[t].page = "not found" => r.names.path \notin Files

-----------------------------------------------------------------------------
(***************************************************************************)
(* The inductive invariant of the proofs (module HandlersProofs).          *)
(***************************************************************************)
\* A thread is at a step of the handler its request is for.
RunsItsHandler ==
  \A t \in Threads :
    /\ pc[t] \in {"db"} \cup DbSteps => Request(t).handler = "db"
    /\ pc[t] \in {"python"} \cup PythonSteps => Request(t).handler = "python"
    /\ pc[t] = "file" => Request(t).handler = "file"

\* Before its handler has an answer, a frame has no page.
NoPageYet ==
  \A t \in Threads :
    pc[t] \in {"db", "python", "file", "db_execute", "py_import", "py_connect", "py_execute"}
      => frame[t].page = "none"

\* What is refused cannot be read by the handler it is for.
Unreadable(r) ==
  /\ r.handler = "db" => ~DbValid(r)
  /\ r.handler = "python" => ~PyValid(r)

RefusesUnreadable ==
  \A t \in Threads : frame[t].page = "bad request" => Unreadable(Request(t))

\* A thread uses one session at most, and none before it has connected.
OneConnection ==
  \A t \in Threads :
    /\ pc[t] \in {"idle", "db", "python", "file", "py_import", "py_connect"}
         => frame[t].conn = {}
    /\ \A c, d \in frame[t].conn : c = d

\* Until a statement has thrown, every session is used by a thread.
SessionsHeld ==
  ~failed => \A c \in sessions : \E t \in Threads : c \in frame[t].conn

\* The table holds the updates that clients know of, and those they are about
\* to be told.
ToldInTable ==
  /\ told \subseteq table
  /\ \A t \in Threads :
       /\ frame[t].floor \subseteq told
       /\ pc[t] \in {"db_delete", "py_release"} /\ frame[t].page = "done"
            => frame[t].id \in table

IndInv ==
  /\ TypeOK
  /\ RunsItsHandler
  /\ NoPageYet
  /\ RefusesUnreadable
  /\ OneConnection
  /\ SessionsHeld
  /\ ToldInTable
  /\ ReadsAnswered
  /\ ServedUntilFailure
  /\ OwnInterpreter
=============================================================================
